--------------------------------- MODULE E2E ---------------------------------
(***************************************************************************)
(* baxi-cli e2e: one process that walks an alert through the whole         *)
(* decision lifecycle on the live database, through the services and with  *)
(* SQL of its own, and prints a report of what it did.  Users of the API   *)
(* and of the MCP server work on the same alert meanwhile, and an earlier  *)
(* process may have left its rows, in a container with the same process id.*)
(***************************************************************************)
EXTENDS Integers, Sequences, Null

CONSTANTS
  AllowLive,      \* the flag --live
  Stocks,         \* what the database may hold at the start: [alerts, raw]
  Leftovers,      \* what status an earlier process's proposal may have
  Recommended,    \* the numbers of proposals that a decision may lead to
  MaxUserSteps    \* bound: what users do meanwhile

Names == {"e2e", "user", "earlier"}

Statuses == {"proposed", "approved", "rejected", "applied", "failed"}

CaseStates ==
  {"created", "decision_generated", "proposal_generated", "review_required", "closed"}

\* Nobody is no user, a decision leads to a number of proposals, and what
\* another process has left has a status.
ASSUME E2EAssumption ==
  /\ Nil \notin Names
  /\ Recommended \subseteq Nat
  /\ Leftovers \subseteq Statuses

VARIABLES
  stock,      \* are there alerts, are there raw orders
  cases,      \* the alert's cases by age: [status, by, setBy, closedBy]; who set
              \* the status last, and who has ever closed the case, are history
  proposals,  \* by age: [case, by, status, verdicts, tries]
  process,    \* [at, case, proposal, report]
  users       \* what users have done, an execution and a review they have begun

e2eVars == <<stock, cases, proposals, process, users>>

Case(by) == [status |-> "created", by |-> by, setBy |-> by, closedBy |-> Nil]

Made(by, case) ==
  [case |-> case, by |-> by, status |-> "proposed", verdicts |-> <<>>, tries |-> <<>>]

NotStarted == [at |-> "probe", case |-> Nil, proposal |-> Nil, report |-> <<>>]

\* An earlier process has closed its case, and has left a proposal that was
\* inserted by hand: not reviewed, approved, refused by somebody, or tried.
E2EInit ==
  /\ stock \in Stocks
  /\ process = NotStarted
  /\ users = [steps |-> 0, executing |-> Nil, reviewing |-> Nil]
  /\ \/ cases = <<>> /\ proposals = <<>>
     \/ /\ cases = <<[Case("earlier") EXCEPT !.status = "closed", !.closedBy = "earlier"]>>
        /\ \E status \in Leftovers :
             LET verdict == IF status = "rejected" THEN status ELSE "approved"
             IN proposals = <<[Made("earlier", 1) EXCEPT !.status = status,
                  !.verdicts = IF status = "proposed" THEN @ ELSE <<<<"earlier", verdict>>>>,
                  !.tries = IF status \in {"applied", "failed"} THEN <<<<"earlier", status>>>> ELSE @]>>

Line(step, verdict) == [step |-> step, verdict |-> verdict]

\* The process notes a verdict on its step and goes on at another one.
Records(step, verdict, next) ==
  process' = [process EXCEPT !.at = next, !.report = Append(@, Line(step, verdict))]

Reached(at) == process.at = at

Active == {c \in DOMAIN cases : cases[c].status # "closed"}

-----------------------------------------------------------------------------
(* The phases before the lifecycle.                                        *)

Moves(next) == process' = [process EXCEPT !.at = next]

\* Reads, and two columns for a table that no migration makes: whatever they
\* find, the next phase follows.  The report here is that of the lifecycle.
ProbeSystem == Reached("probe") /\ Moves("data") /\ UNCHANGED <<stock, cases, proposals, users>>

\* Without alerts the pipeline is run, on raw orders that are there already;
\* one that fails may have committed its alerts before.
EnsureData ==
  /\ Reached("data") /\ Moves("select")
  /\ \/ UNCHANGED stock
     \/ ~stock.alerts /\ stock.raw /\ stock' = [stock EXCEPT !.alerts = TRUE]
  /\ UNCHANGED <<cases, proposals, users>>

-----------------------------------------------------------------------------
(* The lifecycle (runDecisionLifecycle).                                   *)

\* A list that fails or is empty ends the lifecycle.
SelectAlert ==
  /\ Reached("select")
  /\ Moves("governance") \/ (stock.alerts /\ Moves("lookup"))
  /\ UNCHANGED <<stock, cases, proposals, users>>

\* Any case of the alert is looked at: an active one is taken, whoever opened
\* it, a closed one asks for a new one.
LookupCase ==
  /\ Reached("lookup")
  /\ \/ (cases = <<>> \/ DOMAIN cases # Active) /\ Moves("insert")
     \/ \E c \in Active :
          process' = [process EXCEPT !.at = "decide", !.case = c,
                        !.report = Append(@, Line("create_decision_case", "PASS"))]
  /\ UNCHANGED <<stock, cases, proposals, users>>

NewCase(by) == Append(cases, Case(by))

\* The index lets one active case in; a lost reply leaves a case that the
\* process does not know of.
InsertStep ==
  /\ Reached("insert")
  /\ \/ /\ Active = {}
        /\ cases' = NewCase("e2e")
        /\ process' = [process EXCEPT !.at = "decide", !.case = Len(cases) + 1,
                         !.report = Append(@, Line("create_decision_case", "PASS"))]
     \/ /\ cases' \in {cases} \cup (IF Active = {} THEN {NewCase("e2e")} ELSE {})
        /\ Records("create_decision_case", "FAIL", "governance")
  /\ UNCHANGED <<stock, proposals, users>>

\* An UPDATE of the status does not look at the status it replaces.
SetStatus(c, by, status) == [cases EXCEPT ![c].status = status, ![c].setBy = by]

\* Decide marks the case before its proposals and after them; an error may
\* leave some of the proposals and either mark.
Marks == {"decision_generated", "proposal_generated"}

Decides(c, by, n, mark) ==
  /\ cases' = SetStatus(c, by, mark)
  /\ proposals' = proposals \o [k \in 1..n |-> Made(by, c)]

\* The index is broken by a case of the same alert that was opened meanwhile.
MayActivate(c) == Active \subseteq {c}

\* The first of its proposals is worked on; without one, one is inserted.
DecideCase ==
  /\ Reached("decide")
  /\ \E n \in Recommended :
       \/ /\ MayActivate(process.case)
          /\ Decides(process.case, "e2e", n, "proposal_generated")
          /\ process' = [process EXCEPT !.at = IF n > 0 THEN "approve" ELSE "manual",
                           !.proposal = IF n > 0 THEN Len(proposals) + 1 ELSE Nil,
                           !.report = Append(@, Line("decide", IF n > 0 THEN "PASS" ELSE "WARN"))]
       \/ /\ \/ /\ MayActivate(process.case)
                /\ \E mark \in Marks : Decides(process.case, "e2e", n, mark)
             \/ UNCHANGED <<cases, proposals>>
          /\ Records("decide", "FAIL", "manual")
  /\ UNCHANGED <<stock, users>>

\* The id of a manual proposal is made of the process id: one that another
\* process with that id has left is taken for this one's, silently.
ManualIdTaken == \E p \in DOMAIN proposals : proposals[p].by = "earlier"

ManualPropose ==
  /\ Reached("manual")
  /\ \/ /\ proposals' = IF ManualIdTaken THEN proposals ELSE Append(proposals, Made("e2e", process.case))
        /\ Moves("fetch")
     \/ UNCHANGED proposals /\ Records("manual_propose", "FAIL", "resolve")
  /\ UNCHANGED <<stock, cases, users>>

Listed == {p \in DOMAIN proposals : proposals[p].case = process.case}

\* The newest proposal of the case, whoever made it.
FetchProposal ==
  /\ Reached("fetch")
  /\ \/ Records("manual_propose_fetch", "FAIL", "resolve")
     \/ \E p \in Listed :
          /\ \A q \in Listed : q <= p
          /\ process' = [process EXCEPT !.at = "approve", !.proposal = p,
                           !.report = Append(@, Line("manual_propose", "PASS"))]
  /\ UNCHANGED <<stock, cases, proposals, users>>

-----------------------------------------------------------------------------
(* runApprovalAndExecution.                                                *)

\* Mutant: the status is not looked at once the row is locked.
MayReviewAlways(p) == TRUE

\* What a review reads of the proposal, whose row it has locked, and of the
\* case, which it has not.
MayReview(p) == proposals[p].status = "proposed"

WillMark(p) == cases[proposals[p].case].status = "proposal_generated"

\* A review's transaction: the proposal's status and the review record, and
\* the case's status, if the one that was read asked for it.
ReviewWrites(p, by, status, marks) ==
  /\ proposals' = [proposals EXCEPT ![p].status = status, ![p].verdicts = Append(@, <<by, status>>)]
  /\ IF marks THEN /\ MayActivate(proposals[p].case)
                   /\ cases' = SetStatus(proposals[p].case, by, "review_required")
              ELSE UNCHANGED cases

InReview == Reached("review") \/ Reached("review_and_mark")

\* The row is locked from its SELECT to the end of the transaction.
LockedByProcess(p) == InReview /\ process.proposal = p

LockedByUser(p) == users.reviewing # Nil /\ users.reviewing.proposal = p

LockProposal ==
  /\ Reached("approve")
  /\ \/ /\ ~ LockedByUser(process.proposal) /\ MayReview(process.proposal)
        /\ Moves(IF WillMark(process.proposal) THEN "review_and_mark" ELSE "review")
     \/ Records("approve_proposal", "FAIL", "resolve")
  /\ UNCHANGED <<stock, cases, proposals, users>>

\* The reply to the COMMIT may be lost.
ApproveProposal ==
  /\ InReview
  /\ \/ /\ ReviewWrites(process.proposal, "e2e", "approved", Reached("review_and_mark"))
        /\ \/ Records("approve_proposal", "PASS", "preview")
           \/ Records("approve_proposal", "FAIL", "resolve")
     \/ UNCHANGED <<cases, proposals>> /\ Records("approve_proposal", "FAIL", "resolve")
  /\ UNCHANGED <<stock, users>>

AfterPreview == IF AllowLive THEN "load" ELSE "resolve"

ExecuteDryRun ==
  /\ Reached("preview")
  /\ \/ Records("execute_dry_run", "FAIL", "resolve")
     \/ /\ proposals[process.proposal].status = "approved"
        /\ Records("execute_dry_run", "PASS", AfterPreview)
  /\ UNCHANGED <<stock, cases, proposals, users>>

ExecuteLoad ==
  /\ Reached("load")
  /\ \/ Records("execute_live", "FAIL", "resolve")
     \/ /\ proposals[process.proposal].status = "approved"
        /\ Moves("commit")
  /\ UNCHANGED <<stock, cases, proposals, users>>

Tried(p, by, outcome) ==
  [proposals EXCEPT ![p].status = outcome, ![p].tries = Append(@, <<by, outcome>>)]

\* The runner has no executors: the proposal ends as failed, and a result
\* without an error is a pass.
Outcome == "failed"

ExecuteLive ==
  /\ Reached("commit")
  /\ \/ /\ proposals' = Tried(process.proposal, "e2e", Outcome)
        /\ \/ Records("execute_live", "PASS", "resolve")
           \/ Records("execute_live", "FAIL", "resolve")
     \/ UNCHANGED proposals /\ Records("execute_live", "FAIL", "resolve")
  /\ UNCHANGED <<stock, cases, users>>

-----------------------------------------------------------------------------
(* The end of the lifecycle, and of the process.                           *)

Closed(c, by) == [SetStatus(c, by, "closed") EXCEPT ![c].closedBy = by]

\* Mutant: the case is left as it is after a failure.
ResolveStepUnlessFailed ==
  /\ Reached("resolve")
  /\ IF \E k \in DOMAIN process.report : process.report[k].verdict = "FAIL"
     THEN process' = [process EXCEPT !.at = "governance"] /\ UNCHANGED cases
     ELSE cases' = Closed(process.case, "e2e") /\ Records("resolve_case", "PASS", "governance")
  /\ UNCHANGED <<stock, proposals, users>>

\* The case is closed whatever came before, whoever opened it.
ResolveStep ==
  /\ Reached("resolve")
  /\ \/ cases' = Closed(process.case, "e2e") /\ Records("resolve_case", "PASS", "governance")
     \/ cases' \in {cases, Closed(process.case, "e2e")} /\ Records("resolve_case", "FAIL", "governance")
  /\ UNCHANGED <<stock, proposals, users>>

\* Reads; the table that the last of them counts is made by no migration, so
\* that every run ends as one with failures.
RunGovernanceChecks == Reached("governance") /\ Moves("done") /\ UNCHANGED <<stock, cases, proposals, users>>

\* A signal or a crash ends the process between two of its statements.
Killed ==
  /\ ~ Reached("done") /\ ~ Reached("killed")
  /\ process' = [NotStarted EXCEPT !.at = "killed"]
  /\ UNCHANGED <<stock, cases, proposals, users>>

-----------------------------------------------------------------------------
(* The users of the API and of the MCP server, on the same alert.          *)

Uses == users.steps < MaxUserSteps /\ users' = [users EXCEPT !.steps = @ + 1]

UserOpens == Uses /\ Active = {} /\ cases' = NewCase("user") /\ UNCHANGED <<stock, proposals, process>>

UserDecides ==
  /\ Uses
  /\ \E c \in DOMAIN cases, n \in Recommended, mark \in Marks :
       MayActivate(c) /\ Decides(c, "user", n, mark)
  /\ UNCHANGED <<stock, process>>

\* One review of users at a time; the case may change hands before its end.
UserLocks ==
  /\ users.steps < MaxUserSteps /\ users.reviewing = Nil
  /\ \E p \in DOMAIN proposals, status \in {"approved", "rejected"} :
       /\ ~ LockedByProcess(p) /\ MayReview(p)
       /\ users' = [users EXCEPT !.steps = @ + 1,
                      !.reviewing = [proposal |-> p, status |-> status, marks |-> WillMark(p)]]
  /\ UNCHANGED <<stock, cases, proposals, process>>

\* Mutant: the case is marked outside of the transaction.
UserReviewsOnPool ==
  /\ users.reviewing # Nil
  /\ LET review == users.reviewing
     IN \/ ReviewWrites(review.proposal, "user", review.status, review.marks)
        \/ /\ review.marks /\ MayActivate(proposals[review.proposal].case)
           /\ cases' = SetStatus(proposals[review.proposal].case, "user", "review_required")
           /\ UNCHANGED proposals
  /\ users' = [users EXCEPT !.reviewing = Nil]
  /\ UNCHANGED <<stock, process>>

UserReviews ==
  /\ users.reviewing # Nil
  /\ LET review == users.reviewing
     IN \/ ReviewWrites(review.proposal, "user", review.status, review.marks)
        \/ UNCHANGED <<cases, proposals>>    \* rolled back
  /\ users' = [users EXCEPT !.reviewing = Nil]
  /\ UNCHANGED <<stock, process>>

\* The status is tested on a copy, before the transaction.
UserLoads ==
  /\ users.steps < MaxUserSteps /\ users.executing = Nil
  /\ UNCHANGED <<stock, cases, proposals, process>>
  /\ \E p \in DOMAIN proposals :
       /\ proposals[p].status = "approved"
       /\ users' = [users EXCEPT !.steps = @ + 1, !.executing = p]

UserExecutes ==
  /\ users.executing # Nil
  /\ \E outcome \in {"applied", "failed"} : proposals' = Tried(users.executing, "user", outcome)
  /\ users' = [users EXCEPT !.executing = Nil]
  /\ UNCHANGED <<stock, cases, process>>

UserCloses ==
  /\ Uses
  /\ \E c \in DOMAIN cases : cases' = Closed(c, "user")
  /\ UNCHANGED <<stock, proposals, process>>

E2ENext ==
  \/ ProbeSystem \/ EnsureData \/ SelectAlert \/ LookupCase \/ InsertStep \/ DecideCase
  \/ ManualPropose \/ FetchProposal \/ LockProposal \/ ApproveProposal \/ ExecuteDryRun \/ ExecuteLoad
  \/ ExecuteLive \/ ResolveStep \/ RunGovernanceChecks \/ Killed
  \/ UserOpens \/ UserDecides \/ UserLocks \/ UserReviews \/ UserLoads \/ UserExecutes \/ UserCloses

E2ESpec == E2EInit /\ [][E2ENext]_e2eVars

-----------------------------------------------------------------------------
Reported(step, verdict) == \E k \in DOMAIN process.report : process.report[k] = Line(step, verdict)

\* A user has reviewed a proposal of the case.
ReviewedByUser(c) ==
  \E p \in DOMAIN proposals :
    /\ proposals[p].case = c
    /\ \E k \in DOMAIN proposals[p].verdicts : proposals[p].verdicts[k][1] = "user"

\* What the report says stays true of the rows, whatever users do in between:
\* a proposal that it says it approved has its verdict and no other, one that
\* it says it executed live was tried by it and failed, a case that it says
\* it closed was closed.  A case of its own that is active after its end was
\* made so by a user, who has decided it again, or who has reviewed one of
\* its proposals with a status of the case read before; or the report has the
\* step that failed.  Nothing is tried that was not approved in a single
\* review.
LifecycleReportIsTrue ==
  /\ Reported("approve_proposal", "PASS") =>
       proposals[process.proposal].verdicts = <<<<"e2e", "approved">>>>
  /\ Reported("execute_live", "PASS") =>
       \E k \in DOMAIN proposals[process.proposal].tries :
         proposals[process.proposal].tries[k] = <<"e2e", "failed">>
  /\ Reported("resolve_case", "PASS") => cases[process.case].closedBy # Nil
  /\ Reached("done") =>
       \A c \in Active : cases[c].by = "e2e" =>
         \/ /\ cases[c].setBy = "user"
            /\ cases[c].status \in Marks \/ (cases[c].status = "review_required" /\ ReviewedByUser(c))
         \/ Reported("create_decision_case", "FAIL") \/ Reported("resolve_case", "FAIL")
  /\ \A p \in DOMAIN proposals :
       proposals[p].tries # <<>> =>
         Len(proposals[p].verdicts) = 1 /\ proposals[p].verdicts[1][2] = "approved"

=============================================================================
