------------------------------ MODULE E2EProofs ------------------------------
(***************************************************************************)
(* The theorem about E2E: its report is true of the rows, for any number   *)
(* of users' steps, any number of proposals that a decision leads to, and  *)
(* whatever an earlier process has left.                                   *)
(***************************************************************************)
EXTENDS E2E, TLAPS

-----------------------------------------------------------------------------
(* What the constants are, and what the variables hold.                    *)

Verdict == Names \X Statuses

CaseType ==
  [status : CaseStates, by : Names, setBy : Names, closedBy : Names \cup {Nil}]

ProposalType ==
  [case : Nat \cup {Nil}, by : Names, status : Statuses, verdicts : Seq(Verdict),
   tries : Seq(Verdict)]

Places ==
  {"probe", "data", "select", "lookup", "insert", "decide", "manual", "fetch", "approve",
   "review", "review_and_mark", "preview", "load", "commit", "resolve", "governance", "done",
   "killed"}

Steps ==
  {"create_decision_case", "decide", "manual_propose", "manual_propose_fetch",
   "approve_proposal", "execute_dry_run", "execute_live", "resolve_case"}

LineType == [step : Steps, verdict : {"PASS", "WARN", "FAIL"}]

ProcessType ==
  [at : Places, case : Nat \cup {Nil}, proposal : Nat \cup {Nil}, report : Seq(LineType)]

ReviewType == [proposal : Nat, status : {"approved", "rejected"}, marks : BOOLEAN]

UsersType ==
  [steps : Nat, executing : Nat \cup {Nil}, reviewing : ReviewType \cup {Nil}]

TypeInv ==
  /\ cases \in Seq(CaseType)
  /\ proposals \in Seq(ProposalType)
  /\ process \in ProcessType
  /\ users \in UsersType

-----------------------------------------------------------------------------
(* The inductive invariant.                                                *)

Executable == {"approved", "applied", "failed"}

\* The status of a proposal says what verdicts and tries it has.
Sound(row) ==
  /\ row.status = "proposed" => row.verdicts = <<>>
  /\ row.status \in Executable => Len(row.verdicts) = 1 /\ row.verdicts[1][2] = "approved"
  /\ row.status \notin Executable => row.tries = <<>>

Executing(p) == p \in DOMAIN proposals /\ proposals[p].status \in Executable

Before == {"probe", "data", "select", "lookup", "insert"}
Early  == Before \cup {"decide", "manual", "fetch", "approve", "review", "review_and_mark"}

\* The steps whose success the report claims of the rows.
Claims == {"approve_proposal", "execute_live", "resolve_case"}

Working ==
  {"decide", "manual", "fetch", "approve", "review", "review_and_mark", "preview", "load",
   "commit", "resolve"}

AtWork == {"approve", "review", "review_and_mark", "preview", "load", "commit"}

\* The process has the case and the proposal that its steps work on, and who
\* is about to write an outcome has loaded an approved proposal.
WorkInv ==
  /\ process.at \in Working => process.case \in DOMAIN cases
  /\ process.at \in AtWork => process.proposal \in DOMAIN proposals
  /\ Reached("commit") => Executing(process.proposal)
  /\ users.executing # Nil => Executing(users.executing)

\* Whose proposal's row is locked by a review: it is as it was read, and it is
\* locked by one review only.
LockInv ==
  /\ InReview => proposals[process.proposal].status = "proposed"
  /\ users.reviewing # Nil =>
       /\ users.reviewing.proposal \in DOMAIN proposals
       /\ proposals[users.reviewing.proposal].status = "proposed"
       /\ InReview => process.proposal # users.reviewing.proposal

ApprovedIt ==
  /\ process.proposal \in DOMAIN proposals
  /\ proposals[process.proposal].status # "proposed"
  /\ proposals[process.proposal].verdicts = <<<<"e2e", "approved">>>>

TriedIt ==
  /\ process.proposal \in DOMAIN proposals
  /\ \E k \in DOMAIN proposals[process.proposal].tries :
       proposals[process.proposal].tries[k] = <<"e2e", "failed">>

ClosedIt == process.case \in DOMAIN cases /\ cases[process.case].closedBy # Nil

\* What the report says of the rows; it says nothing of a step before its turn.
ReportInv ==
  /\ process.at \in Early => \A step \in Claims : ~ Reported(step, "PASS")
  /\ Reported("approve_proposal", "PASS") => ApprovedIt
  /\ Reported("execute_live", "PASS") => TriedIt
  /\ Reported("resolve_case", "PASS") => ClosedIt

MarkedBy(row, by) == row.setBy = by /\ row.status = "review_required"

\* Closed, or made active by a user.
Settled(row) ==
  \/ row.status = "closed"
  \/ row.setBy = "user" /\ row.status \in Marks \cup {"review_required"}

\* A case of the process is the one it works on, or its report has the step
\* that left it; at the end it is settled.
CaseInv ==
  /\ process.at \in Before => \A c \in DOMAIN cases : cases[c].by # "e2e"
  /\ ~ Reached("killed") => \A c \in DOMAIN cases : cases[c].by = "e2e" =>
       c = process.case \/ Reported("create_decision_case", "FAIL")
  /\ process.at \in {"governance", "done"} => \A c \in DOMAIN cases : cases[c].by = "e2e" =>
       \/ Settled(cases[c])
       \/ Reported("create_decision_case", "FAIL") \/ Reported("resolve_case", "FAIL")

\* A user who marked the case in a review has left the verdict of that review.
MarkInv == \A c \in DOMAIN cases : MarkedBy(cases[c], "user") => ReviewedByUser(c)

E2EInv ==
  /\ TypeInv
  /\ \A p \in DOMAIN proposals : Sound(proposals[p])
  /\ WorkInv /\ LockInv /\ ReportInv /\ CaseInv /\ MarkInv

-----------------------------------------------------------------------------
(* Shapes of steps.                                                        *)

\* What a step keeps of the proposals.
KeepsProposal(p) ==
  /\ p \in DOMAIN proposals' /\ proposals'[p].case = proposals[p].case
  /\ proposals[p].status # "proposed" =>
       proposals'[p].status # "proposed" /\ proposals'[p].verdicts = proposals[p].verdicts
  /\ proposals[p].status \in Executable => proposals'[p].status \in Executable
  /\ \A k \in DOMAIN proposals[p].tries :
       k \in DOMAIN proposals'[p].tries /\ proposals'[p].tries[k] = proposals[p].tries[k]

ProposalsMove ==
  /\ proposals' \in Seq(ProposalType)
  /\ \A p \in DOMAIN proposals' : Sound(proposals'[p])
  /\ \A p \in DOMAIN proposals : KeepsProposal(p)

\* What a step keeps of the cases.
KeepsCase(c) ==
  /\ c \in DOMAIN cases' /\ cases'[c].by = cases[c].by
  /\ cases[c].closedBy # Nil => cases'[c].closedBy # Nil

\* A user's mark is an old one, or comes with a verdict.
MarkIsBacked(c) ==
  MarkedBy(cases'[c], "user") =>
    (c \in DOMAIN cases /\ MarkedBy(cases[c], "user")) \/ ReviewedByUser(c)'

CasesMove ==
  /\ cases' \in Seq(CaseType)
  /\ \A c \in DOMAIN cases : KeepsCase(c)
  /\ \A c \in DOMAIN cases' : MarkIsBacked(c)

\* No proposal gets a verdict.
NoneReviewed ==
  \A p \in DOMAIN proposals :
    proposals[p].status = "proposed" =>
      p \in DOMAIN proposals' /\ proposals'[p].status = "proposed"

\* No case of the process is new.
NoneOpened ==
  \A c \in DOMAIN cases' : cases'[c].by = "e2e" => c \in DOMAIN cases /\ cases[c].by = "e2e"

\* None is open again without a user's decision.
CasesRest ==
  /\ NoneOpened
  /\ \A c \in DOMAIN cases' : cases'[c].by = "e2e" /\ Settled(cases[c]) => Settled(cases'[c])

\* The process goes to next, with a line in the report or without one.
ProcessAt(next, case, proposal) ==
  /\ process' \in ProcessType
  /\ process'.at = next /\ process'.case = case /\ process'.proposal = proposal

\* The lines that are new are those of the set.
Reports(lines, next, case, proposal) ==
  /\ ProcessAt(next, case, proposal)
  /\ \A s, v : Reported(s, v)' <=> Reported(s, v) \/ <<s, v>> \in lines

-----------------------------------------------------------------------------
(* Sequences of rows.                                                      *)

LEMMA AppendRow ==
  ASSUME NEW S, NEW rows \in Seq(S), NEW row \in S
  PROVE  /\ Append(rows, row) \in Seq(S)
         /\ DOMAIN Append(rows, row) = DOMAIN rows \cup {Len(rows) + 1}
         /\ Len(rows) + 1 \notin DOMAIN rows
         /\ \A k \in DOMAIN rows : Append(rows, row)[k] = rows[k]
         /\ Append(rows, row)[Len(rows) + 1] = row
OBVIOUS

LEMMA ReplaceRow ==
  ASSUME NEW S, NEW rows \in Seq(S), NEW k \in DOMAIN rows, NEW row \in S
  PROVE  /\ [rows EXCEPT ![k] = row] \in Seq(S)
         /\ DOMAIN [rows EXCEPT ![k] = row] = DOMAIN rows
         /\ [rows EXCEPT ![k] = row][k] = row
         /\ \A j \in DOMAIN rows \ {k} : [rows EXCEPT ![k] = row][j] = rows[j]
OBVIOUS

LEMMA SaysMore ==
  ASSUME process.report \in Seq(LineType), NEW step \in Steps,
         NEW verdict \in {"PASS", "WARN", "FAIL"},
         process'.report = Append(process.report, Line(step, verdict))
  PROVE  /\ process'.report \in Seq(LineType)
         /\ \A s, v : Reported(s, v)' <=> Reported(s, v) \/ <<s, v>> \in {<<step, verdict>>}
<1>1. Line(step, verdict) \in LineType
  BY DEF Line, LineType
<1>2. \A s, v : Line(s, v) = Line(step, verdict) <=> <<s, v>> \in {<<step, verdict>>}
  BY DEF Line
<1> DEFINE old == process.report  new == Append(old, Line(step, verdict))
<1>3. /\ new \in Seq(LineType) /\ DOMAIN new = DOMAIN old \cup {Len(old) + 1}
      /\ \A k \in DOMAIN old : new[k] = old[k]
      /\ new[Len(old) + 1] = Line(step, verdict)
  BY <1>1, AppendRow
<1>4. process'.report = new
  OBVIOUS
<1>5. ASSUME NEW s, NEW v
      PROVE  Reported(s, v)' <=> Reported(s, v) \/ <<s, v>> \in {<<step, verdict>>}
  <2>1. Reported(s, v)' <=> \E k \in DOMAIN new : new[k] = Line(s, v)
    BY <1>4 DEF Reported
  <2>2. Reported(s, v) <=> \E k \in DOMAIN old : old[k] = Line(s, v)
    BY DEF Reported
  <2> HIDE DEF new, old
  <2>3. QED
    BY <1>2, <1>3, <2>1, <2>2
<1>6. QED
  BY <1>3, <1>4, <1>5

LEMMA RecordsReport ==
  ASSUME TypeInv, NEW step \in Steps, NEW verdict \in {"PASS", "WARN", "FAIL"},
         NEW next \in Places, Records(step, verdict, next)
  PROVE  Reports({<<step, verdict>>}, next, process.case, process.proposal)
<1>1. /\ process'.report = Append(process.report, Line(step, verdict))
      /\ process'.at = next /\ process'.case = process.case
      /\ process'.proposal = process.proposal
      /\ process' = [at |-> process'.at, case |-> process'.case,
                     proposal |-> process'.proposal, report |-> process'.report]
  BY DEF Records, TypeInv, ProcessType
<1>2. /\ process.case \in Nat \cup {Nil} /\ process.proposal \in Nat \cup {Nil}
      /\ process.report \in Seq(LineType)
  BY DEF TypeInv, ProcessType
<1>3. /\ process'.report \in Seq(LineType)
      /\ \A s, v : Reported(s, v)' <=> Reported(s, v) \/ <<s, v>> \in {<<step, verdict>>}
  BY <1>1, <1>2, SaysMore
<1>4. process' \in ProcessType
  BY <1>1, <1>2, <1>3 DEF ProcessType
<1>5. QED
  BY <1>1, <1>3, <1>4 DEF Reports, ProcessAt

LEMMA TakesReports ==
  ASSUME TypeInv, NEW c \in Nat,
         process' = [process EXCEPT !.at = "decide", !.case = c,
                       !.report = Append(@, Line("create_decision_case", "PASS"))]
  PROVE  Reports({<<"create_decision_case", "PASS">>}, "decide", c, process.proposal)
<1>1. /\ process.case \in Nat \cup {Nil} /\ process.proposal \in Nat \cup {Nil}
      /\ process.report \in Seq(LineType) /\ process \in ProcessType
  BY DEF TypeInv, ProcessType
<1>2. process' = [at |-> "decide", case |-> c, proposal |-> process.proposal,
                  report |-> Append(process.report, Line("create_decision_case", "PASS"))]
  BY <1>1 DEF ProcessType
<1>3. /\ process'.report \in Seq(LineType)
      /\ \A s, v : Reported(s, v)' <=> Reported(s, v) \/ <<s, v>> \in {<<"create_decision_case", "PASS">>}
  BY <1>1, <1>2, SaysMore DEF Steps
<1>4. process' \in ProcessType
  BY <1>1, <1>2, <1>3 DEF ProcessType, Places
<1>5. QED
  BY <1>2, <1>3, <1>4 DEF Reports, ProcessAt

\* The process has found the proposal that it works on.
LEMMA FindsReports ==
  ASSUME TypeInv, NEW next \in Places, NEW p \in Nat \cup {Nil}, NEW step \in Steps,
         NEW verdict \in {"PASS", "WARN", "FAIL"},
         process' = [process EXCEPT !.at = next, !.proposal = p,
                       !.report = Append(@, Line(step, verdict))]
  PROVE  Reports({<<step, verdict>>}, next, process.case, p)
<1>1. /\ process.case \in Nat \cup {Nil} /\ process.report \in Seq(LineType)
      /\ process \in ProcessType
  BY DEF TypeInv, ProcessType
<1>2. process' = [at |-> next, case |-> process.case, proposal |-> p,
                  report |-> Append(process.report, Line(step, verdict))]
  BY <1>1 DEF ProcessType
<1>3. /\ process'.report \in Seq(LineType)
      /\ \A s, v : Reported(s, v)' <=> Reported(s, v) \/ <<s, v>> \in {<<step, verdict>>}
  BY <1>1, <1>2, SaysMore
<1>4. process' \in ProcessType
  BY <1>1, <1>2, <1>3 DEF ProcessType
<1>5. QED
  BY <1>2, <1>3, <1>4 DEF Reports, ProcessAt

LEMMA GoesReports ==
  ASSUME TypeInv, NEW next \in Places, Moves(next)
  PROVE  Reports({}, next, process.case, process.proposal)
BY DEF Moves, TypeInv, ProcessType, Reports, ProcessAt, Reported

-----------------------------------------------------------------------------
(* What happens to the rows.                                               *)

LEMMA RowsStay ==
  ASSUME E2EInv
  PROVE  /\ UNCHANGED proposals => ProposalsMove /\ NoneReviewed
         /\ UNCHANGED cases => CasesMove /\ CasesRest
<1>1. ASSUME UNCHANGED proposals
      PROVE  ProposalsMove /\ NoneReviewed
  BY <1>1 DEF E2EInv, TypeInv, ProposalsMove, KeepsProposal, NoneReviewed
<1>2. ASSUME UNCHANGED cases
      PROVE  CasesMove /\ CasesRest
  BY <1>2 DEF E2EInv, TypeInv, CasesMove, KeepsCase, MarkIsBacked, NoneOpened, CasesRest
<1>3. QED
  BY <1>1, <1>2

\* One row of the cases has a new status, if there is that row.
LEMMA StatusMoves ==
  ASSUME E2EInv, NEW c, NEW by \in Names, NEW status \in CaseStates,
         cases' = SetStatus(c, by, status)
  PROVE  /\ cases' \in Seq(CaseType) /\ DOMAIN cases' = DOMAIN cases
         /\ \A d \in DOMAIN cases : KeepsCase(d)
         /\ \A d \in DOMAIN cases \ {c} : cases'[d] = cases[d]
         /\ c \in DOMAIN cases => cases'[c].status = status /\ cases'[c].setBy = by
<1>1. cases \in Seq(CaseType)
  BY DEF E2EInv, TypeInv
<1>2. CASE c \in DOMAIN cases
  <2> DEFINE new == [cases[c] EXCEPT !.status = status, !.setBy = by]
  <2>1. cases[c] \in CaseType
    BY <1>1, <1>2
  <2>2. /\ new \in CaseType /\ new.by = cases[c].by /\ new.closedBy = cases[c].closedBy
        /\ new.status = status /\ new.setBy = by
    BY <2>1 DEF CaseType
  <2>3. cases' = [cases EXCEPT ![c] = new]
    BY <1>2 DEF SetStatus
  <2> HIDE DEF new
  <2>4. /\ cases' \in Seq(CaseType) /\ DOMAIN cases' = DOMAIN cases
        /\ cases'[c] = new /\ \A d \in DOMAIN cases \ {c} : cases'[d] = cases[d]
    BY <1>1, <1>2, <2>2, <2>3, ReplaceRow
  <2>5. \A d \in DOMAIN cases : KeepsCase(d)
    BY <2>2, <2>4 DEF KeepsCase
  <2>6. QED
    BY <2>2, <2>4, <2>5
<1>3. CASE c \notin DOMAIN cases
  <2>1. cases' = cases
    BY <1>1, <1>3 DEF SetStatus
  <2>2. \A d \in DOMAIN cases : KeepsCase(d)
    BY <2>1 DEF KeepsCase
  <2>3. QED
    BY <1>1, <1>3, <2>1, <2>2
<1>4. QED
  BY <1>2, <1>3

LEMMA ReviewMoves ==
  ASSUME E2EInv, NEW p \in DOMAIN proposals, NEW by \in Names,
         NEW status \in {"approved", "rejected"}, NEW marks,
         MayReview(p), ReviewWrites(p, by, status, marks)
  PROVE  /\ ProposalsMove /\ DOMAIN proposals' = DOMAIN proposals
         /\ \A q \in DOMAIN proposals \ {p} : proposals'[q] = proposals[q]
         /\ proposals'[p].case = proposals[p].case
         /\ proposals'[p].verdicts = <<<<by, status>>>>
         /\ proposals'[p].status = status
<1> DEFINE old == proposals[p]
           new == [old EXCEPT !.status = status, !.verdicts = <<<<by, status>>>>]
<1>1. old \in ProposalType /\ proposals \in Seq(ProposalType) /\ Sound(old)
  BY DEF E2EInv, TypeInv
<1>2. old.status = "proposed" /\ old.verdicts = <<>> /\ old.tries = <<>>
  BY <1>1 DEF MayReview, Sound, Executable
<1>3. <<by, status>> \in Verdict /\ <<<<by, status>>>> \in Seq(Verdict)
  BY DEF Verdict, Statuses
<1>4. Append(old.verdicts, <<by, status>>) = <<<<by, status>>>>
  BY <1>2
<1>5. /\ new \in ProposalType /\ new.status = status /\ new.verdicts = <<<<by, status>>>>
      /\ new.tries = <<>> /\ new.case = old.case
  BY <1>1, <1>2, <1>3 DEF ProposalType, Statuses
<1>6. Sound(new)
  BY <1>5 DEF Sound, Executable
<1>7. proposals' = [proposals EXCEPT ![p] = new]
  BY <1>1, <1>4 DEF ReviewWrites
<1> HIDE DEF new
<1>8. /\ proposals' \in Seq(ProposalType) /\ DOMAIN proposals' = DOMAIN proposals
      /\ proposals'[p] = new /\ \A q \in DOMAIN proposals \ {p} : proposals'[q] = proposals[q]
  BY <1>1, <1>5, <1>7, ReplaceRow
<1>9. \A q \in DOMAIN proposals : KeepsProposal(q)
  <2>1. KeepsProposal(p)
    BY <1>2, <1>5, <1>8 DEF KeepsProposal, Executable
  <2>2. \A q \in DOMAIN proposals \ {p} : KeepsProposal(q)
    BY <1>8 DEF KeepsProposal
  <2>3. QED
    BY <2>1, <2>2
<1>10. QED
  BY <1>5, <1>6, <1>8, <1>9 DEF ProposalsMove, E2EInv

\* What a review does to the cases: a user's mark comes with the verdict.
LEMMA ReviewMarks ==
  ASSUME E2EInv, NEW p \in DOMAIN proposals, NEW by \in Names,
         NEW status \in {"approved", "rejected"}, NEW marks,
         MayReview(p), ReviewWrites(p, by, status, marks)
  PROVE  CasesMove /\ NoneOpened /\ (by = "user" => CasesRest)
<1>0. PICK c : c = proposals[p].case
  OBVIOUS
<1>1. CASE UNCHANGED cases
  BY <1>1, RowsStay DEF CasesRest
<1>2. CASE cases' = SetStatus(c, by, "review_required")
  <2>1. /\ cases' \in Seq(CaseType) /\ DOMAIN cases' = DOMAIN cases
        /\ \A d \in DOMAIN cases : KeepsCase(d)
        /\ \A d \in DOMAIN cases \ {c} : cases'[d] = cases[d]
        /\ c \in DOMAIN cases => cases'[c].status = "review_required" /\ cases'[c].setBy = by
    BY <1>2, StatusMoves DEF CaseStates
  <2>2. ASSUME by = "user"
        PROVE  ReviewedByUser(c)'
    <3>1. /\ p \in DOMAIN proposals' /\ proposals'[p].case = c
          /\ proposals'[p].verdicts = <<<<"user", status>>>>
      BY <1>0, <2>2, ReviewMoves
    <3>2. 1 \in DOMAIN proposals'[p].verdicts /\ proposals'[p].verdicts[1][1] = "user"
      BY <3>1
    <3>3. QED
      BY <3>1, <3>2 DEF ReviewedByUser
  <2>3. \A d \in DOMAIN cases' : MarkIsBacked(d)
    <3>1. ASSUME NEW d \in DOMAIN cases \ {c}
          PROVE  MarkIsBacked(d)
      BY <2>1, <3>1 DEF MarkIsBacked
    <3>2. ASSUME c \in DOMAIN cases
          PROVE  MarkIsBacked(c)
      BY <2>1, <2>2, <3>2 DEF MarkIsBacked, MarkedBy
    <3>3. QED
      BY <2>1, <3>1, <3>2
  <2>4. CasesMove
    BY <2>1, <2>3 DEF CasesMove
  <2>5. NoneOpened
    BY <2>1 DEF NoneOpened, KeepsCase
  <2>6. by = "user" => CasesRest
    BY <2>1, <2>5 DEF CasesRest, Settled
  <2>7. QED
    BY <2>4, <2>5, <2>6
<1>3. QED
  BY <1>0, <1>1, <1>2 DEF ReviewWrites

LEMMA TryMoves ==
  ASSUME E2EInv, NEW p, Executing(p), NEW by \in Names,
         NEW outcome \in {"applied", "failed"}, proposals' = Tried(p, by, outcome)
  PROVE  /\ ProposalsMove /\ NoneReviewed /\ DOMAIN proposals' = DOMAIN proposals
         /\ \E k \in DOMAIN proposals'[p].tries : proposals'[p].tries[k] = <<by, outcome>>
<1> DEFINE old   == proposals[p]
           tries == Append(old.tries, <<by, outcome>>)
           new   == [old EXCEPT !.status = outcome, !.tries = tries]
<1>1. /\ old \in ProposalType /\ proposals \in Seq(ProposalType) /\ Sound(old)
      /\ p \in DOMAIN proposals /\ old.status \in Executable
  BY DEF E2EInv, TypeInv, Executing
<1>2. old.tries \in Seq(Verdict) /\ <<by, outcome>> \in Verdict
  BY <1>1 DEF ProposalType, Verdict, Statuses
<1>3. /\ tries \in Seq(Verdict) /\ DOMAIN tries = DOMAIN old.tries \cup {Len(old.tries) + 1}
      /\ \A k \in DOMAIN old.tries : tries[k] = old.tries[k]
      /\ tries[Len(old.tries) + 1] = <<by, outcome>>
  BY <1>2, AppendRow
<1>4. proposals' = [proposals EXCEPT ![p] = new]
  BY <1>1 DEF Tried
<1> HIDE DEF tries
<1>5. /\ new \in ProposalType /\ new.status = outcome /\ new.verdicts = old.verdicts
      /\ new.tries = tries /\ new.case = old.case
  BY <1>1, <1>3 DEF ProposalType, Statuses
<1>6. Sound(new)
  BY <1>1, <1>5 DEF Sound, Executable
<1> HIDE DEF new
<1>7. /\ proposals' \in Seq(ProposalType) /\ DOMAIN proposals' = DOMAIN proposals
      /\ proposals'[p] = new /\ \A q \in DOMAIN proposals \ {p} : proposals'[q] = proposals[q]
  BY <1>1, <1>4, <1>5, ReplaceRow
<1>8. \A q \in DOMAIN proposals : KeepsProposal(q)
  <2>1. KeepsProposal(p)
    BY <1>1, <1>3, <1>5, <1>7 DEF KeepsProposal, Executable
  <2>2. \A q \in DOMAIN proposals \ {p} : KeepsProposal(q)
    BY <1>7 DEF KeepsProposal
  <2>3. QED
    BY <2>1, <2>2
<1>9. NoneReviewed
  BY <1>1, <1>7 DEF NoneReviewed, Executable
<1>10. QED
  BY <1>3, <1>5, <1>6, <1>7, <1>8, <1>9 DEF ProposalsMove, E2EInv

LEMMA MadeIsSound ==
  ASSUME NEW by \in Names, NEW case \in Nat \cup {Nil}
  PROVE  Made(by, case) \in ProposalType /\ Sound(Made(by, case))
BY DEF Made, ProposalType, Statuses, Sound, Executable

LEMMA ManualMoves ==
  ASSUME E2EInv, NEW case \in Nat \cup {Nil}, proposals' = Append(proposals, Made("e2e", case))
  PROVE  ProposalsMove /\ NoneReviewed
<1> DEFINE row == Made("e2e", case)
<1>1. row \in ProposalType /\ Sound(row) /\ proposals \in Seq(ProposalType)
  BY MadeIsSound DEF Names, E2EInv, TypeInv
<1> HIDE DEF row
<1>2. /\ proposals' \in Seq(ProposalType)
      /\ DOMAIN proposals' = DOMAIN proposals \cup {Len(proposals) + 1}
      /\ \A p \in DOMAIN proposals : proposals'[p] = proposals[p]
      /\ proposals'[Len(proposals) + 1] = row
  BY <1>1, AppendRow DEF row
<1>3. QED
  BY <1>1, <1>2 DEF ProposalsMove, KeepsProposal, NoneReviewed, E2EInv

LEMMA DecidesMoves ==
  ASSUME E2EInv, E2EAssumption, NEW c \in DOMAIN cases, NEW by \in Names, NEW n \in Recommended,
         NEW mark \in Marks, Decides(c, by, n, mark)
  PROVE  /\ ProposalsMove /\ NoneReviewed
         /\ CasesMove /\ NoneOpened /\ (by = "user" => CasesRest)
         /\ DOMAIN cases' = DOMAIN cases
         /\ n > 0 => Len(proposals) + 1 \in DOMAIN proposals'
<1> DEFINE more == [k \in 1..n |-> Made(by, c)]
<1>1. /\ cases \in Seq(CaseType) /\ n \in Nat /\ c \in Nat /\ proposals \in Seq(ProposalType)
  BY DEF E2EInv, TypeInv, E2EAssumption
<1>2. /\ cases' \in Seq(CaseType) /\ DOMAIN cases' = DOMAIN cases
      /\ \A d \in DOMAIN cases : KeepsCase(d)
      /\ \A d \in DOMAIN cases \ {c} : cases'[d] = cases[d]
      /\ cases'[c].status = mark /\ cases'[c].setBy = by
  BY StatusMoves DEF Decides, Marks, CaseStates
<1>3. CasesMove
  <2>1. \A d \in DOMAIN cases' : MarkIsBacked(d)
    BY <1>2 DEF MarkIsBacked, MarkedBy, Marks
  <2>2. QED
    BY <1>2, <2>1 DEF CasesMove
<1>4. NoneOpened
  BY <1>2 DEF NoneOpened, KeepsCase
<1>5. by = "user" => CasesRest
  BY <1>2, <1>4 DEF CasesRest, Settled
<1>6. Made(by, c) \in ProposalType /\ Sound(Made(by, c))
  BY <1>1, MadeIsSound
<1>7. proposals' = proposals \o more /\ more \in Seq(ProposalType) /\ Len(more) = n
  <2>1. proposals' = proposals \o more
    BY DEF Decides
  <2>2. more \in [1..n -> ProposalType]
    BY <1>6
  <2> HIDE DEF more
  <2>3. more \in Seq(ProposalType) /\ Len(more) = n
    BY <1>1, <2>2
  <2>4. QED
    BY <2>1, <2>3
<1>8. /\ proposals' \in Seq(ProposalType)
      /\ DOMAIN proposals' = 1..(Len(proposals) + n)
      /\ \A p \in DOMAIN proposals : proposals'[p] = proposals[p]
      /\ \A p \in DOMAIN proposals' : p \in DOMAIN proposals \/ proposals'[p] = Made(by, c)
  BY <1>1, <1>7
<1> HIDE DEF more
<1>9. ProposalsMove /\ NoneReviewed
  <2>1. \A p \in DOMAIN proposals : p \in DOMAIN proposals' /\ proposals'[p] = proposals[p]
    BY <1>1, <1>8
  <2>2. (\A p \in DOMAIN proposals : KeepsProposal(p)) /\ NoneReviewed
    BY <2>1 DEF KeepsProposal, NoneReviewed
  <2>3. \A p \in DOMAIN proposals' : Sound(proposals'[p])
    BY <1>6, <1>8, <2>1 DEF E2EInv
  <2>4. QED
    BY <1>8, <2>2, <2>3 DEF ProposalsMove
<1>10. QED
  BY <1>1, <1>2, <1>3, <1>4, <1>5, <1>8, <1>9

LEMMA CloseMoves ==
  ASSUME E2EInv, NEW c \in DOMAIN cases, NEW by \in Names, E2EAssumption, cases' = Closed(c, by)
  PROVE  /\ CasesMove /\ CasesRest /\ DOMAIN cases' = DOMAIN cases
         /\ cases'[c].status = "closed" /\ cases'[c].closedBy # Nil
<1> DEFINE new == [cases[c] EXCEPT !.status = "closed", !.setBy = by, !.closedBy = by]
<1>1. cases \in Seq(CaseType) /\ cases[c] \in CaseType
  BY DEF E2EInv, TypeInv
<1>2. /\ new \in CaseType /\ new.by = cases[c].by /\ new.closedBy # Nil /\ new.status = "closed"
  BY <1>1 DEF CaseType, CaseStates, E2EAssumption
<1>3. cases' = [cases EXCEPT ![c] = new]
  BY <1>1 DEF Closed, SetStatus
<1> HIDE DEF new
<1>4. /\ cases' \in Seq(CaseType) /\ DOMAIN cases' = DOMAIN cases
      /\ cases'[c] = new /\ \A d \in DOMAIN cases \ {c} : cases'[d] = cases[d]
  BY <1>1, <1>2, <1>3, ReplaceRow
<1>5. CasesMove
  <2>1. \A d \in DOMAIN cases : KeepsCase(d)
    BY <1>2, <1>4 DEF KeepsCase
  <2>2. \A d \in DOMAIN cases' : MarkIsBacked(d)
    BY <1>2, <1>4 DEF MarkIsBacked, MarkedBy
  <2>3. QED
    BY <1>4, <2>1, <2>2 DEF CasesMove
<1>6. CasesRest
  BY <1>2, <1>4 DEF NoneOpened, CasesRest, Settled
<1>7. QED
  BY <1>2, <1>4, <1>5, <1>6

LEMMA OpenMoves ==
  ASSUME E2EInv, NEW by \in Names, cases' = NewCase(by)
  PROVE  /\ CasesMove /\ DOMAIN cases' = DOMAIN cases \cup {Len(cases) + 1}
         /\ \A c \in DOMAIN cases : cases'[c] = cases[c]
         /\ Len(cases) + 1 \in Nat /\ cases'[Len(cases) + 1].by = by
<1>1. Case(by) \in CaseType /\ Case(by).by = by /\ ~ MarkedBy(Case(by), "user")
  BY DEF Case, CaseType, CaseStates, MarkedBy
<1>2. cases \in Seq(CaseType)
  BY DEF E2EInv, TypeInv
<1>3. /\ cases' \in Seq(CaseType) /\ DOMAIN cases' = DOMAIN cases \cup {Len(cases) + 1}
      /\ \A c \in DOMAIN cases : cases'[c] = cases[c]
      /\ cases'[Len(cases) + 1] = Case(by)
  BY <1>1, <1>2, AppendRow DEF NewCase
<1>4. \A c \in DOMAIN cases' : MarkIsBacked(c)
  BY <1>1, <1>3 DEF MarkIsBacked
<1>5. \A c \in DOMAIN cases : KeepsCase(c)
  BY <1>3 DEF KeepsCase
<1>6. QED
  BY <1>1, <1>2, <1>3, <1>4, <1>5 DEF CasesMove

-----------------------------------------------------------------------------
(* What stays, whoever takes the step.                                     *)

LEMMA StillExecuting ==
  ASSUME ProposalsMove, NEW p, Executing(p)
  PROVE  Executing(p)'
BY DEF ProposalsMove, KeepsProposal, Executing

\* What the report claims of rows that the process is done with stays true.
LEMMA ClaimsStay ==
  ASSUME ProposalsMove, CasesMove
  PROVE  /\ process'.proposal = process.proposal => /\ ApprovedIt => ApprovedIt'
                                                    /\ TriedIt => TriedIt'
         /\ process'.case = process.case => (ClosedIt => ClosedIt')
<1>1. PICK p : p = process.proposal
  OBVIOUS
<1>2. PICK c : c = process.case
  OBVIOUS
<1>3. ASSUME p \in DOMAIN proposals
      PROVE  KeepsProposal(p)
  BY <1>3 DEF ProposalsMove
<1>4. ASSUME process'.proposal = p, ApprovedIt
      PROVE  ApprovedIt'
  BY <1>1, <1>3, <1>4 DEF ApprovedIt, KeepsProposal
<1>5. ASSUME process'.proposal = p, TriedIt
      PROVE  TriedIt'
  BY <1>1, <1>3, <1>5 DEF TriedIt, KeepsProposal
<1>6. ASSUME process'.case = c, ClosedIt
      PROVE  ClosedIt'
  <2>1. KeepsCase(c)
    BY <1>2, <1>6 DEF ClosedIt, CasesMove
  <2>2. QED
    BY <1>2, <1>6, <2>1 DEF ClosedIt, KeepsCase
<1>7. QED
  BY <1>1, <1>2, <1>4, <1>5, <1>6

\* A verdict that is there stays, and so do the marks that rest on it.
LEMMA MarksStay ==
  ASSUME E2EInv, ProposalsMove, CasesMove
  PROVE  MarkInv'
<1>1. ASSUME NEW c, ReviewedByUser(c)
      PROVE  ReviewedByUser(c)'
  <2>1. PICK p \in DOMAIN proposals :
          /\ proposals[p].case = c
          /\ \E k \in DOMAIN proposals[p].verdicts : proposals[p].verdicts[k][1] = "user"
    BY <1>1 DEF ReviewedByUser
  <2>2. proposals[p].status # "proposed"
    BY <2>1 DEF E2EInv, Sound
  <2>3. /\ p \in DOMAIN proposals' /\ proposals'[p].case = c
        /\ proposals'[p].verdicts = proposals[p].verdicts
    BY <2>1, <2>2 DEF ProposalsMove, KeepsProposal
  <2>4. QED
    BY <2>1, <2>3 DEF ReviewedByUser
<1>2. ASSUME NEW c \in DOMAIN cases', MarkedBy(cases'[c], "user")
      PROVE  ReviewedByUser(c)'
  <2>1. (c \in DOMAIN cases /\ MarkedBy(cases[c], "user")) \/ ReviewedByUser(c)'
    BY <1>2 DEF CasesMove, MarkIsBacked
  <2>2. ASSUME c \in DOMAIN cases, MarkedBy(cases[c], "user")
        PROVE  ReviewedByUser(c)
    BY <2>2 DEF E2EInv, MarkInv
  <2>3. QED
    BY <1>1, <2>1, <2>2
<1>3. QED
  BY <1>2 DEF MarkInv, MarkedBy

\* No lock is taken or given back, and nothing that is locked changes.
LEMMA LocksStay ==
  ASSUME E2EInv, NoneReviewed, users'.reviewing = users.reviewing,
         process'.at \in {"review", "review_and_mark"} =>
           process'.at = process.at /\ process'.proposal = process.proposal
  PROVE  LockInv'
<1>1. ASSUME InReview'
      PROVE  /\ InReview /\ process'.proposal = process.proposal
             /\ process.proposal \in DOMAIN proposals
             /\ proposals[process.proposal].status = "proposed"
  BY <1>1 DEF InReview, Reached, E2EInv, WorkInv, AtWork, LockInv
<1>2. PICK p : p = process.proposal
  OBVIOUS
<1>3. InReview' => proposals'[process'.proposal].status = "proposed"
  BY <1>1, <1>2 DEF NoneReviewed
<1>4. ASSUME users.reviewing # Nil
      PROVE  /\ users.reviewing.proposal \in DOMAIN proposals
             /\ proposals[users.reviewing.proposal].status = "proposed"
             /\ InReview => process.proposal # users.reviewing.proposal
  BY <1>4 DEF E2EInv, LockInv
<1>5. users'.reviewing # Nil =>
        /\ users'.reviewing.proposal \in DOMAIN proposals'
        /\ proposals'[users'.reviewing.proposal].status = "proposed"
        /\ InReview' => process'.proposal # users'.reviewing.proposal
  BY <1>1, <1>4 DEF NoneReviewed
<1>6. QED
  BY <1>3, <1>5 DEF LockInv

-----------------------------------------------------------------------------
(* Steps of users.                                                         *)

LEMMA UserOK ==
  ASSUME E2EInv, UNCHANGED process, ProposalsMove, CasesMove, CasesRest,
         users' \in UsersType, LockInv',
         users'.executing # Nil => Executing(users'.executing)
  PROVE  E2EInv'
<1>1. TypeInv' /\ \A p \in DOMAIN proposals' : Sound(proposals'[p])
  BY DEF E2EInv, TypeInv, ProposalsMove, CasesMove
<1>2. \A s, v : Reported(s, v)' <=> Reported(s, v)
  BY DEF Reported
<1>3. WorkInv'
  <2>1. PICK e : e = users'.executing
    OBVIOUS
  <2>2. e # Nil => Executing(e)'
    BY <2>1, StillExecuting
  <2>3. PICK p : p = process.proposal
    OBVIOUS
  <2>4. Reached("commit") => Executing(p)'
    BY <2>3, StillExecuting DEF E2EInv, WorkInv
  <2>5. /\ DOMAIN cases \subseteq DOMAIN cases' /\ DOMAIN proposals \subseteq DOMAIN proposals'
    <3>1. \A c \in DOMAIN cases : c \in DOMAIN cases'
      BY DEF CasesMove, KeepsCase
    <3>2. \A q \in DOMAIN proposals : q \in DOMAIN proposals'
      BY DEF ProposalsMove, KeepsProposal
    <3>3. QED
      BY <3>1, <3>2
  <2>6. Reached("commit")' => Executing(process.proposal)'
    BY <2>3, <2>4 DEF Reached, Executing
  <2>7. users'.executing # Nil => Executing(users.executing)'
    BY <2>1, <2>2 DEF Executing
  <2>8. QED
    BY <2>5, <2>6, <2>7 DEF E2EInv, WorkInv
<1>4. ReportInv'
  BY <1>2, ClaimsStay DEF E2EInv, ReportInv
<1>5. CaseInv'
  BY <1>2 DEF E2EInv, CaseInv, CasesRest, NoneOpened, Reached
<1>6. MarkInv'
  BY MarksStay
<1>7. QED
  BY <1>1, <1>3, <1>4, <1>5, <1>6 DEF E2EInv

LEMMA UsesType ==
  ASSUME E2EInv, Uses
  PROVE  /\ users' \in UsersType /\ users'.executing = users.executing
         /\ users'.reviewing = users.reviewing
BY DEF E2EInv, TypeInv, UsersType, Uses

\* Steps of users that take no lock and give none back.
LEMMA UserQuietOK ==
  ASSUME E2EInv, UNCHANGED process, ProposalsMove, NoneReviewed, CasesMove, CasesRest,
         users' \in UsersType, users'.reviewing = users.reviewing,
         users'.executing # Nil => Executing(users'.executing)
  PROVE  E2EInv'
<1>1. LockInv'
  BY LocksStay
<1>2. QED
  BY <1>1, UserOK

LEMMA UserLocksOK ==
  ASSUME E2EInv, UserLocks
  PROVE  E2EInv'
<1>1. PICK p \in DOMAIN proposals, status \in {"approved", "rejected"} :
        /\ ~ LockedByProcess(p) /\ MayReview(p)
        /\ users' = [users EXCEPT !.steps = @ + 1,
                       !.reviewing = [proposal |-> p, status |-> status, marks |-> WillMark(p)]]
  BY DEF UserLocks
<1> DEFINE review == [proposal |-> p, status |-> status, marks |-> WillMark(p)]
<1>2. review \in ReviewType /\ review.proposal = p
  <2>1. p \in Nat /\ WillMark(p) \in BOOLEAN
    BY DEF E2EInv, TypeInv, WillMark
  <2>2. QED
    BY <2>1 DEF ReviewType
<1>3. users' = [users EXCEPT !.steps = @ + 1, !.reviewing = review]
  BY <1>1
<1> HIDE DEF review
<1>4. users' \in UsersType /\ users'.executing = users.executing /\ users'.reviewing = review
  <2>1. users \in UsersType
    BY DEF E2EInv, TypeInv
  <2>2. users' = [steps |-> users.steps + 1, executing |-> users.executing, reviewing |-> review]
    BY <1>3, <2>1 DEF UsersType
  <2>3. users.steps + 1 \in Nat /\ users.executing \in Nat \cup {Nil}
    BY <2>1 DEF UsersType
  <2>4. QED
    BY <1>2, <2>2, <2>3 DEF UsersType
<1>5. UNCHANGED <<cases, proposals, process>>
  BY DEF UserLocks
<1>6. ProposalsMove /\ CasesMove /\ CasesRest
  BY <1>5, RowsStay
<1>7. LockInv'
  <2>1. InReview' => InReview /\ proposals'[process'.proposal].status = "proposed"
    BY <1>5 DEF InReview, Reached, E2EInv, LockInv
  <2>2. InReview => process.proposal # p
    BY <1>1 DEF LockedByProcess
  <2>3. users'.reviewing.proposal = p /\ p \in DOMAIN proposals' /\ proposals'[p].status = "proposed"
    BY <1>1, <1>2, <1>4, <1>5 DEF MayReview
  <2>4. QED
    BY <1>5, <2>1, <2>2, <2>3 DEF LockInv
<1>8. users.executing # Nil => Executing(users.executing)
  BY DEF E2EInv, WorkInv
<1>9. QED
  BY <1>4, <1>5, <1>6, <1>7, <1>8, UserOK

\* The transaction ends, with the row as it was when it was locked.
LEMMA UserReviewsOK ==
  ASSUME E2EInv, UserReviews
  PROVE  E2EInv'
<1> DEFINE review == users.reviewing  p == review.proposal
<1>1. /\ users \in UsersType /\ users.reviewing # Nil
      /\ users' = [users EXCEPT !.reviewing = Nil] /\ UNCHANGED process
  BY DEF UserReviews, E2EInv, TypeInv
<1>2. review.status \in {"approved", "rejected"}
  BY <1>1 DEF UsersType, ReviewType
<1>3. /\ p \in DOMAIN proposals /\ MayReview(p)
      /\ InReview => process.proposal # p
  BY <1>1 DEF E2EInv, LockInv, MayReview
<1>4. /\ users' \in UsersType /\ users'.executing = users.executing /\ users'.reviewing = Nil
  <2>1. users' = [steps |-> users.steps, executing |-> users.executing, reviewing |-> Nil]
    BY <1>1 DEF UsersType
  <2>2. users.steps \in Nat /\ users.executing \in Nat \cup {Nil}
    BY <1>1 DEF UsersType
  <2>3. QED
    BY <2>1, <2>2 DEF UsersType
<1>5. ReviewWrites(p, "user", review.status, review.marks) \/ UNCHANGED <<cases, proposals>>
  BY DEF UserReviews
<1>6. users.executing # Nil => Executing(users.executing)
  BY DEF E2EInv, WorkInv
<1>7. ASSUME \A q \in DOMAIN proposals \ {p} : q \in DOMAIN proposals' /\ proposals'[q] = proposals[q]
      PROVE  LockInv'
  <2>1. ASSUME InReview
        PROVE  process.proposal \in DOMAIN proposals /\ proposals[process.proposal].status = "proposed"
    BY <2>1 DEF InReview, Reached, E2EInv, WorkInv, AtWork, LockInv
  <2>2. InReview' => InReview
    BY <1>1 DEF InReview, Reached
  <2>3. InReview' => proposals'[process'.proposal].status = "proposed"
    BY <1>1, <1>3, <1>7, <2>1, <2>2
  <2>4. QED
    BY <1>4, <2>3 DEF LockInv
<1> HIDE DEF review, p
<1>8. CASE ReviewWrites(p, "user", review.status, review.marks)
  <2>1. "user" \in Names
    BY DEF Names
  <2>2. /\ ProposalsMove /\ DOMAIN proposals' = DOMAIN proposals
        /\ \A q \in DOMAIN proposals \ {p} : proposals'[q] = proposals[q]
    BY <1>2, <1>3, <1>8, <2>1, ReviewMoves
  <2>3. CasesMove /\ CasesRest
    BY <1>2, <1>3, <1>8, <2>1, ReviewMarks
  <2>4. LockInv'
    BY <1>7, <2>2
  <2>5. QED
    BY <1>1, <1>4, <1>6, <2>2, <2>3, <2>4, UserOK
<1>9. CASE UNCHANGED <<cases, proposals>>
  <2>1. ProposalsMove /\ CasesMove /\ CasesRest
    BY <1>9, RowsStay
  <2>2. LockInv'
    BY <1>7, <1>9
  <2>3. QED
    BY <1>1, <1>4, <1>6, <2>1, <2>2, UserOK
<1>10. QED
  BY <1>5, <1>8, <1>9

LEMMA UsersOK ==
  ASSUME E2EAssumption, E2EInv,
         \/ UserOpens \/ UserDecides \/ UserLocks \/ UserReviews \/ UserLoads \/ UserExecutes
         \/ UserCloses
  PROVE  E2EInv'
<1>1. users.executing # Nil => Executing(users.executing)
  BY DEF E2EInv, WorkInv
<1>2. "user" \in Names
  BY DEF Names
<1>3. CASE UserOpens
  <2>1. CasesMove /\ CasesRest
    <3>1. /\ CasesMove /\ DOMAIN cases' = DOMAIN cases \cup {Len(cases) + 1}
          /\ \A c \in DOMAIN cases : cases'[c] = cases[c]
          /\ cases'[Len(cases) + 1].by = "user"
      BY <1>2, <1>3, OpenMoves DEF UserOpens
    <3>2. QED
      BY <3>1 DEF CasesRest, NoneOpened
  <2>2. /\ users' \in UsersType /\ users'.executing = users.executing
        /\ users'.reviewing = users.reviewing
    BY <1>3, UsesType DEF UserOpens
  <2>3. UNCHANGED process /\ ProposalsMove /\ NoneReviewed
    BY <1>3, RowsStay DEF UserOpens
  <2>4. QED
    BY <1>1, <2>1, <2>2, <2>3, UserQuietOK
<1>4. CASE UserDecides
  <2>1. ProposalsMove /\ NoneReviewed /\ CasesMove /\ CasesRest
    BY <1>2, <1>4, DecidesMoves DEF UserDecides
  <2>2. /\ users' \in UsersType /\ users'.executing = users.executing
        /\ users'.reviewing = users.reviewing /\ UNCHANGED process
    BY <1>4, UsesType DEF UserDecides
  <2>3. QED
    BY <1>1, <2>1, <2>2, UserQuietOK
<1>5. CASE UserLocks \/ UserReviews
  BY <1>5, UserLocksOK, UserReviewsOK
<1>6. CASE UserLoads
  <2>1. UNCHANGED process /\ CasesMove /\ CasesRest /\ ProposalsMove /\ NoneReviewed
    BY <1>6, RowsStay DEF UserLoads
  <2>2. /\ users' \in UsersType /\ Executing(users'.executing)
        /\ users'.reviewing = users.reviewing
    <3>1. PICK p \in DOMAIN proposals :
            /\ proposals[p].status = "approved"
            /\ users' = [users EXCEPT !.steps = @ + 1, !.executing = p]
      BY <1>6 DEF UserLoads
    <3>2. p \in Nat /\ users \in UsersType
      BY DEF E2EInv, TypeInv
    <3>3. /\ users' \in UsersType /\ users'.executing = p /\ users'.reviewing = users.reviewing
      <4>1. users' = [steps |-> users.steps + 1, executing |-> p, reviewing |-> users.reviewing]
        BY <3>1, <3>2 DEF UsersType
      <4>2. users.steps + 1 \in Nat /\ users.reviewing \in ReviewType \cup {Nil}
        BY <3>2 DEF UsersType
      <4>3. QED
        BY <3>2, <4>1, <4>2 DEF UsersType
    <3>4. Executing(p)
      BY <3>1 DEF Executing, Executable
    <3>5. QED
      BY <3>3, <3>4
  <2>3. QED
    BY <2>1, <2>2, UserQuietOK
<1>7. CASE UserExecutes
  <2>1. ProposalsMove /\ NoneReviewed
    BY <1>1, <1>2, <1>7, TryMoves DEF UserExecutes
  <2>2. /\ users' \in UsersType /\ users'.executing = Nil /\ users'.reviewing = users.reviewing
        /\ UNCHANGED process /\ CasesMove /\ CasesRest
    BY <1>7, RowsStay DEF UserExecutes, E2EInv, TypeInv, UsersType
  <2>3. QED
    BY <2>1, <2>2, UserQuietOK
<1>8. CASE UserCloses
  <2>1. CasesMove /\ CasesRest
    BY <1>2, <1>8, CloseMoves DEF UserCloses
  <2>2. /\ users' \in UsersType /\ users'.executing = users.executing
        /\ users'.reviewing = users.reviewing
        /\ UNCHANGED process /\ ProposalsMove /\ NoneReviewed
    BY <1>8, RowsStay, UsesType DEF UserCloses
  <2>3. QED
    BY <1>1, <2>1, <2>2, UserQuietOK
<1>9. QED
  BY <1>3, <1>4, <1>5, <1>6, <1>7, <1>8

-----------------------------------------------------------------------------
(* Steps of the process.                                                   *)

\* Once it has its case it goes on, and adds lines to its report.
LEMMA OnwardOK ==
  ASSUME E2EInv, ProposalsMove, CasesMove, NoneOpened, LockInv', UNCHANGED users,
         ~ Reached("killed"),
         process.at \in {"governance", "done"} => CasesRest,
         NEW lines, NEW next \in Places \ (Before \cup {"killed"}), NEW proposal,
         Reports(lines, next, process.case, proposal),
         next \in Working => process.case \in DOMAIN cases,
         next \in AtWork => proposal \in DOMAIN proposals',
         next = "commit" => proposals'[proposal].status \in Executable /\ proposal \in DOMAIN proposals',
         next \in Early => process.at \in Early /\ \A step \in Claims : <<step, "PASS">> \notin lines,
         proposal # process.proposal => process.at \in Early,
         <<"approve_proposal", "PASS">> \in lines => ApprovedIt',
         <<"execute_live", "PASS">> \in lines => TriedIt',
         <<"resolve_case", "PASS">> \in lines => ClosedIt',
         next \in {"governance", "done"} =>
           \/ process.at \in {"governance", "done"} \/ <<"resolve_case", "FAIL">> \in lines
           \/ \A c \in DOMAIN cases' : cases'[c].by = "e2e" =>
                Settled(cases'[c]) \/ Reported("create_decision_case", "FAIL")
  PROVE  E2EInv'
<1>1. /\ process' \in ProcessType /\ process'.at = next /\ process'.case = process.case
      /\ process'.proposal = proposal
      /\ \A s, v : Reported(s, v)' <=> Reported(s, v) \/ <<s, v>> \in lines
  BY DEF Reports, ProcessAt
<1>2. TypeInv' /\ \A p \in DOMAIN proposals' : Sound(proposals'[p])
  BY <1>1 DEF E2EInv, TypeInv, ProposalsMove, CasesMove
<1>3. WorkInv'
  <2>1. PICK e : e = users.executing
    OBVIOUS
  <2>2. users'.executing # Nil => Executing(users.executing)'
    <3>1. e # Nil => Executing(e)'
      BY <2>1, StillExecuting DEF E2EInv, WorkInv
    <3>2. QED
      BY <2>1, <3>1 DEF Executing
  <2>3. process.case \in DOMAIN cases => process.case \in DOMAIN cases'
    BY DEF CasesMove, KeepsCase
  <2>4. QED
    BY <1>1, <2>2, <2>3 DEF WorkInv, Reached, Executing, Working, AtWork
<1>4. ReportInv'
  <2>1. next \in Early => \A step \in Claims : ~ Reported(step, "PASS")'
    BY <1>1 DEF E2EInv, ReportInv
  <2>2. Reported("approve_proposal", "PASS") => ApprovedIt'
    BY <1>1, ClaimsStay DEF E2EInv, ReportInv, Claims
  <2>3. Reported("execute_live", "PASS") => TriedIt'
    BY <1>1, ClaimsStay DEF E2EInv, ReportInv, Claims
  <2>4. Reported("resolve_case", "PASS") => ClosedIt'
    BY <1>1, ClaimsStay DEF E2EInv, ReportInv
  <2>5. QED
    BY <1>1, <2>1, <2>2, <2>3, <2>4 DEF ReportInv
<1>5. CaseInv'
  <2>1. \A c \in DOMAIN cases' : cases'[c].by = "e2e" =>
          c = process.case \/ Reported("create_decision_case", "FAIL")
    BY DEF NoneOpened, E2EInv, CaseInv
  <2>2. process.at \in {"governance", "done"} =>
          \A c \in DOMAIN cases' : cases'[c].by = "e2e" =>
            \/ Settled(cases'[c])
            \/ Reported("create_decision_case", "FAIL") \/ Reported("resolve_case", "FAIL")
    BY DEF NoneOpened, CasesRest, E2EInv, CaseInv
  <2>3. QED
    BY <1>1, <2>1, <2>2 DEF CaseInv, Reached
<1>6. MarkInv'
  BY MarksStay
<1>7. QED
  BY <1>2, <1>3, <1>4, <1>5, <1>6 DEF E2EInv

\* The same for steps whose line may claim something of the rows.
LEMMA ClaimingOK ==
  ASSUME E2EInv, ProposalsMove, CasesMove, NoneOpened, LockInv', UNCHANGED users,
         ~ Reached("killed"),
         process.case \in DOMAIN cases, process.at \notin {"governance", "done"},
         NEW step \in Claims, NEW next \in {"preview", "resolve", "governance"},
         Reports({<<step, "PASS">>}, next, process.case, process.proposal),
         next = "preview" => process.proposal \in DOMAIN proposals',
         step = "approve_proposal" => ApprovedIt',
         step = "execute_live" => TriedIt',
         step = "resolve_case" => ClosedIt',
         next = "governance" => \A c \in DOMAIN cases' : cases'[c].by = "e2e" =>
                                  Settled(cases'[c]) \/ Reported("create_decision_case", "FAIL")
  PROVE  E2EInv'
<1>1. /\ next \in Places \ (Before \cup Early \cup {"killed"})
      /\ next # "commit" /\ (next \in AtWork => next = "preview")
  BY DEF Places, Before, Early, AtWork
<1>2. \A s, v : <<s, v>> \in {<<step, "PASS">>} <=> s = step /\ v = "PASS"
  OBVIOUS
<1>3. "FAIL" # "PASS"
  OBVIOUS
<1> DEFINE lines == {<<step, "PASS">>}
<1> HIDE DEF lines
<1>4. QED
  BY <1>1, <1>2, <1>3, OnwardOK DEF lines

\* The same for steps without a line.
LEMMA SilentOK ==
  ASSUME E2EInv, ProposalsMove, CasesMove, CasesRest, LockInv', UNCHANGED users,
         ~ Reached("killed"),
         NEW next \in {"commit", "done"}, Reports({}, next, process.case, process.proposal),
         next = "commit" => /\ process.case \in DOMAIN cases
                            /\ process.proposal \in DOMAIN proposals'
                            /\ proposals'[process.proposal].status \in Executable,
         next = "done" => process.at = "governance"
  PROVE  E2EInv'
<1>1. /\ next \in Places \ (Before \cup Early \cup {"killed"})
      /\ (next \in AtWork => next = "commit") /\ (next \in Working => next = "commit")
  BY DEF Places, Before, Early, AtWork, Working
<1> DEFINE lines == {}
<1>2. \A s, v : <<s, v>> \notin lines
  OBVIOUS
<1>3. Reports(lines, next, process.case, process.proposal)
  OBVIOUS
<1> HIDE DEF lines
<1>4. QED
  BY <1>1, <1>2, <1>3, OnwardOK DEF CasesRest

\* The same for steps whose lines claim nothing, short of the end.
LEMMA UnclaimedOK ==
  ASSUME E2EInv, ProposalsMove, CasesMove, NoneOpened, LockInv', UNCHANGED users,
         ~ Reached("killed"),
         process.case \in DOMAIN cases,
         NEW step \in Steps \ Claims, NEW verdict, NEW lines \in {{}, {<<step, verdict>>}},
         NEW next \in {"decide", "manual", "fetch", "approve", "review",
                    "review_and_mark", "preview", "load", "resolve"},
         process.at \in {"governance", "done"} => CasesRest,
         next \in Early => process.at \in Early,
         NEW proposal, proposal # process.proposal => process.at \in Early,
         next \in AtWork => proposal \in DOMAIN proposals',
         Reports(lines, next, process.case, proposal)
  PROVE  E2EInv'
<1>1. next \in Places \ (Before \cup {"killed"}) /\ next # "commit"
      /\ next \notin {"governance", "done"}
  BY DEF Places, Before
<1>2. \A claim \in Claims : <<claim, "PASS">> \notin lines
  OBVIOUS
<1>3. /\ <<"approve_proposal", "PASS">> \notin lines /\ <<"execute_live", "PASS">> \notin lines
      /\ <<"resolve_case", "PASS">> \notin lines
  BY <1>2 DEF Claims
<1>4. QED
  BY <1>1, <1>2, <1>3, OnwardOK

\* Its steps outside of a review lock nothing.
LEMMA NoLockTaken ==
  ASSUME E2EInv, NoneReviewed, UNCHANGED users, NEW lines,
         NEW next \in Places \ {"review", "review_and_mark"}, NEW case, NEW proposal,
         Reports(lines, next, case, proposal)
  PROVE  LockInv'
<1>1. process'.at = next
  BY DEF Reports, ProcessAt
<1>2. process'.at \notin {"review", "review_and_mark"} /\ users'.reviewing = users.reviewing
  BY <1>1
<1>3. QED
  BY <1>2, LocksStay

\* Before that it changes no row, or opens a case of its own.
LEMMA BeginsOK ==
  ASSUME E2EInv, UNCHANGED <<proposals, users>>, process.at \in Before,
         NEW lines, NEW next \in Places \ {"killed"}, NEW case,
         Reports(lines, next, case, process.proposal), CasesMove,
         next \in Before \cup {"decide", "governance"},
         \A step \in Claims : <<step, "PASS">> \notin lines,
         next \in Before => UNCHANGED cases,
         next = "decide" => case \in DOMAIN cases',
         \A c \in DOMAIN cases' : cases'[c].by = "e2e" =>
           next \notin Before /\
           (<<"create_decision_case", "FAIL">> \in lines \/ (next # "governance" /\ c = case))
  PROVE  E2EInv'
<1>1. /\ process' \in ProcessType /\ process'.at = next /\ process'.case = case
      /\ process'.proposal = process.proposal
      /\ \A s, v : Reported(s, v)' <=> Reported(s, v) \/ <<s, v>> \in lines
  BY DEF Reports, ProcessAt
<1>2. TypeInv' /\ \A p \in DOMAIN proposals' : Sound(proposals'[p])
  BY <1>1 DEF E2EInv, TypeInv, CasesMove
<1>3. WorkInv'
  BY <1>1 DEF E2EInv, WorkInv, Before, Working, AtWork, Reached, Executing
<1>4. ReportInv'
  <2>1. process.at \in Early
    BY DEF Early
  <2>2. \A step \in Claims : ~ Reported(step, "PASS")'
    BY <1>1, <2>1 DEF E2EInv, ReportInv
  <2>3. QED
    BY <2>2 DEF ReportInv, Claims
<1>5. CaseInv'
  BY <1>1 DEF CaseInv, Reached, Before
<1>6. LockInv' /\ MarkInv'
  <2>1. ProposalsMove /\ NoneReviewed
    BY RowsStay
  <2>2. process'.at \notin {"review", "review_and_mark"} /\ users'.reviewing = users.reviewing
    BY <1>1 DEF Before
  <2>3. QED
    BY <2>1, <2>2, LocksStay, MarksStay
<1>7. QED
  BY <1>2, <1>3, <1>4, <1>5, <1>6 DEF E2EInv

\* Up to the choice of its case.
LEMMA BeginningOK ==
  ASSUME E2EAssumption, E2EInv,
         ProbeSystem \/ EnsureData \/ SelectAlert \/ LookupCase \/ InsertStep
  PROVE  E2EInv'
<1>1. process.at \in Before /\ UNCHANGED <<proposals, users>>
  BY DEF ProbeSystem, EnsureData, SelectAlert, LookupCase, InsertStep, Reached, Before
<1>2. TypeInv /\ \A c \in DOMAIN cases : cases[c].by # "e2e"
  BY <1>1 DEF E2EInv, CaseInv
<1>3. ASSUME NEW next \in Before \cup {"governance"}, Moves(next), UNCHANGED cases
      PROVE  E2EInv'
  <2>1. PICK lines, case : lines = {} /\ case = process.case
    OBVIOUS
  <2>2. Reports(lines, next, case, process.proposal)
    BY <1>2, <1>3, <2>1, GoesReports DEF Before, Places
  <2>3. /\ CasesMove /\ next \in Places \ {"killed"}
        /\ next \in Before \cup {"decide", "governance"} /\ next # "decide"
    BY <1>3, RowsStay DEF Before, Places
  <2>4. \A step \in Claims : <<step, "PASS">> \notin lines
    BY <2>1
  <2>5. \A c \in DOMAIN cases' : cases'[c].by # "e2e"
    BY <1>2, <1>3
  <2>6. QED
    BY <1>1, <1>3, <2>2, <2>3, <2>4, <2>5, BeginsOK
<1>4. ASSUME NEW c \in DOMAIN cases', CasesMove,
             process' = [process EXCEPT !.at = "decide", !.case = c,
                           !.report = Append(@, Line("create_decision_case", "PASS"))],
             \A d \in DOMAIN cases' : cases'[d].by = "e2e" => d = c
      PROVE  E2EInv'
  <2>1. c \in Nat
    BY <1>4 DEF CasesMove
  <2>2. Reports({<<"create_decision_case", "PASS">>}, "decide", c, process.proposal)
    BY <1>2, <1>4, <2>1, TakesReports
  <2>3. QED
    BY <1>1, <1>4, <2>2, BeginsOK DEF Claims, Before, Places
<1>5. CASE ProbeSystem \/ EnsureData \/ SelectAlert
  BY <1>3, <1>5 DEF ProbeSystem, EnsureData, SelectAlert, Before
<1>6. CASE LookupCase
  <2>1. UNCHANGED cases /\ CasesMove
    BY <1>6, RowsStay DEF LookupCase
  <2>2. CASE Moves("insert")
    BY <1>3, <2>1, <2>2 DEF Before
  <2>3. ASSUME NEW c \in Active,
               process' = [process EXCEPT !.at = "decide", !.case = c,
                             !.report = Append(@, Line("create_decision_case", "PASS"))]
        PROVE  E2EInv'
    BY <1>2, <1>4, <2>1, <2>3 DEF Active
  <2>4. QED
    BY <1>6, <2>2, <2>3 DEF LookupCase
<1>7. CASE InsertStep
  <2>1. ASSUME cases' = NewCase("e2e")
        PROVE  /\ CasesMove /\ Len(cases) + 1 \in DOMAIN cases'
               /\ \A d \in DOMAIN cases' : cases'[d].by = "e2e" => d = Len(cases) + 1
    BY <1>2, <2>1, OpenMoves DEF Names
  <2>2. CASE /\ cases' = NewCase("e2e")
             /\ process' = [process EXCEPT !.at = "decide", !.case = Len(cases) + 1,
                              !.report = Append(@, Line("create_decision_case", "PASS"))]
    BY <1>4, <2>1, <2>2
  <2>3. CASE /\ cases' = NewCase("e2e") \/ UNCHANGED cases
             /\ Records("create_decision_case", "FAIL", "governance")
    <3>1. Reports({<<"create_decision_case", "FAIL">>}, "governance", process.case,
                  process.proposal)
      BY <1>2, <2>3, RecordsReport DEF Places, Steps
    <3>2. CasesMove
      BY <2>1, <2>3, RowsStay
    <3>3. QED
      BY <1>1, <3>1, <3>2, BeginsOK DEF Claims, Before, Places
  <2>4. QED
    BY <1>7, <2>2, <2>3 DEF InsertStep
<1>8. QED
  BY <1>5, <1>6, <1>7

\* The decision, and the proposal that is worked on.
LEMMA DecideOK ==
  ASSUME E2EAssumption, E2EInv, DecideCase
  PROVE  E2EInv'
<1>1. /\ process.at = "decide" /\ process.case \in DOMAIN cases /\ TypeInv /\ UNCHANGED users
      /\ ~ Reached("killed")
  BY DEF DecideCase, Reached, E2EInv, WorkInv, Working
<1>2. ASSUME NEW n \in Recommended, NEW mark \in Marks, Decides(process.case, "e2e", n, mark)
      PROVE  /\ ProposalsMove /\ NoneReviewed /\ CasesMove /\ NoneOpened
             /\ (n > 0 => Len(proposals) + 1 \in DOMAIN proposals')
  BY <1>1, <1>2, DecidesMoves DEF Names
<1>3. ASSUME NEW n \in Recommended, Decides(process.case, "e2e", n, "proposal_generated"),
             process' = [process EXCEPT !.at = IF n > 0 THEN "approve" ELSE "manual",
                           !.proposal = IF n > 0 THEN Len(proposals) + 1 ELSE Nil,
                           !.report = Append(@, Line("decide", IF n > 0 THEN "PASS" ELSE "WARN"))]
      PROVE  E2EInv'
  <2> DEFINE next == IF n > 0 THEN "approve" ELSE "manual"
             p    == IF n > 0 THEN Len(proposals) + 1 ELSE Nil
             line == IF n > 0 THEN "PASS" ELSE "WARN"
  <2>1. p \in Nat \cup {Nil} /\ next \in {"approve", "manual"} /\ line \in {"PASS", "WARN"}
    BY <1>1 DEF TypeInv
  <2>2. Reports({<<"decide", line>>}, next, process.case, p)
    BY <1>1, <1>3, <2>1, FindsReports DEF Places, Steps
  <2>3. next = "approve" => p \in DOMAIN proposals'
    BY <1>2, <1>3 DEF Marks
  <2> HIDE DEF next, p, line
  <2>4. QED
    <3>1. "decide" \in Steps \ Claims /\ process.at \in Early /\ process.at \notin {"governance", "done"}
      BY <1>1 DEF Steps, Claims, Early
    <3>2. next \in AtWork => next = "approve"
      BY <2>1 DEF AtWork
    <3>3. ProposalsMove /\ NoneReviewed /\ CasesMove /\ NoneOpened
      BY <1>2, <1>3 DEF Marks
    <3>4. /\ next \in {"decide", "manual", "fetch", "approve", "review", "review_and_mark",
                      "preview", "load", "resolve"}
          /\ next \in AtWork => p \in DOMAIN proposals'
          /\ {<<"decide", line>>} \in {{}, {<<"decide", line>>}}
      BY <2>1, <2>3, <3>2
    <3>5. LockInv'
      <4>1. next \in Places \ {"review", "review_and_mark"}
        BY <2>1 DEF Places
      <4>2. QED
        BY <1>1, <2>2, <3>3, <4>1, NoLockTaken
    <3>6. QED
      BY <1>1, <2>2, <3>1, <3>3, <3>4, <3>5, UnclaimedOK
<1>4. ASSUME Records("decide", "FAIL", "manual"), ProposalsMove, NoneReviewed, CasesMove, NoneOpened
      PROVE  E2EInv'
  <2>1. Reports({<<"decide", "FAIL">>}, "manual", process.case, process.proposal)
    BY <1>1, <1>4, RecordsReport DEF Places, Steps
  <2>2. QED
    <3>1. "decide" \in Steps \ Claims /\ process.at \in Early /\ process.at \notin {"governance", "done"}
      BY <1>1 DEF Steps, Claims, Early
    <3>2. "manual" \notin AtWork
      BY DEF AtWork
    <3>3. LockInv'
      BY <1>1, <1>4, <2>1, NoLockTaken DEF Places
    <3>4. QED
      BY <1>1, <1>4, <2>1, <3>1, <3>2, <3>3, UnclaimedOK
<1>5. UNCHANGED <<cases, proposals>> => ProposalsMove /\ NoneReviewed /\ CasesMove /\ NoneOpened
  BY RowsStay DEF CasesRest
<1>6. PICK n \in Recommended :
        \/ /\ Decides(process.case, "e2e", n, "proposal_generated")
           /\ process' = [process EXCEPT !.at = IF n > 0 THEN "approve" ELSE "manual",
                           !.proposal = IF n > 0 THEN Len(proposals) + 1 ELSE Nil,
                           !.report = Append(@, Line("decide", IF n > 0 THEN "PASS" ELSE "WARN"))]
        \/ /\ \/ \E mark \in Marks : Decides(process.case, "e2e", n, mark)
              \/ UNCHANGED <<cases, proposals>>
           /\ Records("decide", "FAIL", "manual")
  BY DEF DecideCase
<1>7. CASE Records("decide", "FAIL", "manual")
  <2>1. CASE \E mark \in Marks : Decides(process.case, "e2e", n, mark)
    BY <1>2, <1>4, <1>7, <2>1
  <2>2. CASE UNCHANGED <<cases, proposals>>
    BY <1>4, <1>5, <1>7, <2>2
  <2>3. CASE Decides(process.case, "e2e", n, "proposal_generated")
    BY <2>1, <2>3 DEF Marks
  <2>4. QED
    BY <1>6, <2>1, <2>2, <2>3
<1>8. CASE ~ Records("decide", "FAIL", "manual")
  BY <1>3, <1>6, <1>8
<1>9. QED
  BY <1>7, <1>8

\* A proposal made by hand.
LEMMA ManualOK ==
  ASSUME E2EInv, ManualPropose \/ FetchProposal
  PROVE  E2EInv'
<1>1. /\ process.at \in {"manual", "fetch"} /\ process.case \in DOMAIN cases /\ TypeInv
      /\ UNCHANGED <<cases, users>> /\ ~ Reached("killed")
  BY DEF ManualPropose, FetchProposal, Reached, E2EInv, WorkInv, Working
<1>2. CasesMove /\ NoneOpened
  BY <1>1, RowsStay DEF CasesRest
<1>3. process.case \in Nat \cup {Nil}
  BY <1>1 DEF TypeInv, ProcessType
<1>4. ASSUME NEW step \in {"manual_propose", "manual_propose_fetch"}, UNCHANGED proposals,
             Records(step, "FAIL", "resolve")
      PROVE  E2EInv'
  <2>1. Reports({<<step, "FAIL">>}, "resolve", process.case, process.proposal)
    BY <1>1, <1>4, RecordsReport DEF Places, Steps
  <2>2. ProposalsMove /\ NoneReviewed
    BY <1>4, RowsStay
  <2>3. LockInv'
    BY <1>1, <2>1, <2>2, NoLockTaken DEF Places
  <2>4. QED
    <3>1. step \in Steps \ Claims /\ process.at \in Early /\ process.at \notin {"governance", "done"}
      BY <1>1 DEF Steps, Claims, Early
    <3>2. "resolve" \notin AtWork
      BY DEF AtWork
    <3>3. QED
      BY <1>1, <1>2, <2>1, <2>2, <2>3, <3>1, <3>2, UnclaimedOK
<1>5. CASE ManualPropose
  <2>1. CASE proposals' \in {proposals, Append(proposals, Made("e2e", process.case))}
             /\ Moves("fetch")
    <3>1. ProposalsMove /\ NoneReviewed
      BY <1>3, <2>1, ManualMoves, RowsStay
    <3>2. Reports({}, "fetch", process.case, process.proposal)
      BY <1>1, <2>1, GoesReports DEF Places
    <3>3. /\ "decide" \in Steps \ Claims /\ process.at \in Early
          /\ process.at \notin {"governance", "done"} /\ "fetch" \notin AtWork
      BY <1>1 DEF Steps, Claims, Early, AtWork
    <3>4. LockInv'
      BY <1>1, <3>1, <3>2, NoLockTaken DEF Places
    <3>5. QED
      BY <1>1, <1>2, <3>1, <3>2, <3>3, <3>4, UnclaimedOK
  <2>2. QED
    BY <1>4, <1>5, <2>1 DEF ManualPropose
<1>6. CASE FetchProposal
  <2>1. UNCHANGED proposals /\ ProposalsMove /\ NoneReviewed
    BY <1>6, RowsStay DEF FetchProposal
  <2>2. ASSUME NEW p \in Listed,
               process' = [process EXCEPT !.at = "approve", !.proposal = p,
                             !.report = Append(@, Line("manual_propose", "PASS"))]
        PROVE  E2EInv'
    <3>1. p \in DOMAIN proposals /\ p \in Nat
      BY <1>1 DEF Listed, TypeInv
    <3>2. Reports({<<"manual_propose", "PASS">>}, "approve", process.case, p)
      BY <1>1, <2>2, <3>1, FindsReports DEF Places, Steps
    <3>3. LockInv'
      BY <1>1, <2>1, <3>2, NoLockTaken DEF Places
    <3>4. /\ "manual_propose" \in Steps \ Claims /\ process.at \in Early
          /\ process.at \notin {"governance", "done"} /\ p \in DOMAIN proposals'
      BY <1>1, <2>1, <3>1 DEF Steps, Claims, Early
    <3>5. QED
      BY <1>1, <1>2, <2>1, <3>2, <3>3, <3>4, UnclaimedOK
  <2>3. QED
    BY <1>4, <1>6, <2>1, <2>2 DEF FetchProposal
<1>7. QED
  BY <1>5, <1>6

\* A line of a step that failed, after which the case is resolved.
LEMMA FailsOK ==
  ASSUME E2EInv, ProposalsMove, CasesMove, NoneOpened, LockInv', UNCHANGED users,
         NEW step \in Steps, process.at \in AtWork, Records(step, "FAIL", "resolve")
  PROVE  E2EInv'
<1>1. process.case \in DOMAIN cases /\ TypeInv /\ ~ Reached("killed")
  BY DEF AtWork, Working, Reached, E2EInv, WorkInv
<1>2. Reports({<<step, "FAIL">>}, "resolve", process.case, process.proposal)
  BY <1>1, RecordsReport DEF Places
<1>3. /\ process.at \notin {"governance", "done"} /\ "resolve" \notin Early \cup AtWork \cup Before
      /\ "resolve" \in Places
  BY DEF AtWork, Early, Before, Places
<1>4. \A s : <<s, "PASS">> \notin {<<step, "FAIL">>}
  OBVIOUS
<1>5. QED
  BY <1>1, <1>2, <1>3, <1>4, OnwardOK

\* The same without a change of the rows.
LEMMA FailsQuietlyOK ==
  ASSUME E2EInv, UNCHANGED <<cases, proposals, users>>,
         NEW step \in Steps, process.at \in AtWork, Records(step, "FAIL", "resolve")
  PROVE  E2EInv'
<1>1. ProposalsMove /\ NoneReviewed /\ CasesMove /\ NoneOpened
  BY RowsStay DEF CasesRest
<1>2. Reports({<<step, "FAIL">>}, "resolve", process.case, process.proposal)
  BY RecordsReport DEF Places, E2EInv
<1>3. LockInv'
  BY <1>1, <1>2, NoLockTaken DEF Places
<1>4. QED
  BY <1>1, <1>3, FailsOK

LEMMA LockOK ==
  ASSUME E2EInv, LockProposal
  PROVE  E2EInv'
<1>1. /\ process.at = "approve" /\ process.case \in DOMAIN cases /\ TypeInv
      /\ process.proposal \in DOMAIN proposals /\ UNCHANGED <<cases, proposals, users>>
      /\ ~ Reached("killed")
  BY DEF LockProposal, Reached, E2EInv, WorkInv, Working, AtWork
<1>2. CASE Records("approve_proposal", "FAIL", "resolve")
  BY <1>1, <1>2, FailsQuietlyOK DEF Steps, AtWork
<1>3. ASSUME NEW next \in {"review", "review_and_mark"}, Moves(next),
             ~ LockedByUser(process.proposal), MayReview(process.proposal)
      PROVE  E2EInv'
  <2>1. Reports({}, next, process.case, process.proposal)
    BY <1>1, <1>3, GoesReports DEF Places
  <2>2. ProposalsMove /\ CasesMove /\ NoneOpened
    BY <1>1, RowsStay DEF CasesRest
  <2>3. LockInv'
    <3>1. process'.proposal = process.proposal /\ proposals' = proposals /\ users' = users
      BY <1>1, <2>1 DEF Reports, ProcessAt
    <3>2. proposals[process.proposal].status = "proposed"
      BY <1>3 DEF MayReview
    <3>3. users.reviewing # Nil =>
            /\ users.reviewing.proposal \in DOMAIN proposals
            /\ proposals[users.reviewing.proposal].status = "proposed"
            /\ process.proposal # users.reviewing.proposal
      BY <1>3 DEF LockedByUser, E2EInv, LockInv
    <3>4. QED
      BY <3>1, <3>2, <3>3 DEF LockInv
  <2>4. /\ "decide" \in Steps \ Claims /\ process.at \in Early
        /\ process.at \notin {"governance", "done"} /\ process.proposal \in DOMAIN proposals'
    BY <1>1 DEF Steps, Claims, Early
  <2>5. QED
    BY <1>1, <2>1, <2>2, <2>3, <2>4, UnclaimedOK
<1>4. QED
  BY <1>2, <1>3 DEF LockProposal

LEMMA ApproveOK ==
  ASSUME E2EInv, ApproveProposal
  PROVE  E2EInv'
<1>1. PICK p : p = process.proposal
  OBVIOUS
<1>2. /\ process.at \in {"review", "review_and_mark"} /\ process.case \in DOMAIN cases /\ TypeInv
      /\ p \in DOMAIN proposals /\ UNCHANGED users /\ ~ Reached("killed") /\ MayReview(p)
      /\ process.at \in AtWork
  BY <1>1 DEF ApproveProposal, InReview, Reached, E2EInv, WorkInv, LockInv, Working, AtWork, MayReview
<1>3. ASSUME NEW step \in Steps, NEW verdict \in {"PASS", "WARN", "FAIL"},
             NEW next \in {"preview", "resolve"}, Records(step, verdict, next),
             \A q \in DOMAIN proposals \ {p} : q \in DOMAIN proposals' /\ proposals'[q] = proposals[q]
      PROVE  LockInv'
  <2>1. ~ InReview'
    BY <1>2, <1>3 DEF Records, TypeInv, ProcessType, InReview, Reached
  <2>2. users.reviewing # Nil =>
          /\ users.reviewing.proposal \in DOMAIN proposals
          /\ proposals[users.reviewing.proposal].status = "proposed"
          /\ p # users.reviewing.proposal
    BY <1>1, <1>2 DEF E2EInv, LockInv, InReview, Reached
  <2>3. QED
    BY <1>2, <1>3, <2>1, <2>2 DEF LockInv
<1>4. CASE ReviewWrites(p, "e2e", "approved", Reached("review_and_mark"))
  <2>1. /\ ProposalsMove /\ DOMAIN proposals' = DOMAIN proposals
        /\ \A q \in DOMAIN proposals \ {p} : proposals'[q] = proposals[q]
        /\ proposals'[p].verdicts = <<<<"e2e", "approved">>>>
        /\ proposals'[p].status = "approved"
    BY <1>2, <1>4, ReviewMoves DEF Names
  <2>2. CasesMove /\ NoneOpened
    BY <1>2, <1>4, ReviewMarks DEF Names
  <2>3. CASE Records("approve_proposal", "FAIL", "resolve")
    <3>1. LockInv'
      BY <1>3, <2>1, <2>3 DEF Steps
    <3>2. QED
      BY <1>2, <2>1, <2>2, <2>3, <3>1, FailsOK DEF Steps
  <2>4. CASE Records("approve_proposal", "PASS", "preview")
    <3>1. Reports({<<"approve_proposal", "PASS">>}, "preview", process.case, p)
      BY <1>1, <1>2, <2>4, RecordsReport DEF Places, Steps
    <3>2. p \in DOMAIN proposals' /\ ApprovedIt'
      BY <1>2, <2>1, <3>1 DEF ApprovedIt, Reports, ProcessAt
    <3>3. LockInv'
      BY <1>3, <2>1, <2>4 DEF Steps
    <3>4. process.at \notin {"governance", "done"}
      BY <1>2
    <3>5. QED
      BY <1>1, <1>2, <2>1, <2>2, <3>1, <3>2, <3>3, <3>4, ClaimingOK DEF Claims
  <2>5. QED
    BY <2>3, <2>4 DEF ApproveProposal
<1>5. CASE UNCHANGED <<cases, proposals>> /\ Records("approve_proposal", "FAIL", "resolve")
  BY <1>2, <1>5, FailsQuietlyOK DEF Steps
<1>6. QED
  BY <1>1, <1>4, <1>5 DEF ApproveProposal

LEMMA PreviewOK ==
  ASSUME E2EInv, ExecuteDryRun
  PROVE  E2EInv'
<1>1. /\ process.at = "preview" /\ process.case \in DOMAIN cases /\ TypeInv /\ ~ Reached("killed")
      /\ process.proposal \in DOMAIN proposals /\ UNCHANGED <<cases, proposals, users>>
  BY DEF ExecuteDryRun, Reached, E2EInv, WorkInv, Working, AtWork
<1>2. CasesMove /\ NoneOpened /\ ProposalsMove /\ NoneReviewed
  BY <1>1, RowsStay DEF CasesRest
<1>3. CASE Records("execute_dry_run", "FAIL", "resolve")
  BY <1>1, <1>3, FailsQuietlyOK DEF Steps, AtWork
<1>4. CASE Records("execute_dry_run", "PASS", AfterPreview)
  <2>1. AfterPreview \in {"load", "resolve"} /\ AfterPreview \in Places \ Early
    BY DEF AfterPreview, Places, Early, Before
  <2>2. "execute_dry_run" \in Steps \ Claims
    BY DEF Steps, Claims
  <2>3. Reports({<<"execute_dry_run", "PASS">>}, AfterPreview, process.case, process.proposal)
    BY <1>1, <1>4, <2>1, <2>2, RecordsReport
  <2>4. LockInv'
    BY <1>1, <1>2, <2>1, <2>3, NoLockTaken DEF Early
  <2>5. QED
    BY <1>1, <1>2, <2>1, <2>2, <2>3, <2>4, UnclaimedOK
<1>5. QED
  BY <1>3, <1>4 DEF ExecuteDryRun

LEMMA LoadOK ==
  ASSUME E2EInv, ExecuteLoad
  PROVE  E2EInv'
<1>1. /\ process.at = "load" /\ process.case \in DOMAIN cases /\ TypeInv /\ ~ Reached("killed")
      /\ process.proposal \in DOMAIN proposals /\ UNCHANGED <<cases, proposals, users>>
  BY DEF ExecuteLoad, Reached, E2EInv, WorkInv, Working, AtWork
<1>2. CasesMove /\ CasesRest /\ NoneOpened /\ ProposalsMove /\ NoneReviewed
  BY <1>1, RowsStay DEF CasesRest
<1>3. CASE Records("execute_live", "FAIL", "resolve")
  BY <1>1, <1>3, FailsQuietlyOK DEF Steps, AtWork
<1>4. CASE proposals[process.proposal].status = "approved" /\ Moves("commit")
  <2>1. Reports({}, "commit", process.case, process.proposal)
    BY <1>1, <1>4, GoesReports DEF Places
  <2>2. /\ proposals'[process.proposal].status \in Executable
        /\ process.proposal \in DOMAIN proposals'
    BY <1>1, <1>4 DEF Executable
  <2>3. LockInv'
    BY <1>1, <1>2, <2>1, NoLockTaken DEF Places
  <2>4. QED
    BY <1>1, <1>2, <2>1, <2>2, <2>3, SilentOK
<1>5. QED
  BY <1>3, <1>4 DEF ExecuteLoad

LEMMA LiveOK ==
  ASSUME E2EInv, ExecuteLive
  PROVE  E2EInv'
<1>1. /\ process.at = "commit" /\ process.case \in DOMAIN cases /\ TypeInv
      /\ Executing(process.proposal) /\ UNCHANGED <<cases, users>> /\ ~ Reached("killed")
  BY DEF ExecuteLive, Reached, E2EInv, WorkInv, Working, AtWork
<1>2. CasesMove /\ NoneOpened
  BY <1>1, RowsStay DEF CasesRest
<1>3. CASE Records("execute_live", "FAIL", "resolve")
  <2>1. ProposalsMove /\ NoneReviewed
    BY <1>1, RowsStay, TryMoves DEF ExecuteLive, Names, Outcome
  <2>2. Reports({<<"execute_live", "FAIL">>}, "resolve", process.case, process.proposal)
    BY <1>1, <1>3, RecordsReport DEF Places, Steps
  <2>3. LockInv'
    BY <1>1, <2>1, <2>2, NoLockTaken DEF Places
  <2>4. QED
    BY <1>1, <1>2, <1>3, <2>1, <2>3, FailsOK DEF Steps, AtWork
<1>4. CASE /\ proposals' = Tried(process.proposal, "e2e", Outcome)
           /\ Records("execute_live", "PASS", "resolve")
  <2>1. PICK p : p = process.proposal
    OBVIOUS
  <2>2. /\ ProposalsMove /\ NoneReviewed /\ DOMAIN proposals' = DOMAIN proposals
        /\ \E k \in DOMAIN proposals'[p].tries : proposals'[p].tries[k] = <<"e2e", "failed">>
    BY <1>1, <1>4, <2>1, TryMoves DEF Names, Outcome
  <2>3. Reports({<<"execute_live", "PASS">>}, "resolve", process.case, p)
    BY <1>1, <1>4, <2>1, RecordsReport DEF Places, Steps
  <2>4. TriedIt'
    BY <1>1, <2>1, <2>2, <2>3 DEF TriedIt, Reports, ProcessAt, Executing
  <2>5. LockInv'
    BY <1>1, <2>2, <2>3, NoLockTaken DEF Places
  <2>6. QED
    BY <1>1, <1>2, <2>1, <2>2, <2>3, <2>4, <2>5, ClaimingOK DEF Claims
<1>5. QED
  BY <1>1, <1>3, <1>4 DEF ExecuteLive

LEMMA ResolveOK ==
  ASSUME E2EAssumption, E2EInv, ResolveStep
  PROVE  E2EInv'
<1>1. /\ process.at = "resolve" /\ process.case \in DOMAIN cases /\ TypeInv
      /\ UNCHANGED <<proposals, users>> /\ ~ Reached("killed")
  BY DEF ResolveStep, Reached, E2EInv, WorkInv, Working, AtWork
<1>2. ProposalsMove /\ NoneReviewed
  BY <1>1, RowsStay
<1>3. "governance" \in Places \ (Before \cup Early \cup Working \cup AtWork \cup {"killed"})
  BY DEF Places, Before, Early, Working, AtWork
<1>4. CASE cases' = Closed(process.case, "e2e") /\ Records("resolve_case", "PASS", "governance")
  <2>1. PICK c : c = process.case
    OBVIOUS
  <2>2. /\ CasesMove /\ CasesRest /\ DOMAIN cases' = DOMAIN cases
        /\ cases'[c].status = "closed" /\ cases'[c].closedBy # Nil
    BY <1>1, <1>4, <2>1, CloseMoves DEF Names
  <2>3. Reports({<<"resolve_case", "PASS">>}, "governance", c, process.proposal)
    BY <1>1, <1>4, <2>1, RecordsReport DEF Places, Steps
  <2>4. ClosedIt'
    BY <1>1, <2>1, <2>2, <2>3 DEF ClosedIt, Reports, ProcessAt
  <2>5. \A d \in DOMAIN cases' : cases'[d].by = "e2e" =>
          Settled(cases'[d]) \/ Reported("create_decision_case", "FAIL")
    <3>1. \A d \in DOMAIN cases' : cases'[d].by = "e2e" =>
            d = c \/ Reported("create_decision_case", "FAIL")
      BY <1>1, <2>1, <2>2 DEF CasesRest, NoneOpened, E2EInv, CaseInv
    <3>2. QED
      BY <2>2, <3>1 DEF Settled
  <2>6. LockInv'
    BY <1>1, <1>2, <2>3, NoLockTaken DEF Places
  <2>7. QED
    BY <1>1, <1>2, <2>1, <2>2, <2>3, <2>4, <2>5, <2>6, ClaimingOK DEF Claims, CasesRest
<1>5. CASE Records("resolve_case", "FAIL", "governance")
  <2>1. CasesMove /\ CasesRest
    BY <1>1, RowsStay, CloseMoves DEF ResolveStep, Names
  <2>2. Reports({<<"resolve_case", "FAIL">>}, "governance", process.case, process.proposal)
    BY <1>1, <1>5, RecordsReport DEF Places, Steps
  <2>3. \A s : <<s, "PASS">> \notin {<<"resolve_case", "FAIL">>}
    OBVIOUS
  <2>4. LockInv'
    BY <1>1, <1>2, <2>2, NoLockTaken DEF Places
  <2>5. QED
    BY <1>1, <1>2, <1>3, <2>1, <2>2, <2>3, <2>4, OnwardOK DEF CasesRest
<1>6. QED
  BY <1>4, <1>5 DEF ResolveStep

\* The end, by itself or by a signal.
LEMMA EndOK ==
  ASSUME E2EInv, RunGovernanceChecks \/ Killed
  PROVE  E2EInv'
<1>1. UNCHANGED <<cases, proposals, users>> /\ TypeInv
  BY DEF RunGovernanceChecks, Killed, E2EInv
<1>2. CasesMove /\ CasesRest /\ NoneOpened /\ ProposalsMove /\ NoneReviewed
  BY <1>1, RowsStay DEF CasesRest
<1>3. CASE RunGovernanceChecks
  <2>1. process.at = "governance" /\ ~ Reached("killed") /\ Moves("done")
    BY <1>3 DEF RunGovernanceChecks, Reached
  <2>2. Reports({}, "done", process.case, process.proposal)
    BY <1>1, <2>1, GoesReports DEF Places
  <2>3. LockInv'
    BY <1>1, <1>2, <2>2, NoLockTaken DEF Places
  <2>4. QED
    BY <1>1, <1>2, <2>1, <2>2, <2>3, SilentOK
<1>4. CASE Killed
  <2>1. /\ process'.at = "killed" /\ process'.report = <<>>
        /\ process' = [at |-> "killed", case |-> Nil, proposal |-> Nil, report |-> <<>>]
    BY <1>4 DEF Killed, NotStarted
  <2>2. process' \in ProcessType
    BY <2>1 DEF ProcessType, Places
  <2>3. \A s, v : ~ Reported(s, v)'
    BY <2>1 DEF Reported
  <2>4. TypeInv' /\ \A p \in DOMAIN proposals' : Sound(proposals'[p])
    BY <1>1, <2>2 DEF E2EInv, TypeInv
  <2>5. WorkInv'
    BY <1>1, <2>1 DEF E2EInv, WorkInv, Reached, Executing, Working, AtWork
  <2>6. ReportInv'
    BY <2>3 DEF ReportInv
  <2>7. CaseInv'
    BY <2>1 DEF CaseInv, Reached, Before
  <2>8. LockInv' /\ MarkInv'
    <3>1. process'.at \notin {"review", "review_and_mark"} /\ users'.reviewing = users.reviewing
      BY <1>1, <2>1
    <3>2. QED
      BY <1>2, <3>1, LocksStay, MarksStay
  <2>9. QED
    BY <2>4, <2>5, <2>6, <2>7, <2>8 DEF E2EInv
<1>5. QED
  BY <1>3, <1>4

-----------------------------------------------------------------------------
(* The theorem.                                                            *)

LEMMA InitE2EInv ==
  ASSUME E2EAssumption, E2EInit
  PROVE  E2EInv
<1>1. /\ process = [at |-> "probe", case |-> Nil, proposal |-> Nil, report |-> <<>>]
      /\ users = [steps |-> 0, executing |-> Nil, reviewing |-> Nil]
  BY DEF E2EInit, NotStarted
<1>2. \A s, v : ~ Reported(s, v)
  BY <1>1 DEF Reported
<1>3. /\ cases \in Seq(CaseType) /\ proposals \in Seq(ProposalType)
      /\ \A c \in DOMAIN cases : cases[c].by = "earlier" /\ cases[c].status = "closed"
      /\ \A p \in DOMAIN proposals : Sound(proposals[p])
  <2>1. CASE cases = <<>> /\ proposals = <<>>
    BY <2>1
  <2>2. ASSUME NEW status \in Leftovers,
               cases = <<[Case("earlier") EXCEPT !.status = "closed", !.closedBy = "earlier"]>>,
               NEW verdict, verdict = IF status = "rejected" THEN status ELSE "approved",
               proposals = <<[Made("earlier", 1) EXCEPT !.status = status,
                 !.verdicts = IF status = "proposed" THEN @ ELSE <<<<"earlier", verdict>>>>,
                 !.tries = IF status \in {"applied", "failed"} THEN <<<<"earlier", status>>>> ELSE @]>>
        PROVE  /\ cases \in Seq(CaseType) /\ proposals \in Seq(ProposalType)
               /\ \A c \in DOMAIN cases : cases[c].by = "earlier" /\ cases[c].status = "closed"
               /\ \A p \in DOMAIN proposals : Sound(proposals[p])
    <3> DEFINE old == Case("earlier")
               c   == [old EXCEPT !.status = "closed", !.closedBy = "earlier"]
               new == Made("earlier", 1)
               v   == IF status = "proposed" THEN new.verdicts ELSE <<<<"earlier", verdict>>>>
               t   == IF status \in {"applied", "failed"} THEN <<<<"earlier", status>>>> ELSE new.tries
               p   == [new EXCEPT !.status = status, !.verdicts = v, !.tries = t]
    <3>1. old \in CaseType /\ old.by = "earlier"
      BY DEF Case, CaseType, CaseStates, Names
    <3>2. new \in ProposalType /\ new.verdicts = <<>> /\ new.tries = <<>>
      BY MadeIsSound DEF Names, Made
    <3>3. cases = <<c>> /\ proposals = <<p>>
      BY <2>2
    <3> HIDE DEF old, new
    <3>4. c \in CaseType /\ c.by = "earlier" /\ c.status = "closed"
      BY <3>1 DEF CaseType, CaseStates, Names
    <3>5. status \in Statuses
      BY DEF E2EAssumption
    <3>6. <<"earlier", verdict>> \in Verdict /\ <<"earlier", status>> \in Verdict
      BY <2>2, <3>5 DEF Verdict, Names, Statuses
    <3>7. v \in Seq(Verdict) /\ t \in Seq(Verdict)
      BY <3>2, <3>6
    <3>8. /\ status = "proposed" => v = <<>>
          /\ status # "proposed" => Len(v) = 1 /\ (status # "rejected" => v[1][2] = "approved")
          /\ status \notin {"applied", "failed"} => t = <<>>
      BY <2>2, <3>2
    <3> HIDE DEF v, t
    <3>9. /\ p \in ProposalType /\ p.status = status /\ p.verdicts = v /\ p.tries = t
      BY <3>2, <3>5, <3>7 DEF ProposalType
    <3>10. Sound(p)
      BY <3>5, <3>8, <3>9 DEF Sound, Executable
    <3> HIDE DEF c, p
    <3>11. QED
      BY <3>3, <3>4, <3>9, <3>10
  <2>3. QED
    BY <2>1, <2>2 DEF E2EInit
<1>4. TypeInv
  BY <1>1, <1>3 DEF TypeInv, ProcessType, UsersType, Places
<1>5. WorkInv /\ LockInv
  BY <1>1 DEF WorkInv, Working, AtWork, LockInv, InReview, Reached
<1>6. ReportInv
  BY <1>2 DEF ReportInv
<1>7. CaseInv
  BY <1>1, <1>3 DEF CaseInv, Reached
<1>8. MarkInv
  BY <1>3 DEF MarkInv, MarkedBy
<1>9. QED
  BY <1>3, <1>4, <1>5, <1>6, <1>7, <1>8 DEF E2EInv

LEMMA NextE2EInv ==
  ASSUME E2EAssumption, E2EInv, [E2ENext]_e2eVars
  PROVE  E2EInv'
<1>1. CASE ProbeSystem \/ EnsureData \/ SelectAlert \/ LookupCase \/ InsertStep
  BY <1>1, BeginningOK
<1>2. CASE DecideCase
  BY <1>2, DecideOK
<1>3. CASE ManualPropose \/ FetchProposal
  BY <1>3, ManualOK
<1>4. CASE LockProposal \/ ApproveProposal
  BY <1>4, LockOK, ApproveOK
<1>5. CASE ExecuteDryRun
  BY <1>5, PreviewOK
<1>6. CASE ExecuteLoad
  BY <1>6, LoadOK
<1>7. CASE ExecuteLive
  BY <1>7, LiveOK
<1>8. CASE ResolveStep
  BY <1>8, ResolveOK
<1>9. CASE RunGovernanceChecks \/ Killed
  BY <1>9, EndOK
<1>10. CASE \/ UserOpens \/ UserDecides \/ UserLocks \/ UserReviews \/ UserLoads
            \/ UserExecutes \/ UserCloses
  BY <1>10, UsersOK
<1>11. CASE UNCHANGED e2eVars
  <2>1. UNCHANGED <<cases, proposals, process, users>>
    BY <1>11 DEF e2eVars
  <2>2. users \in UsersType /\ (users.executing # Nil => Executing(users.executing))
    BY DEF E2EInv, TypeInv, WorkInv
  <2>3. QED
    BY <2>1, <2>2, RowsStay, UserQuietOK
<1>12. QED
  BY <1>1, <1>2, <1>3, <1>4, <1>5, <1>6, <1>7, <1>8, <1>9, <1>10, <1>11 DEF E2ENext

LEMMA InvReport ==
  ASSUME E2EInv
  PROVE  LifecycleReportIsTrue
<1>1. \A p \in DOMAIN proposals : Sound(proposals[p]) /\ proposals[p] \in ProposalType
  BY DEF E2EInv, TypeInv
<1>2. ASSUME NEW p \in DOMAIN proposals, proposals[p].tries # <<>>
      PROVE  Len(proposals[p].verdicts) = 1 /\ proposals[p].verdicts[1][2] = "approved"
  BY <1>1, <1>2 DEF Sound
<1>3. ASSUME Reached("done"), NEW c \in Active, cases[c].by = "e2e"
      PROVE  \/ /\ cases[c].setBy = "user"
                /\ \/ cases[c].status \in Marks
                   \/ cases[c].status = "review_required" /\ ReviewedByUser(c)
             \/ Reported("create_decision_case", "FAIL") \/ Reported("resolve_case", "FAIL")
  <2>1. \/ Settled(cases[c])
        \/ Reported("create_decision_case", "FAIL") \/ Reported("resolve_case", "FAIL")
    BY <1>3 DEF E2EInv, CaseInv, Reached, Active
  <2>2. MarkedBy(cases[c], "user") => ReviewedByUser(c)
    BY <1>3 DEF E2EInv, MarkInv, Active
  <2>3. QED
    BY <1>3, <2>1, <2>2 DEF Settled, MarkedBy, Active
<1>4. ReportInv
  BY DEF E2EInv
<1>5. QED
  BY <1>2, <1>3, <1>4 DEF LifecycleReportIsTrue, ReportInv, ApprovedIt, TriedIt, ClosedIt

\* What the end-to-end run reports stays true of the rows, whatever users of
\* the API and the MCP server do meanwhile, however often they do it and
\* wherever the process is killed: an approval it reports is the only verdict,
\* an execution it reports was tried and failed, a case it reports as closed
\* was closed.  None of its own is left open without a line that says so,
\* unless a user has decided it again or has reviewed one of its proposals,
\* and then the verdict is there; nothing is tried without one approval.
THEOREM ReportIsTrue == E2ESpec => []LifecycleReportIsTrue
<1>1. E2EInit => E2EInv
  BY E2EAssumption, InitE2EInv
<1>2. E2EInv /\ [E2ENext]_e2eVars => E2EInv'
  BY E2EAssumption, NextE2EInv
<1>3. E2EInv => LifecycleReportIsTrue
  BY InvReport
<1>4. QED
  BY <1>1, <1>2, <1>3, PTL DEF E2ESpec
=============================================================================
