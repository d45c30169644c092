------------------------------ MODULE Proposal ------------------------------
(***************************************************************************)
(* Action proposals: how a decision creates them, how a human reviews      *)
(* them, and how they are executed.                                        *)
(*                                                                         *)
(*   internal/service/decision_service.go    Decide                        *)
(*   internal/decision/engine.go             GenerateDecision              *)
(*   internal/action/proposal_service.go     GenerateProposals             *)
(*   internal/review/service.go              transitionProposal            *)
(*   internal/action/apply_service.go        ExecuteProposal               *)
(*   cmd/baxi-mcp/main.go                    ProposeAction, ResolveCase    *)
(*                                                                         *)
(* A review is one transaction that locks the proposal's row first.  An    *)
(* execution reads the proposal outside of its transaction, then locks the *)
(* row by updating it, calls the external system while it holds the lock,  *)
(* and commits.  What a transaction writes is seen when it commits: the    *)
(* status "applying" never is.  Decide writes without a transaction.       *)
(***************************************************************************)
EXTENDS Naturals, Sequences, FiniteSets

CONSTANTS
  Cases,
  Proposals,
  CaseOf,            \* CaseOf[p]: the case that p is proposed for
  Deciders,          \* Decide calls in progress at the same time
  Reviewers,         \* review calls in progress at the same time
  Appliers,          \* execute calls in progress at the same time
  Equipped,          \* those of the API, whose ApplyService has executors
  Whitelisted,       \* proposals whose action_type is in the ActionRegistry
  MaxProposalFaults, \* how many transactions, replies and processes are lost
  NoOne,             \* no process
  NoCase             \* no case

ASSUME ProposalAssumption ==
  /\ CaseOf \in [Proposals -> Cases]
  /\ IsFiniteSet(Appliers)
  /\ Equipped \subseteq Appliers
  /\ Whitelisted \subseteq Proposals
  /\ Reviewers \cap Appliers = {}
  /\ NoOne \notin Reviewers \cup Appliers
  /\ NoCase \notin Cases
  /\ MaxProposalFaults \in Nat

VARIABLES
  proposalStatus, \* proposalStatus[p]: the committed apply_status, "absent" before INSERT
  reviews,        \* reviews[p]: verdicts of the committed review records
  recorded,       \* recorded[p]: outbox events committed for p
  holder,         \* holder[p]: whose transaction holds the lock of p's row
  caseStatus,     \* caseStatus[c]: the status of the case
  deciding,       \* deciding[d]: the case whose decision call d has saved, until
                  \* all of its writes are done
  review,         \* review[r]: the review call r
  apply,          \* apply[x]: the execute call x
  effects,        \* history: times an external system acted on p
  proposalLost,   \* history: such times that no committed "applied" stands for
  proposalFaults  \* history: faults so far

tableVars       == <<proposalStatus, reviews, recorded, holder>>
caseVars        == <<caseStatus, deciding>>
proposalHistory == <<effects, proposalLost>>
proposalVars    == <<tableVars, caseVars, review, apply, proposalHistory, proposalFaults>>

Processes     == Reviewers \cup Appliers
ApplyStatuses == {"absent", "proposed", "approved", "rejected", "applied", "failed"}
CaseStatuses  == {"absent", "open", "created", "decision_generated",
                 "proposal_generated", "review_required", "closed", "failed"}
ReviewVerdicts == {"approve", "reject", "cancel"}

\* step, the proposal, the verdict, and whether the case is to be moved.
Reviewing == [step : {"locked", "ready"}, p : Proposals, verdict : ReviewVerdicts,
              move : BOOLEAN]
\* step, the proposal, and the outcome of the external call.
Applying == [step : {"loaded", "begun", "executed"}, p : Proposals,
             outcome : {"none", "ok", "failed"}]
Idle == [step |-> "idle"]

ProposalInit ==
  /\ proposalStatus = [p \in Proposals |-> "absent"]
  /\ reviews = [p \in Proposals |-> << >>]
  /\ recorded = [p \in Proposals |-> 0]
  /\ holder = [p \in Proposals |-> NoOne]
  /\ caseStatus = [c \in Cases |-> "absent"]
  /\ deciding = [d \in Deciders |-> NoCase]
  /\ review = [r \in Reviewers |-> Idle]
  /\ apply = [x \in Appliers |-> Idle]
  /\ effects = [p \in Proposals |-> 0]
  /\ proposalLost = [p \in Proposals |-> 0]
  /\ proposalFaults = 0

-----------------------------------------------------------------------------
(* Decide and ResolveCase: single statements, no transaction, no guard on  *)
(* the status that they replace.  ProposeAction inserts a case and its     *)
(* proposal in one transaction.                                            *)

SetCase(c, s) == caseStatus' = [caseStatus EXCEPT ![c] = s]

CaseExists(c) == caseStatus[c] # "absent"

CreateCaseFromAlert(c) ==
  /\ ~ CaseExists(c)
  /\ SetCase(c, "created")
  /\ UNCHANGED <<tableVars, deciding, review, apply, proposalHistory, proposalFaults>>

\* GenerateDecision has saved a decision, of the provider or of the fallback.
DecisionGenerated(d, c) ==
  /\ CaseExists(c)
  /\ deciding[d] = NoCase
  /\ SetCase(c, "decision_generated")
  /\ deciding' = [deciding EXCEPT ![d] = c]
  /\ UNCHANGED <<tableVars, review, apply, proposalHistory, proposalFaults>>

\* The provider and the fallback have both failed.
DecisionFailed(d, c) ==
  /\ CaseExists(c)
  /\ deciding[d] = NoCase
  /\ SetCase(c, "failed")
  /\ UNCHANGED <<tableVars, deciding, review, apply, proposalHistory, proposalFaults>>

\* One INSERT for each recommended action.
CreateProposal(d, p) ==
  /\ deciding[d] = CaseOf[p]
  /\ proposalStatus[p] = "absent"
  /\ proposalStatus' = [proposalStatus EXCEPT ![p] = "proposed"]
  /\ UNCHANGED <<reviews, recorded, holder, caseVars, review, apply, proposalHistory,
                 proposalFaults>>

ProposalsGenerated(d) ==
  /\ deciding[d] # NoCase
  /\ SetCase(deciding[d], "proposal_generated")
  /\ deciding' = [deciding EXCEPT ![d] = NoCase]
  /\ UNCHANGED <<tableVars, review, apply, proposalHistory, proposalFaults>>

\* CreateProposal or UpdateCaseStatus returns an error, or the process dies:
\* the proposals created so far stay.
DecideAborts(d) ==
  /\ deciding[d] # NoCase
  /\ deciding' = [deciding EXCEPT ![d] = NoCase]
  /\ UNCHANGED <<tableVars, caseStatus, review, apply, proposalHistory, proposalFaults>>

\* The tool of the MCP server; its INSERT of the case fails when there is one.
ProposeAction(p) ==
  /\ ~ CaseExists(CaseOf[p])
  /\ proposalStatus[p] = "absent"
  /\ SetCase(CaseOf[p], "open")
  /\ proposalStatus' = [proposalStatus EXCEPT ![p] = "proposed"]
  /\ UNCHANGED <<reviews, recorded, holder, deciding, review, apply, proposalHistory,
                 proposalFaults>>

ResolveCase(c) ==
  /\ CaseExists(c)
  /\ SetCase(c, "closed")
  /\ UNCHANGED <<tableVars, deciding, review, apply, proposalHistory, proposalFaults>>

-----------------------------------------------------------------------------
(* transitionProposal: ApproveProposal, RejectProposal, CancelProposal.    *)

Lock(p, process) ==
  /\ holder[p] = NoOne
  /\ holder' = [holder EXCEPT ![p] = process]

Release(p) == holder' = [holder EXCEPT ![p] = NoOne]

\* Mutant: CancelProposal and ApproveProposal with the same newStatus.
NewStatusOfCancel(verdict) == IF verdict = "reject" THEN "rejected" ELSE "approved"

NewStatus(verdict) == IF verdict = "approve" THEN "approved" ELSE "rejected"

\* Mutant: SELECT without FOR UPDATE, and the UPDATE does not wait either.
ReviewLockFree(r, p, verdict) ==
  /\ review[r] = Idle
  /\ proposalStatus[p] = "proposed"
  /\ review' = [review EXCEPT ![r] =
       [step |-> "locked", p |-> p, verdict |-> verdict, move |-> FALSE]]
  /\ UNCHANGED <<tableVars, caseVars, apply, proposalHistory, proposalFaults>>

\* SELECT ... FOR UPDATE waits for the lock and then sees the last commit.
ReviewLock(r, p, verdict) ==
  /\ review[r] = Idle
  /\ Lock(p, r)
  /\ proposalStatus[p] = "proposed"
  /\ review' = [review EXCEPT ![r] =
       [step |-> "locked", p |-> p, verdict |-> verdict, move |-> FALSE]]
  /\ UNCHANGED <<proposalStatus, reviews, recorded, caseVars, apply, proposalHistory,
                 proposalFaults>>

\* updateCaseStatusIfNeeded reads the case without locking it.
ReviewReadCase(r) ==
  /\ review[r].step = "locked"
  /\ LET c == CaseOf[review[r].p]
     IN review' = [review EXCEPT ![r].step = "ready",
                                 ![r].move = (caseStatus[c] = "proposal_generated")]
  /\ UNCHANGED <<tableVars, caseVars, apply, proposalHistory, proposalFaults>>

\* The case's UPDATE, the audit record and the commit.
ReviewCommit(r) ==
  /\ review[r].step = "ready"
  /\ LET p == review[r].p
     IN /\ proposalStatus' = [proposalStatus EXCEPT ![p] = NewStatus(review[r].verdict)]
        /\ reviews' = [reviews EXCEPT ![p] = Append(@, review[r].verdict)]
        /\ IF review[r].move THEN SetCase(CaseOf[p], "review_required")
                             ELSE UNCHANGED caseStatus
        /\ Release(p)
  /\ review' = [review EXCEPT ![r] = Idle]
  /\ UNCHANGED <<recorded, deciding, apply, proposalHistory, proposalFaults>>

\* A statement or the commit fails, the request times out, the process dies.
ReviewAborts(r) ==
  /\ review[r] # Idle
  /\ proposalFaults < MaxProposalFaults
  /\ proposalFaults' = proposalFaults + 1
  /\ Release(review[r].p)
  /\ review' = [review EXCEPT ![r] = Idle]
  /\ UNCHANGED <<proposalStatus, reviews, recorded, caseVars, apply, proposalHistory>>

-----------------------------------------------------------------------------
(* ExecuteProposal with dry_run = false; a dry run changes nothing.        *)

\* Mutant: a failed proposal may be executed again.
ApplyLoadFailedToo(x, p) ==
  /\ apply[x] = Idle
  /\ proposalStatus[p] \in {"approved", "failed"}
  /\ p \in Whitelisted
  /\ apply' = [apply EXCEPT ![x] = [step |-> "loaded", p |-> p, outcome |-> "none"]]
  /\ UNCHANGED <<tableVars, caseVars, review, proposalHistory, proposalFaults>>

\* GetProposalByID reads outside of the transaction and takes no lock.
ApplyLoad(x, p) ==
  /\ apply[x] = Idle
  /\ proposalStatus[p] = "approved"
  /\ p \in Whitelisted
  /\ apply' = [apply EXCEPT ![x] = [step |-> "loaded", p |-> p, outcome |-> "none"]]
  /\ UNCHANGED <<tableVars, caseVars, review, proposalHistory, proposalFaults>>

\* BEGIN, and the UPDATE to "applying" that waits for the lock.  The status
\* loaded before is not looked at again.
ApplyBegin(x) ==
  /\ apply[x].step = "loaded"
  /\ Lock(apply[x].p, x)
  /\ apply' = [apply EXCEPT ![x].step = "begun"]
  /\ UNCHANGED <<proposalStatus, reviews, recorded, caseVars, review, proposalHistory,
                 proposalFaults>>

ApplyEnds(x, newStatus) ==
  /\ proposalStatus' = [proposalStatus EXCEPT ![apply[x].p] = newStatus]
  /\ Release(apply[x].p)
  /\ apply' = [apply EXCEPT ![x] = Idle]
  /\ UNCHANGED <<reviews, caseVars, review, proposalFaults>>

\* Mutant: return before the commit, in a function without deferred Rollback.
ApplyNoExecutorKeepsLock(x) ==
  /\ apply[x].step = "begun"
  /\ x \notin Equipped
  /\ apply' = [apply EXCEPT ![x] = Idle]
  /\ UNCHANGED <<tableVars, caseVars, review, proposalHistory, proposalFaults>>

\* An ApplyService without executors, as in baxi-mcp and baxi-cli.
ApplyNoExecutor(x) ==
  /\ apply[x].step = "begun"
  /\ x \notin Equipped
  /\ ApplyEnds(x, "failed")
  /\ UNCHANGED <<recorded, proposalHistory>>

Executed(x, outcome) ==
  /\ apply[x].step = "begun"
  /\ x \in Equipped
  /\ apply' = [apply EXCEPT ![x].step = "executed", ![x].outcome = outcome]
  /\ UNCHANGED <<tableVars, caseVars, review>>

ApplyExecutes(x) ==
  /\ Executed(x, "ok")
  /\ effects' = [effects EXCEPT ![apply[x].p] = @ + 1]
  /\ UNCHANGED <<proposalLost, proposalFaults>>

ApplyExecuteFails(x) ==
  /\ Executed(x, "failed")
  /\ UNCHANGED <<proposalHistory, proposalFaults>>

\* The external system acted, and its answer was lost or not understood.
ApplyExecuteTimesOut(x) ==
  /\ Executed(x, "failed")
  /\ proposalFaults < MaxProposalFaults
  /\ proposalFaults' = proposalFaults + 1
  /\ effects' = [effects EXCEPT ![apply[x].p] = @ + 1]
  /\ proposalLost' = [proposalLost EXCEPT ![apply[x].p] = @ + 1]

\* Mutant: updateProposalStatus("approved") where updateProposalToApplied belongs.
ApplyCommitStaysApproved(x) ==
  /\ apply[x].step = "executed"
  /\ apply[x].outcome = "ok"
  /\ ApplyEnds(x, "approved")
  /\ recorded' = [recorded EXCEPT ![apply[x].p] = @ + 1]
  /\ UNCHANGED proposalHistory

\* updateProposalToApplied, CreateOutboxEventFromProposal, the audit record and
\* the commit.
ApplyCommit(x) ==
  /\ apply[x].step = "executed"
  /\ apply[x].outcome = "ok"
  /\ ApplyEnds(x, "applied")
  /\ recorded' = [recorded EXCEPT ![apply[x].p] = @ + 1]
  /\ UNCHANGED proposalHistory

\* Mutant: the outbox event is created whatever the outcome.
ApplyCommitFailureWithEvent(x) ==
  /\ apply[x].step = "executed"
  /\ apply[x].outcome = "failed"
  /\ ApplyEnds(x, "failed")
  /\ recorded' = [recorded EXCEPT ![apply[x].p] = @ + 1]
  /\ UNCHANGED proposalHistory

ApplyCommitFailure(x) ==
  /\ apply[x].step = "executed"
  /\ apply[x].outcome = "failed"
  /\ ApplyEnds(x, "failed")
  /\ UNCHANGED <<recorded, proposalHistory>>

\* A statement or the commit fails, the request times out, the process dies;
\* what the external system did is done.
ApplyAborts(x) ==
  /\ apply[x] # Idle
  /\ proposalFaults < MaxProposalFaults
  /\ proposalFaults' = proposalFaults + 1
  /\ LET p == apply[x].p
     IN /\ holder' = [holder EXCEPT ![p] = IF @ = x THEN NoOne ELSE @]
        /\ proposalLost' = [proposalLost EXCEPT ![p] = IF apply[x].outcome = "ok" THEN @ + 1 ELSE @]
  /\ apply' = [apply EXCEPT ![x] = Idle]
  /\ UNCHANGED <<proposalStatus, reviews, recorded, caseVars, review, effects>>

-----------------------------------------------------------------------------

DecideStep(d) ==
  \/ \E c \in Cases : DecisionGenerated(d, c) \/ DecisionFailed(d, c)
  \/ \E p \in Proposals : CreateProposal(d, p)
  \/ ProposalsGenerated(d)
  \/ DecideAborts(d)

ReviewStarts(r) ==
  \E p \in Proposals, verdict \in ReviewVerdicts : ReviewLock(r, p, verdict)

ReviewProceeds(r) == ReviewReadCase(r) \/ ReviewCommit(r)

ApplyStarts(x) == \E p \in Proposals : ApplyLoad(x, p)

ApplyProceeds(x) ==
  \/ ApplyBegin(x) \/ ApplyNoExecutor(x)
  \/ ApplyExecutes(x) \/ ApplyExecuteFails(x)
  \/ ApplyCommit(x) \/ ApplyCommitFailure(x)

ProposalNext ==
  \/ \E d \in Deciders : DecideStep(d)
  \/ \E c \in Cases : CreateCaseFromAlert(c) \/ ResolveCase(c)
  \/ \E p \in Proposals : ProposeAction(p)
  \/ \E r \in Reviewers : ReviewStarts(r) \/ ReviewProceeds(r) \/ ReviewAborts(r)
  \/ \E x \in Appliers :
       ApplyStarts(x) \/ ApplyProceeds(x) \/ ApplyExecuteTimesOut(x) \/ ApplyAborts(x)

ProposalSpec == ProposalInit /\ [][ProposalNext]_proposalVars

\* A call in progress goes on: its handler runs in a goroutine of its own, the
\* database answers, and the adapters give up after their HTTP timeout.
\* Nothing is assumed about the clients that start calls.
FairProposalSpec ==
  /\ ProposalSpec
  /\ \A r \in Reviewers : WF_proposalVars(ReviewProceeds(r))
  /\ \A x \in Appliers : WF_proposalVars(ApplyProceeds(x))

-----------------------------------------------------------------------------
(* Properties.                                                             *)

ReviewHolds(r, p) == review[r] # Idle /\ review[r].p = p
ApplyHolds(x, p) == apply[x].step \in {"begun", "executed"} /\ apply[x].p = p

\* The lock of a row is held by the transaction that works on it.
HolderOK ==
  \A p \in Proposals :
    /\ \A r \in Reviewers : (holder[p] = r) <=> ReviewHolds(r, p)
    /\ \A x \in Appliers : (holder[p] = x) <=> ApplyHolds(x, p)

\* Every variable has its type, and locks and calls agree.
ProposalTypeOK ==
  /\ proposalStatus \in [Proposals -> ApplyStatuses]
  /\ reviews \in [Proposals -> Seq(ReviewVerdicts)]
  /\ recorded \in [Proposals -> Nat]
  /\ holder \in [Proposals -> Processes \cup {NoOne}]
  /\ caseStatus \in [Cases -> CaseStatuses]
  /\ deciding \in [Deciders -> Cases \cup {NoCase}]
  /\ review \in [Reviewers -> Reviewing \cup {Idle}]
  /\ apply \in [Appliers -> Applying \cup {Idle}]
  /\ effects \in [Proposals -> Nat]
  /\ proposalLost \in [Proposals -> Nat]
  /\ proposalFaults \in 0 .. MaxProposalFaults
  /\ HolderOK

\* A proposal is reviewed at most once, and exactly once if it has left
\* "proposed": reviewers that come together do not both get their verdict in.
ReviewedOnce ==
  \A p \in Proposals :
    Len(reviews[p]) = IF proposalStatus[p] \in {"absent", "proposed"} THEN 0 ELSE 1

\* No external system acts on a proposal that a human has not approved.
ActsOnlyIfApproved ==
  \A p \in Proposals : effects[p] > 0 => reviews[p] = <<"approve">>

\* Executions whose transaction is still to commit.
InFlight(p) ==
  {x \in Appliers : apply[x] # Idle /\ apply[x].p = p /\ apply[x].outcome = "ok"}

\* Each time an external system acted there is one outbox event, unless the
\* transaction is still open or was lost: "applied" and its event are one write.
EffectsAreRecorded ==
  \A p \in Proposals : effects[p] = recorded[p] + proposalLost[p] + Cardinality(InFlight(p))

\* Every concurrent call may act once on the status it read before, and after
\* the first commit no further call is let in.
EffectsAreBounded ==
  \A p \in Proposals : effects[p] <= Cardinality(Equipped) + proposalLost[p]

\* One execute call at a time: a proposal that is reported as applied has
\* exactly one outbox event, one that is not has none, and one that is reported
\* as failed has reached the external system only with an answer that was lost.
ReportsAreTrue ==
  \A p \in Proposals :
    /\ recorded[p] = IF proposalStatus[p] = "applied" THEN 1 ELSE 0
    /\ proposalStatus[p] = "failed" => effects[p] = proposalLost[p]

\* A call that has started comes to its end: no lock is left behind and no two
\* transactions wait for each other.
CallsReturn ==
  /\ \A r \in Reviewers : review[r] # Idle ~> review[r] = Idle
  /\ \A x \in Appliers : apply[x] # Idle ~> apply[x] = Idle

\* One execute call at a time: the proposals behave as ProposalLifecycle says.
Lifecycle == INSTANCE ProposalLifecycle
  WITH state <- proposalStatus, acted <- [p \in Proposals |-> effects[p] > 0]

KeepsItsPromises == Lifecycle!Spec

\* phase-7-review-action-outbox-plan.md, 2: applied is a final state, what was
\* executed with success cannot be reversed.
AppliedIsFinal ==
  [][\A p \in Proposals :
       proposalStatus[p] = "applied" => proposalStatus'[p] = "applied"]_proposalStatus

=============================================================================
