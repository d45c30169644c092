--------------------------- MODULE ProposalProofs ---------------------------
(***************************************************************************)
(* Theorems about Proposal, for every number of cases, proposals, callers  *)
(* and faults.                                                             *)
(*                                                                         *)
(*   ProposalTypeCorrect  []ProposalTypeOK, row locks included.            *)
(*   ReviewsAreUnique     []ReviewedOnce                                   *)
(*   ApprovalComesFirst   []ActsOnlyIfApproved                             *)
(*   EffectsRecorded      []EffectsAreRecorded                             *)
(*   EffectsBounded       []EffectsAreBounded                              *)
(*                                                                         *)
(* and for at most one execute call at a time                              *)
(*                                                                         *)
(*   ReportsHold          []ReportsAreTrue                                 *)
(*   PromisesKept         KeepsItsPromises, the refinement of              *)
(*                     ProposalLifecycle.                                  *)
(***************************************************************************)
EXTENDS Proposal, FiniteSetTheorems, TLAPS

-----------------------------------------------------------------------------
(* Types and locks.                                                        *)

\* A call that is not idle is a record with a proposal of its own.
LEMMA CallsAreRecords ==
  ASSUME ProposalTypeOK
  PROVE  /\ \A r \in Reviewers : review[r] # Idle =>
              review[r] \in Reviewing /\ review[r].p \in Proposals
         /\ \A x \in Appliers : apply[x] # Idle =>
              apply[x] \in Applying /\ apply[x].p \in Proposals
  BY DEF ProposalTypeOK, Reviewing, Applying

\* The steps of records that are not Idle are not Idle's.
LEMMA StepsDiffer ==
  /\ \A a \in Reviewing : a # Idle
  /\ \A a \in Applying : a # Idle
  /\ Idle.step = "idle"
  BY DEF Reviewing, Applying, Idle

\* Counters count.
LEMMA CounterType ==
  ASSUME NEW f \in [Proposals -> Nat], NEW p \in Proposals
  PROVE  [f EXCEPT ![p] = @ + 1] \in [Proposals -> Nat]
  OBVIOUS

LEMMA FaultType ==
  ASSUME NEW n \in 0 .. MaxProposalFaults, n < MaxProposalFaults
  PROVE  n + 1 \in 0 .. MaxProposalFaults
  BY ProposalAssumption

LEMMA InitType == ProposalInit => ProposalTypeOK
  BY ProposalAssumption
     DEF ProposalInit, ProposalTypeOK, HolderOK, ReviewHolds, ApplyHolds, Processes, ApplyStatuses,
         CaseStatuses, Idle

\* A step of no review and no execution leaves the locks alone.
LEMMA LocksUntouched ==
  ASSUME HolderOK, UNCHANGED <<holder, review, apply>>
  PROVE  HolderOK'
  BY DEF HolderOK, ReviewHolds, ApplyHolds

\* A step that leaves locks alone, and who works on what.
LEMMA SameHolders ==
  ASSUME HolderOK, holder' = holder,
         \A s \in Reviewers, q \in Proposals : ReviewHolds(s, q)' <=> ReviewHolds(s, q),
         \A y \in Appliers, q \in Proposals : ApplyHolds(y, q)' <=> ApplyHolds(y, q)
  PROVE  HolderOK'
  BY DEF HolderOK

\* A step of the review r, and a step of the execution x, concern no other call.
LEMMA ReviewFrame ==
  ASSUME ProposalTypeOK, NEW r \in Reviewers, NEW v,
         review' = [review EXCEPT ![r] = v], apply' = apply
  PROVE  /\ \A s \in Reviewers, q \in Proposals :
              ReviewHolds(s, q)' <=> IF s = r THEN v # Idle /\ v.p = q ELSE ReviewHolds(s, q)
         /\ \A y \in Appliers, q \in Proposals : ApplyHolds(y, q)' <=> ApplyHolds(y, q)
         /\ review'[r] = v
         /\ \A s \in Reviewers \ {r} : review'[s] = review[s]
  BY DEF ProposalTypeOK, ReviewHolds, ApplyHolds

LEMMA ApplyFrame ==
  ASSUME ProposalTypeOK, NEW x \in Appliers, NEW v,
         apply' = [apply EXCEPT ![x] = v], review' = review
  PROVE  /\ \A s \in Reviewers, q \in Proposals : ReviewHolds(s, q)' <=> ReviewHolds(s, q)
         /\ \A y \in Appliers, q \in Proposals :
              ApplyHolds(y, q)' <=> IF y = x THEN v.step \in {"begun", "executed"} /\ v.p = q
                                    ELSE ApplyHolds(y, q)
         /\ apply'[x] = v
         /\ \A y \in Appliers \ {x} : apply'[y] = apply[y]
  BY DEF ProposalTypeOK, ReviewHolds, ApplyHolds

\* A step that takes the lock of p for the call c.
LEMMA LockTaken ==
  ASSUME ProposalTypeOK, NEW p \in Proposals, NEW c \in Processes, Lock(p, c),
         \A s \in Reviewers, q \in Proposals :
           ReviewHolds(s, q)' <=> IF s = c THEN q = p ELSE ReviewHolds(s, q),
         \A y \in Appliers, q \in Proposals :
           ApplyHolds(y, q)' <=> IF y = c THEN q = p ELSE ApplyHolds(y, q),
         \A q \in Proposals : holder[q] # c
  PROVE  /\ HolderOK'
         /\ holder' \in [Proposals -> Processes \cup {NoOne}]
<1>1. /\ holder \in [Proposals -> Processes \cup {NoOne}]
      /\ holder[p] = NoOne
      /\ \A q \in Proposals : holder'[q] = IF q = p THEN c ELSE holder[q]
      /\ holder' \in [Proposals -> Processes \cup {NoOne}]
  BY DEF ProposalTypeOK, Lock
<1>2. NoOne \notin Processes /\ Reviewers \subseteq Processes /\ Appliers \subseteq Processes
  BY ProposalAssumption DEF Processes
<1>3. ASSUME NEW q \in Proposals, NEW s \in Reviewers
      PROVE  (holder'[q] = s) <=> ReviewHolds(s, q)'
  <2>1. (holder[q] = s) <=> ReviewHolds(s, q)
    BY DEF ProposalTypeOK, HolderOK
  <2>2. CASE s = c
    BY <1>1, <1>2, <2>1, <2>2
  <2>3. CASE s # c
    BY <1>1, <1>2, <2>1, <2>3
  <2> QED BY <2>2, <2>3
<1>4. ASSUME NEW q \in Proposals, NEW y \in Appliers
      PROVE  (holder'[q] = y) <=> ApplyHolds(y, q)'
  <2>1. (holder[q] = y) <=> ApplyHolds(y, q)
    BY DEF ProposalTypeOK, HolderOK
  <2>2. CASE y = c
    BY <1>1, <1>2, <2>1, <2>2
  <2>3. CASE y # c
    BY <1>1, <1>2, <2>1, <2>3
  <2> QED BY <2>2, <2>3
<1> QED BY <1>1, <1>3, <1>4 DEF HolderOK

\* A step with which the call c ends, and its lock, if it has one, is released.
LEMMA LockReleased ==
  ASSUME ProposalTypeOK, NEW p \in Proposals, NEW c \in Processes,
         holder[p] # c => holder' = holder,
         holder[p] = c => Release(p),
         \A q \in Proposals : holder[q] = c => q = p,
         \A s \in Reviewers, q \in Proposals :
           ReviewHolds(s, q)' <=> (s # c /\ ReviewHolds(s, q)),
         \A y \in Appliers, q \in Proposals :
           ApplyHolds(y, q)' <=> (y # c /\ ApplyHolds(y, q))
  PROVE  /\ HolderOK'
         /\ holder' \in [Proposals -> Processes \cup {NoOne}]
<1>1. /\ holder \in [Proposals -> Processes \cup {NoOne}]
      /\ \A q \in Proposals : holder'[q] = IF holder[q] = c THEN NoOne ELSE holder[q]
      /\ holder' \in [Proposals -> Processes \cup {NoOne}]
  BY DEF ProposalTypeOK, Release
<1>2. NoOne \notin Processes /\ Reviewers \subseteq Processes /\ Appliers \subseteq Processes
  BY ProposalAssumption DEF Processes
<1>3. ASSUME NEW q \in Proposals, NEW s \in Reviewers
      PROVE  (holder'[q] = s) <=> ReviewHolds(s, q)'
  <2>1. (holder[q] = s) <=> ReviewHolds(s, q)
    BY DEF ProposalTypeOK, HolderOK
  <2>2. CASE s = c
    BY <1>1, <1>2, <2>1, <2>2
  <2>3. CASE s # c
    BY <1>1, <1>2, <2>1, <2>3
  <2> QED BY <2>2, <2>3
<1>4. ASSUME NEW q \in Proposals, NEW y \in Appliers
      PROVE  (holder'[q] = y) <=> ApplyHolds(y, q)'
  <2>1. (holder[q] = y) <=> ApplyHolds(y, q)
    BY DEF ProposalTypeOK, HolderOK
  <2>2. CASE y = c
    BY <1>1, <1>2, <2>1, <2>2
  <2>3. CASE y # c
    BY <1>1, <1>2, <2>1, <2>3
  <2> QED BY <2>2, <2>3
<1> QED BY <1>1, <1>3, <1>4 DEF HolderOK

\* Decide, CreateCaseFromAlert, ProposeAction and ResolveCase take no lock.
LEMMA DecideType ==
  ASSUME ProposalTypeOK,
         \/ \E d \in Deciders : DecideStep(d)
         \/ \E c \in Cases : CreateCaseFromAlert(c) \/ ResolveCase(c)
         \/ \E p \in Proposals : ProposeAction(p)
  PROVE  ProposalTypeOK'
<1>1. ASSUME NEW d \in Deciders, NEW c \in Cases, DecisionGenerated(d, c)
      PROVE  ProposalTypeOK'
  BY <1>1, LocksUntouched DEF ProposalTypeOK, DecisionGenerated, SetCase, CaseStatuses,
              tableVars, proposalHistory
<1>2. ASSUME NEW d \in Deciders, NEW c \in Cases, DecisionFailed(d, c)
      PROVE  ProposalTypeOK'
  BY <1>2, LocksUntouched DEF ProposalTypeOK, DecisionFailed, SetCase, CaseStatuses,
              tableVars, proposalHistory
<1>3. ASSUME NEW d \in Deciders, NEW p \in Proposals, CreateProposal(d, p)
      PROVE  ProposalTypeOK'
  BY <1>3, LocksUntouched
    DEF ProposalTypeOK, CreateProposal, ApplyStatuses, caseVars, proposalHistory
<1>4. ASSUME NEW d \in Deciders, ProposalsGenerated(d)
      PROVE  ProposalTypeOK'
  BY <1>4, LocksUntouched DEF ProposalTypeOK, ProposalsGenerated, SetCase, CaseStatuses,
              tableVars, proposalHistory
<1>5. ASSUME NEW d \in Deciders, DecideAborts(d)
      PROVE  ProposalTypeOK'
  BY <1>5, LocksUntouched DEF ProposalTypeOK, DecideAborts, tableVars, proposalHistory
<1>6. ASSUME NEW c \in Cases, CreateCaseFromAlert(c) \/ ResolveCase(c)
      PROVE  ProposalTypeOK'
  <2>1. caseStatus' \in [Cases -> CaseStatuses]
    BY <1>6 DEF ProposalTypeOK, CreateCaseFromAlert, ResolveCase, SetCase, CaseStatuses
  <2>2. UNCHANGED <<tableVars, deciding, review, apply, proposalHistory, proposalFaults>>
    BY <1>6 DEF CreateCaseFromAlert, ResolveCase
  <2> QED BY <2>1, <2>2, LocksUntouched DEF ProposalTypeOK, tableVars, proposalHistory
<1>7. ASSUME NEW p \in Proposals, ProposeAction(p)
      PROVE  ProposalTypeOK'
  <2>1. /\ caseStatus' \in [Cases -> CaseStatuses]
        /\ proposalStatus' \in [Proposals -> ApplyStatuses]
    BY <1>7 DEF ProposalTypeOK, ProposeAction, SetCase, ApplyStatuses, CaseStatuses
  <2>2. UNCHANGED <<reviews, recorded, holder, deciding, review, apply, proposalHistory, proposalFaults>>
    BY <1>7 DEF ProposeAction
  <2> QED BY <2>1, <2>2, LocksUntouched DEF ProposalTypeOK, proposalHistory
<1> QED BY <1>1, <1>2, <1>3, <1>4, <1>5, <1>6, <1>7 DEF DecideStep

\* A review takes the lock with its first step and gives it back with its last.
LEMMA ReviewType ==
  ASSUME ProposalTypeOK, NEW r \in Reviewers,
         ReviewStarts(r) \/ ReviewProceeds(r) \/ ReviewAborts(r)
  PROVE  ProposalTypeOK'
<1>0. r \in Processes /\ r \notin Appliers
  BY ProposalAssumption DEF Processes
<1>1. ASSUME NEW p \in Proposals, NEW verdict \in ReviewVerdicts, ReviewLock(r, p, verdict)
      PROVE  ProposalTypeOK'
  <2> DEFINE v == [step |-> "locked", p |-> p, verdict |-> verdict, move |-> FALSE]
  <2>1. v \in Reviewing /\ v # Idle /\ v.p = p
    BY StepsDiffer DEF Reviewing
  <2>2. review' = [review EXCEPT ![r] = v] /\ apply' = apply /\ Lock(p, r)
    BY <1>1 DEF ReviewLock
  <2>3. \A q \in Proposals : holder[q] # r
    BY <1>1 DEF ReviewLock, ProposalTypeOK, HolderOK, ReviewHolds
  <2>4. review' \in [Reviewers -> Reviewing \cup {Idle}]
    BY <2>1, <2>2 DEF ProposalTypeOK
  <2> HIDE DEF v
  <2>5. HolderOK' /\ holder' \in [Proposals -> Processes \cup {NoOne}]
    <3>1. \A s \in Reviewers, q \in Proposals :
            ReviewHolds(s, q)' <=> IF s = r THEN v # Idle /\ v.p = q ELSE ReviewHolds(s, q)
      BY <2>2, ReviewFrame
    <3>2. \A s \in Reviewers, q \in Proposals :
            ReviewHolds(s, q)' <=> IF s = r THEN q = p ELSE ReviewHolds(s, q)
      BY <2>1, <3>1
    <3>3. \A y \in Appliers, q \in Proposals : ApplyHolds(y, q)' <=> ApplyHolds(y, q)
      BY <2>2, ReviewFrame
    <3>4. \A y \in Appliers, q \in Proposals :
            ApplyHolds(y, q)' <=> IF y = r THEN q = p ELSE ApplyHolds(y, q)
      BY <1>0, <3>3
    <3> QED BY <1>0, <2>2, <2>3, <3>2, <3>4, LockTaken
  <2> QED BY <1>1, <2>4, <2>5 DEF ProposalTypeOK, ReviewLock, caseVars, proposalHistory
<1>2. ASSUME ReviewReadCase(r)
      PROVE  ProposalTypeOK'
  <2>1. review[r] \in Reviewing /\ review[r] # Idle
    BY <1>2, CallsAreRecords, StepsDiffer DEF ReviewReadCase
  <2>2. PICK b \in BOOLEAN :
          review' = [review EXCEPT ![r] = [@ EXCEPT !.step = "ready", !.move = b]]
    BY <1>2 DEF ReviewReadCase
  <2> DEFINE v == [review[r] EXCEPT !.step = "ready", !.move = b]
  <2>3. v \in Reviewing /\ v # Idle /\ v.p = review[r].p
    BY <2>1, StepsDiffer DEF Reviewing
  <2>4. review' = [review EXCEPT ![r] = v] /\ apply' = apply /\ holder' = holder
    BY <1>2, <2>2 DEF ReviewReadCase, tableVars
  <2>5. review' \in [Reviewers -> Reviewing \cup {Idle}]
    BY <2>3, <2>4 DEF ProposalTypeOK
  <2> HIDE DEF v
  <2>6. \A q \in Proposals : ReviewHolds(r, q)' <=> ReviewHolds(r, q)
    BY <2>1, <2>3, <2>4, ReviewFrame DEF ReviewHolds
  <2>7. HolderOK'
    <3>1. \A s \in Reviewers, q \in Proposals :
            ReviewHolds(s, q)' <=> IF s = r THEN v # Idle /\ v.p = q ELSE ReviewHolds(s, q)
      BY <2>4, ReviewFrame
    <3>2. \A s \in Reviewers, q \in Proposals : ReviewHolds(s, q)' <=> ReviewHolds(s, q)
      BY <2>6, <3>1
    <3>3. \A y \in Appliers, q \in Proposals : ApplyHolds(y, q)' <=> ApplyHolds(y, q)
      BY <2>4, ReviewFrame
    <3> QED BY <2>4, <3>2, <3>3, SameHolders DEF ProposalTypeOK
  <2> QED BY <1>2, <2>5, <2>7
          DEF ProposalTypeOK, ReviewReadCase, tableVars, caseVars, proposalHistory
<1>3. ASSUME review[r] # Idle, review' = [review EXCEPT ![r] = Idle], apply' = apply,
             Release(review[r].p)
      PROVE  /\ HolderOK' /\ holder' \in [Proposals -> Processes \cup {NoOne}]
             /\ review' \in [Reviewers -> Reviewing \cup {Idle}]
  <2>1. review[r].p \in Proposals
    BY <1>3, CallsAreRecords
  <2>2. \A q \in Proposals : (holder[q] = r) <=> (q = review[r].p)
    BY <1>3 DEF ProposalTypeOK, HolderOK, ReviewHolds
  <2>3. HolderOK' /\ holder' \in [Proposals -> Processes \cup {NoOne}]
    <3>1. \A s \in Reviewers, q \in Proposals :
            ReviewHolds(s, q)' <=> IF s = r THEN Idle # Idle /\ Idle.p = q ELSE ReviewHolds(s, q)
      BY <1>3, ReviewFrame
    <3>2. \A s \in Reviewers, q \in Proposals :
            ReviewHolds(s, q)' <=> (s # r /\ ReviewHolds(s, q))
      BY <3>1
    <3>3. \A y \in Appliers, q \in Proposals : ApplyHolds(y, q)' <=> ApplyHolds(y, q)
      BY <1>3, ReviewFrame
    <3>4. \A y \in Appliers, q \in Proposals :
            ApplyHolds(y, q)' <=> (y # r /\ ApplyHolds(y, q))
      BY <1>0, <3>3
    <3> QED BY <1>0, <1>3, <2>1, <2>2, <3>2, <3>4, LockReleased
  <2> QED BY <1>3, <2>3 DEF ProposalTypeOK
<1>4. ASSUME ReviewCommit(r)
      PROVE  ProposalTypeOK'
  <2>1. review[r] \in Reviewing /\ review[r] # Idle
    BY <1>4, CallsAreRecords, StepsDiffer DEF ReviewCommit
  <2>2. proposalStatus' \in [Proposals -> ApplyStatuses]
    BY <1>4 DEF ProposalTypeOK, ReviewCommit, NewStatus, ApplyStatuses
  <2>3. reviews' \in [Proposals -> Seq(ReviewVerdicts)]
    BY <1>4, <2>1 DEF ProposalTypeOK, ReviewCommit, Reviewing
  <2>4. caseStatus' \in [Cases -> CaseStatuses]
    BY <1>4 DEF ProposalTypeOK, ReviewCommit, SetCase, CaseStatuses
  <2> QED BY <1>3, <1>4, <2>1, <2>2, <2>3, <2>4 DEF ProposalTypeOK, ReviewCommit, proposalHistory
<1>5. ASSUME ReviewAborts(r)
      PROVE  ProposalTypeOK'
  <2>1. proposalFaults' \in 0 .. MaxProposalFaults
    BY <1>5, FaultType DEF ProposalTypeOK, ReviewAborts
  <2> QED BY <1>3, <1>5, <2>1 DEF ProposalTypeOK, ReviewAborts, caseVars, proposalHistory
<1> QED BY <1>1, <1>2, <1>4, <1>5 DEF ReviewStarts, ReviewProceeds

\* An execution that ends gives its lock back, if it has it.
LEMMA ApplyEndsType ==
  ASSUME ProposalTypeOK, NEW x \in Appliers, apply[x] # Idle,
         apply' = [apply EXCEPT ![x] = Idle], review' = review,
         IF holder[apply[x].p] = x THEN Release(apply[x].p) ELSE holder' = holder
  PROVE  /\ HolderOK' /\ holder' \in [Proposals -> Processes \cup {NoOne}]
         /\ apply' \in [Appliers -> Applying \cup {Idle}]
<1>1. x \in Processes /\ x \notin Reviewers
  BY ProposalAssumption DEF Processes
<1>2. apply[x].p \in Proposals
  BY CallsAreRecords
<1>3. \A q \in Proposals : holder[q] = x => q = apply[x].p
  BY DEF ProposalTypeOK, HolderOK, ApplyHolds
<1>4. HolderOK' /\ holder' \in [Proposals -> Processes \cup {NoOne}]
  <2>1. \A s \in Reviewers, q \in Proposals : ReviewHolds(s, q)' <=> ReviewHolds(s, q)
    BY ApplyFrame
  <2>2. \A s \in Reviewers, q \in Proposals :
          ReviewHolds(s, q)' <=> (s # x /\ ReviewHolds(s, q))
    BY <1>1, <2>1
  <2>3. \A y \in Appliers, q \in Proposals :
          ApplyHolds(y, q)' <=> IF y = x THEN Idle.step \in {"begun", "executed"} /\ Idle.p = q
                                ELSE ApplyHolds(y, q)
    BY ApplyFrame
  <2>4. \A y \in Appliers, q \in Proposals :
          ApplyHolds(y, q)' <=> (y # x /\ ApplyHolds(y, q))
    BY <2>3, StepsDiffer
  <2> QED BY <1>1, <1>2, <1>3, <2>2, <2>4, LockReleased
<1> QED BY <1>4 DEF ProposalTypeOK

LEMMA ApplyCommitsType ==
  ASSUME ProposalTypeOK, NEW x \in Appliers, NEW s \in {"applied", "failed"},
         apply[x].step \in {"begun", "executed"}, ApplyEnds(x, s)
  PROVE  /\ proposalStatus' \in [Proposals -> ApplyStatuses]
         /\ HolderOK' /\ holder' \in [Proposals -> Processes \cup {NoOne}]
         /\ apply' \in [Appliers -> Applying \cup {Idle}]
<1>1. apply[x] # Idle /\ apply[x].p \in Proposals
  BY CallsAreRecords, StepsDiffer
<1>2. holder[apply[x].p] = x
  BY <1>1 DEF ProposalTypeOK, HolderOK, ApplyHolds
<1>3. proposalStatus' \in [Proposals -> ApplyStatuses]
  BY DEF ProposalTypeOK, ApplyEnds, ApplyStatuses
<1> QED BY <1>1, <1>2, <1>3, ApplyEndsType DEF ApplyEnds

\* The external call changes neither the proposal of an execution nor its lock.
LEMMA ExecutedType ==
  ASSUME ProposalTypeOK, NEW x \in Appliers, NEW outcome \in {"ok", "failed"},
         Executed(x, outcome)
  PROVE  /\ apply[x].p \in Proposals
         /\ apply' \in [Appliers -> Applying \cup {Idle}]
         /\ HolderOK'
<1> DEFINE v == [apply[x] EXCEPT !.step = "executed", !.outcome = outcome]
<1>1. apply[x] \in Applying /\ apply[x].p \in Proposals
  BY CallsAreRecords, StepsDiffer DEF Executed
<1>2. v \in Applying /\ v.step = "executed" /\ v.p = apply[x].p
  BY <1>1 DEF Applying
<1>3. apply' = [apply EXCEPT ![x] = v] /\ review' = review /\ holder' = holder
  BY DEF Executed, tableVars
<1>4. apply' \in [Appliers -> Applying \cup {Idle}]
  BY <1>2, <1>3 DEF ProposalTypeOK
<1> HIDE DEF v
<1>5. \A q \in Proposals : ApplyHolds(x, q)' <=> ApplyHolds(x, q)
  <2>1. \A y \in Appliers, q \in Proposals :
          ApplyHolds(y, q)' <=> IF y = x THEN v.step \in {"begun", "executed"} /\ v.p = q
                                ELSE ApplyHolds(y, q)
    BY <1>3, ApplyFrame
  <2>2. \A q \in Proposals : ApplyHolds(x, q)' <=> q = apply[x].p
    BY <1>2, <2>1
  <2>3. \A q \in Proposals : ApplyHolds(x, q) <=> q = apply[x].p
    BY DEF ApplyHolds, Executed
  <2> QED BY <2>2, <2>3
<1>6. HolderOK'
  BY <1>3, <1>5, SameHolders, ApplyFrame, ZenonT(30) DEF ProposalTypeOK
<1> QED BY <1>1, <1>4, <1>6

\* An execution takes the lock with its second step.
LEMMA ApplyType ==
  ASSUME ProposalTypeOK, NEW x \in Appliers,
         ApplyStarts(x) \/ ApplyProceeds(x) \/ ApplyExecuteTimesOut(x) \/ ApplyAborts(x)
  PROVE  ProposalTypeOK'
<1>1. ASSUME NEW p \in Proposals, ApplyLoad(x, p)
      PROVE  ProposalTypeOK'
  <2> DEFINE v == [step |-> "loaded", p |-> p, outcome |-> "none"]
  <2>1. v \in Applying /\ v.step = "loaded"
    BY DEF Applying
  <2>2. apply' = [apply EXCEPT ![x] = v] /\ review' = review /\ holder' = holder
    BY <1>1 DEF ApplyLoad, tableVars
  <2>3. apply' \in [Appliers -> Applying \cup {Idle}]
    BY <2>1, <2>2 DEF ProposalTypeOK
  <2> HIDE DEF v
  <2>4. \A q \in Proposals : ApplyHolds(x, q)' <=> ApplyHolds(x, q)
    BY <1>1, <2>1, <2>2, ApplyFrame, StepsDiffer DEF ApplyHolds, ApplyLoad
  <2>5. HolderOK'
    BY <2>2, <2>4, SameHolders, ApplyFrame, ZenonT(30) DEF ProposalTypeOK
  <2> QED BY <1>1, <2>3, <2>5
          DEF ProposalTypeOK, ApplyLoad, tableVars, caseVars, proposalHistory
<1>2. ASSUME ApplyBegin(x)
      PROVE  ProposalTypeOK'
  <2> DEFINE v == [apply[x] EXCEPT !.step = "begun"]
  <2>1. apply[x] \in Applying /\ apply[x].p \in Proposals
    BY <1>2, CallsAreRecords, StepsDiffer DEF ApplyBegin
  <2>2. v \in Applying /\ v.step = "begun" /\ v.p = apply[x].p
    BY <2>1 DEF Applying
  <2>3. apply' = [apply EXCEPT ![x] = v] /\ review' = review /\ Lock(apply[x].p, x)
    BY <1>2 DEF ApplyBegin
  <2>4. apply' \in [Appliers -> Applying \cup {Idle}]
    BY <2>2, <2>3 DEF ProposalTypeOK
  <2>5. \A q \in Proposals : holder[q] # x
    BY <1>2 DEF ApplyBegin, ProposalTypeOK, HolderOK, ApplyHolds
  <2>6. x \in Processes /\ x \notin Reviewers
    BY ProposalAssumption DEF Processes
  <2> HIDE DEF v
  <2>7. HolderOK' /\ holder' \in [Proposals -> Processes \cup {NoOne}]
    <3>1. \A s \in Reviewers, q \in Proposals : ReviewHolds(s, q)' <=> ReviewHolds(s, q)
      BY <2>3, ApplyFrame
    <3>2. \A s \in Reviewers, q \in Proposals :
            ReviewHolds(s, q)' <=> IF s = x THEN q = apply[x].p ELSE ReviewHolds(s, q)
      BY <2>6, <3>1
    <3>3. \A y \in Appliers, q \in Proposals :
            ApplyHolds(y, q)' <=> IF y = x THEN v.step \in {"begun", "executed"} /\ v.p = q
                                  ELSE ApplyHolds(y, q)
      BY <2>3, ApplyFrame
    <3>4. \A y \in Appliers, q \in Proposals :
            ApplyHolds(y, q)' <=> IF y = x THEN q = apply[x].p ELSE ApplyHolds(y, q)
      BY <2>2, <3>3
    <3> QED BY <2>1, <2>3, <2>5, <2>6, <3>2, <3>4, LockTaken
  <2> QED BY <1>2, <2>4, <2>7 DEF ProposalTypeOK, ApplyBegin, caseVars, proposalHistory
<1>3. ASSUME ApplyNoExecutor(x)
      PROVE  ProposalTypeOK'
  <2>1. /\ apply[x].step \in {"begun", "executed"} /\ ApplyEnds(x, "failed")
        /\ UNCHANGED <<recorded, proposalHistory>>
    BY <1>3 DEF ApplyNoExecutor
  <2> QED BY <2>1, ApplyCommitsType DEF ProposalTypeOK, ApplyEnds, caseVars, proposalHistory
<1>4. ASSUME ApplyExecutes(x)
      PROVE  ProposalTypeOK'
  <2>1. Executed(x, "ok")
    BY <1>4 DEF ApplyExecutes
  <2>2. effects' \in [Proposals -> Nat]
    BY <1>4, <2>1, ExecutedType, CounterType DEF ProposalTypeOK, ApplyExecutes
  <2> QED BY <1>4, <2>1, <2>2, ExecutedType
          DEF ProposalTypeOK, ApplyExecutes, Executed, tableVars, caseVars
<1>5. ASSUME ApplyExecuteFails(x)
      PROVE  ProposalTypeOK'
  <2>1. Executed(x, "failed")
    BY <1>5 DEF ApplyExecuteFails
  <2> QED BY <1>5, <2>1, ExecutedType
          DEF ProposalTypeOK, ApplyExecuteFails, Executed, tableVars, caseVars, proposalHistory
<1>6. ASSUME ApplyExecuteTimesOut(x)
      PROVE  ProposalTypeOK'
  <2>1. Executed(x, "failed")
    BY <1>6 DEF ApplyExecuteTimesOut
  <2>2. proposalFaults' \in 0 .. MaxProposalFaults
    BY <1>6, FaultType DEF ProposalTypeOK, ApplyExecuteTimesOut
  <2>3. effects' \in [Proposals -> Nat] /\ proposalLost' \in [Proposals -> Nat]
    BY <1>6, <2>1, ExecutedType, CounterType DEF ProposalTypeOK, ApplyExecuteTimesOut
  <2> QED BY <1>6, <2>1, <2>2, <2>3, ExecutedType
          DEF ProposalTypeOK, ApplyExecuteTimesOut, Executed, tableVars, caseVars
<1>7. ASSUME ApplyCommit(x)
      PROVE  ProposalTypeOK'
  <2>1. /\ apply[x].step \in {"begun", "executed"} /\ ApplyEnds(x, "applied")
        /\ UNCHANGED proposalHistory
    BY <1>7 DEF ApplyCommit
  <2>2. apply[x].p \in Proposals
    BY <2>1, CallsAreRecords, StepsDiffer
  <2>3. recorded' \in [Proposals -> Nat]
    BY <1>7, <2>2, CounterType DEF ProposalTypeOK, ApplyCommit
  <2> QED BY <2>1, <2>3, ApplyCommitsType DEF ProposalTypeOK, ApplyEnds, caseVars, proposalHistory
<1>8. ASSUME ApplyCommitFailure(x)
      PROVE  ProposalTypeOK'
  <2>1. /\ apply[x].step \in {"begun", "executed"} /\ ApplyEnds(x, "failed")
        /\ UNCHANGED <<recorded, proposalHistory>>
    BY <1>8 DEF ApplyCommitFailure
  <2> QED BY <2>1, ApplyCommitsType DEF ProposalTypeOK, ApplyEnds, caseVars, proposalHistory
<1>9. ASSUME ApplyAborts(x)
      PROVE  ProposalTypeOK'
  <2> DEFINE p == apply[x].p
  <2>1. apply[x] # Idle /\ p \in Proposals
    BY <1>9, CallsAreRecords DEF ApplyAborts
  <2>2. holder' = [holder EXCEPT ![p] = IF @ = x THEN NoOne ELSE @]
    BY <1>9 DEF ApplyAborts
  <2>3. IF holder[p] = x THEN Release(p) ELSE holder' = holder
    BY <2>1, <2>2 DEF ProposalTypeOK, Release
  <2>4. proposalLost' \in [Proposals -> Nat]
    BY <1>9, <2>1 DEF ProposalTypeOK, ApplyAborts
  <2>5. proposalFaults' \in 0 .. MaxProposalFaults
    BY <1>9, FaultType DEF ProposalTypeOK, ApplyAborts
  <2>6. /\ HolderOK' /\ holder' \in [Proposals -> Processes \cup {NoOne}]
        /\ apply' \in [Appliers -> Applying \cup {Idle}]
    BY <1>9, <2>1, <2>3, ApplyEndsType DEF ApplyAborts
  <2> QED BY <1>9, <2>4, <2>5, <2>6 DEF ProposalTypeOK, ApplyAborts, caseVars
<1> QED BY <1>1, <1>2, <1>3, <1>4, <1>5, <1>6, <1>7, <1>8, <1>9
        DEF ApplyStarts, ApplyProceeds

LEMMA NextType == ProposalTypeOK /\ [ProposalNext]_proposalVars => ProposalTypeOK'
<1> SUFFICES ASSUME ProposalTypeOK, [ProposalNext]_proposalVars PROVE ProposalTypeOK'
  OBVIOUS
<1>1. CASE ProposalNext
  BY <1>1, DecideType, ReviewType, ApplyType DEF ProposalNext
<1>2. CASE UNCHANGED proposalVars
  BY <1>2, LocksUntouched DEF ProposalTypeOK, proposalVars, tableVars, caseVars, proposalHistory
<1> QED BY <1>1, <1>2

\* In every state each variable has its type, and a row is locked by exactly
\* the review or execute transaction that works on it.
THEOREM ProposalTypeCorrect == ProposalSpec => []ProposalTypeOK
  BY InitType, NextType, PTL DEF ProposalSpec

-----------------------------------------------------------------------------
(* One review, and none executed without approval.                         *)

Granted == {"approved", "applied", "failed"}

\* The reviews of p say how it came to its status.
ReviewsExplain(p) ==
  \/ proposalStatus[p] \in {"absent", "proposed"} /\ reviews[p] = << >>
  \/ proposalStatus[p] = "rejected" /\ \E v \in {"reject", "cancel"} : reviews[p] = <<v>>
  \/ proposalStatus[p] \in Granted /\ reviews[p] = <<"approve">>

\* The inductive invariant.  A review holds the lock of a row that is still
\* "proposed", so nobody can decide on it in between; an execution may work on
\* a stale copy, but on one of a proposal that was approved, and that never ends.
GrantInv ==
  /\ \A p \in Proposals : ReviewsExplain(p)
  /\ \A r \in Reviewers : review[r] # Idle => proposalStatus[review[r].p] = "proposed"
  /\ \A x \in Appliers : apply[x] # Idle => proposalStatus[apply[x].p] \in Granted
  /\ \A p \in Proposals : effects[p] > 0 => proposalStatus[p] \in Granted

LEMMA InitGrant == ProposalInit => GrantInv
  BY DEF ProposalInit, GrantInv, ReviewsExplain

\* The locked row of a review belongs to no other review.
LEMMA ReviewExcludes ==
  ASSUME ProposalTypeOK, NEW r \in Reviewers, NEW s \in Reviewers,
         review[r] # Idle, review[s] # Idle, review[r].p = review[s].p
  PROVE  r = s
<1>1. review[r].p \in Proposals
  BY CallsAreRecords
<1>2. holder[review[r].p] = r /\ holder[review[r].p] = s
  BY <1>1 DEF ProposalTypeOK, HolderOK, ReviewHolds
<1> QED BY <1>2

\* A proposal that is created leaves the others, and all calls, alone.
LEMMA GrantCreated ==
  ASSUME ProposalTypeOK, GrantInv, NEW p \in Proposals, proposalStatus[p] = "absent",
         proposalStatus' = [proposalStatus EXCEPT ![p] = "proposed"],
         UNCHANGED <<reviews, review, apply, effects>>
  PROVE  GrantInv'
<1>1. \A q \in Proposals : proposalStatus'[q] = IF q = p THEN "proposed" ELSE proposalStatus[q]
  BY DEF ProposalTypeOK
<1>2. ASSUME NEW q \in Proposals PROVE ReviewsExplain(q)'
  BY <1>1 DEF GrantInv, ReviewsExplain, Granted
<1>3. \A q \in Proposals : proposalStatus[q] \in Granted => proposalStatus'[q] \in Granted
  BY <1>1 DEF Granted
<1>4. ASSUME NEW r \in Reviewers, review'[r] # Idle
      PROVE  proposalStatus'[review'[r].p] = "proposed"
  BY <1>1, <1>4, CallsAreRecords DEF GrantInv
<1>5. ASSUME NEW x \in Appliers, apply'[x] # Idle
      PROVE  proposalStatus'[apply'[x].p] \in Granted
  BY <1>3, <1>5, CallsAreRecords DEF GrantInv
<1> QED BY <1>2, <1>3, <1>4, <1>5 DEF GrantInv

\* A review that commits is the only one of its proposal, and no execution
\* works on it.
LEMMA GrantReviewed ==
  ASSUME ProposalTypeOK, GrantInv, NEW r \in Reviewers, ReviewCommit(r)
  PROVE  GrantInv'
<1>0. review[r] \in Reviewing /\ review[r] # Idle
  BY CallsAreRecords, StepsDiffer DEF ReviewCommit
<1>1. PICK p \in Proposals, v \in ReviewVerdicts :
        p = review[r].p /\ v = review[r].verdict /\ proposalStatus[p] = "proposed"
  BY <1>0 DEF GrantInv, Reviewing
<1>2. /\ \A q \in Proposals : proposalStatus'[q] = IF q = p THEN NewStatus(v) ELSE proposalStatus[q]
      /\ \A q \in Proposals : reviews'[q] = IF q = p THEN Append(reviews[p], v) ELSE reviews[q]
      /\ review' = [review EXCEPT ![r] = Idle]
      /\ UNCHANGED <<apply, effects>>
  BY <1>1 DEF ReviewCommit, ProposalTypeOK, proposalHistory
<1>3. reviews[p] = << >>
  BY <1>1 DEF GrantInv, ReviewsExplain, Granted
<1>4. ReviewsExplain(p)'
  <2>1. proposalStatus'[p] = NewStatus(v) /\ reviews'[p] = Append(<< >>, v)
    BY <1>1, <1>2, <1>3
  <2>2. reviews'[p] = <<v>>
    BY <2>1
  <2>3. CASE v = "approve"
    BY <2>1, <2>2, <2>3 DEF ReviewsExplain, NewStatus, Granted
  <2>4. CASE v \in {"reject", "cancel"}
    BY <2>1, <2>2, <2>4 DEF ReviewsExplain, NewStatus
  <2> QED BY <1>1, <2>3, <2>4 DEF ReviewVerdicts
<1>5. ASSUME NEW q \in Proposals, q # p PROVE ReviewsExplain(q)'
  BY <1>2, <1>5 DEF GrantInv, ReviewsExplain
<1>6. \A q \in Proposals : proposalStatus[q] \in Granted => proposalStatus'[q] \in Granted
  BY <1>1, <1>2 DEF Granted
<1>7. ASSUME NEW s \in Reviewers, review'[s] # Idle
      PROVE  proposalStatus'[review'[s].p] = "proposed"
  <2>1. s # r /\ review'[s] = review[s]
    BY <1>2, <1>7 DEF ProposalTypeOK
  <2>2. review[s].p \in Proposals /\ review[s].p # p
    BY <1>0, <1>1, <1>7, <2>1, CallsAreRecords, ReviewExcludes
  <2> QED BY <1>2, <1>7, <2>1, <2>2 DEF GrantInv
<1>8. ASSUME NEW x \in Appliers, apply'[x] # Idle
      PROVE  proposalStatus'[apply'[x].p] \in Granted
  BY <1>2, <1>6, <1>8, CallsAreRecords DEF GrantInv
<1>9. ASSUME NEW q \in Proposals PROVE effects'[q] > 0 => proposalStatus'[q] \in Granted
  BY <1>2, <1>6 DEF GrantInv
<1>10. ASSUME NEW q \in Proposals PROVE ReviewsExplain(q)'
  BY <1>4, <1>5
<1> QED BY <1>7, <1>8, <1>9, <1>10 DEF GrantInv

\* An execution that commits keeps the proposal among the granted ones.
LEMMA GrantApplied ==
  ASSUME ProposalTypeOK, GrantInv, NEW x \in Appliers, NEW s \in {"applied", "failed"},
         apply[x] # Idle, ApplyEnds(x, s), UNCHANGED effects
  PROVE  GrantInv'
<1> DEFINE p == apply[x].p
<1>1. p \in Proposals /\ proposalStatus[p] \in Granted
  BY CallsAreRecords DEF GrantInv
<1>2. /\ \A q \in Proposals : proposalStatus'[q] = IF q = p THEN s ELSE proposalStatus[q]
      /\ apply' = [apply EXCEPT ![x] = Idle]
      /\ UNCHANGED <<reviews, review>>
  BY DEF ApplyEnds, ProposalTypeOK
<1>3. ASSUME NEW q \in Proposals PROVE ReviewsExplain(q)'
  BY <1>1, <1>2 DEF GrantInv, ReviewsExplain, Granted
<1>4. \A q \in Proposals : proposalStatus[q] \in Granted => proposalStatus'[q] \in Granted
  BY <1>2 DEF Granted
<1>5. ASSUME NEW r \in Reviewers, review'[r] # Idle
      PROVE  proposalStatus'[review'[r].p] = "proposed"
  <2>1. review[r].p \in Proposals /\ proposalStatus[review[r].p] = "proposed"
    BY <1>2, <1>5, CallsAreRecords DEF GrantInv
  <2> QED BY <1>1, <1>2, <2>1 DEF Granted
<1>6. ASSUME NEW y \in Appliers, apply'[y] # Idle
      PROVE  proposalStatus'[apply'[y].p] \in Granted
  <2>1. apply'[y] = apply[y] /\ apply[y] # Idle
    BY <1>2, <1>6 DEF ProposalTypeOK
  <2> QED BY <1>4, <2>1, CallsAreRecords DEF GrantInv
<1> QED BY <1>2, <1>3, <1>4, <1>5, <1>6 DEF GrantInv

\* A step of an execution that commits nothing.
LEMMA GrantExecuting ==
  ASSUME ProposalTypeOK, GrantInv, NEW x \in Appliers, NEW v,
         apply' = [apply EXCEPT ![x] = v],
         v # Idle => v.p \in Proposals /\ proposalStatus[v.p] \in Granted,
         \A q \in Proposals : effects'[q] = effects[q] \/ proposalStatus[q] \in Granted,
         UNCHANGED <<proposalStatus, reviews, review>>
  PROVE  GrantInv'
<1>1. ASSUME NEW y \in Appliers, apply'[y] # Idle
      PROVE  proposalStatus'[apply'[y].p] \in Granted
  BY <1>1 DEF GrantInv, ProposalTypeOK
<1>2. ASSUME NEW q \in Proposals, effects'[q] > 0
      PROVE  proposalStatus'[q] \in Granted
  BY <1>2 DEF GrantInv
<1>3. ASSUME NEW q \in Proposals PROVE ReviewsExplain(q)'
  BY DEF GrantInv, ReviewsExplain
<1> QED BY <1>1, <1>2, <1>3 DEF GrantInv

LEMMA NextGrant == ProposalTypeOK /\ GrantInv /\ [ProposalNext]_proposalVars => GrantInv'
<1> SUFFICES ASSUME ProposalTypeOK, GrantInv, [ProposalNext]_proposalVars PROVE GrantInv'
  OBVIOUS
<1>1. ASSUME UNCHANGED <<proposalStatus, reviews, review, apply, effects>>
      PROVE  GrantInv'
  BY <1>1 DEF GrantInv, ReviewsExplain
<1>2. ASSUME NEW d \in Deciders, DecideStep(d)
      PROVE  GrantInv'
  <2>1. CASE \E p \in Proposals : CreateProposal(d, p)
    BY <2>1, GrantCreated DEF CreateProposal, proposalHistory
  <2>2. CASE \/ \E c \in Cases : DecisionGenerated(d, c) \/ DecisionFailed(d, c)
             \/ ProposalsGenerated(d) \/ DecideAborts(d)
    BY <1>1, <2>2 DEF DecisionGenerated, DecisionFailed, ProposalsGenerated,
                      DecideAborts, tableVars, proposalHistory
  <2> QED BY <1>2, <2>1, <2>2 DEF DecideStep
<1>3. ASSUME NEW c \in Cases, CreateCaseFromAlert(c) \/ ResolveCase(c)
      PROVE  GrantInv'
  BY <1>1, <1>3 DEF CreateCaseFromAlert, ResolveCase, tableVars, proposalHistory
<1>4. ASSUME NEW p \in Proposals, ProposeAction(p)
      PROVE  GrantInv'
  BY <1>4, GrantCreated DEF ProposeAction, proposalHistory
<1>5. ASSUME NEW r \in Reviewers, ReviewStarts(r)
      PROVE  GrantInv'
  <2>1. PICK p \in Proposals, verdict \in ReviewVerdicts : ReviewLock(r, p, verdict)
    BY <1>5 DEF ReviewStarts
  <2>2. /\ proposalStatus[p] = "proposed"
        /\ review'[r].p = p
        /\ \A s \in Reviewers \ {r} : review'[s] = review[s]
        /\ UNCHANGED <<proposalStatus, reviews, apply, effects>>
    BY <2>1 DEF ReviewLock, ProposalTypeOK, proposalHistory
  <2>3. ASSUME NEW s \in Reviewers, review'[s] # Idle
        PROVE  proposalStatus'[review'[s].p] = "proposed"
    BY <2>2, <2>3 DEF GrantInv
  <2> QED BY <2>2, <2>3 DEF GrantInv, ReviewsExplain
<1>6. ASSUME NEW r \in Reviewers, ReviewReadCase(r)
      PROVE  GrantInv'
  <2>1. review[r] \in Reviewing /\ review[r] # Idle
    BY <1>6, CallsAreRecords, StepsDiffer DEF ReviewReadCase
  <2>2. /\ review'[r].p = review[r].p
        /\ \A s \in Reviewers \ {r} : review'[s] = review[s]
        /\ UNCHANGED <<proposalStatus, reviews, apply, effects>>
    BY <1>6, <2>1 DEF ReviewReadCase, ProposalTypeOK, Reviewing, tableVars, proposalHistory
  <2>3. ASSUME NEW s \in Reviewers, review'[s] # Idle
        PROVE  proposalStatus'[review'[s].p] = "proposed"
    BY <2>1, <2>2, <2>3 DEF GrantInv
  <2> QED BY <2>2, <2>3 DEF GrantInv, ReviewsExplain
<1>7. ASSUME NEW r \in Reviewers, ReviewAborts(r)
      PROVE  GrantInv'
  <2>1. /\ review' = [review EXCEPT ![r] = Idle]
        /\ UNCHANGED <<proposalStatus, reviews, apply, effects>>
    BY <1>7 DEF ReviewAborts, proposalHistory
  <2>2. ASSUME NEW s \in Reviewers, review'[s] # Idle
        PROVE  proposalStatus'[review'[s].p] = "proposed"
    BY <2>1, <2>2 DEF GrantInv, ProposalTypeOK
  <2> QED BY <2>1, <2>2 DEF GrantInv, ReviewsExplain
<1>8. ASSUME NEW x \in Appliers, ApplyStarts(x)
      PROVE  GrantInv'
  <2>1. PICK p \in Proposals : ApplyLoad(x, p)
    BY <1>8 DEF ApplyStarts
  <2> DEFINE v == [step |-> "loaded", p |-> p, outcome |-> "none"]
  <2>2. /\ apply' = [apply EXCEPT ![x] = v]
        /\ v.p \in Proposals /\ proposalStatus[v.p] \in Granted
        /\ UNCHANGED <<proposalStatus, reviews, review, effects>>
    BY <2>1 DEF ApplyLoad, tableVars, proposalHistory, Granted
  <2> HIDE DEF v
  <2> QED BY <2>2, GrantExecuting
<1>9. ASSUME NEW x \in Appliers, apply[x] # Idle, NEW s, NEW o,
             apply' = [apply EXCEPT ![x] = [@ EXCEPT !.step = s, !.outcome = o]],
             UNCHANGED <<proposalStatus, reviews, review>>,
             \/ effects' = effects
             \/ effects' = [effects EXCEPT ![apply[x].p] = @ + 1]
      PROVE  GrantInv'
  <2> DEFINE v == [apply[x] EXCEPT !.step = s, !.outcome = o]
  <2>1. apply[x] \in Applying /\ apply[x].p \in Proposals /\ proposalStatus[apply[x].p] \in Granted
    BY <1>9, CallsAreRecords DEF GrantInv
  <2>2. v.p = apply[x].p /\ apply' = [apply EXCEPT ![x] = v]
    BY <1>9, <2>1 DEF Applying
  <2>3. \A q \in Proposals : effects'[q] = effects[q] \/ proposalStatus[q] \in Granted
    BY <1>9, <2>1 DEF ProposalTypeOK
  <2> HIDE DEF v
  <2> QED BY <1>9, <2>1, <2>2, <2>3, GrantExecuting
<1>10. ASSUME NEW x \in Appliers, ApplyBegin(x)
       PROVE  GrantInv'
  <2>1. apply[x] \in Applying /\ apply[x] # Idle
    BY <1>10, CallsAreRecords, StepsDiffer DEF ApplyBegin
  <2>2. apply[x].p \in Proposals /\ proposalStatus[apply[x].p] \in Granted
    BY <2>1, CallsAreRecords DEF GrantInv
  <2> DEFINE v == [apply[x] EXCEPT !.step = "begun"]
  <2>3. v.p = apply[x].p
    BY <2>1 DEF Applying
  <2>4. /\ apply' = [apply EXCEPT ![x] = v]
        /\ UNCHANGED <<proposalStatus, reviews, review, effects>>
    BY <1>10 DEF ApplyBegin, proposalHistory
  <2> HIDE DEF v
  <2> QED BY <2>2, <2>3, <2>4, GrantExecuting
<1>11. ASSUME NEW x \in Appliers,
              ApplyExecutes(x) \/ ApplyExecuteFails(x) \/ ApplyExecuteTimesOut(x)
       PROVE  GrantInv'
  <2>1. PICK o \in {"ok", "failed"} : Executed(x, o)
    BY <1>11 DEF ApplyExecutes, ApplyExecuteFails, ApplyExecuteTimesOut
  <2>2. apply[x] # Idle
    BY <2>1, StepsDiffer DEF Executed
  <2>3. /\ apply' = [apply EXCEPT ![x] = [@ EXCEPT !.step = "executed", !.outcome = o]]
        /\ UNCHANGED <<proposalStatus, reviews, review>>
    BY <2>1 DEF Executed, tableVars
  <2>4. \/ effects' = effects
        \/ effects' = [effects EXCEPT ![apply[x].p] = @ + 1]
    BY <1>11 DEF ApplyExecutes, ApplyExecuteFails, ApplyExecuteTimesOut, proposalHistory
  <2> QED BY <1>9, <2>2, <2>3, <2>4
<1>12. ASSUME NEW x \in Appliers,
              ApplyNoExecutor(x) \/ ApplyCommit(x) \/ ApplyCommitFailure(x)
       PROVE  GrantInv'
  BY <1>12, GrantApplied, StepsDiffer
     DEF ApplyNoExecutor, ApplyCommit, ApplyCommitFailure, proposalHistory
<1>13. ASSUME NEW x \in Appliers, ApplyAborts(x)
       PROVE  GrantInv'
  BY <1>13, GrantExecuting DEF ApplyAborts
<1>14. CASE UNCHANGED proposalVars
  BY <1>1, <1>14 DEF proposalVars, tableVars, proposalHistory
<1> QED
  BY <1>2, <1>3, <1>4, <1>5, <1>6, <1>7, <1>8, <1>10, <1>11, <1>12, <1>13, <1>14,
     GrantReviewed
     DEF ProposalNext, ReviewProceeds, ApplyProceeds

LEMMA GrantAlways == ProposalSpec => [](ProposalTypeOK /\ GrantInv)
<1>1. ProposalInit => ProposalTypeOK /\ GrantInv
  BY InitType, InitGrant
<1>2. ProposalTypeOK /\ GrantInv /\ [ProposalNext]_proposalVars => (ProposalTypeOK /\ GrantInv)'
  BY NextType, NextGrant
<1> QED BY <1>1, <1>2, PTL DEF ProposalSpec

\* However many reviewers decide on a proposal at the same time, exactly one
\* verdict gets in.
THEOREM ReviewsAreUnique == ProposalSpec => []ReviewedOnce
<1>1. GrantInv => ReviewedOnce
  <2>1. ASSUME NEW p \in Proposals, ReviewsExplain(p)
        PROVE  Len(reviews[p]) = IF proposalStatus[p] \in {"absent", "proposed"} THEN 0 ELSE 1
    <3>1. \A v : Len(<<v>>) = 1
      OBVIOUS
    <3> QED BY <2>1, <3>1 DEF ReviewsExplain, Granted
  <2> QED BY <2>1 DEF GrantInv, ReviewedOnce
<1> QED BY <1>1, GrantAlways, PTL

\* However stale the copy that an execute call works on, and whatever fails,
\* an external system only acts on proposals whose one review approved them.
THEOREM ApprovalComesFirst == ProposalSpec => []ActsOnlyIfApproved
<1>1. GrantInv => ActsOnlyIfApproved
  BY DEF GrantInv, ReviewsExplain, ActsOnlyIfApproved, Granted
<1> QED BY <1>1, GrantAlways, PTL

-----------------------------------------------------------------------------
(* One execute call at a time.                                             *)

\* The external system has acted on p, and the transaction is open.
Unrecorded(p) ==
  \E x \in Appliers : apply[x] # Idle /\ apply[x].p = p /\ apply[x].outcome = "ok"

\* The inductive invariant: with nobody to change the status behind its back an
\* execution works on a proposal that still is approved, and every action of the
\* external system is in the event, in the open transaction, or lost.
OneApplyInv ==
  /\ \A x \in Appliers : apply[x] # Idle => proposalStatus[apply[x].p] = "approved"
  /\ \A x \in Appliers : apply[x].step \in {"loaded", "begun"} => apply[x].outcome = "none"
  /\ \A p \in Proposals : recorded[p] = IF proposalStatus[p] = "applied" THEN 1 ELSE 0
  /\ \A p \in Proposals :
       effects[p] = recorded[p] + proposalLost[p] + (IF Unrecorded(p) THEN 1 ELSE 0)

LEMMA InitOneApply == ProposalInit => OneApplyInv
  BY DEF ProposalInit, OneApplyInv, Unrecorded, Idle

\* A step of Decide, of the case's tools or of a review: it does not concern a
\* proposal that is being executed, nor one that is applied.
LEMMA OneApplyOthers ==
  ASSUME ProposalTypeOK, OneApplyInv,
         UNCHANGED <<recorded, apply, effects, proposalLost>>,
         \A p \in Proposals :
           \/ proposalStatus'[p] = proposalStatus[p]
           \/ proposalStatus[p] \in {"absent", "proposed"} /\ proposalStatus'[p] # "applied"
  PROVE  OneApplyInv'
<1>1. ASSUME NEW x \in Appliers, apply'[x] # Idle
      PROVE  proposalStatus'[apply'[x].p] = "approved"
  BY <1>1, CallsAreRecords DEF OneApplyInv
<1>2. \A p \in Proposals : Unrecorded(p)' <=> Unrecorded(p)
  BY DEF Unrecorded
<1>3. ASSUME NEW p \in Proposals
      PROVE  /\ recorded'[p] = IF proposalStatus'[p] = "applied" THEN 1 ELSE 0
             /\ effects'[p] = recorded'[p] + proposalLost'[p] + (IF Unrecorded(p)' THEN 1 ELSE 0)
  BY <1>2 DEF OneApplyInv
<1> QED BY <1>1, <1>3 DEF OneApplyInv

\* What a step of the only execution does.
LEMMA OneApplySteps ==
  ASSUME ProposalTypeOK, OneApplyInv, NEW x, Appliers = {x}, NEW p \in Proposals, NEW v,
         apply' = [apply EXCEPT ![x] = v],
         v = Idle \/ (v \in Applying /\ v.p = p /\ proposalStatus'[p] = "approved"),
         v # Idle /\ v.step # "executed" => v.outcome = "none",
         \A q \in Proposals \ {p} :
           /\ proposalStatus'[q] = proposalStatus[q] /\ recorded'[q] = recorded[q]
           /\ effects'[q] = effects[q] /\ proposalLost'[q] = proposalLost[q]
           /\ ~ Unrecorded(q),
         recorded'[p] = IF proposalStatus'[p] = "applied" THEN 1 ELSE 0,
         effects'[p] = recorded'[p] + proposalLost'[p]
                       + (IF v # Idle /\ v.outcome = "ok" THEN 1 ELSE 0)
  PROVE  OneApplyInv'
<1>1. apply'[x] = v
  BY DEF ProposalTypeOK
<1>2. /\ v # Idle => proposalStatus'[v.p] = "approved"
      /\ v.step \in {"loaded", "begun"} => v.outcome = "none"
  BY StepsDiffer
<1>3. Unrecorded(p)' <=> (v # Idle /\ v.outcome = "ok")
  BY <1>1 DEF Unrecorded
<1>4. \A q \in Proposals \ {p} : ~ Unrecorded(q)'
  BY <1>1 DEF Unrecorded
<1>5. ASSUME NEW q \in Proposals
      PROVE  /\ recorded'[q] = IF proposalStatus'[q] = "applied" THEN 1 ELSE 0
             /\ effects'[q] = recorded'[q] + proposalLost'[q] + (IF Unrecorded(q)' THEN 1 ELSE 0)
  <2>1. CASE q = p
    BY <1>3, <2>1
  <2>2. CASE q # p
    BY <1>4, <2>2 DEF OneApplyInv
  <2> QED BY <2>1, <2>2
<1> QED BY <1>1, <1>2, <1>5 DEF OneApplyInv

LEMMA NextOneApply ==
  ASSUME NEW x, Appliers = {x}, ProposalTypeOK, GrantInv, OneApplyInv, [ProposalNext]_proposalVars
  PROVE  OneApplyInv'
<1>1. ASSUME NEW d \in Deciders, DecideStep(d)
      PROVE  OneApplyInv'
  <2>1. CASE \E p \in Proposals : CreateProposal(d, p)
    BY <2>1, OneApplyOthers DEF CreateProposal, ProposalTypeOK, proposalHistory
  <2>2. CASE \/ \E c \in Cases : DecisionGenerated(d, c) \/ DecisionFailed(d, c)
             \/ ProposalsGenerated(d) \/ DecideAborts(d)
    BY <2>2, OneApplyOthers
       DEF DecisionGenerated, DecisionFailed, ProposalsGenerated, DecideAborts,
           tableVars, proposalHistory
  <2> QED BY <1>1, <2>1, <2>2 DEF DecideStep
<1>2. ASSUME NEW c \in Cases, CreateCaseFromAlert(c) \/ ResolveCase(c)
      PROVE  OneApplyInv'
  BY <1>2, OneApplyOthers DEF CreateCaseFromAlert, ResolveCase, tableVars, proposalHistory
<1>3. ASSUME NEW p \in Proposals, ProposeAction(p)
      PROVE  OneApplyInv'
  BY <1>3, OneApplyOthers DEF ProposeAction, ProposalTypeOK, proposalHistory
<1>4. ASSUME NEW r \in Reviewers, ReviewCommit(r)
      PROVE  OneApplyInv'
  <2>1. review[r] # Idle /\ review[r].p \in Proposals /\ proposalStatus[review[r].p] = "proposed"
    BY <1>4, CallsAreRecords, StepsDiffer DEF ReviewCommit, GrantInv
  <2>2. /\ proposalStatus' = [proposalStatus EXCEPT ![review[r].p] = NewStatus(review[r].verdict)]
        /\ UNCHANGED <<recorded, apply, effects, proposalLost>>
    BY <1>4 DEF ReviewCommit, proposalHistory
  <2>3. NewStatus(review[r].verdict) # "applied"
    BY DEF NewStatus
  <2>4. \A p \in Proposals :
          \/ proposalStatus'[p] = proposalStatus[p]
          \/ proposalStatus[p] \in {"absent", "proposed"} /\ proposalStatus'[p] # "applied"
    BY <2>1, <2>2, <2>3 DEF ProposalTypeOK
  <2> QED BY <2>2, <2>4, OneApplyOthers
<1>5. ASSUME NEW r \in Reviewers, ReviewStarts(r) \/ ReviewReadCase(r) \/ ReviewAborts(r)
      PROVE  OneApplyInv'
  BY <1>5, OneApplyOthers
     DEF ReviewStarts, ReviewLock, ReviewReadCase, ReviewAborts, tableVars, proposalHistory
<1>6. ASSUME NEW p \in Proposals, ApplyLoad(x, p)
      PROVE  OneApplyInv'
  <2> DEFINE v == [step |-> "loaded", p |-> p, outcome |-> "none"]
  <2>1. v \in Applying /\ v.p = p /\ v.outcome = "none" /\ v.step = "loaded"
    BY DEF Applying
  <2>2. apply[x] = Idle /\ proposalStatus[p] = "approved" /\ apply' = [apply EXCEPT ![x] = v]
        /\ UNCHANGED <<proposalStatus, recorded, effects, proposalLost>>
    BY <1>6 DEF ApplyLoad, tableVars, proposalHistory
  <2>3. \A q \in Proposals : ~ Unrecorded(q)
    BY <2>2 DEF Unrecorded
  <2>4. recorded[p] = 0 /\ effects[p] = recorded[p] + proposalLost[p] + 0
    BY <2>2, <2>3 DEF OneApplyInv
  <2> HIDE DEF v
  <2> QED BY <2>1, <2>2, <2>3, <2>4, OneApplySteps
\* What the remaining steps start from: an execution of p, and of nothing else.
<1>7. ASSUME apply[x] # Idle
      PROVE  /\ apply[x] \in Applying /\ apply[x].p \in Proposals
             /\ proposalStatus[apply[x].p] = "approved" /\ recorded[apply[x].p] = 0
             /\ \A q \in Proposals \ {apply[x].p} : ~ Unrecorded(q)
             /\ effects[apply[x].p] = proposalLost[apply[x].p]
                  + (IF apply[x].outcome = "ok" THEN 1 ELSE 0)
             /\ effects[apply[x].p] \in Nat /\ proposalLost[apply[x].p] \in Nat
  <2>1. apply[x] \in Applying /\ apply[x].p \in Proposals /\ proposalStatus[apply[x].p] = "approved"
    BY <1>7, CallsAreRecords DEF OneApplyInv
  <2>2. PICK p \in Proposals : p = apply[x].p
    BY <2>1
  <2>3. Unrecorded(p) <=> apply[x].outcome = "ok"
    BY <1>7, <2>2 DEF Unrecorded
  <2>4. \A q \in Proposals \ {p} : ~ Unrecorded(q)
    BY <2>2 DEF Unrecorded
  <2>5. recorded[p] = 0 /\ effects[p] = recorded[p] + proposalLost[p] + (IF Unrecorded(p) THEN 1 ELSE 0)
        /\ effects[p] \in Nat /\ proposalLost[p] \in Nat
    BY <2>1, <2>2 DEF OneApplyInv, ProposalTypeOK
  <2> QED BY <2>1, <2>2, <2>3, <2>4, <2>5
<1>8. ASSUME ApplyBegin(x)
      PROVE  OneApplyInv'
  <2>0. apply[x] # Idle
    BY <1>8, StepsDiffer DEF ApplyBegin
  <2>1. PICK p \in Proposals : p = apply[x].p
    BY <1>7, <2>0
  <2> DEFINE v == [apply[x] EXCEPT !.step = "begun"]
  <2>2. apply[x].outcome = "none"
    BY <1>8 DEF ApplyBegin, OneApplyInv
  <2>3. v \in Applying /\ v.p = p /\ v.outcome = "none" /\ v # Idle
    BY <1>7, <2>0, <2>1, <2>2, StepsDiffer DEF Applying
  <2>4. apply' = [apply EXCEPT ![x] = v] /\ UNCHANGED <<proposalStatus, recorded, effects, proposalLost>>
    BY <1>8 DEF ApplyBegin, proposalHistory
  <2>5. effects[p] = proposalLost[p] /\ recorded[p] = 0 /\ effects[p] \in Nat /\ proposalStatus[p] = "approved"
        /\ \A q \in Proposals \ {p} : ~ Unrecorded(q)
    BY <1>7, <2>0, <2>1, <2>2
  <2>6. effects'[p] = recorded'[p] + proposalLost'[p] + 0
    BY <2>4, <2>5
  <2> HIDE DEF v
  <2> QED BY <2>3, <2>4, <2>5, <2>6, OneApplySteps
<1>9. ASSUME NEW o \in {"ok", "failed"}, Executed(x, o),
             UNCHANGED <<proposalStatus, recorded>>,
             IF o = "ok" THEN effects' = [effects EXCEPT ![apply[x].p] = @ + 1] /\ proposalLost' = proposalLost
             ELSE \/ effects' = effects /\ proposalLost' = proposalLost
                  \/ /\ effects' = [effects EXCEPT ![apply[x].p] = @ + 1]
                     /\ proposalLost' = [proposalLost EXCEPT ![apply[x].p] = @ + 1]
      PROVE  OneApplyInv'
  <2>0. apply[x] # Idle /\ apply[x].outcome = "none"
    BY <1>9, StepsDiffer DEF Executed, OneApplyInv
  <2>1. PICK p \in Proposals : p = apply[x].p
    BY <1>7, <2>0
  <2> DEFINE v == [apply[x] EXCEPT !.step = "executed", !.outcome = o]
  <2>2. v \in Applying /\ v.p = p /\ v.outcome = o /\ v.step = "executed" /\ v # Idle
    BY <1>7, <2>0, <2>1, StepsDiffer DEF Applying
  <2>3. apply' = [apply EXCEPT ![x] = v]
    BY <1>9 DEF Executed
  <2>4. effects[p] = proposalLost[p] /\ recorded[p] = 0 /\ effects[p] \in Nat /\ proposalLost[p] \in Nat
        /\ proposalStatus[p] = "approved"
    BY <1>7, <2>0, <2>1
  <2>5. effects'[p] = proposalLost'[p] + (IF o = "ok" THEN 1 ELSE 0)
    BY <1>9, <2>1, <2>4 DEF ProposalTypeOK
  <2>6. \A q \in Proposals \ {p} :
          effects'[q] = effects[q] /\ proposalLost'[q] = proposalLost[q] /\ ~ Unrecorded(q)
    BY <1>7, <1>9, <2>0, <2>1 DEF ProposalTypeOK
  <2>7. effects'[p] = recorded'[p] + proposalLost'[p] + (IF o = "ok" THEN 1 ELSE 0)
    <3>1. proposalLost'[p] \in Nat
      BY <1>9, <2>1, <2>4 DEF ProposalTypeOK
    <3> QED BY <1>9, <2>4, <2>5, <3>1
  <2> HIDE DEF v
  <2> QED BY <1>9, <2>2, <2>3, <2>4, <2>6, <2>7, OneApplySteps
<1>10. ASSUME ApplyExecutes(x) \/ ApplyExecuteFails(x) \/ ApplyExecuteTimesOut(x)
       PROVE  OneApplyInv'
  BY <1>9, <1>10
     DEF ApplyExecutes, ApplyExecuteFails, ApplyExecuteTimesOut, Executed, tableVars,
         proposalHistory
<1>11. ASSUME ApplyCommit(x)
       PROVE  OneApplyInv'
  <2>0. apply[x] # Idle /\ apply[x].outcome = "ok"
    BY <1>11, StepsDiffer DEF ApplyCommit
  <2>1. PICK p \in Proposals : p = apply[x].p
    BY <1>7, <2>0
  <2>2. /\ apply' = [apply EXCEPT ![x] = Idle]
        /\ proposalStatus'[p] = "applied" /\ recorded'[p] = 1
        /\ \A q \in Proposals \ {p} : proposalStatus'[q] = proposalStatus[q] /\ recorded'[q] = recorded[q]
        /\ UNCHANGED <<effects, proposalLost>>
    BY <1>7, <1>11, <2>0, <2>1 DEF ApplyCommit, ApplyEnds, ProposalTypeOK, proposalHistory
  <2>3. effects'[p] = recorded'[p] + proposalLost'[p] + 0
    BY <1>7, <2>0, <2>1, <2>2
  <2> QED BY <1>7, <2>0, <2>1, <2>2, <2>3, StepsDiffer, OneApplySteps
<1>12. ASSUME ApplyNoExecutor(x) \/ ApplyCommitFailure(x)
       PROVE  OneApplyInv'
  <2>0. apply[x] # Idle /\ apply[x].outcome # "ok"
    BY <1>12, StepsDiffer DEF ApplyNoExecutor, ApplyCommitFailure, OneApplyInv
  <2>1. PICK p \in Proposals : p = apply[x].p
    BY <1>7, <2>0
  <2>2. /\ apply' = [apply EXCEPT ![x] = Idle]
        /\ proposalStatus'[p] = "failed"
        /\ \A q \in Proposals \ {p} : proposalStatus'[q] = proposalStatus[q]
        /\ UNCHANGED <<recorded, effects, proposalLost>>
    BY <1>12, <2>1 DEF ApplyNoExecutor, ApplyCommitFailure, ApplyEnds, ProposalTypeOK,
       proposalHistory
  <2>3. effects'[p] = recorded'[p] + proposalLost'[p] + 0 /\ recorded'[p] = 0
    BY <1>7, <2>0, <2>1, <2>2
  <2> QED BY <1>7, <2>0, <2>1, <2>2, <2>3, StepsDiffer, OneApplySteps
<1>13. ASSUME ApplyAborts(x)
       PROVE  OneApplyInv'
  <2>0. apply[x] # Idle
    BY <1>13 DEF ApplyAborts
  <2>1. PICK p \in Proposals : p = apply[x].p
    BY <1>7, <2>0
  <2>2. /\ apply' = [apply EXCEPT ![x] = Idle]
        /\ proposalLost'[p] = IF apply[x].outcome = "ok" THEN proposalLost[p] + 1 ELSE proposalLost[p]
        /\ \A q \in Proposals \ {p} : proposalLost'[q] = proposalLost[q]
        /\ UNCHANGED <<proposalStatus, recorded, effects>>
    BY <1>13, <2>1 DEF ApplyAborts, ProposalTypeOK
  <2>3. effects'[p] = recorded'[p] + proposalLost'[p] + 0 /\ recorded'[p] = 0
    BY <1>7, <2>0, <2>1, <2>2
  <2> QED BY <1>7, <2>0, <2>1, <2>2, <2>3, StepsDiffer, OneApplySteps
<1>14. CASE UNCHANGED proposalVars
  BY <1>14, OneApplyOthers DEF proposalVars, tableVars, proposalHistory
<1> QED
  BY <1>1, <1>2, <1>3, <1>4, <1>5, <1>6, <1>8, <1>10, <1>11, <1>12, <1>13, <1>14
     DEF ProposalNext, ReviewProceeds, ApplyStarts, ApplyProceeds

LEMMA OneApplyAlways ==
  ASSUME NEW x, Appliers = {x}
  PROVE  ProposalSpec => [](ProposalTypeOK /\ GrantInv /\ OneApplyInv)
<1>1. ProposalInit => ProposalTypeOK /\ GrantInv /\ OneApplyInv
  BY InitType, InitGrant, InitOneApply
<1>2. ProposalTypeOK /\ GrantInv /\ OneApplyInv /\ [ProposalNext]_proposalVars => (ProposalTypeOK /\ GrantInv /\ OneApplyInv)'
  BY NextType, NextGrant, NextOneApply
<1> QED BY <1>1, <1>2, PTL DEF ProposalSpec

\* With one execute call at a time what the table says of a proposal is true:
\* "applied" stands for exactly one outbox event, and "failed" for no action of
\* the external system other than those whose answer was lost.
THEOREM ReportsHold ==
  ASSUME NEW x, Appliers = {x}
  PROVE  ProposalSpec => []ReportsAreTrue
<1>1. ProposalTypeOK /\ OneApplyInv => ReportsAreTrue
  <2>1. ASSUME ProposalTypeOK, OneApplyInv, NEW p \in Proposals, proposalStatus[p] = "failed"
        PROVE  effects[p] = proposalLost[p]
    <3>1. ~ Unrecorded(p) /\ recorded[p] = 0
      BY <2>1 DEF Unrecorded, OneApplyInv
    <3> QED BY <2>1, <3>1 DEF OneApplyInv, ProposalTypeOK
  <2> QED BY <2>1 DEF OneApplyInv, ReportsAreTrue
<1> QED BY <1>1, OneApplyAlways, PTL

-----------------------------------------------------------------------------
(* The refinement of ProposalLifecycle.                                    *)

\* A write of apply_status that is a transition of the lifecycle.
LEMMA MoveMaps ==
  ASSUME NEW p \in Proposals, NEW from, NEW to, proposalStatus[p] = from,
         proposalStatus' = [proposalStatus EXCEPT ![p] = to], UNCHANGED effects
  PROVE  Lifecycle!Move(p, from, to)
BY DEF Lifecycle!Move

\* A step that a client does not see.
LEMMA StutterMaps ==
  ASSUME UNCHANGED <<proposalStatus, effects>>
  PROVE  UNCHANGED Lifecycle!vars
BY DEF Lifecycle!vars

LEMMA InitMaps == ProposalInit => Lifecycle!Init
<1> SUFFICES ASSUME ProposalInit PROVE Lifecycle!Init
  OBVIOUS
<1>1. \A p \in Proposals : (effects[p] > 0) = FALSE
  BY DEF ProposalInit
<1>2. [p \in Proposals |-> effects[p] > 0] = [p \in Proposals |-> FALSE]
  BY <1>1, Zenon
<1> QED BY <1>2 DEF ProposalInit, Lifecycle!Init

\* The external system acts on an approved proposal.
LEMMA ActMaps ==
  ASSUME ProposalTypeOK, NEW p \in Proposals, proposalStatus[p] = "approved",
         effects' = [effects EXCEPT ![p] = @ + 1], UNCHANGED proposalStatus
  PROVE  Lifecycle!Act(p)
<1>1. effects'[p] > 0
  BY DEF ProposalTypeOK
<1>2. \A q \in Proposals \ {p} : effects'[q] = effects[q]
  BY DEF ProposalTypeOK
<1>3. [q \in Proposals |-> effects'[q] > 0]
        = [[q \in Proposals |-> effects[q] > 0] EXCEPT ![p] = TRUE]
  <2> DEFINE acted == [q \in Proposals |-> effects[q] > 0]
  <2>1. [acted EXCEPT ![p] = TRUE] = [q \in Proposals |-> IF q = p THEN TRUE ELSE acted[q]]
    BY Zenon
  <2>2. ASSUME NEW q \in Proposals
        PROVE  (effects'[q] > 0) = IF q = p THEN TRUE ELSE acted[q]
    <3>1. (effects'[p] > 0) = TRUE
      BY <1>1
    <3>2. acted[q] = (effects[q] > 0)
      BY Zenon
    <3>3. CASE q = p
      BY <3>1, <3>3, Zenon
    <3>4. CASE q # p
      BY <1>2, <3>2, <3>4, Zenon
    <3> QED BY <3>3, <3>4
  <2> HIDE DEF acted
  <2>3. [q \in Proposals |-> effects'[q] > 0]
          = [q \in Proposals |-> IF q = p THEN TRUE ELSE acted[q]]
    BY <2>2, Zenon
  <2>4. [q \in Proposals |-> effects'[q] > 0] = [acted EXCEPT ![p] = TRUE]
    BY <2>1, <2>3, Zenon
  <2> QED BY <2>4, Zenon DEF acted
<1> QED BY <1>3 DEF Lifecycle!Act

LEMMA NextMaps ==
  ASSUME NEW x, Appliers = {x}, ProposalTypeOK, GrantInv, OneApplyInv, [ProposalNext]_proposalVars
  PROVE  [Lifecycle!Next]_(Lifecycle!vars)
<1>1. ASSUME NEW p \in Proposals, UNCHANGED effects, proposalStatus[p] = "absent",
             proposalStatus' = [proposalStatus EXCEPT ![p] = "proposed"]
      PROVE  Lifecycle!Next
  BY <1>1, MoveMaps DEF Lifecycle!Next, Lifecycle!Propose
<1>2. ASSUME NEW d \in Deciders, DecideStep(d)
      PROVE  Lifecycle!Next \/ UNCHANGED Lifecycle!vars
  <2>1. CASE \E p \in Proposals : CreateProposal(d, p)
    BY <1>1, <2>1 DEF CreateProposal, proposalHistory
  <2>2. CASE \/ \E c \in Cases : DecisionGenerated(d, c) \/ DecisionFailed(d, c)
             \/ ProposalsGenerated(d) \/ DecideAborts(d)
    BY <2>2, StutterMaps DEF DecisionGenerated, DecisionFailed, ProposalsGenerated,
                            DecideAborts, tableVars, proposalHistory
  <2> QED BY <1>2, <2>1, <2>2 DEF DecideStep
<1>3. ASSUME NEW c \in Cases, CreateCaseFromAlert(c) \/ ResolveCase(c)
      PROVE  UNCHANGED Lifecycle!vars
  BY <1>3, StutterMaps DEF CreateCaseFromAlert, ResolveCase, tableVars, proposalHistory
<1>4. ASSUME NEW p \in Proposals, ProposeAction(p)
      PROVE  Lifecycle!Next
  BY <1>1, <1>4 DEF ProposeAction, proposalHistory
<1>5. ASSUME NEW r \in Reviewers, ReviewCommit(r)
      PROVE  Lifecycle!Next
  <2>1. review[r] # Idle
    BY <1>5, StepsDiffer DEF ReviewCommit
  <2>2. review[r] \in Reviewing /\ review[r].p \in Proposals
        /\ proposalStatus[review[r].p] = "proposed"
    BY <2>1, CallsAreRecords DEF GrantInv
  <2>3. /\ proposalStatus' = [proposalStatus EXCEPT ![review[r].p] = NewStatus(review[r].verdict)]
        /\ UNCHANGED effects
    BY <1>5 DEF ReviewCommit, proposalHistory
  <2>4. NewStatus(review[r].verdict) \in {"approved", "rejected"}
    BY DEF NewStatus
  <2>5. Lifecycle!Approve(review[r].p) \/ Lifecycle!Reject(review[r].p)
    BY <2>2, <2>3, <2>4, MoveMaps DEF Lifecycle!Approve, Lifecycle!Reject
  <2> QED BY <2>2, <2>5 DEF Lifecycle!Next
<1>6. ASSUME NEW r \in Reviewers, ReviewStarts(r) \/ ReviewReadCase(r) \/ ReviewAborts(r)
      PROVE  UNCHANGED Lifecycle!vars
  BY <1>6, StutterMaps
     DEF ReviewStarts, ReviewLock, ReviewReadCase, ReviewAborts, tableVars, proposalHistory
<1>7. ASSUME ApplyStarts(x) \/ ApplyBegin(x) \/ ApplyExecuteFails(x) \/ ApplyAborts(x)
      PROVE  UNCHANGED Lifecycle!vars
  BY <1>7, StutterMaps
     DEF ApplyStarts, ApplyLoad, ApplyBegin, ApplyExecuteFails, Executed, ApplyAborts,
         tableVars, proposalHistory
<1>8. ASSUME apply[x] # Idle
      PROVE  apply[x].p \in Proposals /\ proposalStatus[apply[x].p] = "approved"
  BY <1>8, CallsAreRecords DEF OneApplyInv
<1>9. ASSUME ApplyExecutes(x) \/ ApplyExecuteTimesOut(x)
      PROVE  Lifecycle!Next
  <2>1. apply[x] # Idle
    BY <1>9, StepsDiffer DEF ApplyExecutes, ApplyExecuteTimesOut, Executed
  <2>2. PICK p \in Proposals : p = apply[x].p /\ proposalStatus[p] = "approved"
    BY <1>8, <2>1
  <2>3. effects' = [effects EXCEPT ![p] = @ + 1] /\ UNCHANGED proposalStatus
    BY <1>9, <2>2 DEF ApplyExecutes, ApplyExecuteTimesOut, Executed, tableVars
  <2>4. Lifecycle!Act(p)
    BY <2>2, <2>3, ActMaps
  <2> QED BY <2>4 DEF Lifecycle!Next
<1>10. ASSUME ApplyCommit(x)
       PROVE  Lifecycle!Next
  <2>1. apply[x] # Idle /\ apply[x].outcome = "ok"
    BY <1>10, StepsDiffer DEF ApplyCommit
  <2>2. PICK p \in Proposals : p = apply[x].p /\ proposalStatus[p] = "approved"
    BY <1>8, <2>1
  <2>3. Unrecorded(p) /\ recorded[p] = 0
    BY <2>1, <2>2 DEF Unrecorded, OneApplyInv
  <2>4. effects[p] > 0
    BY <2>3 DEF OneApplyInv, ProposalTypeOK
  <2>5. proposalStatus' = [proposalStatus EXCEPT ![p] = "applied"] /\ UNCHANGED effects
    BY <1>10, <2>2 DEF ApplyCommit, ApplyEnds, proposalHistory
  <2>6. Lifecycle!Move(p, "approved", "applied")
    BY <2>2, <2>5, MoveMaps
  <2> QED BY <2>4, <2>6 DEF Lifecycle!Next, Lifecycle!Apply
<1>11. ASSUME ApplyNoExecutor(x) \/ ApplyCommitFailure(x)
       PROVE  Lifecycle!Next
  <2>1. apply[x] # Idle
    BY <1>11, StepsDiffer DEF ApplyNoExecutor, ApplyCommitFailure
  <2>2. proposalStatus' = [proposalStatus EXCEPT ![apply[x].p] = "failed"] /\ UNCHANGED effects
    BY <1>11 DEF ApplyNoExecutor, ApplyCommitFailure, ApplyEnds, proposalHistory
  <2>3. Lifecycle!Fail(apply[x].p)
    BY <1>8, <2>1, <2>2, MoveMaps DEF Lifecycle!Fail
  <2> QED BY <1>8, <2>1, <2>3 DEF Lifecycle!Next
<1>12. CASE UNCHANGED proposalVars
  BY <1>12, StutterMaps DEF proposalVars, tableVars, proposalHistory
<1> QED
  BY <1>2, <1>3, <1>4, <1>5, <1>6, <1>7, <1>9, <1>10, <1>11, <1>12
     DEF ProposalNext, ReviewProceeds, ApplyProceeds

\* With one execute call at a time proposals live as ProposalLifecycle says:
\* reviewed once, acted on only when approved, "applied" only if something did
\* act, and "applied", "failed" and "rejected" for good.
THEOREM PromisesKept ==
  ASSUME NEW x, Appliers = {x}
  PROVE  ProposalSpec => KeepsItsPromises
<1>1. ProposalInit => Lifecycle!Init
  BY InitMaps
<1>2. ProposalTypeOK /\ GrantInv /\ OneApplyInv /\ [ProposalNext]_proposalVars => [Lifecycle!Next]_(Lifecycle!vars)
  BY NextMaps
<1> QED
  BY <1>1, <1>2, OneApplyAlways, PTL DEF ProposalSpec, KeepsItsPromises, Lifecycle!Spec

-----------------------------------------------------------------------------
(* Any finite number of execute calls at a time: what they do is counted.   *)

\* The execute calls on p that may still act: each of them, once.
Contenders(p) ==
  {x \in Equipped : apply[x] # Idle /\ apply[x].p = p /\ apply[x].step # "executed"}

\* Only an ApplyService with executors has an outcome to report.
OutcomesOK ==
  \A x \in Appliers : apply[x] # Idle /\ apply[x].outcome # "none" =>
    x \in Equipped /\ apply[x].step = "executed"

\* An event is committed together with a status that lets no further call in.
EventCloses(p) == recorded[p] > 0 => proposalStatus[p] \in {"applied", "failed"}

Tallied(p) == effects[p] = recorded[p] + proposalLost[p] + Cardinality(InFlight(p))

\* The actions so far and those that the loaded copies still allow.
Bounded(p) == effects[p] + Cardinality(Contenders(p)) <= Cardinality(Equipped) + proposalLost[p]

TallyInv ==
  /\ OutcomesOK
  /\ \A p \in Proposals : EventCloses(p) /\ Tallied(p) /\ Bounded(p)

\* 1 if x is in S.
Count(x, S) == IF x \in S THEN 1 ELSE 0

LEMMA CallsAreFinite ==
  /\ IsFiniteSet(Equipped) /\ Cardinality(Equipped) \in Nat
  /\ \A S \in SUBSET Appliers : IsFiniteSet(S) /\ Cardinality(S) \in Nat
BY ProposalAssumption, FS_Subset, FS_CardinalityType

\* A set that one element may enter or leave.
LEMMA OneMoves ==
  ASSUME NEW S, NEW T, NEW x, IsFiniteSet(S), IsFiniteSet(T), S \ {x} = T \ {x}
  PROVE  Cardinality(T) = Cardinality(S) - Count(x, S) + Count(x, T)
<1>1. Cardinality(S) \in Nat /\ Cardinality(T) \in Nat
  BY FS_CardinalityType
<1>2. Cardinality(S \ {x}) = Cardinality(S) - Count(x, S)
  <2>1. CASE x \in S
    BY <1>1, <2>1, FS_RemoveElement DEF Count
  <2>2. CASE x \notin S
    <3>1. S \ {x} = S
      BY <2>2
    <3>2. Cardinality(S \ {x}) = Cardinality(S) /\ Count(x, S) = 0
      BY <2>2, <3>1 DEF Count
    <3> QED BY <1>1, <3>2
  <2> QED BY <2>1, <2>2
<1>3. Cardinality(T \ {x}) = Cardinality(T) - Count(x, T)
  <2>1. CASE x \in T
    BY <1>1, <2>1, FS_RemoveElement DEF Count
  <2>2. CASE x \notin T
    <3>1. T \ {x} = T
      BY <2>2
    <3>2. Cardinality(T \ {x}) = Cardinality(T) /\ Count(x, T) = 0
      BY <2>2, <3>1 DEF Count
    <3> QED BY <1>1, <3>2
  <2> QED BY <2>1, <2>2
<1>4. Count(x, S) \in {0, 1} /\ Count(x, T) \in {0, 1}
  BY DEF Count
<1>5. Cardinality(S \ {x}) = Cardinality(T \ {x})
  OBVIOUS
<1> QED BY <1>1, <1>2, <1>3, <1>4, <1>5

\* What a step of the call x does to the two sets of a proposal.
LEMMA OneCallMoves ==
  ASSUME ProposalTypeOK, NEW x \in Appliers, NEW v, apply' = [apply EXCEPT ![x] = v],
         NEW q \in Proposals
  PROVE  /\ Cardinality(InFlight(q)') =
              Cardinality(InFlight(q)) - Count(x, InFlight(q)) + Count(x, InFlight(q)')
         /\ Cardinality(Contenders(q)') =
              Cardinality(Contenders(q)) - Count(x, Contenders(q)) + Count(x, Contenders(q)')
         /\ x \in InFlight(q)' <=> v # Idle /\ v.p = q /\ v.outcome = "ok"
         /\ x \in Contenders(q)' <=> x \in Equipped /\ v # Idle /\ v.p = q /\ v.step # "executed"
<1>1. apply'[x] = v /\ \A y \in Appliers \ {x} : apply'[y] = apply[y]
  BY DEF ProposalTypeOK
<1>2. Equipped \subseteq Appliers
  BY ProposalAssumption
<1>3. /\ InFlight(q) \subseteq Appliers /\ InFlight(q)' \subseteq Appliers
      /\ Contenders(q) \subseteq Appliers /\ Contenders(q)' \subseteq Appliers
  BY <1>2 DEF InFlight, Contenders
<1>4. InFlight(q) \ {x} = InFlight(q)' \ {x}
  BY <1>1 DEF InFlight
<1>5. Contenders(q) \ {x} = Contenders(q)' \ {x}
  BY <1>1, <1>2 DEF Contenders
<1>6. /\ x \in InFlight(q)' <=> v # Idle /\ v.p = q /\ v.outcome = "ok"
      /\ x \in Contenders(q)' <=> x \in Equipped /\ v # Idle /\ v.p = q /\ v.step # "executed"
  BY <1>1 DEF InFlight, Contenders
<1> QED BY <1>3, <1>4, <1>5, <1>6, CallsAreFinite, OneMoves

\* A call in flight is no contender.
LEMMA FlightsAndContenders ==
  ASSUME OutcomesOK, NEW p \in Proposals, NEW S \in SUBSET Equipped, S \cap InFlight(p) = {}
  PROVE  Cardinality(S) + Cardinality(InFlight(p)) <= Cardinality(Equipped)
<1>1. InFlight(p) \subseteq Equipped
  BY DEF OutcomesOK, InFlight
<1>2. IsFiniteSet(Equipped) /\ IsFiniteSet(S) /\ IsFiniteSet(InFlight(p))
  BY <1>1, CallsAreFinite, FS_Subset
<1>3. Cardinality(S \cup InFlight(p)) = Cardinality(S) + Cardinality(InFlight(p)) - Cardinality({})
  BY <1>2, FS_Union
<1>4. Cardinality(S \cup InFlight(p)) <= Cardinality(Equipped)
  BY <1>1, <1>2, FS_Subset
<1>5. Cardinality(S) \in Nat /\ Cardinality(InFlight(p)) \in Nat /\ Cardinality({}) = 0
  BY <1>2, FS_CardinalityType, FS_EmptySet
<1> QED BY <1>3, <1>4, <1>5

LEMMA InitTally == ProposalInit => TallyInv
<1> SUFFICES ASSUME ProposalInit PROVE TallyInv
  OBVIOUS
<1>1. OutcomesOK
  BY DEF ProposalInit, OutcomesOK
<1>2. ASSUME NEW p \in Proposals
      PROVE  EventCloses(p) /\ Tallied(p) /\ Bounded(p)
  <2>1. InFlight(p) = {} /\ Contenders(p) = {}
    BY ProposalAssumption DEF ProposalInit, InFlight, Contenders
  <2>2. effects[p] = 0 /\ recorded[p] = 0 /\ proposalLost[p] = 0
    BY DEF ProposalInit
  <2> QED BY <2>1, <2>2, CallsAreFinite, FS_EmptySet DEF EventCloses, Tallied, Bounded
<1> QED BY <1>1, <1>2 DEF TallyInv

\* A step of no execution: it changes the status of proposals without events.
LEMMA TallyOthers ==
  ASSUME ProposalTypeOK, TallyInv, UNCHANGED <<recorded, apply, effects, proposalLost>>,
         \A p \in Proposals : proposalStatus'[p] = proposalStatus[p] \/ proposalStatus[p] \in {"absent", "proposed"}
  PROVE  TallyInv'
<1>1. OutcomesOK'
  BY DEF TallyInv, OutcomesOK
<1>2. ASSUME NEW p \in Proposals
      PROVE  EventCloses(p)' /\ Tallied(p)' /\ Bounded(p)'
  <2>1. InFlight(p)' = InFlight(p) /\ Contenders(p)' = Contenders(p)
    BY DEF InFlight, Contenders
  <2>2. EventCloses(p) /\ Tallied(p) /\ Bounded(p)
    BY DEF TallyInv
  <2>3. Tallied(p)' /\ Bounded(p)'
    BY <2>1, <2>2 DEF Tallied, Bounded
  <2>4. EventCloses(p)'
    BY <2>2 DEF EventCloses
  <2> QED BY <2>3, <2>4
<1> QED BY <1>1, <1>2 DEF TallyInv

\* A step of the call x on the proposal p: the call was or becomes v.
LEMMA TallyMoves ==
  ASSUME ProposalTypeOK, ProposalTypeOK', TallyInv, NEW x \in Appliers, NEW p \in Proposals, NEW v,
         apply' = [apply EXCEPT ![x] = v],
         apply[x] # Idle => apply[x].p = p,
         v # Idle => /\ v.p = p
                     /\ v.outcome # "none" => x \in Equipped /\ v.step = "executed",
         \A q \in Proposals \ {p} :
           /\ proposalStatus'[q] = proposalStatus[q] /\ recorded'[q] = recorded[q]
           /\ effects'[q] = effects[q] /\ proposalLost'[q] = proposalLost[q],
         EventCloses(p)',
         effects'[p] - recorded'[p] - proposalLost'[p] =
           effects[p] - recorded[p] - proposalLost[p] - Count(x, InFlight(p)) + Count(x, InFlight(p)'),
         \/ Bounded(p)'
         \/ effects'[p] - proposalLost'[p] - Count(x, Contenders(p)) + Count(x, Contenders(p)')
              <= effects[p] - proposalLost[p]
  PROVE  TallyInv'
<1>1. OutcomesOK'
  <2>1. ASSUME NEW y \in Appliers, apply'[y] # Idle, apply'[y].outcome # "none"
        PROVE  y \in Equipped /\ apply'[y].step = "executed"
    <3>1. apply'[y] = IF y = x THEN v ELSE apply[y]
      BY DEF ProposalTypeOK
    <3> QED BY <2>1, <3>1 DEF TallyInv, OutcomesOK
  <2> QED BY <2>1 DEF OutcomesOK
<1>2. ASSUME NEW q \in Proposals
      PROVE  /\ effects[q] \in Nat /\ recorded[q] \in Nat /\ proposalLost[q] \in Nat
             /\ effects'[q] \in Nat /\ recorded'[q] \in Nat /\ proposalLost'[q] \in Nat
             /\ Cardinality(InFlight(q)) \in Nat /\ Cardinality(Contenders(q)) \in Nat
             /\ Cardinality(InFlight(q)') \in Nat /\ Cardinality(Contenders(q)') \in Nat
             /\ Cardinality(Equipped) \in Nat
             /\ EventCloses(q) /\ Tallied(q) /\ Bounded(q)
  <2>1. /\ InFlight(q) \subseteq Appliers /\ InFlight(q)' \subseteq Appliers
        /\ Contenders(q) \subseteq Appliers /\ Contenders(q)' \subseteq Appliers
    BY ProposalAssumption DEF InFlight, Contenders
  <2>2. /\ effects[q] \in Nat /\ recorded[q] \in Nat /\ proposalLost[q] \in Nat
        /\ effects'[q] \in Nat /\ recorded'[q] \in Nat /\ proposalLost'[q] \in Nat
    BY DEF ProposalTypeOK
  <2> QED BY <2>1, <2>2, CallsAreFinite DEF TallyInv
<1>3. ASSUME NEW q \in Proposals, q # p
      PROVE  EventCloses(q)' /\ Tallied(q)' /\ Bounded(q)'
  <2>1. x \notin InFlight(q) /\ x \notin Contenders(q)
    BY <1>3 DEF InFlight, Contenders
  <2>2. x \notin InFlight(q)' /\ x \notin Contenders(q)'
    BY <1>3, OneCallMoves
  <2>3. /\ Cardinality(InFlight(q)') = Cardinality(InFlight(q))
        /\ Cardinality(Contenders(q)') = Cardinality(Contenders(q))
    <3>1. Count(x, InFlight(q)) = 0 /\ Count(x, InFlight(q)') = 0
      BY <2>1, <2>2 DEF Count
    <3>2. Count(x, Contenders(q)) = 0 /\ Count(x, Contenders(q)') = 0
      BY <2>1, <2>2 DEF Count
    <3>3. /\ Cardinality(InFlight(q)') =
               Cardinality(InFlight(q)) - Count(x, InFlight(q)) + Count(x, InFlight(q)')
          /\ Cardinality(Contenders(q)') =
               Cardinality(Contenders(q)) - Count(x, Contenders(q)) + Count(x, Contenders(q)')
      BY OneCallMoves
    <3> QED BY <1>2, <3>1, <3>2, <3>3
  <2>4. EventCloses(q)'
    BY <1>2, <1>3 DEF EventCloses
  <2>5. Tallied(q)' /\ Bounded(q)'
    BY <1>2, <1>3, <2>3 DEF Tallied, Bounded
  <2> QED BY <2>4, <2>5
<1>4. Tallied(p)'
  <2>1. Cardinality(InFlight(p)') =
          Cardinality(InFlight(p)) - Count(x, InFlight(p)) + Count(x, InFlight(p)')
    BY OneCallMoves
  <2>2. Count(x, InFlight(p)) \in {0, 1} /\ Count(x, InFlight(p)') \in {0, 1}
    BY DEF Count
  <2> QED BY <1>2, <2>1, <2>2 DEF Tallied
<1>5. Bounded(p)'
  <2>1. Cardinality(Contenders(p)') =
          Cardinality(Contenders(p)) - Count(x, Contenders(p)) + Count(x, Contenders(p)')
    BY OneCallMoves
  <2>2. Count(x, Contenders(p)) \in {0, 1} /\ Count(x, Contenders(p)') \in {0, 1}
    BY DEF Count
  <2> QED BY <1>2, <2>1, <2>2 DEF Bounded
<1> QED BY <1>1, <1>3, <1>4, <1>5 DEF TallyInv

\* The copy that a call has loaded is of an approved proposal, which has no event
\* yet: whoever acted on it before is still in flight.
LEMMA TallyLoads ==
  ASSUME ProposalTypeOK, ProposalTypeOK', TallyInv, NEW x \in Appliers, NEW p \in Proposals, ApplyLoad(x, p)
  PROVE  TallyInv'
<1> DEFINE v == [step |-> "loaded", p |-> p, outcome |-> "none"]
<1>1. /\ v # Idle /\ v.p = p /\ v.outcome = "none" /\ v.step = "loaded"
      /\ apply' = [apply EXCEPT ![x] = v] /\ apply[x] = Idle /\ proposalStatus[p] = "approved"
      /\ UNCHANGED <<proposalStatus, recorded, effects, proposalLost>>
  BY StepsDiffer DEF ApplyLoad, tableVars, proposalHistory, Applying
<1> HIDE DEF v
<1>2. EventCloses(p) /\ Tallied(p) /\ OutcomesOK
  BY DEF TallyInv
<1>3. recorded[p] = 0
  BY <1>1, <1>2 DEF EventCloses, ProposalTypeOK
<1>4. x \notin InFlight(p) /\ x \notin InFlight(p)' /\ x \notin Contenders(p)
  BY <1>1, OneCallMoves DEF InFlight, Contenders
<1>5. InFlight(p)' = InFlight(p)
  BY <1>1, <1>4 DEF InFlight, ProposalTypeOK
<1>6. OutcomesOK'
  BY <1>1, <1>2 DEF OutcomesOK, ProposalTypeOK
<1>7. Contenders(p)' \subseteq Equipped /\ Contenders(p)' \cap InFlight(p) = {}
  <2>1. ASSUME NEW y \in Contenders(p)' PROVE y \notin InFlight(p)
    <3>1. apply'[y] # Idle /\ apply'[y].step # "executed" /\ y \in Appliers
      BY <2>1, ProposalAssumption DEF Contenders
    <3>2. apply'[y].outcome = "none"
      BY <1>6, <3>1 DEF OutcomesOK
    <3> QED BY <1>5, <3>2 DEF InFlight
  <2> QED BY <2>1 DEF Contenders
<1>8. Cardinality(Contenders(p)') + Cardinality(InFlight(p)) <= Cardinality(Equipped)
  BY <1>2, <1>7, FlightsAndContenders
<1>9. Bounded(p)'
  <2>1. /\ Cardinality(Contenders(p)') \in Nat /\ Cardinality(InFlight(p)) \in Nat
        /\ Cardinality(Equipped) \in Nat
    BY <1>7, CallsAreFinite, ProposalAssumption DEF InFlight
  <2>2. effects[p] \in Nat /\ proposalLost[p] \in Nat
    BY DEF ProposalTypeOK
  <2> QED BY <1>1, <1>2, <1>3, <1>8, <2>1, <2>2 DEF Tallied, Bounded
<1>10. EventCloses(p)'
  BY <1>1, <1>2 DEF EventCloses
<1>11. /\ effects[p] \in Nat /\ recorded[p] \in Nat /\ proposalLost[p] \in Nat
       /\ Count(x, InFlight(p)) = 0 /\ Count(x, InFlight(p)') = 0
  BY <1>4 DEF ProposalTypeOK, Count
<1>12. effects'[p] - recorded'[p] - proposalLost'[p] =
         effects[p] - recorded[p] - proposalLost[p] - Count(x, InFlight(p)) + Count(x, InFlight(p)')
  BY <1>1, <1>11
<1> QED BY <1>1, <1>9, <1>10, <1>12, TallyMoves

\* What a call that is not idle is.
LEMMA CallOf ==
  ASSUME ProposalTypeOK, TallyInv, NEW x \in Appliers, apply[x] # Idle, NEW p, p = apply[x].p
  PROVE  /\ apply[x] \in Applying /\ p \in Proposals
         /\ effects[p] \in Nat /\ recorded[p] \in Nat /\ proposalLost[p] \in Nat /\ EventCloses(p)
         /\ Count(x, InFlight(p)) = IF apply[x].outcome = "ok" THEN 1 ELSE 0
         /\ Count(x, Contenders(p)) =
              IF x \in Equipped /\ apply[x].step # "executed" THEN 1 ELSE 0
         /\ apply[x].step # "executed" => apply[x].outcome = "none"
<1>1. apply[x] \in Applying /\ p \in Proposals
  BY CallsAreRecords
<1>2. x \in InFlight(p) <=> apply[x].outcome = "ok"
  BY DEF InFlight
<1>3. x \in Contenders(p) <=> x \in Equipped /\ apply[x].step # "executed"
  BY DEF Contenders
<1> QED BY <1>1, <1>2, <1>3 DEF Count, ProposalTypeOK, TallyInv, OutcomesOK

\* What the call x is after a step that makes it v.
LEMMA CallBecomes ==
  ASSUME ProposalTypeOK, NEW x \in Appliers, NEW v, apply' = [apply EXCEPT ![x] = v],
         NEW p \in Proposals, v # Idle => v.p = p
  PROVE  /\ Count(x, InFlight(p)') = IF v # Idle /\ v.outcome = "ok" THEN 1 ELSE 0
         /\ Count(x, Contenders(p)') =
              IF x \in Equipped /\ v # Idle /\ v.step # "executed" THEN 1 ELSE 0
<1>1. /\ x \in InFlight(p)' <=> v # Idle /\ v.outcome = "ok"
      /\ x \in Contenders(p)' <=> x \in Equipped /\ v # Idle /\ v.step # "executed"
  BY OneCallMoves
<1> QED BY <1>1 DEF Count

\* A step of the call x, to v, at the row of p: it adds a to effects[p], e to
\* recorded[p] and l to proposalLost[p], and what it adds is what the call has in flight.
Moves(x, p, v, a, e, l) ==
  /\ apply[x] # Idle /\ apply[x].p = p
  /\ apply' = [apply EXCEPT ![x] = v]
  /\ v # Idle => v.p = p /\ (v.outcome # "none" => x \in Equipped /\ v.step = "executed")
  /\ effects' = [effects EXCEPT ![p] = @ + a]
  /\ recorded' = [recorded EXCEPT ![p] = @ + e]
  /\ proposalLost' = [proposalLost EXCEPT ![p] = @ + l]
  /\ \A q \in Proposals \ {p} : proposalStatus'[q] = proposalStatus[q]
  /\ \/ proposalStatus'[p] = proposalStatus[p] /\ e = 0
     \/ proposalStatus'[p] \in {"applied", "failed"}
  /\ a - e - l = (IF v # Idle /\ v.outcome = "ok" THEN 1 ELSE 0)
                   - (IF apply[x].outcome = "ok" THEN 1 ELSE 0)
  /\ a - l + (IF x \in Equipped /\ v # Idle /\ v.step # "executed" THEN 1 ELSE 0)
       <= (IF x \in Equipped /\ apply[x].step # "executed" THEN 1 ELSE 0)

LEMMA TallySteps ==
  ASSUME ProposalTypeOK, ProposalTypeOK', TallyInv, NEW x \in Appliers, NEW p, NEW v,
         NEW a \in {0, 1}, NEW e \in {0, 1}, NEW l \in {0, 1}, Moves(x, p, v, a, e, l)
  PROVE  TallyInv'
<1>0. /\ apply[x] # Idle /\ apply[x].p = p
      /\ apply' = [apply EXCEPT ![x] = v]
      /\ v # Idle => v.p = p /\ (v.outcome # "none" => x \in Equipped /\ v.step = "executed")
      /\ effects' = [effects EXCEPT ![p] = @ + a]
      /\ recorded' = [recorded EXCEPT ![p] = @ + e]
      /\ proposalLost' = [proposalLost EXCEPT ![p] = @ + l]
      /\ \A q \in Proposals \ {p} : proposalStatus'[q] = proposalStatus[q]
      /\ \/ proposalStatus'[p] = proposalStatus[p] /\ e = 0
         \/ proposalStatus'[p] \in {"applied", "failed"}
  BY DEF Moves
<1>1. /\ p \in Proposals /\ effects[p] \in Nat /\ recorded[p] \in Nat /\ proposalLost[p] \in Nat
      /\ EventCloses(p)
      /\ Count(x, InFlight(p)) = IF apply[x].outcome = "ok" THEN 1 ELSE 0
      /\ Count(x, Contenders(p)) = IF x \in Equipped /\ apply[x].step # "executed" THEN 1 ELSE 0
  BY <1>0, CallOf
<1>2. /\ Count(x, InFlight(p)') = IF v # Idle /\ v.outcome = "ok" THEN 1 ELSE 0
      /\ Count(x, Contenders(p)') =
           IF x \in Equipped /\ v # Idle /\ v.step # "executed" THEN 1 ELSE 0
  BY <1>0, <1>1, CallBecomes
<1>3. effects'[p] = effects[p] + a /\ recorded'[p] = recorded[p] + e /\ proposalLost'[p] = proposalLost[p] + l
  BY <1>0, <1>1 DEF ProposalTypeOK
<1>4. \A q \in Proposals \ {p} :
        /\ proposalStatus'[q] = proposalStatus[q] /\ recorded'[q] = recorded[q]
        /\ effects'[q] = effects[q] /\ proposalLost'[q] = proposalLost[q]
  BY <1>0 DEF ProposalTypeOK
<1>5. EventCloses(p)'
  BY <1>0, <1>1, <1>3 DEF EventCloses
<1>a. /\ a - e - l = Count(x, InFlight(p)') - Count(x, InFlight(p))
      /\ a - l + Count(x, Contenders(p)') <= Count(x, Contenders(p))
  BY <1>1, <1>2 DEF Moves
<1>b. /\ Count(x, InFlight(p)) \in {0, 1} /\ Count(x, InFlight(p)') \in {0, 1}
      /\ Count(x, Contenders(p)) \in {0, 1} /\ Count(x, Contenders(p)') \in {0, 1}
  BY DEF Count
<1>6. effects'[p] - recorded'[p] - proposalLost'[p] =
        effects[p] - recorded[p] - proposalLost[p] - Count(x, InFlight(p)) + Count(x, InFlight(p)')
  BY <1>1, <1>3, <1>a, <1>b
<1>7. effects'[p] - proposalLost'[p] - Count(x, Contenders(p)) + Count(x, Contenders(p)')
        <= effects[p] - proposalLost[p]
  BY <1>1, <1>3, <1>a, <1>b
<1> QED BY <1>0, <1>1, <1>4, <1>5, <1>6, <1>7, TallyMoves

\* Adding nothing changes nothing.
LEMMA NothingAdded ==
  ASSUME NEW f \in [Proposals -> Nat], NEW p \in Proposals
  PROVE  f = [f EXCEPT ![p] = @ + 0]
OBVIOUS

LEMMA TallyApply ==
  ASSUME ProposalTypeOK, ProposalTypeOK', TallyInv, NEW x \in Appliers,
         ApplyProceeds(x) \/ ApplyExecuteTimesOut(x) \/ ApplyAborts(x)
  PROVE  TallyInv'
<1>1. apply[x] # Idle
  BY StepsDiffer DEF ApplyProceeds, ApplyBegin, ApplyNoExecutor, ApplyExecutes, ApplyExecuteFails,
     ApplyExecuteTimesOut, ApplyCommit, ApplyCommitFailure, ApplyAborts, Executed
<1>2. PICK p : p = apply[x].p
  OBVIOUS
<1>3. /\ apply[x] \in Applying /\ p \in Proposals
      /\ apply[x].step # "executed" => apply[x].outcome = "none"
  BY <1>1, <1>2, CallOf
<1>4. /\ effects = [effects EXCEPT ![p] = @ + 0]
      /\ recorded = [recorded EXCEPT ![p] = @ + 0]
      /\ proposalLost = [proposalLost EXCEPT ![p] = @ + 0]
  BY <1>3, NothingAdded DEF ProposalTypeOK
<1>5. CASE ApplyBegin(x)
  <2> DEFINE v == [apply[x] EXCEPT !.step = "begun"]
  <2>1. v \in Applying /\ v.p = p /\ v.step = "begun" /\ v.outcome = "none"
    BY <1>2, <1>3, <1>5 DEF Applying, ApplyBegin
  <2>2. /\ apply' = [apply EXCEPT ![x] = v] /\ apply[x].step = "loaded"
        /\ UNCHANGED <<proposalStatus, effects, recorded, proposalLost>>
    BY <1>5 DEF ApplyBegin, proposalHistory
  <2> HIDE DEF v
  <2>3. apply[x].outcome = "none"
    BY <1>3, <2>2
  <2>5. Moves(x, p, v, 0, 0, 0)
    BY <1>1, <1>2, <1>4, <2>1, <2>2, <2>3 DEF Moves
  <2> QED BY <2>5, TallySteps
<1>6. CASE ApplyNoExecutor(x)
  <2>1. /\ apply' = [apply EXCEPT ![x] = Idle] /\ apply[x].step = "begun" /\ x \notin Equipped
        /\ UNCHANGED <<effects, recorded, proposalLost>>
        /\ proposalStatus' = [proposalStatus EXCEPT ![p] = "failed"]
    BY <1>2, <1>6 DEF ApplyNoExecutor, ApplyEnds, proposalHistory
  <2>2. proposalStatus'[p] = "failed" /\ \A q \in Proposals \ {p} : proposalStatus'[q] = proposalStatus[q]
    BY <1>3, <2>1 DEF ProposalTypeOK
  <2>3. apply[x].outcome = "none"
    BY <1>3, <2>1
  <2>5. Moves(x, p, Idle, 0, 0, 0)
    BY <1>1, <1>2, <1>4, <2>1, <2>2, <2>3 DEF Moves
  <2> QED BY <2>5, TallySteps
<1>7. ASSUME NEW o \in {"ok", "failed"}, Executed(x, o), recorded' = recorded,
             NEW a \in {0, 1}, NEW l \in {0, 1}, a - l = IF o = "ok" THEN 1 ELSE 0,
             effects' = [effects EXCEPT ![p] = @ + a], proposalLost' = [proposalLost EXCEPT ![p] = @ + l]
      PROVE  TallyInv'
  <2> DEFINE v == [apply[x] EXCEPT !.step = "executed", !.outcome = o]
  <2>1. v # Idle /\ v.p = p /\ v.step = "executed" /\ v.outcome = o
    BY <1>2, <1>3, StepsDiffer DEF Applying
  <2>2. /\ apply' = [apply EXCEPT ![x] = v] /\ apply[x].step = "begun" /\ x \in Equipped
        /\ proposalStatus' = proposalStatus
    BY <1>7 DEF Executed, tableVars
  <2> HIDE DEF v
  <2>3. apply[x].outcome = "none"
    BY <1>3, <2>2
  <2>5. Moves(x, p, v, a, 0, l)
    BY <1>1, <1>2, <1>3, <1>4, <1>7, <2>1, <2>2, <2>3 DEF Moves
  <2> QED BY <2>5, TallySteps
<1>8. CASE ApplyExecutes(x)
  BY <1>2, <1>4, <1>7, <1>8 DEF ApplyExecutes, Executed, tableVars
<1>9. CASE ApplyExecuteFails(x)
  BY <1>2, <1>4, <1>7, <1>9 DEF ApplyExecuteFails, Executed, tableVars, proposalHistory
<1>10. CASE ApplyExecuteTimesOut(x)
  BY <1>2, <1>4, <1>7, <1>10 DEF ApplyExecuteTimesOut, Executed, tableVars
<1>11. CASE ApplyCommit(x)
  <2>1. /\ apply' = [apply EXCEPT ![x] = Idle] /\ apply[x].step = "executed"
        /\ apply[x].outcome = "ok" /\ UNCHANGED <<effects, proposalLost>>
        /\ recorded' = [recorded EXCEPT ![p] = @ + 1]
        /\ proposalStatus' = [proposalStatus EXCEPT ![p] = "applied"]
    BY <1>2, <1>11 DEF ApplyCommit, ApplyEnds, proposalHistory
  <2>2. proposalStatus'[p] = "applied" /\ \A q \in Proposals \ {p} : proposalStatus'[q] = proposalStatus[q]
    BY <1>3, <2>1 DEF ProposalTypeOK
  <2>5. Moves(x, p, Idle, 0, 1, 0)
    BY <1>1, <1>2, <1>3, <1>4, <2>1, <2>2 DEF Moves
  <2> QED BY <2>5, TallySteps
<1>12. CASE ApplyCommitFailure(x)
  <2>1. /\ apply' = [apply EXCEPT ![x] = Idle] /\ apply[x].step = "executed"
        /\ apply[x].outcome = "failed" /\ UNCHANGED <<effects, recorded, proposalLost>>
        /\ proposalStatus' = [proposalStatus EXCEPT ![p] = "failed"]
    BY <1>2, <1>12 DEF ApplyCommitFailure, ApplyEnds, proposalHistory
  <2>2. proposalStatus'[p] = "failed" /\ \A q \in Proposals \ {p} : proposalStatus'[q] = proposalStatus[q]
    BY <1>3, <2>1 DEF ProposalTypeOK
  <2>5. Moves(x, p, Idle, 0, 0, 0)
    BY <1>1, <1>2, <1>3, <1>4, <2>1, <2>2 DEF Moves
  <2> QED BY <2>5, TallySteps
<1>13. CASE ApplyAborts(x)
  <2>1. PICK l \in {0, 1} : l = IF apply[x].outcome = "ok" THEN 1 ELSE 0
    OBVIOUS
  <2>2. /\ apply' = [apply EXCEPT ![x] = Idle]
        /\ UNCHANGED <<proposalStatus, effects, recorded>>
        /\ proposalLost' = [proposalLost EXCEPT ![p] = IF apply[x].outcome = "ok" THEN @ + 1 ELSE @]
    BY <1>2, <1>13 DEF ApplyAborts
  <2>3. proposalLost' = [proposalLost EXCEPT ![p] = @ + l]
    <3>1. CASE apply[x].outcome = "ok"
      BY <2>1, <2>2, <3>1
    <3>2. CASE apply[x].outcome # "ok"
      BY <1>3, <1>4, <2>1, <2>2, <3>2 DEF ProposalTypeOK
    <3> QED BY <3>1, <3>2
  <2>4. /\ 0 - 0 - l = 0 - (IF apply[x].outcome = "ok" THEN 1 ELSE 0)
        /\ 0 - l + 0 <= (IF x \in Equipped /\ apply[x].step # "executed" THEN 1 ELSE 0)
    BY <2>1
  <2>5. Moves(x, p, Idle, 0, 0, l)
    BY <1>1, <1>2, <1>4, <2>2, <2>3, <2>4 DEF Moves
  <2> QED BY <2>5, TallySteps
<1> QED BY <1>5, <1>6, <1>8, <1>9, <1>10, <1>11, <1>12, <1>13 DEF ApplyProceeds

LEMMA NextTally ==
  ProposalTypeOK /\ ProposalTypeOK' /\ GrantInv /\ TallyInv /\ [ProposalNext]_proposalVars
    => TallyInv'
<1> SUFFICES ASSUME ProposalTypeOK, ProposalTypeOK', GrantInv, TallyInv, [ProposalNext]_proposalVars
             PROVE TallyInv'
  OBVIOUS
<1>1. ASSUME NEW d \in Deciders, DecideStep(d)
      PROVE  TallyInv'
  <2>1. CASE \E p \in Proposals : CreateProposal(d, p)
    BY <2>1, TallyOthers DEF CreateProposal, ProposalTypeOK, proposalHistory
  <2>2. CASE \/ \E c \in Cases : DecisionGenerated(d, c) \/ DecisionFailed(d, c)
             \/ ProposalsGenerated(d) \/ DecideAborts(d)
    BY <2>2, TallyOthers
       DEF DecisionGenerated, DecisionFailed, ProposalsGenerated, DecideAborts,
           tableVars, proposalHistory
  <2> QED BY <1>1, <2>1, <2>2 DEF DecideStep
<1>2. ASSUME NEW c \in Cases, CreateCaseFromAlert(c) \/ ResolveCase(c)
      PROVE  TallyInv'
  BY <1>2, TallyOthers DEF CreateCaseFromAlert, ResolveCase, tableVars, proposalHistory
<1>3. ASSUME NEW p \in Proposals, ProposeAction(p)
      PROVE  TallyInv'
  BY <1>3, TallyOthers DEF ProposeAction, ProposalTypeOK, proposalHistory
<1>4. ASSUME NEW r \in Reviewers, ReviewStarts(r) \/ ReviewReadCase(r) \/ ReviewAborts(r)
      PROVE  TallyInv'
  BY <1>4, TallyOthers DEF ReviewStarts, ReviewLock, ReviewReadCase, ReviewAborts,
     tableVars, proposalHistory
<1>5. ASSUME NEW r \in Reviewers, ReviewCommit(r)
      PROVE  TallyInv'
  <2>1. review[r] # Idle /\ review[r].p \in Proposals /\ proposalStatus[review[r].p] = "proposed"
    BY <1>5, CallsAreRecords, StepsDiffer DEF ReviewCommit, GrantInv
  <2>2. /\ \A q \in Proposals \ {review[r].p} : proposalStatus'[q] = proposalStatus[q]
        /\ UNCHANGED <<recorded, apply, effects, proposalLost>>
    BY <1>5, <2>1 DEF ReviewCommit, ProposalTypeOK, proposalHistory
  <2> QED BY <2>1, <2>2, TallyOthers
<1>6. ASSUME NEW x \in Appliers, ApplyStarts(x)
      PROVE  TallyInv'
  BY <1>6, TallyLoads DEF ApplyStarts
<1>7. ASSUME NEW x \in Appliers,
             ApplyProceeds(x) \/ ApplyExecuteTimesOut(x) \/ ApplyAborts(x)
      PROVE  TallyInv'
  BY <1>7, TallyApply
<1>8. CASE UNCHANGED proposalVars
  BY <1>8, TallyOthers DEF proposalVars, tableVars, proposalHistory
<1> QED BY <1>1, <1>2, <1>3, <1>4, <1>5, <1>6, <1>7, <1>8 DEF ProposalNext, ReviewProceeds

LEMMA TallyAlways == ProposalSpec => [](ProposalTypeOK /\ GrantInv /\ TallyInv)
<1>1. ProposalInit => ProposalTypeOK /\ GrantInv /\ TallyInv
  BY InitType, InitGrant, InitTally
<1>2. ProposalTypeOK /\ GrantInv /\ TallyInv /\ [ProposalNext]_proposalVars => (ProposalTypeOK /\ GrantInv /\ TallyInv)'
  BY NextType, NextGrant, NextTally
<1> QED BY <1>1, <1>2, PTL DEF ProposalSpec

\* However many execute calls work on the same proposal, each time an external
\* system acted is in an outbox event, in a transaction still open, or lost.
THEOREM EffectsRecorded == ProposalSpec => []EffectsAreRecorded
<1>1. TallyInv => EffectsAreRecorded
  BY DEF TallyInv, Tallied, EffectsAreRecorded
<1> QED BY <1>1, TallyAlways, PTL

\* The status is read before the row is locked, so execute calls that come
\* together may all act; but there are no more of them than have executors,
\* for the first commit ends what lets further calls in.
THEOREM EffectsBounded == ProposalSpec => []EffectsAreBounded
<1>1. ProposalTypeOK /\ TallyInv => EffectsAreBounded
  <2>1. ASSUME ProposalTypeOK, NEW p \in Proposals, Bounded(p)
        PROVE  effects[p] <= Cardinality(Equipped) + proposalLost[p]
    <3>1. Cardinality(Contenders(p)) \in Nat /\ Cardinality(Equipped) \in Nat
      BY CallsAreFinite, ProposalAssumption DEF Contenders
    <3>2. effects[p] \in Nat /\ proposalLost[p] \in Nat
      BY <2>1 DEF ProposalTypeOK
    <3> QED BY <2>1, <3>1, <3>2 DEF Bounded
  <2> QED BY <2>1 DEF TallyInv, EffectsAreBounded
<1> QED BY <1>1, TallyAlways, PTL
=============================================================================
