---------------------------- MODULE OutboxProofs ----------------------------
(***************************************************************************)
(* Theorems about Outbox, for any number of events, workers and requests;  *)
(* those that count, in the second half, for any finite number of workers. *)
(***************************************************************************)
EXTENDS Outbox, WellFoundedInduction, FiniteSetTheorems, TLAPS

-----------------------------------------------------------------------------
(* Lemmas about the operators of the model.                                *)

\* A non-empty set of events has an oldest one.
LEMMA OldestExists ==
  ASSUME NEW S, S \subseteq Events, S # {}
  PROVE  \E e \in S : \A f \in S : e <= f
<1>1. S \subseteq Nat
  BY OutboxAssumption DEF OutboxAssumption
<1>2. PICK e \in S : \A f \in S : ~ (<<f, e>> \in OpToRel(<, Nat))
  BY <1>1, NatLessThanWellFounded, WFMin
<1>3. \A f \in S : e <= f
  <2> TAKE f \in S
  <2>1. <<f, e>> \in Nat \X Nat
    BY <1>1
  <2>2. f < e => <<f, e>> \in OpToRel(<, Nat)
    BY <2>1, Zenon DEF OpToRel
  <2>3. ~ (f < e)
    BY <1>2, <2>2, Zenon
  <2>4. QED
    BY <1>1, <2>3
<1>4. QED
  BY <1>3

\* LIMIT n with n > 0 returns rows when there are any, and no other rows.
LEMMA OldestFetches ==
  ASSUME NEW S, S \subseteq Events, S # {}, NEW n \in Nat \ {0}
  PROVE  Oldest(S, n) # {} /\ Oldest(S, n) \subseteq S
<1>1. PICK e \in S : \A f \in S : e <= f
  BY OldestExists
<1>2. {f \in S : f < e} = {}
  <2>1. S \subseteq Nat
    BY OutboxAssumption DEF OutboxAssumption
  <2>2. \A f \in S : ~ (f < e)
    BY <1>1, <2>1
  <2>3. QED
    BY <2>2, Zenon
<1>3. Cardinality({f \in S : f < e}) < n
  BY <1>2, FS_EmptySet
<1>4. QED
  BY <1>3 DEF Oldest

\* The counter stays within its bound and never goes back.
LEMMA BumpType ==
  ASSUME NEW n \in 0 .. AttemptBound
  PROVE  Bump(n) \in 0 .. AttemptBound /\ n <= Bump(n)
BY OutboxAssumption DEF Bump, OutboxAssumption

\* The backoff is a number of minutes.
LEMMA BackoffType ==
  ASSUME NEW n \in Nat
  PROVE  Backoff(n) \in 0 .. 30
BY DEF Backoff

\* A worker has at most one next copy.
LEMMA NextIsUnique ==
  ASSUME NEW w \in Workers, batch[w] \subseteq Events,
         NEW e \in Events, NEW f \in Events, IsNext(w, e), IsNext(w, f)
  PROVE  e = f
BY OutboxAssumption DEF IsNext, OutboxAssumption

-----------------------------------------------------------------------------
(* Type correctness.                                                       *)

LEMMA InitTypeOK == OutboxInit => OutboxTypeOK
BY OutboxAssumption DEF OutboxInit, OutboxTypeOK, RowsTypeOK, WorkersTypeOK, HistoryTypeOK,
   PositionOK, OutboxAssumption, EventStatuses, Verdicts

\* What one worker does to its own variables, by way of the three operators
\* that all of its steps are made of.
LEMMA AdvanceType ==
  ASSUME OutboxTypeOK, NEW w \in Workers, NEW e \in Events, IsNext(w, e), Advance(w, e)
  PROVE  /\ WorkersTypeOK'
         /\ \A v \in Workers : PositionOK(v)'
         /\ request' = request
<1>1. WorkersTypeOK'
  BY OutboxAssumption DEF OutboxTypeOK, WorkersTypeOK, Advance, Verdicts, OutboxAssumption
<1>2. ASSUME NEW v \in Workers PROVE PositionOK(v)'
  <2>1. CASE v # w
    BY <2>1 DEF OutboxTypeOK, WorkersTypeOK, PositionOK, Advance
  <2>2. CASE v = w
    <3>1. batch'[w] = {} <=> batch[w] = {e}
      BY DEF OutboxTypeOK, WorkersTypeOK, Advance, IsNext
    <3>2. pc'[w] = "idle" <=> batch[w] = {e}
      BY DEF OutboxTypeOK, WorkersTypeOK, Advance
    <3>3. verdict'[w] = "none" /\ pc'[w] # "marking"
      BY DEF OutboxTypeOK, WorkersTypeOK, Advance
    <3>4. QED
      BY <2>2, <3>1, <3>2, <3>3 DEF PositionOK
  <2>3. QED
    BY <2>1, <2>2
<1>3. QED
  BY <1>1, <1>2 DEF Advance

LEMMA OutcomeType ==
  ASSUME OutboxTypeOK, NEW w \in Workers, NEW e \in Events, Dispatching(w, e),
         NEW outcome \in Verdicts \ {"none"}, Decide(w, outcome)
  PROVE  /\ RowsTypeOK'
         /\ WorkersTypeOK'
         /\ \A v \in Workers : PositionOK(v)'
         /\ request' = request
<1>1. RowsTypeOK' /\ WorkersTypeOK' /\ request' = request
  BY DEF OutboxTypeOK, RowsTypeOK, WorkersTypeOK, Decide, Dispatching, rowVars, Verdicts
<1>2. ASSUME NEW v \in Workers PROVE PositionOK(v)'
  BY DEF OutboxTypeOK, WorkersTypeOK, PositionOK, Decide, Dispatching, rowVars, Verdicts
<1>3. QED
  BY <1>1, <1>2

\* What SetDispatched and SetFailed leave of a row is a row.
LEMMA SetType ==
  ASSUME OutboxTypeOK, NEW e \in Events
  PROVE  /\ \A who \in {"worker", "api"} : SetDispatched(e, who) =>
              RowsTypeOK' /\ dispatchedBy' \in [Events -> {"nobody", "worker", "api"}]
         /\ SetFailed(e) /\ wait' \in [Events -> 0 .. 30] =>
              RowsTypeOK' /\ dispatchedBy' \in [Events -> {"nobody", "worker", "api"}]
<1>1. Bump(attempts[e]) \in 0 .. AttemptBound
  BY BumpType DEF OutboxTypeOK, RowsTypeOK
<1>2. QED
  BY <1>1 DEF OutboxTypeOK, RowsTypeOK, HistoryTypeOK, SetDispatched, SetFailed, EventStatuses

LEMMA NextTypeOK == OutboxTypeOK /\ [OutboxNext]_outboxVars => OutboxTypeOK'
<1> SUFFICES ASSUME OutboxTypeOK, [OutboxNext]_outboxVars PROVE OutboxTypeOK'
  OBVIOUS
<1> USE DEF OutboxTypeOK
<1>1. ASSUME NEW e \in Events, CreateEvent(e) PROVE OutboxTypeOK'
  BY <1>1 DEF CreateEvent, RowsTypeOK, WorkersTypeOK, HistoryTypeOK, PositionOK,
     EventStatuses, workerVars, eventHistory
<1>2. CASE Tick
  <2>1. wait' \in [Events -> 0 .. 30]
    BY <1>2 DEF Tick, RowsTypeOK
  <2>2. QED
    BY <1>2, <2>1 DEF Tick, RowsTypeOK, WorkersTypeOK, HistoryTypeOK, PositionOK,
       workerVars, eventHistory
<1>3. ASSUME NEW w \in Workers, Poll(w) PROVE OutboxTypeOK'
  <2>1. PICK free \in SUBSET Events :
          /\ free # {}
          /\ batch' = [batch EXCEPT ![w] = Oldest(free, BatchSize)]
          /\ seen' = [seen EXCEPT ![w] =
               [e \in Events |-> IF e \in Oldest(free, BatchSize) THEN attempts[e] ELSE 0]]
    BY <1>3 DEF Poll
  <2>2. Oldest(free, BatchSize) # {} /\ Oldest(free, BatchSize) \subseteq Events
    BY <2>1, OldestFetches, OutboxAssumption DEF OutboxAssumption
  <2>3. batch' \in [Workers -> SUBSET Events] /\ batch'[w] # {}
    BY <2>1, <2>2 DEF WorkersTypeOK
  <2>4. seen' \in [Workers -> [Events -> 0 .. AttemptBound]]
    BY <2>1, OutboxAssumption DEF WorkersTypeOK, RowsTypeOK, OutboxAssumption
  <2>5. pc[w] = "idle" /\ pc' = [pc EXCEPT ![w] = "selecting"]
        /\ UNCHANGED <<rowVars, verdict, request, eventHistory, eventFaults>>
    BY <1>3 DEF Poll
  <2>6. WorkersTypeOK' /\ RowsTypeOK' /\ HistoryTypeOK'
    BY <2>3, <2>4, <2>5 DEF RowsTypeOK, WorkersTypeOK, HistoryTypeOK, rowVars, eventHistory
  <2>7. ASSUME NEW v \in Workers PROVE PositionOK(v)'
    BY <2>1, <2>3, <2>5 DEF WorkersTypeOK, PositionOK
  <2>8. QED
    BY <2>5, <2>6, <2>7
<1>4. ASSUME NEW w \in Workers, EndSelect(w) PROVE OutboxTypeOK'
  BY <1>4 DEF EndSelect, RowsTypeOK, WorkersTypeOK, HistoryTypeOK, PositionOK,
     rowVars, eventHistory
<1>5. ASSUME NEW w \in Workers, NEW e \in Events,
             GiveUp(w, e) \/ NoExecutor(w, e) \/ InvalidPayload(w, e) \/ ExecuteFails(w, e)
      PROVE  OutboxTypeOK'
  <2>1. PICK outcome \in {"failed", "unroutable", "exhausted"} :
          Dispatching(w, e) /\ Decide(w, outcome) /\ UNCHANGED <<eventHistory, eventFaults>>
    BY <1>5 DEF GiveUp, NoExecutor, InvalidPayload, ExecuteFails, CanExecute, HasExecutor
  <2>2. outcome \in Verdicts \ {"none"}
    BY DEF Verdicts
  <2>3. QED
    BY <2>1, <2>2, OutcomeType DEF HistoryTypeOK, eventHistory
<1>6. ASSUME NEW w \in Workers, NEW e \in Events,
             ExecuteDelivers(w, e) \/ ExecuteTimesOut(w, e)
      PROVE  OutboxTypeOK'
  <2>1. PICK outcome \in {"ok", "failed"} : Dispatching(w, e) /\ Decide(w, outcome)
    BY <1>6 DEF ExecuteDelivers, ExecuteTimesOut, CanExecute, HasExecutor
  <2>2. outcome \in Verdicts \ {"none"}
    BY DEF Verdicts
  <2>3. HistoryTypeOK'
    BY <1>6, OutboxAssumption
       DEF ExecuteDelivers, ExecuteTimesOut, HistoryTypeOK, OutboxAssumption
  <2>4. QED
    BY <2>1, <2>2, <2>3, OutcomeType
<1>7. ASSUME NEW w \in Workers, NEW e \in Events, ExecutePreviews(w, e) PROVE OutboxTypeOK'
  <2>1. IsNext(w, e) /\ Advance(w, e) /\ UNCHANGED <<rowVars, eventHistory, eventFaults>>
    BY <1>7 DEF ExecutePreviews, CanExecute, HasExecutor, Dispatching
  <2>2. QED
    BY <2>1, AdvanceType DEF RowsTypeOK, HistoryTypeOK, rowVars, eventHistory
<1>8. ASSUME NEW w \in Workers, NEW e \in Events, MarkDispatched(w, e) PROVE OutboxTypeOK'
  <2>1. /\ IsNext(w, e) /\ Advance(w, e) /\ SetDispatched(e, "worker")
        /\ UNCHANGED <<delivered, eventLost, eventFaults>>
    BY <1>8 DEF MarkDispatched, Marking
  <2>2. QED
    BY <2>1, AdvanceType, SetType DEF HistoryTypeOK
<1>9. ASSUME NEW w \in Workers, NEW e \in Events,
             MarkFailedWithBackoff(w, e) \/ MarkFailedInPlace(w, e)
      PROVE  OutboxTypeOK'
  <2>1. /\ IsNext(w, e) /\ Advance(w, e) /\ SetFailed(e)
        /\ UNCHANGED <<delivered, eventLost, eventFaults>>
    BY <1>9 DEF MarkFailedWithBackoff, MarkFailedInPlace, Marking
  <2>2. Backoff(seen[w][e] + 1) \in 0 .. 30
    BY BackoffType, OutboxAssumption DEF WorkersTypeOK, OutboxAssumption
  <2>3. wait' \in [Events -> 0 .. 30]
    BY <1>9, <2>2 DEF MarkFailedWithBackoff, MarkFailedInPlace, RowsTypeOK
  <2>4. QED
    BY <2>1, <2>3, AdvanceType, SetType DEF HistoryTypeOK
<1>10. ASSUME NEW w \in Workers, NEW e \in Events, MarkLost(w, e) PROVE OutboxTypeOK'
  <2>1. IsNext(w, e) /\ Advance(w, e) /\ UNCHANGED rowVars
    BY <1>10 DEF MarkLost
  <2>2. HistoryTypeOK'
    BY <1>10, OutboxAssumption DEF MarkLost, Forget, HistoryTypeOK, OutboxAssumption
  <2>3. QED
    BY <2>1, <2>2, AdvanceType DEF RowsTypeOK, rowVars
<1>11. ASSUME NEW w \in Workers, NEW e \in Events, Crash(w, e) PROVE OutboxTypeOK'
  <2>1. HistoryTypeOK'
    BY <1>11, OutboxAssumption DEF Crash, Forget, HistoryTypeOK, OutboxAssumption
  <2>2. WorkersTypeOK' /\ RowsTypeOK' /\ request' = request
    BY <1>11, OutboxAssumption
       DEF Crash, WorkersTypeOK, RowsTypeOK, rowVars, Verdicts, OutboxAssumption
  <2>3. ASSUME NEW v \in Workers PROVE PositionOK(v)'
    BY <1>11 DEF Crash, WorkersTypeOK, PositionOK
  <2>4. QED
    BY <2>1, <2>2, <2>3
<1>12. ASSUME NEW r \in Requests, NEW e \in Events, NEW op \in {"dispatch", "cancel"},
              ApiCheck(r, op, e)
       PROVE  OutboxTypeOK'
  BY <1>12 DEF ApiCheck, RowsTypeOK, WorkersTypeOK, HistoryTypeOK, PositionOK, Calls,
     rowVars, workerVars, eventHistory
<1>13. ASSUME NEW r \in Requests, NEW e \in Events,
              ApiDispatch(r, e) \/ ApiDispatchFails(r, e) \/ ApiCancel(r, e)
       PROVE  OutboxTypeOK'
  <2>1. Answer(r)
    BY <1>13 DEF ApiDispatch, ApiDispatchFails, ApiCancel
  <2>2. /\ request' \in [Requests -> Calls \cup {NoCall}]
        /\ WorkersTypeOK' /\ \A w \in Workers : PositionOK(w)'
    BY <2>1 DEF Answer, WorkersTypeOK, PositionOK, workerVars
  <2>3. RowsTypeOK' /\ dispatchedBy' \in [Events -> {"nobody", "worker", "api"}]
    <3>1. CASE ApiDispatch(r, e)
      BY <3>1, SetType DEF ApiDispatch
    <3>2. CASE ApiDispatchFails(r, e)
      BY <3>2, SetType DEF ApiDispatchFails, RowsTypeOK
    <3>3. CASE ApiCancel(r, e)
      BY <3>3 DEF ApiCancel, RowsTypeOK, HistoryTypeOK, EventStatuses
    <3>4. QED
      BY <1>13, <3>1, <3>2, <3>3
  <2>4. QED
    BY <2>1, <2>2, <2>3 DEF Answer, HistoryTypeOK
<1>14. ASSUME NEW r \in Requests, ApiAborts(r) PROVE OutboxTypeOK'
  BY <1>14 DEF ApiAborts, Answer, RowsTypeOK, WorkersTypeOK, HistoryTypeOK, PositionOK,
     rowVars, workerVars
<1>15. CASE UNCHANGED outboxVars
  BY <1>15 DEF outboxVars, rowVars, workerVars, eventHistory, RowsTypeOK, WorkersTypeOK,
     HistoryTypeOK, PositionOK
<1>16. QED
  BY <1>1, <1>2, <1>3, <1>4, <1>5, <1>6, <1>7, <1>8, <1>9, <1>10, <1>11, <1>12, <1>13,
     <1>14, <1>15 DEF OutboxNext, WorkerStep, WorkerFault, ApiStep

\* Rows, workers, requests and counters keep their types, and a worker's
\* position agrees with what it holds: a worker that returns to its ticker
\* holds no copy, and one that records always has an outcome to record.
THEOREM OutboxTypeCorrect == OutboxSpec => []OutboxTypeOK
<1>1. QED
  BY InitTypeOK, NextTypeOK, PTL DEF OutboxSpec

-----------------------------------------------------------------------------
(* A row that a worker marked as dispatched was delivered.                 *)

\* WorkerDispatchedWasDelivered is not inductive: MarkDispatched trusts the
\* outcome that the worker holds.  The strengthening says that this outcome is
\* true of the copy it is about.
OutcomeIsTrue ==
  \A w \in Workers, e \in Events :
    (verdict[w] = "ok" /\ IsNext(w, e)) => delivered[e] >= 1

DeliveryInv == WorkerDispatchedWasDelivered /\ OutcomeIsTrue

\* A step that only takes verdicts and copies away, and forgets no delivery,
\* keeps every outcome true.
LEMMA OutcomeStaysTrue ==
  ASSUME OutboxTypeOK, OutcomeIsTrue,
         \A e \in Events : delivered'[e] >= delivered[e],
         \A w \in Workers :
            \/ verdict'[w] # "ok"
            \/ verdict'[w] = verdict[w] /\ batch'[w] = batch[w],
         delivered' \in [Events -> Nat]
  PROVE  OutcomeIsTrue'
<1> SUFFICES ASSUME NEW w \in Workers, NEW e \in Events,
                    verdict'[w] = "ok", IsNext(w, e)'
             PROVE  delivered'[e] >= 1
  BY DEF OutcomeIsTrue
<1>1. verdict[w] = "ok" /\ IsNext(w, e)
  BY DEF IsNext
<1>2. delivered[e] >= 1 /\ delivered[e] \in Nat /\ delivered'[e] \in Nat
  BY <1>1 DEF OutcomeIsTrue, OutboxTypeOK, HistoryTypeOK
<1>3. QED
  BY <1>2

\* A step that sets no row to "dispatched" on behalf of a worker keeps the
\* property, whatever else it does to the rows.
LEMMA DeliveredStaysDelivered ==
  ASSUME OutboxTypeOK, WorkerDispatchedWasDelivered,
         delivered' \in [Events -> Nat],
         \A e \in Events : delivered'[e] >= delivered[e],
         \A e \in Events :
            \/ eventStatus'[e] # "dispatched"
            \/ dispatchedBy'[e] # "worker"
            \/ eventStatus'[e] = eventStatus[e] /\ dispatchedBy'[e] = dispatchedBy[e]
  PROVE  WorkerDispatchedWasDelivered'
<1> SUFFICES ASSUME NEW e \in Events, eventStatus'[e] = "dispatched", dispatchedBy'[e] = "worker"
             PROVE  delivered'[e] >= 1
  BY DEF WorkerDispatchedWasDelivered
<1>1. delivered[e] >= 1 /\ delivered[e] \in Nat /\ delivered'[e] \in Nat
  BY DEF WorkerDispatchedWasDelivered, OutboxTypeOK, HistoryTypeOK
<1>2. QED
  BY <1>1

LEMMA InitDeliveryInv == OutboxInit => DeliveryInv
BY DEF OutboxInit, DeliveryInv, WorkerDispatchedWasDelivered, OutcomeIsTrue

LEMMA NextDeliveryInv ==
  OutboxTypeOK /\ OutboxTypeOK' /\ DeliveryInv /\ [OutboxNext]_outboxVars
    => DeliveryInv'
<1> SUFFICES ASSUME OutboxTypeOK, OutboxTypeOK', DeliveryInv, [OutboxNext]_outboxVars
             PROVE DeliveryInv'
  OBVIOUS
<1>a. WorkerDispatchedWasDelivered /\ OutcomeIsTrue
  BY DEF DeliveryInv
<1>b. delivered \in [Events -> Nat] /\ delivered' \in [Events -> Nat]
  BY DEF OutboxTypeOK, HistoryTypeOK
<1>c. /\ eventStatus \in [Events -> EventStatuses] /\ verdict \in [Workers -> Verdicts]
      /\ pc \in [Workers -> {"idle", "selecting", "dispatching", "marking"}]
      /\ batch \in [Workers -> SUBSET Events]
      /\ dispatchedBy \in [Events -> {"nobody", "worker", "api"}]
  BY DEF OutboxTypeOK, RowsTypeOK, WorkersTypeOK, HistoryTypeOK
<1>d. \A w \in Workers : verdict[w] # "none" <=> pc[w] = "marking"
  BY DEF OutboxTypeOK, PositionOK
<1>1. ASSUME NEW e \in Events, CreateEvent(e) PROVE DeliveryInv'
  BY <1>1, <1>a, <1>b, <1>c, OutcomeStaysTrue, DeliveredStaysDelivered
     DEF CreateEvent, DeliveryInv, workerVars, eventHistory
<1>2. CASE Tick
  BY <1>2, <1>a, <1>b, OutcomeStaysTrue, DeliveredStaysDelivered
     DEF Tick, DeliveryInv, workerVars, eventHistory
<1>3. ASSUME NEW w \in Workers, Poll(w) \/ EndSelect(w) PROVE DeliveryInv'
  <2>1. /\ verdict[w] = "none" /\ verdict' = verdict
        /\ \A v \in Workers \ {w} : batch'[v] = batch[v]
        /\ UNCHANGED <<eventStatus, dispatchedBy, delivered>>
    BY <1>3, <1>c, <1>d DEF Poll, EndSelect, rowVars, eventHistory
  <2>2. QED
    BY <2>1, <1>a, <1>b, OutcomeStaysTrue, DeliveredStaysDelivered DEF DeliveryInv
<1>4. ASSUME NEW w \in Workers, NEW e \in Events,
             \/ GiveUp(w, e) \/ NoExecutor(w, e) \/ InvalidPayload(w, e)
             \/ ExecuteFails(w, e) \/ ExecuteTimesOut(w, e)
      PROVE  DeliveryInv'
  <2>1. \E outcome \in {"failed", "unroutable", "exhausted"} : Decide(w, outcome)
    BY <1>4 DEF GiveUp, NoExecutor, InvalidPayload, ExecuteFails, ExecuteTimesOut
  <2>2. UNCHANGED dispatchedBy /\ \A f \in Events : delivered'[f] >= delivered[f]
    BY <1>4, <1>b DEF GiveUp, NoExecutor, InvalidPayload, ExecuteFails, ExecuteTimesOut,
       eventHistory
  <2>3. QED
    BY <2>1, <2>2, <1>a, <1>b, <1>c, OutcomeStaysTrue, DeliveredStaysDelivered
       DEF DeliveryInv, Decide, rowVars
<1>5. ASSUME NEW w \in Workers, NEW e \in Events, ExecuteDelivers(w, e) PROVE DeliveryInv'
  <2>1. /\ IsNext(w, e) /\ verdict' = [verdict EXCEPT ![w] = "ok"]
        /\ UNCHANGED <<eventStatus, batch, dispatchedBy>>
        /\ delivered' = [delivered EXCEPT ![e] = @ + 1]
    BY <1>5 DEF ExecuteDelivers, CanExecute, HasExecutor, Dispatching, Decide, rowVars
  <2>2. delivered'[e] >= 1 /\ \A f \in Events : delivered'[f] >= delivered[f]
    BY <2>1, <1>b
  <2>3. ASSUME NEW v \in Workers, NEW f \in Events, verdict'[v] = "ok", IsNext(v, f)'
        PROVE  delivered'[f] >= 1
    <3>1. IsNext(v, f)
      BY <2>1, <2>3 DEF IsNext
    <3>2. CASE v = w
      BY <3>1, <3>2, <2>1, <2>2, <1>c, NextIsUnique
    <3>3. CASE v # w
      <4>1. delivered[f] >= 1
        BY <3>1, <3>3, <2>1, <2>3, <1>a, <1>c DEF OutcomeIsTrue
      <4>2. QED
        BY <4>1, <2>2, <1>b
    <3>4. QED
      BY <3>2, <3>3
  <2>4. OutcomeIsTrue'
    BY <2>3 DEF OutcomeIsTrue
  <2>5. QED
    BY <2>1, <2>2, <2>4, <1>a, <1>b, DeliveredStaysDelivered DEF DeliveryInv
<1>6. ASSUME NEW w \in Workers, NEW e \in Events, MarkDispatched(w, e) PROVE DeliveryInv'
  <2>1. delivered[e] >= 1
    BY <1>6, <1>a DEF MarkDispatched, Marking, OutcomeIsTrue
  <2>2. WorkerDispatchedWasDelivered'
    BY <1>6, <2>1, <1>a, <1>b, <1>c
       DEF MarkDispatched, SetDispatched, WorkerDispatchedWasDelivered
  <2>3. OutcomeIsTrue'
    BY <1>6, <1>a, <1>b, <1>c, OutcomeStaysTrue DEF MarkDispatched, Advance
  <2>4. QED
    BY <2>2, <2>3 DEF DeliveryInv
<1>7. ASSUME NEW w \in Workers, NEW e \in Events,
             \/ ExecutePreviews(w, e) \/ MarkLost(w, e)
             \/ MarkFailedWithBackoff(w, e) \/ MarkFailedInPlace(w, e)
      PROVE  DeliveryInv'
  <2>1. Advance(w, e) /\ UNCHANGED <<delivered, dispatchedBy>>
    BY <1>7 DEF ExecutePreviews, MarkLost, MarkFailedWithBackoff, MarkFailedInPlace,
       SetFailed, eventHistory
  <2>2. \A f \in Events : eventStatus'[f] = eventStatus[f] \/ eventStatus'[f] = "failed"
    BY <1>7, <1>c DEF ExecutePreviews, MarkLost, MarkFailedWithBackoff, MarkFailedInPlace,
       SetFailed, rowVars
  <2>3. QED
    BY <2>1, <2>2, <1>a, <1>b, <1>c, OutcomeStaysTrue, DeliveredStaysDelivered
       DEF DeliveryInv, Advance
<1>8. ASSUME NEW w \in Workers, NEW e \in Events, Crash(w, e) PROVE DeliveryInv'
  BY <1>8, <1>a, <1>b, <1>c, OutcomeStaysTrue, DeliveredStaysDelivered
     DEF Crash, DeliveryInv, rowVars
<1>9. ASSUME NEW r \in Requests, NEW e \in Events, NEW op \in {"dispatch", "cancel"},
             ApiCheck(r, op, e)
      PROVE  DeliveryInv'
  BY <1>9, <1>a, <1>b, OutcomeStaysTrue, DeliveredStaysDelivered
     DEF ApiCheck, DeliveryInv, rowVars, workerVars, eventHistory
<1>10. ASSUME NEW r \in Requests, NEW e \in Events,
              ApiDispatch(r, e) \/ ApiDispatchFails(r, e) \/ ApiCancel(r, e)
       PROVE  DeliveryInv'
  <2>1. UNCHANGED <<delivered, batch, verdict>>
    BY <1>10 DEF ApiDispatch, ApiDispatchFails, ApiCancel, Answer, workerVars
  <2>2. \A f \in Events :
          \/ eventStatus'[f] # "dispatched"
          \/ dispatchedBy'[f] # "worker"
          \/ eventStatus'[f] = eventStatus[f] /\ dispatchedBy'[f] = dispatchedBy[f]
    BY <1>10, <1>c DEF ApiDispatch, ApiDispatchFails, ApiCancel, SetDispatched, SetFailed
  <2>3. QED
    BY <2>1, <2>2, <1>a, <1>b, OutcomeStaysTrue, DeliveredStaysDelivered DEF DeliveryInv
<1>11. ASSUME NEW r \in Requests, ApiAborts(r) PROVE DeliveryInv'
  BY <1>11, <1>a, <1>b, OutcomeStaysTrue, DeliveredStaysDelivered
     DEF ApiAborts, Answer, DeliveryInv, rowVars, workerVars
<1>12. CASE UNCHANGED outboxVars
  BY <1>12, <1>a, <1>b, OutcomeStaysTrue, DeliveredStaysDelivered
     DEF DeliveryInv, outboxVars, rowVars, workerVars, eventHistory
<1>13. QED
  BY <1>1, <1>2, <1>3, <1>4, <1>5, <1>6, <1>7, <1>8, <1>9, <1>10, <1>11, <1>12
     DEF OutboxNext, WorkerStep, WorkerFault, ApiStep

\* Whatever stale copies, crashes, lost transactions and API calls interleave,
\* a row that the worker's markDispatchedInTx set to "dispatched" stands for an
\* event that the external system accepted at least once.
THEOREM WorkerDispatchIsReal == OutboxSpec => []WorkerDispatchedWasDelivered
<1>1. OutboxTypeOK /\ DeliveryInv /\ [OutboxNext]_outboxVars => OutboxTypeOK' /\ DeliveryInv'
  BY NextTypeOK, NextDeliveryInv
<1>2. DeliveryInv => WorkerDispatchedWasDelivered
  BY DEF DeliveryInv
<1>3. QED
  BY InitTypeOK, InitDeliveryInv, <1>1, <1>2, PTL DEF OutboxSpec

-----------------------------------------------------------------------------
(* One worker and no API calls.                                            *)

\* Accepted and still to be recorded, or recorded as dispatched.
Credited(w, e) == (verdict[w] = "ok" /\ IsNext(w, e)) \/ eventStatus[e] = "dispatched"

\* The copies of the only worker are up to date, and every acceptance of an
\* event is accounted for exactly once.
SoleInv(w) ==
  /\ \A e \in batch[w] : Eligible(e)
  /\ \A e \in Events : delivered[e] = eventLost[e] + (IF Credited(w, e) THEN 1 ELSE 0)

LEMMA InitSoleInv ==
  ASSUME NEW w \in Workers
  PROVE  OutboxInit => SoleInv(w)
BY DEF OutboxInit, SoleInv, Credited

\* A step of the sole worker that finishes its copy of e and keeps the account
\* of e keeps the invariant: no other row and no other copy changes.
LEMMA SoleAdvance ==
  ASSUME OutboxTypeOK, OutboxTypeOK', NEW w \in Workers, SoleInv(w),
         NEW e \in Events, IsNext(w, e), verdict'[w] = "none",
         batch'[w] \subseteq batch[w] \ {e},
         \A f \in Events \ {e} : /\ eventStatus'[f] = eventStatus[f] /\ wait'[f] = wait[f]
                               /\ delivered'[f] = delivered[f] /\ eventLost'[f] = eventLost[f],
         delivered'[e] = eventLost'[e] + (IF eventStatus'[e] = "dispatched" THEN 1 ELSE 0)
  PROVE  SoleInv(w)'
<1>1. batch[w] \subseteq Events /\ \A f \in batch[w] : Eligible(f)
  BY DEF SoleInv, OutboxTypeOK, WorkersTypeOK
<1>2. \A f \in batch'[w] : Eligible(f)'
  BY <1>1 DEF Eligible, Dispatchable
<1>3. ASSUME NEW f \in Events
      PROVE  delivered'[f] = eventLost'[f] + (IF Credited(w, f)' THEN 1 ELSE 0)
  <2>1. Credited(w, f)' <=> eventStatus'[f] = "dispatched"
    BY DEF Credited
  <2>2. CASE f = e
    BY <2>1, <2>2
  <2>3. CASE f # e
    <3>1. ~ IsNext(w, f)
      <4>1. e \in Events /\ f \in Events
        OBVIOUS
      <4>2. QED
        BY <1>1, <2>3, NextIsUnique
    <3>2. Credited(w, f) <=> eventStatus[f] = "dispatched"
      BY <3>1 DEF Credited
    <3>3. delivered[f] = eventLost[f] + (IF eventStatus[f] = "dispatched" THEN 1 ELSE 0)
      BY <3>2 DEF SoleInv
    <3>4. QED
      BY <2>1, <2>3, <3>3
  <2>4. QED
    BY <2>2, <2>3
<1>4. QED
  BY <1>2, <1>3 DEF SoleInv

\* A step that leaves the sole worker's outcome, the rows' dispatched marks and
\* the history alone keeps the account; the copies have to stay eligible.
LEMMA SoleKeeps ==
  ASSUME NEW w \in Workers, SoleInv(w),
         UNCHANGED <<delivered, eventLost>>,
         \A e \in Events : eventStatus'[e] = "dispatched" <=> eventStatus[e] = "dispatched",
         \/ verdict[w] # "ok" /\ verdict'[w] # "ok"
         \/ verdict'[w] = verdict[w] /\ batch'[w] = batch[w],
         \A e \in batch'[w] : Eligible(e)'
  PROVE  SoleInv(w)'
<1>1. \A e \in Events : Credited(w, e)' <=> Credited(w, e)
  BY DEF Credited, IsNext
<1>2. QED
  BY <1>1 DEF SoleInv

LEMMA NextSoleInv ==
  ASSUME NEW w, Workers = {w}, Requests = {}
  PROVE  OutboxTypeOK /\ OutboxTypeOK' /\ SoleInv(w) /\ [OutboxNext]_outboxVars => SoleInv(w)'
<1> SUFFICES ASSUME OutboxTypeOK, OutboxTypeOK', SoleInv(w), [OutboxNext]_outboxVars
             PROVE SoleInv(w)'
  OBVIOUS
<1>a. w \in Workers
  OBVIOUS
<1>b. /\ eventStatus \in [Events -> EventStatuses] /\ wait \in [Events -> 0 .. 30]
      /\ verdict \in [Workers -> Verdicts] /\ batch \in [Workers -> SUBSET Events]
      /\ pc \in [Workers -> {"idle", "selecting", "dispatching", "marking"}]
      /\ delivered \in [Events -> Nat] /\ eventLost \in [Events -> Nat]
  BY DEF OutboxTypeOK, RowsTypeOK, WorkersTypeOK, HistoryTypeOK
<1>c. verdict[w] # "none" <=> pc[w] = "marking"
  BY <1>a DEF OutboxTypeOK, PositionOK
<1>d. \A e \in batch[w] : e \in Events /\ Eligible(e)
  BY <1>a, <1>b DEF SoleInv
<1>e. ASSUME NEW e \in Events, IsNext(w, e)
      PROVE  /\ eventStatus[e] \in {"pending", "failed"} /\ wait[e] = 0
             /\ delivered[e] = eventLost[e] + (IF verdict[w] = "ok" THEN 1 ELSE 0)
  <2>1. eventStatus[e] \in {"pending", "failed"} /\ wait[e] = 0
    BY <1>e, <1>d DEF IsNext, Eligible, Dispatchable
  <2>2. Credited(w, e) <=> verdict[w] = "ok"
    BY <1>e, <2>1 DEF Credited
  <2>3. QED
    BY <2>1, <2>2 DEF SoleInv
<1>1. ASSUME NEW e \in Events, CreateEvent(e) PROVE SoleInv(w)'
  <2>1. /\ UNCHANGED <<delivered, eventLost, verdict, batch, wait>>
        /\ eventStatus[e] = "absent" /\ eventStatus' = [eventStatus EXCEPT ![e] = "pending"]
    BY <1>1 DEF CreateEvent, workerVars, eventHistory
  <2>2. \A f \in batch'[w] : Eligible(f)'
    BY <2>1, <1>b, <1>d DEF Eligible, Dispatchable
  <2>3. \A f \in Events : eventStatus'[f] = "dispatched" <=> eventStatus[f] = "dispatched"
    BY <2>1, <1>b
  <2>4. QED
    BY <2>1, <2>2, <2>3, <1>a, SoleKeeps
<1>2. CASE Tick
  <2>1. UNCHANGED <<delivered, eventLost, verdict, batch, eventStatus>>
    BY <1>2 DEF Tick, workerVars, eventHistory
  <2>2. \A f \in batch'[w] : Eligible(f)'
    BY <1>2, <2>1, <1>b, <1>d DEF Tick, Eligible, Dispatchable
  <2>3. QED
    BY <2>1, <2>2, <1>a, SoleKeeps
<1>3. CASE Poll(w)
  <2>1. PICK free \in SUBSET Events :
          /\ free # {} /\ \A f \in free : Eligible(f)
          /\ batch' = [batch EXCEPT ![w] = Oldest(free, BatchSize)]
    BY <1>3 DEF Poll
  <2>2. Oldest(free, BatchSize) \subseteq free
    BY <2>1, OldestFetches, OutboxAssumption DEF OutboxAssumption
  <2>3. /\ UNCHANGED <<eventStatus, wait, verdict, delivered, eventLost>>
        /\ verdict[w] = "none"
    BY <1>3, <1>b, <1>c DEF Poll, rowVars, eventHistory
  <2>4. \A f \in batch'[w] : Eligible(f)'
    BY <2>1, <2>2, <2>3, <1>b DEF Eligible, Dispatchable
  <2>5. QED
    BY <2>3, <2>4, <1>a, SoleKeeps
<1>4. CASE EndSelect(w)
  <2>1. UNCHANGED <<delivered, eventLost, verdict, batch, eventStatus, wait>>
    BY <1>4 DEF EndSelect, rowVars, eventHistory
  <2>2. \A f \in batch'[w] : Eligible(f)'
    BY <2>1, <1>d DEF Eligible, Dispatchable
  <2>3. QED
    BY <2>1, <2>2, <1>a, SoleKeeps
<1>5. ASSUME NEW e \in Events,
             GiveUp(w, e) \/ NoExecutor(w, e) \/ InvalidPayload(w, e) \/ ExecuteFails(w, e)
      PROVE  SoleInv(w)'
  <2>1. /\ pc[w] = "dispatching" /\ UNCHANGED <<delivered, eventLost, batch, eventStatus, wait>>
        /\ verdict'[w] \in {"failed", "unroutable", "exhausted"}
    BY <1>5, <1>a, <1>b DEF GiveUp, NoExecutor, InvalidPayload, ExecuteFails, CanExecute,
       HasExecutor, Dispatching, Decide, rowVars, eventHistory
  <2>2. \A f \in batch'[w] : Eligible(f)'
    BY <2>1, <1>d DEF Eligible, Dispatchable
  <2>3. verdict[w] # "ok" /\ verdict'[w] # "ok"
    BY <2>1, <1>c
  <2>4. QED
    BY <2>1, <2>2, <2>3, <1>a, SoleKeeps
<1>6. ASSUME NEW e \in Events, ExecuteDelivers(w, e) \/ ExecuteTimesOut(w, e)
      PROVE  SoleInv(w)'
  <2>1. /\ IsNext(w, e) /\ verdict[w] = "none" /\ UNCHANGED <<batch, eventStatus, wait>>
        /\ delivered' = [delivered EXCEPT ![e] = @ + 1]
    BY <1>6, <1>c DEF ExecuteDelivers, ExecuteTimesOut, CanExecute, HasExecutor,
       Dispatching, Decide, rowVars
  <2>2. \/ verdict'[w] = "ok" /\ eventLost' = eventLost
        \/ verdict'[w] = "failed" /\ eventLost' = [eventLost EXCEPT ![e] = @ + 1]
    BY <1>6, <1>a, <1>b DEF ExecuteDelivers, ExecuteTimesOut, Decide
  <2>3. \A f \in batch'[w] : Eligible(f)'
    BY <2>1, <1>d DEF Eligible, Dispatchable
  <2>4. ASSUME NEW f \in Events
        PROVE  delivered'[f] = eventLost'[f] + (IF Credited(w, f)' THEN 1 ELSE 0)
    <3>1. IsNext(w, f)' <=> f = e
      BY <2>1, <1>b, <1>a, NextIsUnique DEF IsNext
    <3>2. CASE f = e
      <4>1. eventStatus[e] \in {"pending", "failed"} /\ delivered[e] = eventLost[e]
        BY <2>1, <1>e, <1>b
      <4>2. Credited(w, e)' <=> verdict'[w] = "ok"
        BY <3>1, <3>2, <4>1, <2>1 DEF Credited
      <4>3. QED
        BY <3>2, <4>1, <4>2, <2>1, <2>2, <1>b
    <3>3. CASE f # e
      <4>1. Credited(w, f)' <=> Credited(w, f)
        BY <3>1, <3>3, <2>1 DEF Credited
      <4>2. delivered'[f] = delivered[f] /\ eventLost'[f] = eventLost[f]
        BY <3>3, <2>1, <2>2, <1>b
      <4>3. QED
        BY <4>1, <4>2 DEF SoleInv
    <3>4. QED
      BY <3>2, <3>3
  <2>5. QED
    BY <2>3, <2>4 DEF SoleInv
<1>7. ASSUME NEW e \in Events,
             \/ ExecutePreviews(w, e) \/ MarkDispatched(w, e) \/ MarkFailedWithBackoff(w, e)
             \/ MarkFailedInPlace(w, e) \/ MarkLost(w, e) \/ Crash(w, e)
      PROVE  SoleInv(w)'
  <2>1. IsNext(w, e)
    BY <1>7 DEF ExecutePreviews, CanExecute, HasExecutor, Dispatching, MarkDispatched,
       MarkFailedWithBackoff, MarkFailedInPlace, Marking, MarkLost, Crash
  <2>2. verdict'[w] = "none" /\ batch'[w] \subseteq batch[w] \ {e}
    BY <1>7, <1>a, <1>b DEF ExecutePreviews, MarkDispatched, MarkFailedWithBackoff,
       MarkFailedInPlace, MarkLost, Crash, Advance
  <2>3. \A f \in Events \ {e} :
          /\ eventStatus'[f] = eventStatus[f] /\ wait'[f] = wait[f]
          /\ delivered'[f] = delivered[f] /\ eventLost'[f] = eventLost[f]
    BY <1>7, <1>b DEF ExecutePreviews, MarkDispatched, MarkFailedWithBackoff,
       MarkFailedInPlace, MarkLost, Crash, SetDispatched, SetFailed, Forget, rowVars,
       eventHistory
  <2>4. delivered'[e] = eventLost'[e] + (IF eventStatus'[e] = "dispatched" THEN 1 ELSE 0)
    <3>1. /\ eventStatus[e] \in {"pending", "failed"}
          /\ delivered[e] = eventLost[e] + (IF verdict[w] = "ok" THEN 1 ELSE 0)
      BY <2>1, <1>e
    <3>2. CASE ExecutePreviews(w, e)
      BY <3>1, <3>2, <1>c DEF ExecutePreviews, CanExecute, HasExecutor, Dispatching,
         rowVars, eventHistory
    <3>3. CASE MarkDispatched(w, e)
      BY <3>1, <3>3, <1>b DEF MarkDispatched, SetDispatched
    <3>4. CASE MarkFailedWithBackoff(w, e) \/ MarkFailedInPlace(w, e)
      BY <3>1, <3>4, <1>b DEF MarkFailedWithBackoff, MarkFailedInPlace, SetFailed
    <3>5. CASE MarkLost(w, e) \/ Crash(w, e)
      BY <3>1, <3>5, <1>b DEF MarkLost, Crash, Forget, rowVars
    <3>6. QED
      BY <1>7, <3>2, <3>3, <3>4, <3>5
  <2>5. QED
    BY <2>1, <2>2, <2>3, <2>4, <1>a, SoleAdvance
<1>8. CASE UNCHANGED outboxVars
  <2>1. UNCHANGED <<delivered, eventLost, verdict, batch, eventStatus, wait>>
    BY <1>8 DEF outboxVars, rowVars, workerVars, eventHistory
  <2>2. \A f \in batch'[w] : Eligible(f)'
    BY <2>1, <1>d DEF Eligible, Dispatchable
  <2>3. QED
    BY <2>1, <2>2, <1>a, SoleKeeps
<1>9. QED
  BY <1>1, <1>2, <1>3, <1>4, <1>5, <1>6, <1>7, <1>8 DEF OutboxNext, WorkerStep, WorkerFault

LEMMA SoleInvHolds ==
  ASSUME NEW w, Workers = {w}, Requests = {}
  PROVE  OutboxSpec => [](OutboxTypeOK /\ SoleInv(w))
<1>1. w \in Workers
  OBVIOUS
<1>2. OutboxInit => SoleInv(w)
  BY <1>1, InitSoleInv
<1>3. OutboxTypeOK /\ SoleInv(w) /\ [OutboxNext]_outboxVars => OutboxTypeOK' /\ SoleInv(w)'
  BY NextTypeOK, NextSoleInv
<1>4. QED
  BY <1>2, <1>3, InitTypeOK, PTL DEF OutboxSpec

LEMMA SoleStep ==
  ASSUME NEW w, Workers = {w}, Requests = {}, OutboxTypeOK, SoleInv(w), [OutboxNext]_outboxVars,
         NEW e \in Events
  PROVE  /\ eventStatus[e] = "dispatched" => eventStatus'[e] = "dispatched"
         /\ delivered'[e] > delivered[e] => wait[e] = 0
<1>a. w \in Workers
  OBVIOUS
<1>b. /\ eventStatus \in [Events -> EventStatuses] /\ batch \in [Workers -> SUBSET Events]
      /\ delivered \in [Events -> Nat]
  BY DEF OutboxTypeOK, RowsTypeOK, WorkersTypeOK, HistoryTypeOK
<1>c. \A f \in Events : IsNext(w, f) => eventStatus[f] # "dispatched" /\ wait[f] = 0
  BY DEF SoleInv, IsNext, Eligible, Dispatchable
<1>1. ASSUME NEW f \in Events, CreateEvent(f)
      PROVE  (eventStatus[e] = "dispatched" => eventStatus'[e] = "dispatched") /\ delivered' = delivered
  BY <1>1, <1>b DEF CreateEvent, eventHistory
<1>2. ASSUME Tick \/ Poll(w) \/ EndSelect(w)
      PROVE  eventStatus' = eventStatus /\ delivered' = delivered
  BY <1>2 DEF Tick, Poll, EndSelect, rowVars, eventHistory
<1>3. ASSUME NEW f \in Events,
             \/ GiveUp(w, f) \/ NoExecutor(w, f) \/ InvalidPayload(w, f)
             \/ ExecuteFails(w, f) \/ ExecutePreviews(w, f)
      PROVE  eventStatus' = eventStatus /\ delivered' = delivered
  BY <1>3 DEF GiveUp, NoExecutor, InvalidPayload, ExecuteFails, ExecutePreviews, Decide,
     rowVars, eventHistory
<1>4. ASSUME NEW f \in Events, ExecuteDelivers(w, f) \/ ExecuteTimesOut(w, f)
      PROVE  eventStatus' = eventStatus /\ (delivered'[e] > delivered[e] => wait[e] = 0)
  <2>1. /\ IsNext(w, f) /\ eventStatus' = eventStatus
        /\ delivered' = [delivered EXCEPT ![f] = @ + 1]
    BY <1>4 DEF ExecuteDelivers, ExecuteTimesOut, CanExecute, HasExecutor, Dispatching,
       Decide, rowVars
  <2>2. QED
    BY <2>1, <1>b, <1>c
<1>5. ASSUME NEW f \in Events,
             \/ MarkDispatched(w, f) \/ MarkFailedWithBackoff(w, f) \/ MarkFailedInPlace(w, f)
             \/ MarkLost(w, f) \/ Crash(w, f)
      PROVE  (eventStatus[e] = "dispatched" => eventStatus'[e] = "dispatched") /\ delivered' = delivered
  <2>1. IsNext(w, f) /\ delivered' = delivered
    BY <1>5 DEF MarkDispatched, MarkFailedWithBackoff, MarkFailedInPlace, Marking, MarkLost,
       Crash
  <2>2. \A g \in Events : g # f => eventStatus'[g] = eventStatus[g]
    BY <1>5, <1>b DEF MarkDispatched, MarkFailedWithBackoff, MarkFailedInPlace, MarkLost,
       Crash, SetDispatched, SetFailed, rowVars
  <2>3. QED
    BY <2>1, <2>2, <1>c
<1>6. ASSUME UNCHANGED outboxVars PROVE eventStatus' = eventStatus /\ delivered' = delivered
  BY <1>6 DEF outboxVars, rowVars, eventHistory
<1>7. delivered[e] \in Nat
  BY <1>b
<1>8. QED
  BY <1>1, <1>2, <1>3, <1>4, <1>5, <1>6, <1>7 DEF OutboxNext, WorkerStep, WorkerFault

\* One worker process and nobody dispatching by hand: an event is delivered
\* again only after an acceptance was lost with a crash, a transaction or a
\* reply, so "at least once" is "exactly once" as long as nothing fails.
THEOREM RedeliveryIsJustified ==
  ASSUME NEW w, Workers = {w}, Requests = {}
  PROVE  OutboxSpec => []RedeliveryNeedsLoss
<1>1. OutboxTypeOK /\ SoleInv(w) => RedeliveryNeedsLoss
  BY DEF OutboxTypeOK, HistoryTypeOK, SoleInv, RedeliveryNeedsLoss
<1>2. OutboxSpec => [](OutboxTypeOK /\ SoleInv(w))
  BY SoleInvHolds
<1>3. QED
  BY <1>1, <1>2, PTL

\* One worker process and nobody dispatching by hand: "dispatched" is terminal,
\* although MarkFailed and UpdateMaxAttempts never look at the status.
THEOREM DispatchIsTerminal ==
  ASSUME NEW w, Workers = {w}, Requests = {}
  PROVE  OutboxSpec => DispatchedIsFinal
<1>1. OutboxTypeOK /\ SoleInv(w) /\ [OutboxNext]_outboxVars =>
        [\A e \in Events : eventStatus[e] = "dispatched" => eventStatus'[e] = "dispatched"]_eventStatus
  BY SoleStep
<1>2. OutboxSpec => [](OutboxTypeOK /\ SoleInv(w))
  BY SoleInvHolds
<1>3. OutboxSpec => [][OutboxNext]_outboxVars
  BY DEF OutboxSpec
<1>4. QED
  BY <1>1, <1>2, <1>3, PTL DEF DispatchedIsFinal

\* One worker process and nobody dispatching by hand: nothing is sent while the
\* backoff of its last failure runs.
THEOREM BackoffHolds ==
  ASSUME NEW w, Workers = {w}, Requests = {}
  PROVE  OutboxSpec => BackoffIsRespected
<1>1. OutboxTypeOK /\ SoleInv(w) /\ [OutboxNext]_outboxVars =>
        [\A e \in Events : delivered'[e] > delivered[e] => wait[e] = 0]_delivered
  BY SoleStep
<1>2. OutboxSpec => [](OutboxTypeOK /\ SoleInv(w))
  BY SoleInvHolds
<1>3. OutboxSpec => [][OutboxNext]_outboxVars
  BY DEF OutboxSpec
<1>4. QED
  BY <1>1, <1>2, <1>3, PTL DEF BackoffIsRespected

-----------------------------------------------------------------------------
(* The inductive invariant.                                                *)

Live  == Workers \ DryRunWorkers
Spare == IF MaxRetries > 2 THEN MaxRetries - 2 ELSE 0

\* The live workers with a copy of e below the limit and no outcome for it
\* yet: each of them may still deliver e, once.
Holders(e) ==
  {w \in Live : /\ e \in batch[w] /\ seen[w][e] < MaxRetries
                /\ ~ (pc[w] = "marking" /\ IsNext(w, e))}

\* A row appears before anybody works on it.
AbsentIsUntouched ==
  \A e \in Events : eventStatus[e] = "absent" =>
    (\A w \in Workers : e \notin batch[w]) /\ (\A r \in Requests : request[r].event # e)

\* A dry run reports no acceptance.
OkIsLive == \A w \in Workers : verdict[w] = "ok" => w \in Live

\* A failed row has counted a failure besides the deliveries it recorded.
Counted(e) ==
  attempts[e] < AttemptBound =>
    delivered[e] + (IF eventStatus[e] = "failed" THEN 1 ELSE 0)
      <= attempts[e] + eventLost[e] + Cardinality(Delivering(e))

NotRecorded(e) ==
  eventStatus[e] \in {"absent", "pending"} =>
    attempts[e] = 0 /\ wait[e] = 0 /\ delivered[e] = eventLost[e] + Cardinality(Delivering(e))

\* The deliveries so far and those that the copies still allow.
Limited(e) == delivered[e] + Cardinality(Holders(e)) <= eventLost[e] + Cardinality(Live) + Spare

CountInv ==
  /\ AbsentIsUntouched /\ OkIsLive
  /\ \A e \in Events : Counted(e) /\ NotRecorded(e) /\ Limited(e)

-----------------------------------------------------------------------------
(* Sets of workers.                                                        *)

LEMMA SetsAreFinite ==
  ASSUME NEW e \in Events
  PROVE  /\ IsFiniteSet(Delivering(e)) /\ Cardinality(Delivering(e)) \in Nat
         /\ IsFiniteSet(Holders(e)) /\ Cardinality(Holders(e)) \in Nat
         /\ IsFiniteSet(Live) /\ Cardinality(Live) \in Nat /\ Spare \in Nat
<1>1. IsFiniteSet(Workers)
  BY OutboxAssumption DEF OutboxAssumption
<1>2. Delivering(e) \subseteq Workers /\ Holders(e) \subseteq Workers /\ Live \subseteq Workers
  BY DEF Delivering, Holders, Live
<1>3. Spare \in Nat
  BY OutboxAssumption DEF Spare, OutboxAssumption
<1>4. QED
  BY <1>1, <1>2, <1>3, FS_Subset, FS_CardinalityType

LEMMA SetsStayFinite ==
  ASSUME NEW e \in Events
  PROVE  /\ IsFiniteSet(Delivering(e)') /\ Cardinality(Delivering(e)') \in Nat
         /\ IsFiniteSet(Holders(e)') /\ Cardinality(Holders(e)') \in Nat
<1>1. IsFiniteSet(Workers)
  BY OutboxAssumption DEF OutboxAssumption
<1>2. Delivering(e)' \subseteq Workers /\ Holders(e)' \subseteq Workers
  BY DEF Delivering, Holders, Live
<1>3. QED
  BY <1>1, <1>2, FS_Subset, FS_CardinalityType

\* An acceptance that is in flight is not a delivery to come.
LEMMA FlightAndHolders ==
  ASSUME OutboxTypeOK, OkIsLive, NEW e \in Events, NEW S \in SUBSET Live, S \cap Delivering(e) = {}
  PROVE  Cardinality(S) + Cardinality(Delivering(e)) <= Cardinality(Live)
<1>1. IsFiniteSet(Live)
  BY SetsAreFinite
<1>2. Delivering(e) \subseteq Live
  BY DEF OkIsLive, Delivering
<1>3. IsFiniteSet(S) /\ IsFiniteSet(Delivering(e))
  BY <1>1, <1>2, FS_Subset
<1>4. Cardinality(S \cup Delivering(e)) = Cardinality(S) + Cardinality(Delivering(e)) - Cardinality({})
  BY <1>3, FS_Union
<1>5. Cardinality({}) = 0
  BY FS_EmptySet
<1>6. Cardinality(S \cup Delivering(e)) <= Cardinality(Live)
  BY <1>1, <1>2, FS_Subset
<1>7. Cardinality(S) \in Nat /\ Cardinality(Delivering(e)) \in Nat
  BY <1>3, FS_CardinalityType
<1>8. QED
  BY <1>4, <1>5, <1>6, <1>7

\* Fewer holders, none of them new.
LEMMA FewerHolders ==
  ASSUME NEW e \in Events, Holders(e)' \subseteq Holders(e)
  PROVE  Cardinality(Holders(e)') <= Cardinality(Holders(e))
BY SetsAreFinite, FS_Subset

\* What the steps of a worker do to the sets of each event.
LEMMA SetsAdvance ==
  ASSUME OutboxTypeOK, NEW w \in Workers, NEW e \in Events, IsNext(w, e), Advance(w, e),
         NEW f \in Events
  PROVE  /\ Delivering(f)' = Delivering(f) \ {w}
         /\ w \in Delivering(f) <=> verdict[w] = "ok" /\ f = e
         /\ Holders(f)' \subseteq Holders(f)
<1>1. /\ pc \in [Workers -> {"idle", "selecting", "dispatching", "marking"}]
      /\ batch \in [Workers -> SUBSET Events] /\ seen \in [Workers -> [Events -> 0 .. AttemptBound]]
      /\ verdict \in [Workers -> Verdicts]
  BY DEF OutboxTypeOK, WorkersTypeOK
<1>2. \A v \in Workers \ {w} : /\ pc'[v] = pc[v] /\ batch'[v] = batch[v]
                              /\ seen'[v] = seen[v] /\ verdict'[v] = verdict[v]
  BY <1>1 DEF Advance
<1>3. /\ verdict'[w] = "none" /\ pc'[w] # "marking" /\ batch'[w] = batch[w] \ {e}
      /\ \A g \in Events \ {e} : seen'[w][g] = seen[w][g]
  BY <1>1 DEF Advance
<1>4. IsNext(w, f) <=> f = e
  <2>1. batch[w] \subseteq Events
    BY <1>1
  <2>2. QED
    BY <2>1, NextIsUnique
<1>5. \A v \in Workers \ {w} : IsNext(v, f)' <=> IsNext(v, f)
  BY <1>2 DEF IsNext
<1>6. Delivering(f)' = Delivering(f) \ {w}
  BY <1>2, <1>3, <1>5 DEF Delivering
<1>7. w \in Delivering(f) <=> verdict[w] = "ok" /\ f = e
  BY <1>4 DEF Delivering
<1>8. ASSUME NEW v \in Holders(f)' PROVE v \in Holders(f)
  <2>1. CASE v = w
    <3>1. f \in batch'[w] /\ seen'[w][f] < MaxRetries
      BY <1>8, <2>1 DEF Holders
    <3>2. f # e /\ f \in batch[w] /\ seen[w][f] < MaxRetries
      BY <1>3, <3>1
    <3>3. QED
      BY <1>4, <1>8, <2>1, <3>2 DEF Holders
  <2>2. CASE v # w
    <3>1. v \in Workers \ {w}
      BY <1>8, <2>2 DEF Holders, Live
    <3>2. QED
      BY <1>2, <1>5, <1>8, <3>1 DEF Holders
  <2>3. QED
    BY <2>1, <2>2
<1>9. QED
  BY <1>6, <1>7, <1>8

LEMMA SetsDecide ==
  ASSUME OutboxTypeOK, NEW w \in Workers, NEW e \in Events, Dispatching(w, e),
         NEW outcome, Decide(w, outcome), NEW f \in Events
  PROVE  /\ Delivering(f)' = Delivering(f) \cup (IF outcome = "ok" /\ f = e THEN {w} ELSE {})
         /\ w \notin Delivering(f)
         /\ Holders(f)' = Holders(f) \ (IF f = e THEN {w} ELSE {})
<1>1. /\ pc \in [Workers -> {"idle", "selecting", "dispatching", "marking"}]
      /\ batch \in [Workers -> SUBSET Events] /\ verdict \in [Workers -> Verdicts]
  BY DEF OutboxTypeOK, WorkersTypeOK
<1>2. /\ \A v \in Workers \ {w} : pc'[v] = pc[v] /\ verdict'[v] = verdict[v]
      /\ pc'[w] = "marking" /\ verdict'[w] = outcome /\ batch' = batch /\ seen' = seen
      /\ pc[w] = "dispatching" /\ IsNext(w, e)
  BY <1>1 DEF Decide, Dispatching
<1>3. verdict[w] = "none"
  BY <1>2 DEF OutboxTypeOK, PositionOK
<1>4. IsNext(w, f) <=> f = e
  <2>1. batch[w] \subseteq Events
    BY <1>1
  <2>2. QED
    BY <1>2, <2>1, NextIsUnique
<1>5. \A v \in Workers : IsNext(v, f)' <=> IsNext(v, f)
  BY <1>2 DEF IsNext
<1>6. Delivering(f)' = Delivering(f) \cup (IF outcome = "ok" /\ f = e THEN {w} ELSE {})
  BY <1>2, <1>3, <1>4, <1>5 DEF Delivering
<1>7. w \notin Delivering(f)
  BY <1>3 DEF Delivering
<1>8. Holders(f)' = Holders(f) \ (IF f = e THEN {w} ELSE {})
  BY <1>2, <1>4, <1>5 DEF Holders, Live
<1>9. QED
  BY <1>6, <1>7, <1>8

-----------------------------------------------------------------------------
(* One event in one step.                                                  *)

Recorded(e) == delivered[e] - eventLost[e] - Cardinality(Delivering(e))

EventInv(e) == Counted(e) /\ NotRecorded(e) /\ Limited(e)

\* The arithmetic of a step: no attempt is recorded, or one that counts.
LEMMA EventMove ==
  ASSUME OutboxTypeOK, OutboxTypeOK', NEW e \in Events, EventInv(e),
         \/ /\ attempts'[e] = attempts[e] /\ Recorded(e)' = Recorded(e)
            /\ \/ eventStatus'[e] = eventStatus[e] \/ eventStatus'[e] = "cancelled"
               \/ eventStatus[e] = "absent" /\ eventStatus'[e] = "pending"
            /\ wait[e] = 0 => wait'[e] = 0
         \/ /\ attempts'[e] = Bump(attempts[e])
            /\ \/ eventStatus'[e] \in {"failed", "dispatched"} /\ Recorded(e)' = Recorded(e)
               \/ eventStatus'[e] = "dispatched" /\ Recorded(e)' = Recorded(e) + 1,
         \/ delivered'[e] + Cardinality(Holders(e)') + eventLost[e]
              <= delivered[e] + Cardinality(Holders(e)) + eventLost'[e]
         \/ Limited(e)'
  PROVE  EventInv(e)'
<1> DEFINE i == Cardinality(Delivering(e))
           j == Cardinality(Delivering(e)')
           h == Cardinality(Holders(e))
           k == Cardinality(Holders(e)')
           l == Cardinality(Live)
<1>1. i \in Nat /\ j \in Nat /\ h \in Nat /\ k \in Nat /\ l \in Nat /\ Spare \in Nat
  BY SetsAreFinite, SetsStayFinite
<1>2. /\ attempts[e] \in Nat /\ attempts'[e] \in Nat /\ attempts[e] <= AttemptBound
      /\ delivered[e] \in Nat /\ delivered'[e] \in Nat /\ eventLost[e] \in Nat /\ eventLost'[e] \in Nat
      /\ eventStatus[e] \in EventStatuses /\ eventStatus'[e] \in EventStatuses /\ AttemptBound \in Nat
  BY OutboxAssumption DEF OutboxTypeOK, RowsTypeOK, HistoryTypeOK, OutboxAssumption
<1>3. Recorded(e) = delivered[e] - eventLost[e] - i /\ Recorded(e)' = delivered'[e] - eventLost'[e] - j
  BY DEF Recorded
<1>4. Limited(e)'
  <2>1. Limited(e) <=> delivered[e] + h <= eventLost[e] + l + Spare
    BY DEF Limited
  <2>2. Limited(e)' <=> delivered'[e] + k <= eventLost'[e] + l + Spare
    BY DEF Limited, Live, Spare
  <2> HIDE DEF h, k, l
  <2>3. QED
    BY <1>1, <1>2, <2>1, <2>2 DEF EventInv, h, k
<1>5. Counted(e)'
  <2>1. Counted(e) <=> (attempts[e] < AttemptBound =>
          delivered[e] + (IF eventStatus[e] = "failed" THEN 1 ELSE 0) <= attempts[e] + eventLost[e] + i)
    BY DEF Counted
  <2>2. Counted(e)' <=> (attempts'[e] < AttemptBound =>
          delivered'[e] + (IF eventStatus'[e] = "failed" THEN 1 ELSE 0) <= attempts'[e] + eventLost'[e] + j)
    BY DEF Counted
  <2> HIDE DEF i, j
  <2>3. Counted(e)
    BY DEF EventInv
  <2>4. CASE attempts'[e] = attempts[e] /\ Recorded(e)' = Recorded(e)
             /\ (eventStatus'[e] = "failed" => eventStatus[e] = "failed")
    BY <1>1, <1>2, <1>3, <2>1, <2>2, <2>3, <2>4
  <2>5. CASE attempts'[e] = Bump(attempts[e]) /\ Recorded(e)' = Recorded(e)
    BY <1>1, <1>2, <1>3, <2>1, <2>2, <2>3, <2>5 DEF Bump
  <2>6. CASE attempts'[e] = Bump(attempts[e]) /\ Recorded(e)' = Recorded(e) + 1
             /\ eventStatus'[e] = "dispatched"
    BY <1>1, <1>2, <1>3, <2>1, <2>2, <2>3, <2>6 DEF Bump
  <2>7. QED
    BY <2>4, <2>5, <2>6
<1>6. NotRecorded(e)'
  <2>1. NotRecorded(e)' <=> (eventStatus'[e] \in {"absent", "pending"} =>
          attempts'[e] = 0 /\ wait'[e] = 0 /\ delivered'[e] = eventLost'[e] + j)
    BY DEF NotRecorded
  <2>2. NotRecorded(e) <=> (eventStatus[e] \in {"absent", "pending"} =>
          attempts[e] = 0 /\ wait[e] = 0 /\ delivered[e] = eventLost[e] + i)
    BY DEF NotRecorded
  <2> HIDE DEF i, j
  <2>3. ASSUME eventStatus'[e] \in {"absent", "pending"}
        PROVE  /\ eventStatus[e] \in {"absent", "pending"} /\ attempts'[e] = attempts[e]
               /\ Recorded(e)' = Recorded(e) /\ (wait[e] = 0 => wait'[e] = 0)
    BY <2>3
  <2>4. QED
    BY <1>1, <1>2, <1>3, <2>1, <2>2, <2>3 DEF EventInv
<1>7. QED
  BY <1>4, <1>5, <1>6 DEF EventInv

-----------------------------------------------------------------------------
(* The two parts that the counting rests on.                               *)

LEMMA UntouchedStays ==
  ASSUME AbsentIsUntouched,
         \A e \in Events : eventStatus'[e] = "absent" => eventStatus[e] = "absent",
         \A w \in Workers, e \in Events : e \in batch'[w] => e \in batch[w] \/ eventStatus[e] # "absent",
         \A r \in Requests, e \in Events :
           request'[r].event = e => request[r].event = e \/ eventStatus[e] # "absent"
  PROVE  AbsentIsUntouched'
BY DEF AbsentIsUntouched

LEMMA NextUntouched == OutboxTypeOK /\ AbsentIsUntouched /\ [OutboxNext]_outboxVars => AbsentIsUntouched'
<1> SUFFICES ASSUME OutboxTypeOK, AbsentIsUntouched, [OutboxNext]_outboxVars PROVE AbsentIsUntouched'
  OBVIOUS
<1>a. /\ eventStatus \in [Events -> EventStatuses] /\ batch \in [Workers -> SUBSET Events]
      /\ request \in [Requests -> Calls \cup {NoCall}]
  BY DEF OutboxTypeOK, RowsTypeOK, WorkersTypeOK
<1>b. \A e \in Events : e # 0
  BY OutboxAssumption DEF OutboxAssumption
<1>1. ASSUME NEW e \in Events, CreateEvent(e) PROVE AbsentIsUntouched'
  BY <1>1, <1>a, UntouchedStays DEF CreateEvent, workerVars
<1>2. CASE Tick
  BY <1>2, UntouchedStays DEF Tick, workerVars
<1>3. ASSUME NEW w \in Workers, Poll(w) PROVE AbsentIsUntouched'
  <2>1. PICK skipped \in SUBSET BeingMarked :
          batch' = [batch EXCEPT ![w] =
            Oldest({e \in Events \ skipped : Eligible(e) /\ ~Locked(e)}, BatchSize)]
    BY <1>3 DEF Poll
  <2>2. \A e \in batch'[w] : eventStatus[e] # "absent"
    BY <1>a, <2>1 DEF Oldest, Eligible, Dispatchable
  <2>3. \A v \in Workers \ {w} : batch'[v] = batch[v]
    BY <1>a, <2>1
  <2>4. eventStatus' = eventStatus /\ request' = request
    BY <1>3 DEF Poll, rowVars
  <2>5. QED
    BY <2>2, <2>3, <2>4, UntouchedStays
<1>4. ASSUME NEW w \in Workers, EndSelect(w) PROVE AbsentIsUntouched'
  BY <1>4, UntouchedStays DEF EndSelect, rowVars
<1>5. ASSUME NEW w \in Workers, NEW e \in Events,
             \/ GiveUp(w, e) \/ NoExecutor(w, e) \/ InvalidPayload(w, e)
             \/ ExecuteDelivers(w, e) \/ ExecuteFails(w, e) \/ ExecuteTimesOut(w, e)
      PROVE  AbsentIsUntouched'
  <2>1. \E outcome : Decide(w, outcome)
    BY <1>5 DEF GiveUp, NoExecutor, InvalidPayload, ExecuteDelivers, ExecuteFails, ExecuteTimesOut
  <2>2. QED
    BY <2>1, UntouchedStays DEF Decide, rowVars
<1>6. ASSUME NEW w \in Workers, NEW e \in Events,
             \/ ExecutePreviews(w, e) \/ MarkDispatched(w, e) \/ MarkFailedWithBackoff(w, e)
             \/ MarkFailedInPlace(w, e) \/ MarkLost(w, e)
      PROVE  AbsentIsUntouched'
  <2>1. batch' = [batch EXCEPT ![w] = @ \ {e}] /\ request' = request
    BY <1>6 DEF ExecutePreviews, MarkDispatched, MarkFailedWithBackoff, MarkFailedInPlace,
       MarkLost, Advance
  <2>2. \A f \in Events : eventStatus'[f] = eventStatus[f] \/ eventStatus'[f] \in {"failed", "dispatched"}
    BY <1>6, <1>a DEF ExecutePreviews, MarkDispatched, MarkFailedWithBackoff, MarkFailedInPlace,
       MarkLost, SetDispatched, SetFailed, rowVars
  <2>3. QED
    BY <1>a, <2>1, <2>2, UntouchedStays
<1>7. ASSUME NEW w \in Workers, NEW e \in Events, Crash(w, e) PROVE AbsentIsUntouched'
  BY <1>7, <1>a, UntouchedStays DEF Crash, rowVars
<1>8. ASSUME NEW r \in Requests, NEW e \in Events, NEW op \in {"dispatch", "cancel"},
             ApiCheck(r, op, e)
      PROVE  AbsentIsUntouched'
  <2>1. eventStatus[e] # "absent" /\ request' = [request EXCEPT ![r] = [op |-> op, event |-> e]]
        /\ UNCHANGED <<eventStatus, batch>>
    BY <1>8 DEF ApiCheck, Dispatchable, rowVars, workerVars
  <2>2. QED
    BY <1>a, <2>1, UntouchedStays
<1>9. ASSUME NEW r \in Requests, NEW e \in Events,
             ApiDispatch(r, e) \/ ApiDispatchFails(r, e) \/ ApiCancel(r, e)
      PROVE  AbsentIsUntouched'
  <2>1. request' = [request EXCEPT ![r] = NoCall] /\ batch' = batch
    BY <1>9 DEF ApiDispatch, ApiDispatchFails, ApiCancel, Answer, workerVars
  <2>2. \A f \in Events : eventStatus'[f] = eventStatus[f] \/ eventStatus'[f] \in {"failed", "dispatched", "cancelled"}
    BY <1>9, <1>a DEF ApiDispatch, ApiDispatchFails, ApiCancel, SetDispatched, SetFailed
  <2>3. QED
    BY <1>a, <1>b, <2>1, <2>2, UntouchedStays DEF NoCall
<1>10. ASSUME NEW r \in Requests, ApiAborts(r) PROVE AbsentIsUntouched'
  <2>1. request' = [request EXCEPT ![r] = NoCall] /\ UNCHANGED <<batch, eventStatus>>
    BY <1>10 DEF ApiAborts, Answer, workerVars, rowVars
  <2>2. QED
    BY <1>a, <1>b, <2>1, UntouchedStays DEF NoCall
<1>11. CASE UNCHANGED outboxVars
  BY <1>11, UntouchedStays DEF outboxVars, rowVars, workerVars
<1>12. QED
  BY <1>1, <1>2, <1>3, <1>4, <1>5, <1>6, <1>7, <1>8, <1>9, <1>10, <1>11
     DEF OutboxNext, WorkerStep, WorkerFault, ApiStep

LEMMA NextOkIsLive == OutboxTypeOK /\ OkIsLive /\ [OutboxNext]_outboxVars => OkIsLive'
<1> SUFFICES ASSUME OutboxTypeOK, OkIsLive, [OutboxNext]_outboxVars, NEW v \in Workers, verdict'[v] = "ok"
             PROVE  v \in Live
  BY DEF OkIsLive, Live
<1>a. verdict \in [Workers -> Verdicts]
  BY DEF OutboxTypeOK, WorkersTypeOK
<1>1. CASE verdict'[v] = verdict[v]
  BY <1>1 DEF OkIsLive
<1>2. CASE verdict'[v] # verdict[v]
  <2>1. PICK w \in Workers : WorkerStep(w) \/ WorkerFault(w)
    BY <1>2 DEF OutboxNext, outboxVars, workerVars, CreateEvent, Tick, ApiStep, ApiCheck, ApiDispatch,
       ApiDispatchFails, ApiCancel, ApiAborts, Answer
  <2>2. ASSUME NEW e \in Events, ExecuteDelivers(w, e) PROVE v \in Live
    BY <1>a, <1>2, <2>2 DEF ExecuteDelivers, Decide, Live
  <2>3. ASSUME NEW e \in Events,
               \/ GiveUp(w, e) \/ NoExecutor(w, e) \/ InvalidPayload(w, e)
               \/ ExecuteFails(w, e) \/ ExecuteTimesOut(w, e)
        PROVE  v \in Live
    BY <1>a, <1>2, <2>3 DEF GiveUp, NoExecutor, InvalidPayload, ExecuteFails, ExecuteTimesOut, Decide
  <2>4. ASSUME NEW e \in Events,
               \/ ExecutePreviews(w, e) \/ MarkDispatched(w, e) \/ MarkFailedWithBackoff(w, e)
               \/ MarkFailedInPlace(w, e) \/ MarkLost(w, e) \/ Crash(w, e)
        PROVE  v \in Live
    BY <1>a, <1>2, <2>4 DEF ExecutePreviews, MarkDispatched, MarkFailedWithBackoff,
       MarkFailedInPlace, MarkLost, Advance, Crash
  <2>5. ASSUME Poll(w) \/ EndSelect(w) PROVE v \in Live
    BY <1>2, <2>5 DEF Poll, EndSelect
  <2>6. QED
    BY <2>1, <2>2, <2>3, <2>4, <2>5 DEF WorkerStep, WorkerFault
<1>3. QED
  BY <1>1, <1>2

-----------------------------------------------------------------------------
(* The counters.                                                           *)

RowsOf(e) == <<eventStatus[e], attempts[e], wait[e], delivered[e], eventLost[e]>>

\* No row changes, and no worker gets a copy or an outcome.
LEMMA EventStays ==
  ASSUME OutboxTypeOK, OutboxTypeOK', NEW e \in Events, EventInv(e), UNCHANGED <<RowsOf(e), Delivering(e)>>,
         Holders(e)' \subseteq Holders(e)
  PROVE  EventInv(e)'
<1>1. /\ eventStatus'[e] = eventStatus[e] /\ attempts'[e] = attempts[e] /\ wait'[e] = wait[e]
      /\ delivered'[e] = delivered[e] /\ eventLost'[e] = eventLost[e]
  BY DEF RowsOf
<1>2. Cardinality(Delivering(e)') = Cardinality(Delivering(e))
  OBVIOUS
<1>3. Cardinality(Holders(e)') <= Cardinality(Holders(e))
  BY FewerHolders
<1>4. delivered[e] \in Nat /\ eventLost[e] \in Nat /\ Cardinality(Holders(e)) \in Nat
      /\ Cardinality(Holders(e)') \in Nat
  BY SetsAreFinite, SetsStayFinite DEF OutboxTypeOK, HistoryTypeOK
<1>5. Recorded(e)' = Recorded(e)
  BY <1>1, <1>2 DEF Recorded
<1>6. delivered'[e] + Cardinality(Holders(e)') + eventLost[e]
        <= delivered[e] + Cardinality(Holders(e)) + eventLost'[e]
  BY <1>1, <1>3, <1>4
<1>7. QED
  BY <1>1, <1>5, <1>6, EventMove

\* Nothing that a worker holds changes.
LEMMA SetsStay ==
  ASSUME UNCHANGED workerVars, NEW e \in Events
  PROVE  Delivering(e)' = Delivering(e) /\ Holders(e)' = Holders(e)
BY DEF workerVars, Delivering, Holders, IsNext, Live

\* A row changes that no worker's step is about.
LEMMA RowMove ==
  ASSUME OutboxTypeOK, OutboxTypeOK', NEW e \in Events, EventInv(e),
         delivered'[e] = delivered[e], eventLost'[e] = eventLost[e],
         Delivering(e)' = Delivering(e), Holders(e)' \subseteq Holders(e),
         \/ /\ attempts'[e] = attempts[e]
            /\ \/ eventStatus'[e] = eventStatus[e] \/ eventStatus'[e] = "cancelled"
               \/ eventStatus[e] = "absent" /\ eventStatus'[e] = "pending"
            /\ wait[e] = 0 => wait'[e] = 0
         \/ attempts'[e] = Bump(attempts[e]) /\ eventStatus'[e] \in {"failed", "dispatched"}
  PROVE  EventInv(e)'
<1>1. Recorded(e)' = Recorded(e)
  BY DEF Recorded
<1>2. Cardinality(Holders(e)') <= Cardinality(Holders(e))
  BY FewerHolders
<1>3. delivered[e] \in Nat /\ eventLost[e] \in Nat /\ Cardinality(Holders(e)) \in Nat
      /\ Cardinality(Holders(e)') \in Nat
  BY SetsAreFinite, SetsStayFinite DEF OutboxTypeOK, HistoryTypeOK
<1>4. delivered'[e] + Cardinality(Holders(e)') + eventLost[e]
        <= delivered[e] + Cardinality(Holders(e)) + eventLost'[e]
  BY <1>2, <1>3
<1>5. QED
  BY <1>1, <1>4, EventMove

\* GetPendingEvents hands out a copy below the limit only while the attempts
\* leave room for it: the row is pending and has no delivery on record, or it is
\* failed and one of its attempts was not a delivery.
LEMMA PollCounts ==
  ASSUME OutboxTypeOK, OutboxTypeOK', OkIsLive, NEW w \in Workers, Poll(w), NEW e \in Events, EventInv(e)
  PROVE  EventInv(e)'
<1>1. PICK free \in SUBSET Events :
        /\ \A f \in free : Eligible(f)
        /\ batch' = [batch EXCEPT ![w] = Oldest(free, BatchSize)]
        /\ seen' = [seen EXCEPT ![w] =
             [f \in Events |-> IF f \in Oldest(free, BatchSize) THEN attempts[f] ELSE 0]]
  BY DEF Poll
<1>2. /\ pc[w] = "idle" /\ pc' = [pc EXCEPT ![w] = "selecting"] /\ verdict' = verdict
      /\ UNCHANGED <<rowVars, eventHistory>>
  BY DEF Poll
<1>3. /\ pc \in [Workers -> {"idle", "selecting", "dispatching", "marking"}]
      /\ batch \in [Workers -> SUBSET Events] /\ seen \in [Workers -> [Events -> 0 .. AttemptBound]]
      /\ verdict[w] = "none" /\ batch[w] = {}
  BY <1>2 DEF OutboxTypeOK, WorkersTypeOK, PositionOK
<1>a. \A v \in Workers \ {w} : pc'[v] = pc[v] /\ batch'[v] = batch[v] /\ seen'[v] = seen[v]
  BY <1>1, <1>2, <1>3
<1>4. \A v \in Workers \ {w} : IsNext(v, e)' <=> IsNext(v, e)
  BY <1>a DEF IsNext
<1>5. Delivering(e)' = Delivering(e)
  <2>1. ASSUME NEW v \in Workers
        PROVE  v \in Delivering(e)' <=> v \in Delivering(e)
    <3>1. CASE v = w
      BY <1>2, <1>3, <3>1 DEF Delivering
    <3>2. CASE v # w
      BY <1>2, <1>a, <1>4, <3>2 DEF Delivering
    <3>3. QED
      BY <3>1, <3>2
  <2>2. Delivering(e) \subseteq Workers /\ Delivering(e)' \subseteq Workers
    BY DEF Delivering
  <2>3. QED
    BY <2>1, <2>2
<1>6. UNCHANGED RowsOf(e)
  BY <1>2 DEF RowsOf, rowVars, eventHistory
<1>7. Holders(e)' \subseteq Holders(e) \cup {w}
  <2>1. ASSUME NEW v \in Holders(e)', v # w PROVE v \in Holders(e)
    <3>1. v \in Workers \ {w}
      BY <2>1 DEF Holders, Live
    <3>2. QED
      BY <1>a, <1>4, <2>1, <3>1 DEF Holders
  <2>2. QED
    BY <2>1
<1>8. w \in Holders(e)' => e \in free /\ attempts[e] < MaxRetries
  <2>1. batch'[w] = Oldest(free, BatchSize) /\ \A f \in batch'[w] : seen'[w][f] = attempts[f]
    <3>1. Oldest(free, BatchSize) \subseteq Events
      BY DEF Oldest
    <3>2. QED
      BY <1>1, <1>3, <3>1
  <2>2. batch'[w] \subseteq free
    BY <2>1 DEF Oldest
  <2>3. QED
    BY <2>1, <2>2 DEF Holders
<1>9. CASE w \notin Holders(e)'
  <2>1. Holders(e)' \subseteq Holders(e)
    BY <1>7, <1>9
  <2>2. QED
    BY <1>5, <1>6, <2>1, EventStays
<1>10. CASE w \in Holders(e)'
  <2>1. Eligible(e) /\ attempts[e] < MaxRetries
    BY <1>1, <1>8, <1>10
  <2>2. delivered[e] <= eventLost[e] + Cardinality(Delivering(e)) + Spare
    <3>1. /\ attempts[e] \in Nat /\ delivered[e] \in Nat /\ eventLost[e] \in Nat
          /\ MaxRetries \in Nat /\ AttemptBound \in Nat /\ MaxRetries < AttemptBound
          /\ Cardinality(Delivering(e)) \in Nat
      BY OutboxAssumption, SetsAreFinite DEF OutboxTypeOK, RowsTypeOK, HistoryTypeOK, OutboxAssumption
    <3>2. CASE eventStatus[e] = "pending"
      <4>1. delivered[e] = eventLost[e] + Cardinality(Delivering(e))
        BY <3>2 DEF EventInv, NotRecorded
      <4>2. QED
        BY <3>1, <4>1, SetsAreFinite
    <3>3. CASE eventStatus[e] = "failed"
      <4>1. delivered[e] + 1 <= attempts[e] + eventLost[e] + Cardinality(Delivering(e))
        BY <2>1, <3>1, <3>3 DEF EventInv, Counted
      <4>2. attempts[e] - 1 <= Spare
        BY <2>1, <3>1 DEF Spare
      <4>3. Spare \in Nat
        BY SetsAreFinite
      <4>4. QED
        BY <3>1, <4>1, <4>2, <4>3
    <3>4. QED
      BY <2>1, <3>2, <3>3 DEF Eligible, Dispatchable
  <2>3. Cardinality(Holders(e)') + Cardinality(Delivering(e)) <= Cardinality(Live)
    <3>1. Holders(e)' \subseteq Live
      BY DEF Holders, Live
    <3>2. Holders(e)' \cap Delivering(e)' = {}
      <4>1. ASSUME NEW v \in Workers, verdict'[v] = "ok" PROVE pc'[v] = "marking"
        BY <4>1 DEF OutboxTypeOK, PositionOK
      <4>2. QED
        BY <4>1 DEF Holders, Delivering
    <3>3. QED
      BY <1>5, <3>1, <3>2, FlightAndHolders
  <2>4. Limited(e)'
    <3>1. delivered'[e] = delivered[e] /\ eventLost'[e] = eventLost[e]
      BY <1>6 DEF RowsOf
    <3>2. /\ delivered[e] \in Nat /\ eventLost[e] \in Nat /\ Spare \in Nat
          /\ Cardinality(Delivering(e)) \in Nat /\ Cardinality(Holders(e)') \in Nat
          /\ Cardinality(Live) \in Nat
      BY SetsAreFinite, SetsStayFinite DEF OutboxTypeOK, HistoryTypeOK
    <3>3. delivered'[e] + Cardinality(Holders(e)') <= eventLost'[e] + Cardinality(Live) + Spare
      BY <2>2, <2>3, <3>1, <3>2
    <3>4. QED
      BY <3>3 DEF Limited, Live, Spare
  <2>5. /\ attempts'[e] = attempts[e] /\ Recorded(e)' = Recorded(e)
        /\ eventStatus'[e] = eventStatus[e] /\ wait'[e] = wait[e]
    BY <1>5, <1>6 DEF RowsOf, Recorded
  <2>6. QED
    BY <2>4, <2>5, EventMove
<1>11. QED
  BY <1>9, <1>10

\* dispatchEvent: an acceptance takes the place of the copy that allowed it.
LEMMA DecideCounts ==
  ASSUME OutboxTypeOK, OutboxTypeOK', OkIsLive, NEW w \in Workers, NEW e \in Events,
         \/ GiveUp(w, e) \/ NoExecutor(w, e) \/ InvalidPayload(w, e)
         \/ ExecuteDelivers(w, e) \/ ExecuteFails(w, e) \/ ExecuteTimesOut(w, e),
         NEW f \in Events, EventInv(f)
  PROVE  EventInv(f)'
<1>1. Dispatching(w, e) /\ UNCHANGED rowVars
  BY DEF GiveUp, NoExecutor, InvalidPayload, ExecuteDelivers, ExecuteFails, ExecuteTimesOut,
     CanExecute, HasExecutor, Decide
<1>2. eventStatus'[f] = eventStatus[f] /\ attempts'[f] = attempts[f] /\ wait'[f] = wait[f]
  BY <1>1 DEF rowVars
<1>3. delivered \in [Events -> Nat] /\ eventLost \in [Events -> Nat]
  BY DEF OutboxTypeOK, HistoryTypeOK
<1>4. CASE GiveUp(w, e) \/ NoExecutor(w, e) \/ InvalidPayload(w, e) \/ ExecuteFails(w, e)
  <2>1. PICK outcome \in {"failed", "unroutable", "exhausted"} : Decide(w, outcome)
    BY <1>4 DEF GiveUp, NoExecutor, InvalidPayload, ExecuteFails
  <2>2. /\ Delivering(f)' = Delivering(f) \cup (IF outcome = "ok" /\ f = e THEN {w} ELSE {})
        /\ Holders(f)' = Holders(f) \ (IF f = e THEN {w} ELSE {})
    BY <1>1, <2>1, SetsDecide
  <2>a. outcome # "ok"
    OBVIOUS
  <2>b. Delivering(f)' = Delivering(f) /\ Holders(f)' \subseteq Holders(f)
    BY <2>2, <2>a
  <2>3. UNCHANGED RowsOf(f)
    BY <1>2, <1>4 DEF GiveUp, NoExecutor, InvalidPayload, ExecuteFails, eventHistory, RowsOf
  <2>4. QED
    BY <2>b, <2>3, EventStays
<1>5. CASE ExecuteDelivers(w, e) \/ ExecuteTimesOut(w, e)
  <2>1. PICK outcome \in {"ok", "failed"} :
          /\ Decide(w, outcome) /\ delivered' = [delivered EXCEPT ![e] = @ + 1]
          /\ outcome = "ok" => eventLost' = eventLost
          /\ outcome = "failed" => eventLost' = [eventLost EXCEPT ![e] = @ + 1]
    BY <1>5 DEF ExecuteDelivers, ExecuteTimesOut
  <2>2. /\ Delivering(f)' = Delivering(f) \cup (IF outcome = "ok" /\ f = e THEN {w} ELSE {})
        /\ w \notin Delivering(f)
        /\ Holders(f)' = Holders(f) \ (IF f = e THEN {w} ELSE {})
    BY <1>1, <2>1, SetsDecide
  <2>3. CASE f # e
    <3>1. Delivering(f)' = Delivering(f) /\ Holders(f)' \subseteq Holders(f)
      BY <2>2, <2>3
    <3>2. UNCHANGED RowsOf(f)
      BY <1>2, <1>3, <2>1, <2>3 DEF RowsOf
    <3>3. QED
      BY <3>1, <3>2, EventStays
  <2>4. CASE f = e
    <3>1. w \in Holders(e)
      <4>1. w \in Live /\ seen[w][e] < MaxRetries /\ IsNext(w, e) /\ pc[w] = "dispatching"
        BY <1>5 DEF ExecuteDelivers, ExecuteTimesOut, CanExecute, HasExecutor, Dispatching, Live
      <4>2. QED
        BY <4>1 DEF Holders, IsNext
    <3>2. Cardinality(Holders(e)') = Cardinality(Holders(e)) - 1
      BY <2>2, <2>4, <3>1, SetsAreFinite, FS_RemoveElement
    <3>3. delivered'[e] = delivered[e] + 1 /\ delivered[e] \in Nat /\ eventLost[e] \in Nat
      BY <1>3, <2>1
    <3>4. \/ eventLost'[e] = eventLost[e] /\ Cardinality(Delivering(e)') = Cardinality(Delivering(e)) + 1
          \/ eventLost'[e] = eventLost[e] + 1 /\ Cardinality(Delivering(e)') = Cardinality(Delivering(e))
      <4>1. CASE outcome = "ok"
        <5>1. Delivering(e)' = Delivering(e) \cup {w} /\ w \notin Delivering(e)
          BY <2>2, <2>4, <4>1
        <5>2. Cardinality(Delivering(e)') = Cardinality(Delivering(e)) + 1
          BY <5>1, SetsAreFinite, FS_AddElement
        <5>3. QED
          BY <2>1, <4>1, <5>2
      <4>2. CASE outcome = "failed"
        <5>1. Delivering(e)' = Delivering(e)
          BY <2>2, <2>4, <4>2
        <5>2. QED
          BY <1>3, <2>1, <4>2, <5>1
      <4>3. QED
        BY <4>1, <4>2
    <3>5. Cardinality(Delivering(e)) \in Nat /\ Cardinality(Holders(e)) \in Nat
      BY SetsAreFinite
    <3>6. Recorded(e)' = Recorded(e)
      BY <3>3, <3>4, <3>5 DEF Recorded
    <3>7. delivered'[e] + Cardinality(Holders(e)') + eventLost[e]
            <= delivered[e] + Cardinality(Holders(e)) + eventLost'[e]
      BY <3>2, <3>3, <3>4, <3>5
    <3>8. QED
      BY <1>2, <2>4, <3>6, <3>7, EventMove
  <2>5. QED
    BY <2>3, <2>4
<1>6. QED
  BY <1>4, <1>5

\* The copy that a worker is done with: recorded, previewed or forgotten.
LEMMA AdvanceCounts ==
  ASSUME OutboxTypeOK, OutboxTypeOK', OkIsLive, NEW w \in Workers, NEW e \in Events,
         \/ ExecutePreviews(w, e) \/ MarkDispatched(w, e) \/ MarkFailedWithBackoff(w, e)
         \/ MarkFailedInPlace(w, e) \/ MarkLost(w, e),
         NEW f \in Events, EventInv(f)
  PROVE  EventInv(f)'
<1>1. IsNext(w, e) /\ Advance(w, e)
  BY DEF ExecutePreviews, MarkDispatched, MarkFailedWithBackoff, MarkFailedInPlace, MarkLost,
     CanExecute, HasExecutor, Dispatching, Marking
<1>2. /\ Delivering(f)' = Delivering(f) \ {w}
      /\ w \in Delivering(f) <=> verdict[w] = "ok" /\ f = e
      /\ Holders(f)' \subseteq Holders(f)
  BY <1>1, SetsAdvance
<1>3. /\ delivered \in [Events -> Nat] /\ eventLost \in [Events -> Nat] /\ eventStatus \in [Events -> EventStatuses]
      /\ attempts \in [Events -> 0 .. AttemptBound] /\ wait \in [Events -> 0 .. 30]
  BY DEF OutboxTypeOK, RowsTypeOK, HistoryTypeOK
<1>4. delivered' = delivered
  BY DEF ExecutePreviews, MarkDispatched, MarkFailedWithBackoff, MarkFailedInPlace, MarkLost, eventHistory
<1>5. CASE f # e
  <2>1. Delivering(f)' = Delivering(f)
    BY <1>2, <1>5
  <2>2. UNCHANGED RowsOf(f)
    BY <1>3, <1>4, <1>5 DEF RowsOf, ExecutePreviews, MarkDispatched, MarkFailedWithBackoff,
       MarkFailedInPlace, MarkLost, SetDispatched, SetFailed, Forget, rowVars, eventHistory
  <2>3. QED
    BY <1>2, <2>1, <2>2, EventStays
<1>6. CASE f = e /\ verdict[w] # "ok"
  <2>1. Delivering(f)' = Delivering(f)
    BY <1>2, <1>6
  <2>2. eventLost'[f] = eventLost[f] /\ delivered'[f] = delivered[f]
    BY <1>3, <1>4, <1>6 DEF ExecutePreviews, MarkDispatched, MarkFailedWithBackoff,
       MarkFailedInPlace, MarkLost, Forget, eventHistory
  <2>3. \/ attempts'[f] = attempts[f] /\ eventStatus'[f] = eventStatus[f] /\ wait'[f] = wait[f]
        \/ attempts'[f] = Bump(attempts[f]) /\ eventStatus'[f] \in {"failed", "dispatched"}
    BY <1>3, <1>6 DEF ExecutePreviews, MarkDispatched, MarkFailedWithBackoff,
       MarkFailedInPlace, MarkLost, SetFailed, rowVars
  <2>4. QED
    BY <1>2, <2>1, <2>2, <2>3, RowMove
<1>7. CASE f = e /\ verdict[w] = "ok"
  <2>1. pc[w] = "marking" /\ w \in Delivering(e)
    BY <1>2, <1>7 DEF OutboxTypeOK, PositionOK
  <2>2. Cardinality(Delivering(e)') = Cardinality(Delivering(e)) - 1
    BY <1>2, <1>7, <2>1, SetsAreFinite, FS_RemoveElement
  <2>3. \/ MarkDispatched(w, e)
        \/ MarkLost(w, e)
    BY <1>7, <2>1 DEF ExecutePreviews, MarkFailedWithBackoff, MarkFailedInPlace, CanExecute,
       HasExecutor, Dispatching
  <2>4. Cardinality(Holders(e)') <= Cardinality(Holders(e))
    BY <1>2, <1>7, FewerHolders
  <2>5. /\ delivered[e] \in Nat /\ eventLost[e] \in Nat /\ Cardinality(Delivering(e)) \in Nat
        /\ Cardinality(Holders(e)) \in Nat /\ Cardinality(Holders(e)') \in Nat
    BY <1>3, SetsAreFinite, SetsStayFinite
  <2>6. CASE MarkDispatched(w, e)
    <3>1. /\ eventLost'[e] = eventLost[e] /\ delivered'[e] = delivered[e]
          /\ attempts'[e] = Bump(attempts[e]) /\ eventStatus'[e] = "dispatched"
      BY <1>3, <1>4, <2>6 DEF MarkDispatched, SetDispatched
    <3>2. Recorded(e)' = Recorded(e) + 1
      BY <2>2, <2>5, <3>1 DEF Recorded
    <3>3. delivered'[e] + Cardinality(Holders(e)') + eventLost[e]
            <= delivered[e] + Cardinality(Holders(e)) + eventLost'[e]
      BY <2>4, <2>5, <3>1
    <3>4. QED
      BY <1>7, <3>1, <3>2, <3>3, EventMove
  <2>7. CASE MarkLost(w, e)
    <3>1. /\ eventLost'[e] = eventLost[e] + 1 /\ delivered'[e] = delivered[e]
          /\ attempts'[e] = attempts[e] /\ eventStatus'[e] = eventStatus[e] /\ wait'[e] = wait[e]
      BY <1>3, <1>4, <1>7, <2>7 DEF MarkLost, Forget, rowVars
    <3>2. Recorded(e)' = Recorded(e)
      BY <2>2, <2>5, <3>1 DEF Recorded
    <3>3. delivered'[e] + Cardinality(Holders(e)') + eventLost[e]
            <= delivered[e] + Cardinality(Holders(e)) + eventLost'[e]
      BY <2>4, <2>5, <3>1
    <3>4. QED
      BY <1>7, <3>1, <3>2, <3>3, EventMove
  <2>8. QED
    BY <2>3, <2>6, <2>7
<1>8. QED
  BY <1>5, <1>6, <1>7

\* The copies of a worker that dies; an acceptance it held is lost.
LEMMA CrashCounts ==
  ASSUME OutboxTypeOK, OutboxTypeOK', NEW w \in Workers, NEW e \in Events, Crash(w, e),
         NEW f \in Events, EventInv(f)
  PROVE  EventInv(f)'
<1>1. /\ pc \in [Workers -> {"idle", "selecting", "dispatching", "marking"}]
      /\ batch \in [Workers -> SUBSET Events] /\ seen \in [Workers -> [Events -> 0 .. AttemptBound]]
      /\ verdict \in [Workers -> Verdicts] /\ eventLost \in [Events -> Nat] /\ delivered \in [Events -> Nat]
  BY DEF OutboxTypeOK, WorkersTypeOK, HistoryTypeOK
<1>2. \A v \in Workers \ {w} : /\ pc'[v] = pc[v] /\ batch'[v] = batch[v]
                              /\ seen'[v] = seen[v] /\ verdict'[v] = verdict[v]
  BY <1>1 DEF Crash
<1>3. verdict'[w] = "none" /\ batch'[w] = {} /\ IsNext(w, e) /\ UNCHANGED <<rowVars, delivered>>
  BY <1>1 DEF Crash
<1>4. \A v \in Workers \ {w} : IsNext(v, f)' <=> IsNext(v, f)
  BY <1>2 DEF IsNext
<1>5. IsNext(w, f) <=> f = e
  <2>1. batch[w] \subseteq Events
    BY <1>1
  <2>2. QED
    BY <1>3, <2>1, NextIsUnique
<1>6. Delivering(f)' = Delivering(f) \ {w}
  BY <1>2, <1>3, <1>4 DEF Delivering
<1>7. w \in Delivering(f) <=> verdict[w] = "ok" /\ f = e
  BY <1>5 DEF Delivering
<1>8. Holders(f)' \subseteq Holders(f)
  <2>1. ASSUME NEW v \in Holders(f)' PROVE v \in Holders(f)
    <3>1. v \in Workers \ {w}
      BY <1>3, <2>1 DEF Holders, Live
    <3>2. QED
      BY <1>2, <1>4, <2>1, <3>1 DEF Holders
  <2>2. QED
    BY <2>1
<1>9. /\ eventStatus'[f] = eventStatus[f] /\ attempts'[f] = attempts[f] /\ wait'[f] = wait[f]
      /\ delivered'[f] = delivered[f]
  BY <1>3 DEF rowVars
<1>10. eventLost'[f] = eventLost[f] + (IF verdict[w] = "ok" /\ f = e THEN 1 ELSE 0)
  BY <1>1 DEF Crash, Forget
<1>11. CASE verdict[w] = "ok" /\ f = e
  <2>1. Cardinality(Delivering(f)') = Cardinality(Delivering(f)) - 1
    BY <1>6, <1>7, <1>11, SetsAreFinite, FS_RemoveElement, ZenonT(30)
  <2>2. Cardinality(Holders(f)') <= Cardinality(Holders(f))
    BY <1>8, FewerHolders
  <2>3. /\ delivered[f] \in Nat /\ eventLost[f] \in Nat /\ Cardinality(Delivering(f)) \in Nat
        /\ Cardinality(Holders(f)) \in Nat /\ Cardinality(Holders(f)') \in Nat
    BY <1>1, SetsAreFinite, SetsStayFinite
  <2>4. Recorded(f)' = Recorded(f)
    BY <1>9, <1>10, <1>11, <2>1, <2>3 DEF Recorded
  <2>5. delivered'[f] + Cardinality(Holders(f)') + eventLost[f]
          <= delivered[f] + Cardinality(Holders(f)) + eventLost'[f]
    BY <1>9, <1>10, <1>11, <2>2, <2>3
  <2>6. QED
    BY <1>9, <2>4, <2>5, EventMove
<1>12. CASE ~ (verdict[w] = "ok" /\ f = e)
  <2>1. Delivering(f)' = Delivering(f)
    BY <1>6, <1>7, <1>12
  <2>2. eventLost'[f] = eventLost[f]
    BY <1>1, <1>10, <1>12
  <2>3. QED
    BY <1>8, <1>9, <2>1, <2>2, EventStays DEF RowsOf
<1>13. QED
  BY <1>11, <1>12

LEMMA NextCounts ==
  ASSUME OutboxTypeOK, OutboxTypeOK', CountInv, [OutboxNext]_outboxVars, NEW f \in Events
  PROVE  EventInv(f)'
<1>a. EventInv(f) /\ OkIsLive
  BY DEF CountInv, EventInv
<1>b. /\ delivered \in [Events -> Nat] /\ eventLost \in [Events -> Nat] /\ eventStatus \in [Events -> EventStatuses]
      /\ attempts \in [Events -> 0 .. AttemptBound] /\ wait \in [Events -> 0 .. 30]
  BY DEF OutboxTypeOK, RowsTypeOK, HistoryTypeOK
<1>c. ASSUME UNCHANGED workerVars
      PROVE  Delivering(f)' = Delivering(f) /\ Holders(f)' \subseteq Holders(f)
  BY <1>c, SetsStay
<1>1. ASSUME NEW e \in Events, CreateEvent(e) PROVE EventInv(f)'
  <2>1. /\ eventStatus'[f] = eventStatus[f] \/ (eventStatus[f] = "absent" /\ eventStatus'[f] = "pending")
        /\ attempts'[f] = attempts[f] /\ wait'[f] = wait[f]
        /\ delivered'[f] = delivered[f] /\ eventLost'[f] = eventLost[f] /\ UNCHANGED workerVars
    BY <1>1, <1>b DEF CreateEvent, eventHistory
  <2>2. QED
    BY <1>a, <1>c, <2>1, RowMove
<1>2. CASE Tick
  <2>1. /\ eventStatus'[f] = eventStatus[f] /\ (wait[f] = 0 => wait'[f] = 0)
        /\ attempts'[f] = attempts[f]
        /\ delivered'[f] = delivered[f] /\ eventLost'[f] = eventLost[f] /\ UNCHANGED workerVars
    BY <1>2, <1>b DEF Tick, eventHistory
  <2>2. QED
    BY <1>a, <1>c, <2>1, RowMove
<1>3. ASSUME NEW w \in Workers, Poll(w) PROVE EventInv(f)'
  BY <1>3, <1>a, PollCounts
<1>4. ASSUME NEW w \in Workers, EndSelect(w) PROVE EventInv(f)'
  <2>1. /\ pc \in [Workers -> {"idle", "selecting", "dispatching", "marking"}]
        /\ pc[w] = "selecting" /\ pc' = [pc EXCEPT ![w] = "dispatching"]
        /\ UNCHANGED <<rowVars, batch, seen, verdict, eventHistory>>
    BY <1>4 DEF EndSelect, OutboxTypeOK, WorkersTypeOK
  <2>2. \A v \in Workers : (IsNext(v, f)' <=> IsNext(v, f)) /\ (pc'[v] = "marking" <=> pc[v] = "marking")
    BY <2>1 DEF IsNext
  <2>3. Delivering(f)' = Delivering(f)
    BY <2>1, <2>2 DEF Delivering
  <2>4. Holders(f)' \subseteq Holders(f)
    BY <2>1, <2>2 DEF Holders, Live
  <2>5. UNCHANGED RowsOf(f)
    BY <2>1 DEF RowsOf, rowVars, eventHistory
  <2>6. QED
    BY <1>a, <2>3, <2>4, <2>5, EventStays
<1>5. ASSUME NEW w \in Workers, NEW e \in Events,
             \/ GiveUp(w, e) \/ NoExecutor(w, e) \/ InvalidPayload(w, e)
             \/ ExecuteDelivers(w, e) \/ ExecuteFails(w, e) \/ ExecuteTimesOut(w, e)
      PROVE  EventInv(f)'
  BY <1>5, <1>a, DecideCounts
<1>6. ASSUME NEW w \in Workers, NEW e \in Events,
             \/ ExecutePreviews(w, e) \/ MarkDispatched(w, e) \/ MarkFailedWithBackoff(w, e)
             \/ MarkFailedInPlace(w, e) \/ MarkLost(w, e)
      PROVE  EventInv(f)'
  BY <1>6, <1>a, AdvanceCounts
<1>7. ASSUME NEW w \in Workers, NEW e \in Events, Crash(w, e) PROVE EventInv(f)'
  BY <1>7, <1>a, CrashCounts
<1>8. ASSUME NEW r \in Requests, NEW e \in Events, NEW op \in {"dispatch", "cancel"},
             ApiCheck(r, op, e)
      PROVE  EventInv(f)'
  <2>1. UNCHANGED RowsOf(f) /\ UNCHANGED workerVars
    BY <1>8 DEF ApiCheck, RowsOf, rowVars, eventHistory
  <2>2. QED
    BY <1>a, <1>c, <2>1, EventStays
<1>9. ASSUME NEW r \in Requests, NEW e \in Events,
             ApiDispatch(r, e) \/ ApiDispatchFails(r, e) \/ ApiCancel(r, e)
      PROVE  EventInv(f)'
  <2>1. /\ UNCHANGED workerVars /\ delivered'[f] = delivered[f] /\ eventLost'[f] = eventLost[f]
        /\ \/ /\ attempts'[f] = attempts[f] /\ wait'[f] = wait[f]
              /\ eventStatus'[f] = eventStatus[f] \/ eventStatus'[f] = "cancelled"
           \/ attempts'[f] = Bump(attempts[f]) /\ eventStatus'[f] \in {"failed", "dispatched"}
    BY <1>9, <1>b DEF ApiDispatch, ApiDispatchFails, ApiCancel, Answer, SetDispatched, SetFailed
  <2>2. QED
    BY <1>a, <1>c, <2>1, RowMove
<1>10. ASSUME NEW r \in Requests, ApiAborts(r) PROVE EventInv(f)'
  <2>1. UNCHANGED RowsOf(f) /\ UNCHANGED workerVars
    BY <1>10 DEF ApiAborts, Answer, RowsOf, rowVars
  <2>2. QED
    BY <1>a, <1>c, <2>1, EventStays
<1>11. CASE UNCHANGED outboxVars
  <2>1. UNCHANGED RowsOf(f) /\ UNCHANGED workerVars
    BY <1>11 DEF outboxVars, RowsOf, rowVars, eventHistory
  <2>2. QED
    BY <1>a, <1>c, <2>1, EventStays
<1>12. QED
  BY <1>1, <1>2, <1>3, <1>4, <1>5, <1>6, <1>7, <1>8, <1>9, <1>10, <1>11
     DEF OutboxNext, WorkerStep, WorkerFault, ApiStep

LEMMA InitCountInv == OutboxInit => CountInv
<1> SUFFICES ASSUME OutboxInit PROVE CountInv
  OBVIOUS
<1>1. AbsentIsUntouched /\ OkIsLive
  <2>1. \A e \in Events : e # 0
    BY OutboxAssumption DEF OutboxAssumption
  <2>2. QED
    BY <2>1 DEF OutboxInit, AbsentIsUntouched, OkIsLive, NoCall
<1>2. ASSUME NEW e \in Events PROVE Counted(e) /\ NotRecorded(e) /\ Limited(e)
  <2>1. Delivering(e) = {} /\ Holders(e) = {}
    BY DEF OutboxInit, Delivering, Holders, Live
  <2>2. Cardinality(Delivering(e)) = 0 /\ Cardinality(Holders(e)) = 0
    BY <2>1, FS_EmptySet
  <2>3. Cardinality(Live) \in Nat /\ Spare \in Nat
    BY SetsAreFinite
  <2>4. delivered[e] = 0 /\ eventLost[e] = 0 /\ attempts[e] = 0 /\ wait[e] = 0 /\ eventStatus[e] = "absent"
    BY DEF OutboxInit
  <2>5. QED
    BY <2>2, <2>3, <2>4 DEF Counted, NotRecorded, Limited
<1>3. QED
  BY <1>1, <1>2 DEF CountInv

LEMMA NextCountInv == OutboxTypeOK /\ CountInv /\ [OutboxNext]_outboxVars => OutboxTypeOK' /\ CountInv'
<1> SUFFICES ASSUME OutboxTypeOK, CountInv, [OutboxNext]_outboxVars PROVE OutboxTypeOK' /\ CountInv'
  OBVIOUS
<1>1. OutboxTypeOK'
  BY NextTypeOK
<1>2. AbsentIsUntouched' /\ OkIsLive'
  BY NextUntouched, NextOkIsLive DEF CountInv
<1>3. \A f \in Events : EventInv(f)'
  BY <1>1, NextCounts
<1>4. QED
  BY <1>1, <1>2, <1>3 DEF CountInv, EventInv

LEMMA CountInvHolds ==
  OutboxTypeOK /\ CountInv => DeliveriesAreCounted /\ RetryLimitHolds /\ PendingIsUnrecorded
<1> SUFFICES ASSUME OutboxTypeOK, CountInv
             PROVE  DeliveriesAreCounted /\ RetryLimitHolds /\ PendingIsUnrecorded
  OBVIOUS
<1>1. ASSUME NEW e \in Events
      PROVE  /\ delivered[e] \in Nat /\ eventLost[e] \in Nat /\ attempts[e] \in Nat
             /\ Cardinality(Delivering(e)) \in Nat /\ Cardinality(Holders(e)) \in Nat
             /\ Cardinality(Live) \in Nat /\ Spare \in Nat
             /\ Counted(e) /\ NotRecorded(e) /\ Limited(e)
  BY SetsAreFinite DEF OutboxTypeOK, RowsTypeOK, HistoryTypeOK, CountInv
<1>2. ASSUME NEW e \in Events, attempts[e] < AttemptBound
      PROVE  delivered[e] <= attempts[e] + eventLost[e] + Cardinality(Delivering(e))
  BY <1>1, <1>2 DEF Counted
<1>3. ASSUME NEW e \in Events
      PROVE  delivered[e] <= eventLost[e] + Cardinality(Live) + Spare
  BY <1>1 DEF Limited
<1>4. PendingIsUnrecorded
  BY <1>1 DEF PendingIsUnrecorded, NotRecorded
<1>5. QED
  BY <1>2, <1>3, <1>4 DEF DeliveriesAreCounted, RetryLimitHolds, Live, Spare

-----------------------------------------------------------------------------
(* The theorems.                                                           *)

\* dispatch_attempts never falls behind the deliveries, however many workers
\* record what they did with copies of the same row.
THEOREM AttemptsCount == OutboxSpec => []DeliveriesAreCounted
<1>1. QED
  BY InitTypeOK, InitCountInv, NextCountInv, CountInvHolds, PTL DEF OutboxSpec

\* The limit that dispatchEvent tests on its copy bounds the deliveries: one
\* for each live worker, and two less than the limit besides.
THEOREM RetriesAreLimited == OutboxSpec => []RetryLimitHolds
<1>1. QED
  BY InitTypeOK, InitCountInv, NextCountInv, CountInvHolds, PTL DEF OutboxSpec

\* A pending row has recorded nothing: what the external system accepted of it
\* is in flight or was lost with a fault.
THEOREM PendingRecordsNothing == OutboxSpec => []PendingIsUnrecorded
<1>1. QED
  BY InitTypeOK, InitCountInv, NextCountInv, CountInvHolds, PTL DEF OutboxSpec

=============================================================================
