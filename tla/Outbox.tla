------------------------------- MODULE Outbox -------------------------------
(***************************************************************************)
(* The transactional outbox: the table ops.outbox_event, the               *)
(* DispatchWorker processes that poll it, and the API requests that        *)
(* dispatch or cancel one event by hand.                                   *)
(*                                                                         *)
(*   internal/outbox/repository.go            the table's operations       *)
(*   internal/worker/dispatch_worker.go       the polling worker           *)
(*   internal/api/handler_factories.go        outboxServiceAdapter         *)
(*   internal/api/handler/outbox.go           HandleDispatch, HandleCancel *)
(*                                                                         *)
(* A worker fetches a batch with SELECT ... FOR UPDATE SKIP LOCKED outside *)
(* of any transaction, so the row locks end with the statement; it then    *)
(* works through its own copies one by one: decide or call the external    *)
(* system, then record the outcome in a transaction of its own.  Each of   *)
(* these is a step here, and any other process may step in between.        *)
(***************************************************************************)
EXTENDS Naturals, FiniteSets

CONSTANTS
  Events,        \* event ids; their order is the order of created_at
  Workers,       \* DispatchWorker processes
  DryRunWorkers, \* the workers started with DryRun (ACTION_APPLY_DRY_RUN)
  Requests,      \* API requests in progress at the same time
  Routable,      \* events whose target_channel has an executor in the worker
  Decodable,     \* events whose payload decodes into an ActionProposal
  PreviewFails,  \* events whose executor refuses a dry run
  BatchSize,     \* WORKER_BATCH_SIZE
  MaxRetries,    \* DispatchConfig.MaxRetries
  AttemptBound,  \* dispatch_attempts is counted up to this value
  MaxEventFaults \* how many crashes, lost transactions and lost replies

ASSUME OutboxAssumption ==
  /\ Events \subseteq Nat \ {0}
  /\ IsFiniteSet(Workers) /\ DryRunWorkers \subseteq Workers
  /\ Routable \subseteq Events
  /\ Decodable \subseteq Events
  /\ PreviewFails \subseteq Events
  /\ BatchSize \in Nat \ {0}
  /\ MaxRetries \in Nat
  /\ AttemptBound \in Nat
  /\ AttemptBound > MaxRetries
  /\ MaxEventFaults \in Nat

VARIABLES
  eventStatus,  \* eventStatus[e]: the row's status, "absent" before the INSERT
  attempts,     \* attempts[e]: dispatch_attempts
  wait,         \* wait[e]: minutes until next_retry_at, 0 when past or NULL
  pc,           \* pc[w]: where worker w is in processBatch
  batch,        \* batch[w]: fetched events that w has not finished
  seen,         \* seen[w][e]: the attempts in w's fetched copy of e
  verdict,      \* verdict[w]: outcome w is about to record
  request,      \* request[r]: API call r, after its status check
  delivered,    \* history: times the external system accepted e
  eventLost,    \* history: acceptances of e that no transaction recorded
  dispatchedBy, \* history: who last set e to "dispatched"
  eventFaults   \* history: faults so far

rowVars      == <<eventStatus, attempts, wait>>
workerVars   == <<pc, batch, seen, verdict>>
eventHistory == <<delivered, eventLost, dispatchedBy>>
outboxVars   == <<rowVars, workerVars, request, eventHistory, eventFaults>>

EventStatuses == {"absent", "pending", "failed", "dispatched", "cancelled"}
Verdicts      == {"none", "ok", "failed", "unroutable", "exhausted"}
NoCall        == [op |-> "none", event |-> 0]
Calls         == [op : {"dispatch", "cancel"}, event : Events]

OutboxInit ==
  /\ eventStatus = [e \in Events |-> "absent"]
  /\ attempts = [e \in Events |-> 0]
  /\ wait = [e \in Events |-> 0]
  /\ pc = [w \in Workers |-> "idle"]
  /\ batch = [w \in Workers |-> {}]
  /\ seen = [w \in Workers |-> [e \in Events |-> 0]]
  /\ verdict = [w \in Workers |-> "none"]
  /\ request = [r \in Requests |-> NoCall]
  /\ delivered = [e \in Events |-> 0]
  /\ eventLost = [e \in Events |-> 0]
  /\ dispatchedBy = [e \in Events |-> "nobody"]
  /\ eventFaults = 0

-----------------------------------------------------------------------------
(* Pure parts.                                                             *)

\* dispatch_attempts + 1.  The code compares the counter with MaxRetries only,
\* so counting further than AttemptBound > MaxRetries changes no behaviour.
Bump(n) == IF n < AttemptBound THEN n + 1 ELSE n

\* Minutes: 2^(n-1), at most 30.
Backoff(n) ==
  CASE n = 0       -> 0
    [] n \in 1 .. 5 -> <<1, 2, 4, 8, 16>>[n]
    [] OTHER       -> 30

\* Mutant: the status filter forgets 'dispatched'.
DispatchableAgain(e) == eventStatus[e] \notin {"absent", "cancelled"}

Dispatchable(e) == eventStatus[e] \in {"pending", "failed"}

\* Mutant: the query without its next_retry_at condition.
EligibleAtOnce(e) == Dispatchable(e)

Eligible(e) == Dispatchable(e) /\ wait[e] = 0

\* The row locks of a SELECT ... FOR UPDATE that has not ended.
Locked(e) == \E w \in Workers : pc[w] = "selecting" /\ e \in batch[w]

\* The first n elements of S in created_at order.
Oldest(S, n) == {e \in S : Cardinality({f \in S : f < e}) < n}

\* The fetched copy that w is working on.
IsNext(w, e) == e \in batch[w] /\ \A f \in batch[w] : e <= f

\* Rows a marking transaction may hold locked while a SELECT runs.
BeingMarked ==
  {e \in Events : \/ \E w \in Workers : pc[w] = "marking" /\ IsNext(w, e)
                  \/ \E r \in Requests : request[r].event = e}

-----------------------------------------------------------------------------
(* Producers and time.                                                     *)

\* Mutant: ON CONFLICT (event_id) DO UPDATE SET status = 'pending'.
CreateEventUpsert(e) ==
  /\ eventStatus[e] # "pending"
  /\ eventStatus' = [eventStatus EXCEPT ![e] = "pending"]
  /\ UNCHANGED <<attempts, wait, workerVars, request, eventHistory, eventFaults>>

\* CreateEvent, from the create_outbox pipeline step or from ApplyService.
\* ON CONFLICT (event_id) DO NOTHING: a second insert changes nothing.  The
\* events appear in any order, as created_at is set when a transaction starts
\* and the row is seen when it commits.
CreateEvent(e) ==
  /\ eventStatus[e] = "absent"
  /\ eventStatus' = [eventStatus EXCEPT ![e] = "pending"]
  /\ UNCHANGED <<attempts, wait, workerVars, request, eventHistory, eventFaults>>

\* A minute passes.
Tick ==
  /\ \E e \in Events : wait[e] > 0
  /\ wait' = [e \in Events |-> IF wait[e] > 0 THEN wait[e] - 1 ELSE 0]
  /\ UNCHANGED <<eventStatus, attempts, workerVars, request, eventHistory, eventFaults>>

-----------------------------------------------------------------------------
(* The worker.                                                             *)

\* GetPendingEvents: SKIP LOCKED passes over rows that another SELECT holds,
\* and over those that a marking transaction holds at that moment.
Poll(w) ==
  /\ pc[w] = "idle"
  /\ \E skipped \in SUBSET BeingMarked :
       LET free    == {e \in Events \ skipped : Eligible(e) /\ ~Locked(e)}
           fetched == Oldest(free, BatchSize)
       IN /\ free # {}
          /\ batch' = [batch EXCEPT ![w] = fetched]
          /\ seen' = [seen EXCEPT ![w] =
                        [e \in Events |-> IF e \in fetched THEN attempts[e] ELSE 0]]
  /\ pc' = [pc EXCEPT ![w] = "selecting"]
  /\ UNCHANGED <<rowVars, verdict, request, eventHistory, eventFaults>>

\* The statement ends, and its locks with it.
EndSelect(w) ==
  /\ pc[w] = "selecting"
  /\ pc' = [pc EXCEPT ![w] = "dispatching"]
  /\ UNCHANGED <<rowVars, batch, seen, verdict, request, eventHistory, eventFaults>>

\* dispatchEvent settles on an outcome to record for e.
Decide(w, outcome) ==
  /\ verdict' = [verdict EXCEPT ![w] = outcome]
  /\ pc' = [pc EXCEPT ![w] = "marking"]
  /\ UNCHANGED <<rowVars, batch, seen, request>>

\* Mutant: the loop does not return after the last copy.
AdvanceForever(w, e) ==
  /\ batch' = [batch EXCEPT ![w] = @ \ {e}]
  /\ pc' = [pc EXCEPT ![w] = "dispatching"]
  /\ verdict' = [verdict EXCEPT ![w] = "none"]
  /\ seen' = [seen EXCEPT ![w][e] = 0]
  /\ UNCHANGED request

\* processBatch moves on to the next copy, or returns.
Advance(w, e) ==
  /\ batch' = [batch EXCEPT ![w] = @ \ {e}]
  /\ pc' = [pc EXCEPT ![w] = IF batch[w] = {e} THEN "idle" ELSE "dispatching"]
  /\ verdict' = [verdict EXCEPT ![w] = "none"]
  /\ seen' = [seen EXCEPT ![w][e] = 0]
  /\ UNCHANGED request

Dispatching(w, e) == pc[w] = "dispatching" /\ IsNext(w, e)

\* Mutant: dispatchEvent allows one attempt more than the limit.
HasExecutorOnceMore(w, e) ==
  Dispatching(w, e) /\ seen[w][e] <= MaxRetries /\ e \in Routable

HasExecutor(w, e) ==
  Dispatching(w, e) /\ seen[w][e] < MaxRetries /\ e \in Routable

GiveUp(w, e) ==
  /\ Dispatching(w, e)
  /\ seen[w][e] >= MaxRetries
  /\ Decide(w, "exhausted")
  /\ UNCHANGED <<eventHistory, eventFaults>>

NoExecutor(w, e) ==
  /\ Dispatching(w, e)
  /\ seen[w][e] < MaxRetries
  /\ e \notin Routable
  /\ Decide(w, "unroutable")
  /\ UNCHANGED <<eventHistory, eventFaults>>

InvalidPayload(w, e) ==
  /\ HasExecutor(w, e)
  /\ e \notin Decodable
  /\ Decide(w, "failed")
  /\ UNCHANGED <<eventHistory, eventFaults>>

CanExecute(w, e) == HasExecutor(w, e) /\ e \in Decodable

\* Execute(ctx, proposal, false) returned Success.
ExecuteDelivers(w, e) ==
  /\ CanExecute(w, e)
  /\ w \notin DryRunWorkers
  /\ Decide(w, "ok")
  /\ delivered' = [delivered EXCEPT ![e] = @ + 1]
  /\ UNCHANGED <<eventLost, dispatchedBy, eventFaults>>

\* An error or Success = FALSE, and the external system has nothing.
ExecuteFails(w, e) ==
  /\ CanExecute(w, e)
  /\ w \in DryRunWorkers => e \in PreviewFails
  /\ Decide(w, "failed")
  /\ UNCHANGED <<eventHistory, eventFaults>>

\* An error although the request was carried out: a reply that came too late,
\* or one that could not be parsed.
ExecuteTimesOut(w, e) ==
  /\ CanExecute(w, e)
  /\ w \notin DryRunWorkers
  /\ eventFaults < MaxEventFaults
  /\ Decide(w, "failed")
  /\ delivered' = [delivered EXCEPT ![e] = @ + 1]
  /\ eventLost' = [eventLost EXCEPT ![e] = @ + 1]
  /\ eventFaults' = eventFaults + 1
  /\ UNCHANGED dispatchedBy

\* Mutant: dispatchEvent without its test of config.DryRun.
ExecutePreviewsRecorded(w, e) ==
  /\ CanExecute(w, e)
  /\ w \in DryRunWorkers
  /\ e \notin PreviewFails
  /\ Decide(w, "ok")
  /\ UNCHANGED <<eventHistory, eventFaults>>

\* A dry run that succeeds records nothing.
ExecutePreviews(w, e) ==
  /\ CanExecute(w, e)
  /\ w \in DryRunWorkers
  /\ e \notin PreviewFails
  /\ Advance(w, e)
  /\ UNCHANGED <<rowVars, eventHistory, eventFaults>>

\* MarkDispatched, committed.
SetDispatched(e, who) ==
  /\ eventStatus' = [eventStatus EXCEPT ![e] = "dispatched"]
  /\ attempts' = [attempts EXCEPT ![e] = Bump(@)]
  /\ dispatchedBy' = [dispatchedBy EXCEPT ![e] = who]
  /\ UNCHANGED wait

\* Mutant: MarkFailed without dispatch_attempts + 1.
SetFailedUncounted(e) ==
  /\ eventStatus' = [eventStatus EXCEPT ![e] = "failed"]
  /\ UNCHANGED <<attempts, dispatchedBy>>

\* MarkFailed and UpdateMaxAttempts: neither looks at the status it replaces.
SetFailed(e) ==
  /\ eventStatus' = [eventStatus EXCEPT ![e] = "failed"]
  /\ attempts' = [attempts EXCEPT ![e] = Bump(@)]
  /\ UNCHANGED dispatchedBy

\* An UPDATE waits for the row lock of a running SELECT.
Marking(w, e) == pc[w] = "marking" /\ IsNext(w, e) /\ ~Locked(e)

\* Mutant: dispatch_attempts is written from the copy, not added to in SQL.
MarkDispatchedFromCopy(w, e) ==
  /\ Marking(w, e)
  /\ verdict[w] = "ok"
  /\ eventStatus' = [eventStatus EXCEPT ![e] = "dispatched"]
  /\ attempts' = [attempts EXCEPT ![e] = Bump(seen[w][e])]
  /\ dispatchedBy' = [dispatchedBy EXCEPT ![e] = "worker"]
  /\ Advance(w, e)
  /\ UNCHANGED <<wait, delivered, eventLost, eventFaults>>

\* Mutant: markDispatchedInTx returns without Commit, so the deferred Rollback
\* undoes the UPDATE.
MarkDispatchedUncommitted(w, e) ==
  /\ Marking(w, e)
  /\ verdict[w] = "ok"
  /\ Advance(w, e)
  /\ UNCHANGED <<rowVars, eventHistory, eventFaults>>

MarkDispatched(w, e) ==
  /\ Marking(w, e)
  /\ verdict[w] = "ok"
  /\ SetDispatched(e, "worker")
  /\ Advance(w, e)
  /\ UNCHANGED <<delivered, eventLost, eventFaults>>

\* handleFailed: MarkFailed and SetNextRetryAt, computed from the copy.
MarkFailedWithBackoff(w, e) ==
  /\ Marking(w, e)
  /\ verdict[w] = "failed"
  /\ SetFailed(e)
  /\ wait' = [wait EXCEPT ![e] = Backoff(seen[w][e] + 1)]
  /\ Advance(w, e)
  /\ UNCHANGED <<delivered, eventLost, eventFaults>>

\* handleNoExecutor and handleMaxAttempts leave next_retry_at as it is.
MarkFailedInPlace(w, e) ==
  /\ Marking(w, e)
  /\ verdict[w] \in {"unroutable", "exhausted"}
  /\ SetFailed(e)
  /\ Advance(w, e)
  /\ UNCHANGED <<wait, delivered, eventLost, eventFaults>>

\* A fault between the outcome and its record loses an acceptance.
Forget(w, e) ==
  eventLost' = [eventLost EXCEPT ![e] = IF verdict[w] = "ok" THEN @ + 1 ELSE @]

\* Begin, the UPDATE or Commit failed: the error is logged, the row is as it
\* was, and the worker goes on.
MarkLost(w, e) ==
  /\ pc[w] = "marking"
  /\ IsNext(w, e)
  /\ eventFaults < MaxEventFaults
  /\ eventFaults' = eventFaults + 1
  /\ Forget(w, e)
  /\ Advance(w, e)
  /\ UNCHANGED <<rowVars, delivered, dispatchedBy>>

\* The process dies, or main returns after a signal, with e unfinished.
Crash(w, e) ==
  /\ pc[w] # "idle"
  /\ IsNext(w, e)
  /\ eventFaults < MaxEventFaults
  /\ eventFaults' = eventFaults + 1
  /\ Forget(w, e)
  /\ pc' = [pc EXCEPT ![w] = "idle"]
  /\ batch' = [batch EXCEPT ![w] = {}]
  /\ verdict' = [verdict EXCEPT ![w] = "none"]
  /\ seen' = [seen EXCEPT ![w] = [f \in Events |-> 0]]
  /\ UNCHANGED <<rowVars, request, delivered, dispatchedBy>>

-----------------------------------------------------------------------------
(* API requests: check the status, then write without looking again.       *)

ApiCheck(r, op, e) ==
  /\ request[r] = NoCall
  /\ Dispatchable(e)
  /\ request' = [request EXCEPT ![r] = [op |-> op, event |-> e]]
  /\ UNCHANGED <<rowVars, workerVars, eventHistory, eventFaults>>

Answer(r) ==
  /\ request' = [request EXCEPT ![r] = NoCall]
  /\ UNCHANGED <<workerVars, delivered, eventLost, eventFaults>>

\* DispatchEvent calls Execute with dryRun = true and then MarkDispatched.
ApiDispatch(r, e) ==
  /\ request[r] = [op |-> "dispatch", event |-> e]
  /\ e \notin PreviewFails
  /\ ~Locked(e)
  /\ SetDispatched(e, "api")
  /\ Answer(r)

ApiDispatchFails(r, e) ==
  /\ request[r] = [op |-> "dispatch", event |-> e]
  /\ e \in PreviewFails
  /\ ~Locked(e)
  /\ SetFailed(e)
  /\ Answer(r)
  /\ UNCHANGED wait

ApiCancel(r, e) ==
  /\ request[r] = [op |-> "cancel", event |-> e]
  /\ ~Locked(e)
  /\ eventStatus' = [eventStatus EXCEPT ![e] = "cancelled"]
  /\ Answer(r)
  /\ UNCHANGED <<attempts, wait, dispatchedBy>>

\* The transaction fails or the 30 second timeout of the router cancels it.
ApiAborts(r) ==
  /\ request[r] # NoCall
  /\ Answer(r)
  /\ UNCHANGED <<rowVars, dispatchedBy>>

-----------------------------------------------------------------------------

WorkerStep(w) ==
  \/ Poll(w)
  \/ EndSelect(w)
  \/ \E e \in Events :
       \/ GiveUp(w, e) \/ NoExecutor(w, e) \/ InvalidPayload(w, e)
       \/ ExecuteDelivers(w, e) \/ ExecuteFails(w, e) \/ ExecutePreviews(w, e)
       \/ MarkDispatched(w, e)
       \/ MarkFailedWithBackoff(w, e)
       \/ MarkFailedInPlace(w, e)

WorkerFault(w) ==
  \E e \in Events : ExecuteTimesOut(w, e) \/ MarkLost(w, e) \/ Crash(w, e)

ApiStep(r) ==
  \/ \E e \in Events :
       \/ \E op \in {"dispatch", "cancel"} : ApiCheck(r, op, e)
       \/ ApiDispatch(r, e) \/ ApiDispatchFails(r, e) \/ ApiCancel(r, e)
  \/ ApiAborts(r)

OutboxNext ==
  \/ \E e \in Events : CreateEvent(e)
  \/ Tick
  \/ \E w \in Workers : WorkerStep(w) \/ WorkerFault(w)
  \/ \E r \in Requests : ApiStep(r)

OutboxSpec == OutboxInit /\ [][OutboxNext]_outboxVars

\* A worker's loop runs on its ticker for as long as the process lives, a
\* supervisor restarts it after one of the finitely many faults, and time
\* passes.  Nothing is assumed of producers and of API clients.
FairOutboxSpec ==
  /\ OutboxSpec
  /\ WF_outboxVars(Tick)
  /\ \A w \in Workers : WF_outboxVars(WorkerStep(w))

-----------------------------------------------------------------------------
(* Properties.                                                             *)

RowsTypeOK ==
  /\ eventStatus \in [Events -> EventStatuses]
  /\ attempts \in [Events -> 0 .. AttemptBound]
  /\ wait \in [Events -> 0 .. 30]

WorkersTypeOK ==
  /\ pc \in [Workers -> {"idle", "selecting", "dispatching", "marking"}]
  /\ batch \in [Workers -> SUBSET Events]
  /\ seen \in [Workers -> [Events -> 0 .. AttemptBound]]
  /\ verdict \in [Workers -> Verdicts]

HistoryTypeOK ==
  /\ delivered \in [Events -> Nat]
  /\ eventLost \in [Events -> Nat]
  /\ dispatchedBy \in [Events -> {"nobody", "worker", "api"}]
  /\ eventFaults \in 0 .. MaxEventFaults

\* A worker's position agrees with what it holds: nothing when idle, an outcome
\* exactly while it records one.
PositionOK(w) ==
  /\ pc[w] = "idle" <=> batch[w] = {}
  /\ verdict[w] # "none" <=> pc[w] = "marking"

\* Every variable has its type, and every worker is where its data says.
OutboxTypeOK ==
  /\ RowsTypeOK
  /\ WorkersTypeOK
  /\ request \in [Requests -> Calls \cup {NoCall}]
  /\ HistoryTypeOK
  /\ \A w \in Workers : PositionOK(w)

\* A row that a worker set to "dispatched" stands for an event the external
\* system accepted, whatever copies, crashes and API calls came in between.
WorkerDispatchedWasDelivered ==
  \A e \in Events :
    (eventStatus[e] = "dispatched" /\ dispatchedBy[e] = "worker") => delivered[e] >= 1

\* Acceptances that some worker has yet to record.
Delivering(e) == {w \in Workers : verdict[w] = "ok" /\ IsNext(w, e)}

\* dispatch_attempts never falls behind the deliveries: each one is counted in
\* the row, about to be, or was lost with a fault.  The increment is made in
\* SQL, so two workers with the same copy do not overwrite each other's.
DeliveriesAreCounted ==
  \A e \in Events : attempts[e] < AttemptBound =>
    delivered[e] <= attempts[e] + eventLost[e] + Cardinality(Delivering(e))

\* The retry limit bounds the deliveries of an event even though it is tested
\* on a copy.  Every live worker may deliver once from the last copies below the
\* limit, and of the attempts counted before those at least one was a failure,
\* which is what made the row eligible again.
RetryLimitHolds ==
  \A e \in Events :
    delivered[e] <= eventLost[e] + Cardinality(Workers \ DryRunWorkers)
                                 + (IF MaxRetries > 2 THEN MaxRetries - 2 ELSE 0)

\* A row still pending has recorded no outcome: no attempt is counted, and
\* whatever the external system accepted is in flight or lost with a fault.
PendingIsUnrecorded ==
  \A e \in Events : eventStatus[e] = "pending" =>
    /\ attempts[e] = 0 /\ wait[e] = 0
    /\ delivered[e] = eventLost[e] + Cardinality(Delivering(e))

\* One worker and no API calls: a dispatched event stays dispatched, across
\* crashes, lost transactions and new runs of the pipeline.
DispatchedIsFinal ==
  [][\A e \in Events :
       eventStatus[e] = "dispatched" => eventStatus'[e] = "dispatched"]_eventStatus

\* One worker and no API calls: a second delivery is always due to an
\* acceptance that was never recorded.
RedeliveryNeedsLoss == \A e \in Events : delivered[e] <= 1 + eventLost[e]

\* One worker and no API calls: nothing is sent before its backoff is over.
BackoffIsRespected ==
  [][\A e \in Events : delivered'[e] > delivered[e] => wait[e] = 0]_delivered

\* A pending event is in the end dispatched, cancelled or out of retries.
EventuallySettled ==
  \A e \in Events :
    (eventStatus[e] = "pending") ~> (\/ eventStatus[e] \in {"dispatched", "cancelled"}
                                     \/ attempts[e] >= MaxRetries)

\* phase-7-review-action-outbox-plan.md, 7.3: every worker obtains a different
\* subset of the events.
EachWorkerItsOwnEvents ==
  \A w, v \in Workers : w # v => batch[w] \cap batch[v] = {}

\* docs/openapi/phase7.yaml, dispatchOutboxEvent: the event is dispatched to its
\* target channel; a row in "dispatched" has reached the external system.
DispatchedWasDelivered ==
  \A e \in Events : eventStatus[e] = "dispatched" => delivered[e] >= 1

\* phase-7-review-action-outbox-plan.md, AC4: pending events are polled, and an
\* event past MaxRetries is not retried any more.
PendingIsPolled ==
  \A e \in Events : (eventStatus[e] = "pending") ~> (eventStatus[e] # "pending")

=============================================================================
