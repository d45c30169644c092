# Verification of baxi

baxi turns business data into decisions and actions: a pipeline ingests data and raises alerts, an
alert becomes a decision case, a language model (or a rule-based fallback) recommends actions, a
human reviews them, and approved actions reach external systems (Feishu, GitHub), directly and
through an outbox table that a worker process polls. Everything is kept in one PostgreSQL
database; several processes (API server, workers, MCP server, CLI, pipeline) work on it at the same
time. What is hard about it is what two of them do to the same row, and what a failure between a
call of an external system and the record of that call leaves behind. That is what this project
models, checks and proves.

    Outbox.tla              the outbox table, its workers, and the API's manual dispatch
    Proposal.tla            action proposals: creation, review, execution
    ProposalLifecycle.tla   what Proposal promises, without transactions and failures
    Delivery.tla            Proposal and Outbox composed, with the adapters
    DecisionRules.tla       registry, validation, rule provider, scores: pure operators
    DecisionCase.tla        cases, decisions and their proposals under concurrent callers
    Pipeline.tla            runs of the pipeline, transaction by transaction, and their audit rows
    Alerts.tla              what one run computes: metrics, alerts, recommendations, tasks, events
    Governance.tla          the configuration loader, access, classification, redaction
    Contexts.tla            the context builders, on Governance
    Ontology.tla            schema files, queries, paging, links and actions of the MCP server
    FeishuSync.tla          the synchronisation with Bitable
    Gateway.tla             the HTTP API and the MCP server: requests, refusals, answers
    E2E.tla                 the command `baxi-cli e2e`, with users beside it
    Null.tla                null, and rows added to tables, which the models of platform share
    OutboxProofs.tla        theorems about Outbox: types, dispatches, a single worker, counts
    ProposalProofs.tla      theorems about Proposal, and that it implements ProposalLifecycle
    DecisionCaseProofs.tla  theorems about DecisionCase
    PipelineProofs.tla      theorems about Pipeline
    DataProofs.tla          theorems about Governance, Contexts, Alerts and FeishuSync
    GatewayProofs.tla       theorems about the servers: Gateway and Ontology
    E2EProofs.tla           that the report of E2E is true
    DeliveryProofs.tla      that Delivery implements both parts, and what an approval sets off
    MCOutbox, MCProposal, MCDecisionCase, MCPipeline, MCPlatform
                            instances for TLC, with the *.cfg files
    PROJECT.json            components, runs, mutants, source map, findings, hazards, theorems

## 1. The system

### 1.1 Components

| component | state | operations | interacts with |
|---|---|---|---|
| outbox (`internal/outbox`) | `ops.outbox_event`: status, dispatch_attempts, next_retry_at | CreateEvent(s), GetPendingEvents, MarkDispatched, MarkFailed, UpdateMaxAttempts, SetNextRetryAt, MarkCancelled | written by the pipeline and the apply service, polled by workers, changed by the API |
| dispatch worker (`internal/worker`, `cmd/baxi-worker`) | its current batch of copies | Run, processBatch, dispatchEvent | outbox rows, adapters |
| outbox API (`internal/api`) | none between its statements | dispatch, batch dispatch, cancel, list | outbox rows, adapters in dry-run mode |
| review (`internal/review`) | `review.review_record`, `apply_status` of a proposal | Approve, Reject, Cancel | proposals, cases |
| apply (`internal/action/apply_service.go`) | `apply_status`, one outbox event per execution | ExecuteProposal | proposals, adapters, outbox |
| proposals, decision engine, decision service | `ai.action_proposal`, `ai.llm_decision` | Decide: GenerateDecision, GenerateProposals | cases, LLM |
| decision case (`internal/decision/case_service.go`) | `ai.decision_case`: status, source, context | CreateCaseFromAlert, UpdateCaseStatus, ResolveCase | alerts, review, decision |
| pipeline runner (`internal/pipeline`) | `audit.pipeline_run`, `audit.pipeline_step_run` | Run, runStep | one transaction per step |
| pipeline steps | `raw`, `dwd`, `mart`, `ops` tables | ingest, build_dwd, build_metrics, detect_alerts, recommendations, tasks, create_outbox | the runner, the outbox |
| MCP server and CLI (`cmd/baxi-mcp`, `cmd/baxi-cli`) | none | the same services, wired without executors; ProposeAction, ResolveCase | cases, proposals |
| adapters (`internal/adapter`) | none | Execute(proposal, dryRun) | external systems |
| alert rules, recommendations (`internal/alert`, `internal/recommendation`) | none | evaluate, suppress, generate | the steps of the pipeline |
| configuration loader and governance (`internal/configloader`, `internal/governance`, `internal/service`) | `gov.*` tables | LoadAll, SyncSnapshots; access, markings, redaction | files; read by the context builders |
| context builders (`internal/decision/context_builder*.go`) | none | BuildDecisionContext v1, v2, v3, recipe | governance, ontology, alerts, registry |
| ontology (`internal/ontology`, `internal/repository/ontology`) | two schemas, loaded at the start; when the compiler was set | search, get, metrics, links, advice | warehouse tables, MCP tools |
| Feishu synchronisation (`internal/service/feishu_service.go`, `internal/feishu`) | a snapshot file | sync, export, import, send a message | Bitable |
| API server and middleware (`internal/api`) | none between requests | authenticate, validate, answer | every service |
| sandbox (`internal/review/sandbox.go`) | sandbox rows | create, add, compare | cases, proposals |

The frontend, the agent prompts, lineage, the outcome service and CSV parsing are listed in
PROJECT.json with the reason why they are not modelled.

### 1.2 What is hard, and what would make each component correct

*Outbox and worker.* `GetPendingEvents` runs `SELECT ... FOR UPDATE SKIP LOCKED` outside of a
transaction, so its locks are gone when it returns. The worker then goes through copies, calls the
external system, and marks the row in a transaction whose failure is only logged. Marks do not look
at the status they replace. Hazards: two workers with the same copy, a crash or a lost transaction
between delivery and mark, a lost reply, limits and backoff taken from an old copy, API calls that
test a status and write later, rows that are eligible for ever. Correct means: "dispatched" is true,
every delivery is counted, in flight or lost with a fault, retries are bounded, nothing is sent
during its backoff, and pending events come to an end.

*Review.* Concurrent reviewers, serialised by a row lock. Correct means: one verdict per proposal.

*Apply.* The proposal is loaded before the transaction and its status not tested again; the external
call is made inside of the transaction, with the row locked; then status, outbox event and audit
record are committed together. Hazards: concurrent executions, a crash or a failed commit after the
effect, a lost reply, a lock that nobody releases. Correct means: only approved proposals have an
effect, each effect is recorded, open or lost with a fault, reported statuses are true, and calls
return.

*Decide and cases.* Single statements without a transaction or a status guard; a unique index on the
case's source. Hazards: partly created proposals, a closed case that is opened again by a stale
review, duplicate cases. Correct means: one active case per source, proposals are what a decision of
their case recommended, a status has rows behind it.

*Pipeline.* One transaction per step, the records of runs and steps outside of them, a timeout that
also hits the record of the failure. Hazards: runs that stay "running", committed steps recorded as
failed, two runs at the same time. Correct means: a completed step is committed, a run that returned
is not running unless a fault explains it, a completed run has delivered, a second run over the same
orders finds the same alerts.

*Governance, contexts, ontology.* Tables that change while they are read field by field; a loader
whose failed statement aborts what it reports as partly done; searches that are read page by page.
Correct means: access follows the loads that were committed, what every load hides stays hidden, pages
are exact, only what is open is answered, advice is kept.

*Front ends.* A request is several transactions, each of which may fail or lose its reply; the server
stops writing before the handler gives up. Correct means: success names a committed effect, a refusal
leaves none, only errors may hide one.

*End to end.* The command takes a case through its life in a dozen transactions while users decide,
review, execute and close the same case. Hazards: a review that read the case before it was closed and
writes after it, a case taken over from a user, a proposal of an earlier process with the same id.
Correct means: what the report says was done was done and stays done, and a case of the command that
is active in the end was made so by a user's decision or review, or by a step reported as failed.

*Feishu.* Creation without an idempotency key, retried after lost answers. Correct means: every
duplicate row has a cause that the code accepts.

The full list, line by line, is "hazards" in PROJECT.json.

## 2. Plan

1. `Outbox` with its theorems: done.
2. `ProposalLifecycle` (abstract) and `Proposal`, with the refinement checked and proved: done.
3. `DecisionRules` and `DecisionCase`: done. That closed and failed cases are not final
   (`UpdateCaseStatus` tests nothing) is a fact of the model, listed in 12.
4. `Pipeline` (interleavings) and `Alerts` (arithmetic): done.
5. `Governance`, `Contexts`, `Ontology`, `FeishuSync`, `Gateway`, `E2E`: done.
6. `Delivery`, the composition of Proposal and Outbox with the adapters: done.
7. Proofs of every safety property of Outbox, Proposal, DecisionCase and Pipeline, of Gateway's
   AnswersFollowEffects, E2E's LifecycleReportIsTrue and Delivery's ApprovalBoundsActs: done.
8. Proofs of the safety properties of Alerts, Governance, Contexts, Ontology and FeishuSync: done.

What is left is liveness, which stays with TLC, and the parts of section 13.

## 3. Outbox

### 3.1 State and actions

`eventStatus`, `attempts`, `wait` are the columns of a row (`wait` is next_retry_at as minutes from now; a
minute is a step, `Tick`). `pc`, `batch`, `seen`, `verdict` are a worker in `processBatch`: what it
fetched, the attempts in its copies, and the outcome it is about to record. `request` is an API call
that has passed its status check. `delivered`, `eventLost`, `dispatchedBy` are history: acceptances by the
external system, those that no transaction recorded, and who last set "dispatched".

| action | code |
|---|---|
| CreateEvent | CreateEvent, CreateEvents (ON CONFLICT DO NOTHING) |
| Poll, EndSelect | GetPendingEvents, while it runs and when its row locks end |
| GiveUp, NoExecutor, InvalidPayload, ExecuteDelivers, ExecuteFails, ExecuteTimesOut, ExecutePreviews | the branches of dispatchEvent |
| MarkDispatched, MarkFailedWithBackoff, MarkFailedInPlace | markDispatchedInTx; handleFailed; handleMaxAttempts and handleNoExecutor |
| MarkLost, Crash | a marking transaction that fails; the end of the process |
| ApiCheck, ApiDispatch, ApiDispatchFails, ApiCancel, ApiAborts | DispatchEvent, HandleCancel with CancelEvent |

PostgreSQL is modelled from how the code uses it: an UPDATE waits for a row lock, a SELECT ... SKIP
LOCKED passes over rows that another SELECT holds and may pass over rows that a marking transaction
holds at that moment (`skipped` in Poll), an INSERT becomes visible at its commit, in any order.

### 3.2 Runs

| run | instance | shows | states |
|---|---|---|---|
| outbox_workers | 2 live workers, 2 events, 1 request, 1 fault, batches of 1 | OutboxTypeOK, DeliveriesAreCounted, RetryLimitHolds, PendingIsUnrecorded | 2.5 M |
| outbox_dry_run | a live and a dry-run worker, 1 request; an undecodable event, one whose preview fails | WorkerDispatchedWasDelivered | 0.6 M |
| outbox_single | 1 worker, 3 events (one unroutable) in one batch, 2 faults, fairness | RedeliveryNeedsLoss, DispatchedIsFinal, BackoffIsRespected, EventuallySettled | 51 k |
| outbox_shared_fetch | 2 workers, no fault | EachWorkerItsOwnEvents is violated | |
| outbox_starvation | 1 worker, a batch of 1, an unroutable older event, fairness | PendingIsPolled is violated | |
| outbox_api_dispatch | 1 worker, 1 request | DispatchedWasDelivered is violated | |

*Bounds.* MaxRetries is 2 (10 in baxi-worker): one ordinary attempt, one retry, then exhaustion, and
with two workers the limit is met by stale copies. AttemptBound 4 caps dispatch_attempts above
MaxRetries; the code only compares the counter with MaxRetries, so nothing behaves differently
beyond it, and DeliveriesAreCounted says nothing of a row that has reached it. Backoff keeps its real
values up to the cap of 30 minutes. Two events are needed for a batch to be worked through in
order, three for a batch with an unroutable, a failing and a younger event. One or two faults let a
crash and a lost reply meet.

*What the properties say.* RetryLimitHolds is the limit as the code really keeps it: it is tested on
a copy, so each live worker may add one delivery. RedeliveryNeedsLoss, DispatchedIsFinal and
BackoffIsRespected hold for one worker without API calls only: the marks replace whatever status
they meet, and a second worker or a cancellation breaks the argument of each. `docker-compose.yml`
starts one worker; the shared-fetch run says what a second one changes.

*Fairness.* A worker's loop runs on a ticker while its process lives, and is restarted after a fault
(`restart: unless-stopped` in docker-compose.yml), of which there are finitely many; time passes. So WF on a worker's steps and on Tick. Nothing is
assumed of producers and API clients. CHECK_DEADLOCK is FALSE: when every row has its final status
and no client calls, nothing happens.

### 3.3 Findings

- Two workers may fetch the same event (outbox_shared_fetch), against "each worker obtains a
  different subset".
- Exhausted and unroutable events are fetched for ever and may keep younger ones from being polled
  (outbox_starvation), against "after MaxRetries it is not retried".
- A manual dispatch through the API previews the event and marks it dispatched
  (outbox_api_dispatch).

### 3.4 Proofs

OutboxProofs, for every set of events, workers and requests, every batch size and retry limit:

- `OutboxTypeCorrect`: OutboxTypeOK is inductive. Beyond types it says that a worker is idle exactly when it has
  no batch, and has an outcome exactly while it records one.
- `WorkerDispatchIsReal`: WorkerDispatchedWasDelivered. It is not inductive alone: `DeliveryInv` adds
  that a worker about to record "ok" works on an event that has been delivered.
- `RedeliveryIsJustified`, `DispatchIsTerminal`, `BackoffHolds`, for Workers = {w} and
  Requests = {}. `SoleInv` says what a single worker may rely on although it works on copies: a row in
  its batch is still eligible, dispatchable and with its backoff over; and an event was delivered
  as often as deliveries were lost, plus once if it is dispatched or about to be marked so.

Also for any finite number of workers, live or not:

- `AttemptsCount`, `RetriesAreLimited`, `PendingRecordsNothing`: DeliveriesAreCounted, RetryLimitHolds
  and PendingIsUnrecorded, from `CountInv` on top of OutboxTypeOK. Each of its parts is a balance between a row and the
  workers that have a copy of it: `Counted`, deliveries (and the failure behind a failed row) are
  attempts, losses or in flight; `NotRecorded`, the same for rows without attempts, as an equation; `Limited`, deliveries so far plus
  `Holders`, the live workers whose copy still allows one, stay within the bound. Limited needs Counted:
  a poll adds a holder only for a row whose attempts are below the limit, and those are what has been
  delivered and recorded. The argument about a step is the same for each action: which workers join or
  leave the two sets, and what the row gains (`CountStep`).

Assumed: `OutboxAssumption`, that sets are included in one another, that there are finitely many
workers, and that the bounds are numbers.

## 4. Proposals

### 4.1 State and actions

`proposalStatus` (apply_status), `reviews` (review records), `recorded` (outbox events) and `holder` (the row
lock) are the tables; `caseStatus` the case; `deciding`, `review`, `apply` the calls in progress with what they
have read so far. `effects` and `proposalLost` are history. A transaction's writes appear at its commit, so
"applying" never does.

| action | code |
|---|---|
| CreateCaseFromAlert, ResolveCase, ProposeAction | the tools that write cases |
| DecisionGenerated, DecisionFailed, CreateProposal, ProposalsGenerated, DecideAborts | Decide, write by write |
| ReviewLock, ReviewReadCase, ReviewCommit, ReviewAborts | transitionProposal |
| ApplyLoad, ApplyBegin, ApplyNoExecutor, ApplyExecutes, ApplyExecuteFails, ApplyExecuteTimesOut, ApplyCommit, ApplyCommitFailure, ApplyAborts | ExecuteProposal |

A call outside `Equipped` is one of the MCP server or the CLI, whose ApplyService has no executors and
so always reports "failed". CaseOf fixes which case a proposal belongs to, and ids are not reused.

`ProposalLifecycle` is the abstract specification: absent, proposed, approved or rejected, then
applied or failed; an external system acts on approved proposals only, and "applied" requires that it
did. `KeepsItsPromises` is its Spec with `state <- proposalStatus` and `acted[p] <- effects[p] > 0`.

### 4.2 Runs

| run | instance | shows | states |
|---|---|---|---|
| proposal_concurrent | 1 proposal, 2 reviewers, 3 execute calls (one unequipped), 2 faults, fairness | ProposalTypeOK, ReviewedOnce, ActsOnlyIfApproved, EffectsAreRecorded, EffectsAreBounded, CallsReturn | 5.8 k |
| proposal_single | 2 proposals of one case (one not whitelisted), 2 decisions, 2 reviewers, 1 execute call, 2 faults | ReportsAreTrue, KeepsItsPromises | 33 k |
| proposal_double_execute | 2 execute calls, no fault | AppliedIsFinal is violated | |

*Bounds.* Proposals touch each other through their case only, so the races of one proposal are
checked with one. Two reviewers race for one lock; three execute calls let two equipped ones and one
unequipped overlap, so that the bound of EffectsAreBounded is met and both kinds of commit race. Two
faults let a crash and a lost reply meet. Deadlock is checked: a case can always be decided or closed.

*Fairness.* WF on the steps of a call in progress: a handler's goroutine runs, the database answers,
adapters have an HTTP timeout. Clients need not start calls.

*Scope.* ReportsAreTrue and KeepsItsPromises hold with one execute call at a time. With two, a
proposal is executed twice and may end as failed after it was applied, which is the finding. What does
hold with any number of them is EffectsAreRecorded and EffectsAreBounded.

### 4.3 Findings

- Two execute calls on the same approved proposal both execute it, and the second may turn applied
  into failed (proposal_double_execute), against "applied is a final state".

Other differences between documents and code, without a run: the review plan says that a failed
proposal can be reviewed again (phase-7 plan, lines 49 and 58), but transitionProposal requires
"proposed"; "applying" is listed as a status, but is never committed.

### 4.4 Proofs

ProposalProofs, for every set of cases, proposals and calls and every number of faults:

- `ProposalTypeCorrect`: ProposalTypeOK with HolderOK, that the lock of a row is held exactly by the call that works
  on it.
- `ReviewsAreUnique` and `ApprovalComesFirst`: ReviewedOnce and ActsOnlyIfApproved, from `GrantInv`:
  what the reviews of a proposal are, given its status; a review in progress finds the status it saw
  when it took the lock; whatever an execution works on, or has had an effect on, was granted. The
  copy of an execution may be stale, but a granted proposal never goes back to being undecided, which
  is why no lock is needed for this one.
- `EffectsRecorded` and `EffectsBounded`: EffectsAreRecorded and EffectsAreBounded, for any number of
  overlapping executions, from `TallyInv`: an effect is an event, lost, or in the open transaction of
  one call (`Tallied`); a proposal that has an event is applied or failed and lets no further call
  in (`EventCloses`); effects and `Contenders`, the calls whose loaded copy still allows one, stay
  within the number of equipped calls and the faults (`Bounded`).
- `ReportsHold`, for Appliers = {x}: ReportsAreTrue from `OneApplyInv`, which adds that an execution
  works on a proposal that still is approved, and that each effect is an event, the open
  transaction's, or lost.
- `PromisesKept`, for Appliers = {x}: ProposalSpec => KeepsItsPromises, the refinement. `NextMaps` takes each
  action to a step of the lifecycle or to a stutter; a commit needs OneApplyInv to show that
  something was done before "applied" is written.

Assumed: `ProposalAssumption`, that calls of different kinds are different, the sets are included in
one another, and there are finitely many execute calls.

## 5. Delivery

Delivery extends Proposal and Outbox, whose names are therefore different, and lets both move in one
state, with two additions: `origin` says which proposal's execution left an event, and `acts` counts
what external systems really did, as opposed to what an adapter reported (`effects` of Proposal,
`delivered` of Outbox, which count a reported success and an effect whose report was lost). `Execute` pairs the two, per channel. GitHub:
a success is an issue, an error may be one as well, and there is no idempotency key. Feishu:
sendMessage looks neither at the HTTP status nor at JSON errors, so an answer without a `code` is a
success, with or without a message.

| action | code |
|---|---|
| AdapterExecutes, ApplyCommits | executeForReal: the call with the row locked, CreateOutboxEventFromProposal and the commit |
| WorkerExecutes | the call in dispatchEvent, with the proposal that the event's payload decodes to |
| ProposalStep, EventStep | the other actions of Proposal and Outbox |

The id of an event is a reading of the clock; ApplyCommits may meet one that exists, and then no
event is added, since CreateEvent swallows the conflict.

`ApprovalBoundsActs` says how often an external system acts for one proposal: never without an
approval or without a configured adapter; at most twice for each execution that got in (once in the
apply service, once by the worker, on the same channel with the same content), plus once per fault.
On GitHub the lower bound holds as well: an event the worker has dispatched stands for two issues.
Whether two are wanted is not for the model to say; the comment "builds an OutboxEvent from a
successfully executed ActionProposal" (src/internal/action/outbox_integration.go:13) does not.

*Wirings* are constants: the executables set FeishuConfig.WebhookURL and GitHubConfig.Token and
nothing sets ChatID, AppID, AppSecret or Repo, so as shipped each live execution ends in "no chat_id
configured" or "github repo not configured" and nothing acts. The other wirings are those the
adapters are written for. The instance is one proposal, one reviewer, two execute calls, two event
ids, one worker, a retry limit of 2 and one fault on each side. `DeliveryAssumption` says what is left
to the runs of Proposal and Outbox: Decide, callers without executors, API calls on events, dry runs,
and events that the worker cannot route or decode.

*Proofs.* DeliveryProofs, for any number of proposals, reviewers, execute calls, events and faults:

- `PartsBehave`: DeliverySpec => ProposalSpec /\ OutboxSpec. Each step of Delivery is a step of one part,
  or of both (ApplyCommits), and a stutter of the other; so all that is proved about the parts holds in
  their composition.
- `ApprovalIsTheLimit`, for Workers = {w}: ApprovalBoundsActs. `ActsInv` ties the parts together: a row
  has an origin exactly when it exists, and nothing is delivered before (`OriginOK`); a proposal has no more
  events than commits, and its acts are at most, on GitHub exactly, what the apply service and the worker
  have counted (`ActsExplained`). The rest are theorems about the parts: effects are recorded, in flight or
  lost, and bounded by the callers (EffectsRecorded, EffectsBounded); nothing is done unapproved
  (ApprovalComesFirst); an event is delivered once and once more per loss
  (`SoleInv`). `Occasions` writes the sum over a proposal's events as the size of a set of pairs, since a
  sum is a recursion that cannot be proved about.

## 6. Cases and decisions

`DecisionRules` has what the decision service computes without a table: the action registry (present,
absent or broken file), `ValidateDecision`, `ValidatePayload`, the rule provider's answer. It also has
the scores, the comparison of LLM and rules and the replay difference (Compare, ComputeDecisionDiff,
EvaluateDimensions, ProviderKind, OpenAIOutput, GetLLMVisibleActions, MapRiskLevel): translated as
definitions and reached by no run.

`DecisionCase` has the rows (`cases`, `decisions`, `proposals`), `version` for whatever the context of
a case is built from, and `call`, a caller between two statements of its own: LookUp and Insert of
CreateCaseFromAlert; Start, SaveDecision, MarkDecided, Propose (one INSERT per action), MarkProposed
for Decide and Compare; Review and CommitReview with the status it read earlier; ProposeAction and
ResolveCase. Abort lets a call stop after any statement. `IndexAdmits` is the partial unique index.

| run | instance | properties | states |
|---|---|---|---|
| decision_case | 2 callers (symmetric), 1 alert, 1 object, 2 cases, 2 decisions, 1 change of data; a registry file with a non-canonical action; valid, invalid and missing answers | TypeOK, OneActiveCase, ProposalsArePrefix, ProposalRestsOnDecision, StatusHasEvidence | 3.0 M |

OneActiveCase is what the index is for, tested against reviews and decisions that write a status
without looking at the old one. ProposalsArePrefix: the proposals of a decision are the admissible
ones among its first actions, in order, however the call ended. ProposalRestsOnDecision: each
carries the context its decision was made in although the data moved on. StatusHasEvidence: a case
that reads as decided, proposed or reviewed has the rows that say so. Two callers meet at every
pair of statements; two cases are what one alert needs for a closed and an active one; two
decisions let one case be decided twice.

The instance's role and registry make escalate_to_human appear in the context and in an answer. It is
dropped before the INSERT, as the whitelist has canonical actions only, the same four as the CHECK of
migration 011; that no INSERT meets this CHECK was checked and is not kept as a property.

### 6.1 Proofs

DecisionCaseProofs, for every number of callers, cases, decisions and versions of the data, every
content of the registry file and every set of answers:

- `TypeCorrect`: TypeOK, with two facts about reviews (`TypeInv`): two that are under way hold
  different proposals, as each locks its row, and the proposal they hold is still "proposed".
- `OneActive`: OneActiveCase. It is inductive with the types: each INSERT and each UPDATE of a status,
  whatever it read before, is admitted by the index or refused.
- `PrefixOfProposals`, `ProposalsRest`, `StatusRestsOnRows`: the other three, from `CaseInv`. It adds
  what a call knows between two statements: no two calls work on one decision (`Alone`); the
  decision it works on is of the case and the context it started with (`WorkOK`); the proposals
  of that decision are the admissible ones up to the action it is at (`ProgressOK`); a case that a
  review has read as proposed had a decision (`ReadOK`), although the status is written later.

Assumed: `CaseAssumption`, that the bounds are numbers and the actions of an answer are a finite list
(a slice).

## 7. Pipeline and alerts

`Pipeline`: a process starts a run and goes through the steps of its plan; each has StartStep,
Execute in a transaction, Commit, CompleteStep, and the run CompleteRun. FailStep and FailRun record
failures, with the same context, which may have expired (`Cut`). Every call of the recorder may fail
or take effect and lose its reply; a process may stop anywhere. `Blocked` is the row lock one run
holds on rows the other one writes. The data are days whose metrics do or do not make the rules
fire.

| run | instance | properties | states |
|---|---|---|---|
| pipeline_runs | 2 processes, 2 days, files that are empty or have two bad days, the full plan of 9 steps and a single step (`pipeline run --step`), 2 runs, 1 fault, fairness | TypeOK, StepRecordsAreTrue, RunningIsExplained, CompletedRunDelivers, MetricsKeepOrders, EveryRunReturns | 310 k |

MinSeries is 1 (7 in the code) and MaxDimAlerts 1 (50), so that two days suffice for a baseline and
for the cap to bite. StepRecordsAreTrue ties step rows to commits. RunningIsExplained: a run that
stays running has a process at work, or a fault. CompletedRunDelivers: when a run of the full plan has
completed, every alert its recommendations were generated from has its event, those left by a failed
run included. MetricsKeepOrders: a day that a run has built metrics for stays in the daily metrics,
although every run truncates and refills the table. EveryRunReturns assumes WF on `Advance(p)`: a
goroutine runs, statements are answered or time out, a lock is released when its holder commits or
stops.

`Alerts` is the arithmetic of the same steps, one run as one step: rates rounded to four digits as
whole numbers, samples, baselines of 7 and 14 days (Short 1, Long 2 in the run), severities, impact,
suppression with its caps, recommendation, task and event ids. Where the sort leaves ties to the order
of a Go map, the model chooses. AlertsRestOnOrders: a dimension alert has at least the orders its rule asks for,
counted in the warehouse as it is now (CountOrders, the query's COUNT(DISTINCT order_id)), whatever was
ingested since. EventsFollowAlerts: each alert has exactly one event, which leads back to it and has its
severity and owner. RerunsAgree: a rerun over the same orders keeps as many alerts of each severity and
impact. The queries are operators of the table they read, so that the proofs can speak of the orders
before and after ingestion.

### 7.1 Proofs

PipelineProofs, for every number of processes, days, runs and faults, every set of files, and the plans
that the code can run, the full one and the single steps:

- `TypeCorrect`: TypeOK, by which no two processes work on one run and a transaction is open exactly
  while its step executes, with `AtStep`: a process between two calls about a step has the step's record.
- `RecordsTrue`, `RunningExplained`: StepRecordsAreTrue and RunningIsExplained, from `RecordInv`, what the
  row of a run says at each place of the process that works on it (`RowAt`): "running", all
  steps before the last completed, the last committed once the transaction is.
- `CompletedDelivers`: CompletedRunDelivers, from `DeliveryInv`. The alerts that a run saw have
  recommendations; once steps 8 and 9 have committed, they have tasks and events. While the
  transaction of such a step is open they are in the rows it will add (`InTransit`), because an
  earlier step of the same run has committed them, and no run takes any out again.
- `MetricsKept`: MetricsKeepOrders, from `MetricInv`. Two runs truncate and refill the daily metrics;
  TRUNCATE waits for the other transaction and keeps them apart, so the one that refills has every day that the table has,
  and no day without orders. Orders are never deleted.

DataProofs, for any files, windows, caps and number of runs of Alerts:

- `EventsFollowed`: EventsFollowAlerts, from `FollowInv`: each table has a row for each row of the one
  before it, and no other. An id is made of the id it is derived from, so one key leads to one
  row (`Recommended`, `TasksGenerated`, `EventsCreated`); ON CONFLICT DO NOTHING keeps the rows
  that exist, and those are right because alerts do not change either (`AlertsGrow`).
- `AlertsRest`: AlertsRestOnOrders, from `RestInv`: no row of metric_dimension_daily has a larger sample than
  there are orders (`SamplesOK`). Rows of earlier runs stay in the table, and ingestion adds orders without
  changing any (`OrdersGrow`), so both the samples and the alerts that rested on them still do.
- `RerunsGiveTheSame`: RerunsAgree, from `RerunInv`: what the last run kept is one of the lists that its
  orders and dimension rows admit, and those rows are settled, i.e. another run would not change
  them. `NoMoreOfRank` is the argument about the sort: of two lists of equal length that leave nothing
  better behind, neither has more alerts of a rank, or the other would have kept a worse one. It
  needs that finitely many alerts fire, which `FiniteFired` derives from the files.

Assumed: `AlertsAssumption`, that a file has finitely many rows, each for a number of orders; and
`PipelineAssumption`, that days are numbered, bounds are numbers, the files are tables over
days, and a plan is the full one or one of its steps (`--step` in src/cmd/baxi-cli/pipeline.go).

## 8. Governance and contexts

`Governance` has the files of the configuration directory (partial, unparsable, changed), LoadAll,
SyncSnapshots as one transaction, and the reads: CheckAccess, GetClassification, GetObjectMarkings,
IsLLMAllowed, RedactObjectContext, checkpoints, lineage, status. The last three (HealthStatus,
GetCatalog, GetLineage and their helpers) are translated and reached by no run.

`Contexts` builds a context while loads commit: one ClassifyField per property, each of which may
fail, then FinishBuild with links, actions, evidence and redaction for v1, v2 and v3; BuildEnvelope is
the recipe builder. The instance has three directories, two objects that link to one another, two
cases, two recipes, two loads and one build at a time.

AccessFollowsLoads: what CheckAccess grants to a role was granted to it by some load that was committed,
and what the last such load grants is granted, whatever loads failed since. What the caller of a load
was told is not part of the state: a load whose reply to COMMIT is lost is reported as an error and is
a `Load` here, since it took effect; `LoadFails` is one that left no trace. Grants that share a name
(role, "_" and the rest are concatenated) are excepted. HiddenStaysHidden: a field that a load before
the build named, and that no load calls anything but pii or sensitive, is not in a context of v1, v2 or
v3, however loads and lookups interleave; v2 and v3 also keep what only the ontology calls sensitive,
and so does a recipe, which asks nothing else. Excepted is a field whose lookup failed: v1 and v2 then
show it.

`default_deny_all` has the principal `*`; a role of that name would be denied by it, so the second half of
AccessFollowsLoads speaks of the other roles.

The upserts of syncAccessPolicy are stated by what they leave: of the statements for one name, in the
order in which the loops send them (`PolicyPlaces`, `Sooner`), the first inserts the row and the
last sets its resource and action (`FirstUpsert`, `LastUpsert`). This is what the sequence of statements
comes to, without a recursion.

### 8.1 Proofs

DataProofs, for any directories, objects, cases and recipes, and any number of loads and builds:

- `AccessFollows`: AccessFollowsLoads, from `AccessInv`: a row of gov.access_policy has its role and effect from one
  grant that was loaded and its resource and action from one of the same name, and every loaded grant has
  a row. If no two grants share the name they are one grant, whose access is then exactly what was asked
  for. A failed load leaves the table as it was; an unreadable file leaves out its part only.
- `SecretsHidden`: HiddenStaysHidden. `LevelsInv`: the rows of a field are the levels that loads have named,
  no more and no fewer. `BuildInv`: each field of a build is still to be looked up, lost, or has a class that
  does what the loads before the build say (`Classified`), whatever was loaded between that lookup and the
  end of the build. The lookup may read any of several rows of a field; it reads a secret one if no load
  names another level.

Assumed: `GovernanceAssumption`, that parsed policies are lists of roles with lists;
`ContextsAssumption`, that fields have names, sensitivities are numbers, and recipes are for viewer or
agent_readonly, as those in src/config/context_recipes.yml are (lines 42, 149, 218, 285, 360).

## 9. Ontology

A server starts with one of several pairs of schema files, sets its compiler and serves reads: a
search with its count and pages as separate statements while rows arrive, objects with metrics of
version 1 or 2, links, execute_action and propose_action. `SetV2Compiler` does nothing before the
first query, as in the code. PagingIsExact: if no row arrived in the table, no statement failed and the keys are
different, a client that reads on until it has the total gets every row that fits once. AnswersAreOpen:
whatever path answers, objects and keys come from tables that are open to the role the server queries
with, and only readable properties are shown. AdviceIsKept: what execute_action calls valid is refused
by propose_action only because of the role, of an active case of the same object, or of a failure of
the database. In the last case the two rows may be there all the same, when only the reply to the COMMIT was
lost; the next offer for the object then meets an active case.

### 9.1 Proofs

GatewayProofs, for any schema files, tables, arrivals, searches, calls and offers:

- `AdviceKept`: AdviceIsKept, from `AdviceInv`: each refusal has its reason, and a reason does not go away while
  the server runs: advice depends on the registry, which a start fixes, and cases are only added.
- `AnswersOpen`: AnswersAreOpen, from `OpenInv`: the compiler is never set (`NeverCompiled`), because
  SetV2Compiler comes before the first query; so every path is that of version 1, which asks for the role
  first (`V1Open`), and a search that has a total or a row has passed that test. The theorem would not hold
  of the compiled queries, and shows that the dropped compiler is what keeps the tables closed.
- `PagingExact`: PagingIsExact, from `PagingInv`. Each statement may order equal keys as it likes, so the argument is
  about ranks: with different keys the i-th row of any admissible order is the one with i - 1 smaller keys
  (`RankInOrder`), a page has the ranks that follow those already read (`NextPage`), and numbers
  of ranks 1 to n are all the keys, once each (`AllRanks`). Rows that arrive in other tables change neither
  the rows that fit nor their keys (`AddRowPaging`).

Assumed: `OntologyAssumption`, that the tables of open types exist and that rows of a type that is searched
are known by numbers, which stand for the order of their keys.

## 10. Feishu, front ends, end to end

`FeishuSync`: two calls at a time (sync, export, import, the API's dispatch) on a table of the
service, page by page, record by record, chunk by chunk; every request is tried `Attempts` times, and
a fault may hide that it took effect. DuplicatesAreExplained, for the five tables that getPrimaryKey names: two rows of one key
come from a retry after a lost answer, a file that has the key twice, or a list that was cut short or
ended before the first of the rows was made. A call in its upsert is a queue of records that are still
to be matched and a set `fresh` of those to be created; `NextChunk` are the first ones of these in the order of the file,
which one request of batch_create sends. A request names different tables: a name given
twice would be synchronised twice by SyncToFeishu, which the model leaves out; nothing in the
repository calls it so.

`Gateway`: requests of the API (token, validation, actor) and of MCP tools on one proposal, event,
case and sandbox. Each operation is its checks and then its transactions; a transaction is kept,
rolled back, or kept with its reply lost (a statement's error, a stop, the write timeout of 15 s
against the handler's 30 s). AnswersFollowEffects: a success names a committed effect of that
request, with the actor of its front end; a 4xx, a preview and a read leave nothing; only an error
may hide a write, and only a lost reply, an earlier step of decide and propose, or a dispatch that was
marked failed; at most one review is kept, nothing rejected is executed, and nothing is executed
that was not asked for as live.

`E2E`: the command's steps in order, with SQL of its own, and users who open, decide, review, execute
and close on the same alert (two steps); an earlier process with the same process id may have left a
manual proposal, in any status. A review, the command's own or a user's, is a transaction in two steps:
`LockProposal` and `UserLocks` lock the proposal's row, test its status and read that of its case, which they do
not lock; `ApproveProposal` and `UserReviews` write the verdict and, if the case was at proposal_generated when it
was read, review_required over whatever the case's status is by then, or are rolled back, as they are
when that would break the index of active cases. One review of users is open at a time. The two statuses that
a decision writes are one step here; DecisionCase has them apart.

LifecycleReportIsTrue: each PASS line is true of the rows and stays true, where "closed" means that the
case was closed, not that it still is. Of a case that the command opened and that is active after its
end, the status was last written by a user: by a decision (decision_generated, proposal_generated) or by a
review of one of the case's proposals (review_required); or its creation or closing is reported as FAIL. Nothing was
tried without a single approving review. The mutants let a review pass whatever the proposal's status, leave the case
open after a failure without a word, and write the case's status outside of the review's transaction.

| run | part | instance |
|---|---|---|
| platform (MCPlatform, 520 k states) | alerts | 5 files over 3 days, 2 sellers, at most 1 alert per value (5) and 4 in all (50), 3 runs |
| | contexts | 3 directories, 2 loads, 1 build |
| | ontology | 3 pairs of schema files, 3 calls, 1 arrival |
| | feishu | 2 calls, pages of 1 record (500), chunks of 2 (500), 2 tries (3), 2 faults |
| | gateway | 2 requests in progress, 31 kinds of request, 2 starting rows |
| | e2e | 3 databases, no leftover or one in 4 statuses, 0 or 1 proposal per decision, 2 steps of users, 1 review of theirs at a time, with --live |
| | delivery | see section 5 |

The parts share no state: an initial state chooses a part. MCPlatform extends all of them, which
therefore have names of their own for Init, Next and Spec, so that its run checks the very definitions
that the theorems are about, and evaluates their assumptions. A part that is not chosen stays in an
initial state. CHECK_DEADLOCK is FALSE, as each part may come to rest: requests are answered, bounds are reached.

### 10.1 Proofs

GatewayProofs, for every set of callers, any inputs and any starting rows: `AnswersAgree`, that
GatewaySpec implies AnswersFollowEffects at all times. `GatewayInv` has a part per request, `RequestInv`: where it
is says what it asked for (`PlaceInv`); before its first transaction it has left nothing, and between two
only what no answer reports (`TraceInv`); its answer agrees with what it left (`AnswerInv`). `ProposalInv` is about all
of them: what has been reviewed or loaded for execution is no longer "proposed"; what was rejected or
cancelled stays so, and no execution that has loaded it is on its way. The steps of different requests are
independent but for this.

Assumed: `GatewayAssumption`, that the starting rows are rows, and that null is none of the answers.

E2EProofs, for any number of users' steps, proposals per decision, and leftovers: `ReportIsTrue`, that
E2ESpec implies LifecycleReportIsTrue at all times. `E2EInv` adds: what is executable has exactly one
review, which approves (`Sound`); whoever is about to write an outcome has loaded such a proposal, whose
status may have changed since, but not back (`WorkInv`); a proposal under review is still "proposed" and has no
verdict, and only one of the command and the users has it (`LockInv`), so that a commit cannot add a
second verdict; each line of the report has its rows (`ReportInv`); a case the command opened is the one it
works on, was settled by it or changed by a user afterwards, or its report names the step that failed
(`CaseInv`); a review_required that a user wrote comes with that user's verdict (`MarkInv`). The last two are
about any moment, because the status that a review writes was read at an earlier one. No step of a user
takes any of these away, which is what "stays true" means.

Assumed: `E2EAssumption`, that null is no name, numbers of recommendations are numbers and leftovers
have a status that the table admits.

DataProofs, for any number of overlapping calls, any page and chunk sizes, attempts and faults:
`DuplicatesExplained`, that FeishuSpec implies DuplicatesAreExplained at all times. `FeishuInv` is a condition on each
call (`CallOK`): what it is about to create was in no list that it has read to the end (`Fresh`); what it
has created was not either, and comes from a record it is done with, or from the chunk whose
answer was lost (`Made`); two rows of one key that it made itself have their reason (`Pairs`). Other calls only
append rows and change their revisions, which takes none of this away (`OthersKeep`, `SameRowsKeep`).

Assumed: `FeishuAssumption`, that null is no call and no cell of a file, sizes are numbers, and a table that has an id
exists.

## 11. What is proved and what is only checked

Proved for every value of the constants that the assumptions admit: all the invariants, action
properties and the refinement that the passing runs check, those of the parts of platform
included. Some are proved for one worker or one execute call, as sections 3.2 and 4.2 say, because
with more they are false. Before a proof, TLC checked its inductive invariant on the instance of
the run, or an invariant that failed to be inductive was strengthened along the counterexample.

Only checked by TLC on the instances above:

- CallsReturn, EventuallySettled and EveryRunReturns, liveness under fairness, which is out of the
  prover's reach.
- The four violations are counterexamples, which TLC exhibits.
- What folds compute: sums, rates and comparisons of Alerts appear in its theorems as values that are
  the same whenever they are computed from the same rows; the proofs say nothing of their arithmetic, since
  induction over data is out of the prover's reach. The run exercises it.

## 12. Observations

Facts that the models contain and that a maintainer may want to know. They have no run of their own.

*Cases and decisions.* The comment of CreateCaseFromAlert promises an existing active case; when the
lookup meets a closed row beside it, or in a race, the caller gets a unique violation. A closed case can
be decided again. Rule outputs carry no payload and every action of the shipped registry has required
fields, so a rule decision leaves a case in proposal_generated without proposals. `escalate_to_human` is
recommended by the rules for high and critical alerts although neither ValidateDecision nor the
CHECK of the table accepts it. llm_decision.input_json is never written, so replay always fails. The
engine never sets a case to failed. decision_id of a proposal leads to no decision.
UpdateCaseStatus overwrites context_json, its hash and the governance snapshot, mostly with NULL.
ProposeAction with decision_json for an existing case always fails on the INSERT of the case.

*Delivery.* Two executions within one reading of the clock leave one event, so that an applied
proposal has no event of its own; Proposal counts events as if ids were unique. Calls to GitHub do not carry the
request's context. The body of sendMessage is consumed by its first attempt, so a retry sends nothing.

*Pipeline and alerts.* A run whose context expired stays "running" although the runner's comment
says that a failed run is marked as failed. The id that the API answers is not that of the audit rows.
The API accepts any configuration of steps and runs all of them. The MCP tool answers "started" after
the run has ended. gmv_drop fires above 15 % (its comment says from 15 %);
cancel_rate_spike also fires on a fall; the average review score is 0 where there are no reviews, which
seller_review_score_drop takes for a drop; category_low_review_cluster asks for a metric that no step
computes; the branches for dimension alerts in the recommendation ids are never reached. The warehouse
keeps the first version of an order. Daily rates are per order, dimension rates per item.

*Governance.* The shipped classifications name tables while lookups ask for type.property, so none of
them matches. agent_readonly has no policy. What a reload no longer contains stays in force;
default_deny_all never matches a principal. An error of one row is logged and yet fails the load. A marking
that cannot be read leaves the field open in v1 and v2; recipes take classes from the ontology alone,
treat level 4 as internal, and report the lowest overall class always; linked objects of v3 are not
redacted.

*Ontology.* `SetV2Compiler` before the first query is dropped, so the compiled queries are never used,
although the log says they are enabled; if they were, they would bypass the role's tables, ignore the
search text and have no order. The role is always analyst, which closes several object types. Compiled
links have a limit of zero. A failed search is an empty one. Filters of version 1 name a
parameter that nothing binds, and metrics with literal filters are always zero.

*Front ends.* The JWT secret is the API's bearer token, and a JWT never passes the token check, so the
actor is always "qoder". An execution through MCP or the CLI commits "failed", as they
have no executors. Dry run is the default of execute and not of batch dispatch. An unknown case in a
sandbox is answered with 500. Tables of the Feishu service without a mapped key are created anew at each
sync; a failed chunk is still reported as synced. The Feishu endpoints of the API only send a chat message
and report "ok" for each table.

*End to end.* A user's review that reads proposal_generated before the command closes the case and
commits after it makes the closed case active again, as review_required, although the report says
resolve_case PASS; the next run for the alert then takes this case over. outbox_check reads a table that no migration makes, so every run of the command exits
with 1. The command takes over and closes whoever's case is active for its alert. With a process id
seen before, the manual INSERT does nothing, and the newest proposal of the case, perhaps a user's, is
approved and executed as "the proposal we just created". Without --live its approved proposal stays
executable. With --live it passes although the proposal fails.

## 13. What is not modelled

- Lineage, snapshots and the outcome service: append-only and best-effort or not wired; nothing reads
  them to decide. Audit log tables likewise.
- CSV parsing, text building, number formatting, prompts and LLM answers beyond valid, invalid, none.
- Endpoints and CLI commands that only read (Qoder, logs, status, diagnosis, listings), except where
  a property is about them.
- The manual and the CLI adapter, which only a dry run of the API reaches.
- The frontend, the agent extension, and its prompts: clients, which the models leave unconstrained.
- Loading of environment variables: constants of the modules.
- Replay, decision scores and comparisons as calls: their operators are in DecisionRules.
- A dry run of the apply service writes nothing and is left out of Proposal; Gateway and E2E have it.
