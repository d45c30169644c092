------------------------------ MODULE Pipeline ------------------------------
(***************************************************************************)
(* The pipeline that turns CSV files into outbox events, and its audit     *)
(* rows.  A run executes the steps of its plan in order, each one in a     *)
(* transaction of its own; the audit rows are written outside of these     *)
(* transactions, by calls that may fail or be answered by an error after   *)
(* they took effect.  Nothing keeps two runs apart: the API starts one per *)
(* request in the background, the CLI and the MCP server start their own.  *)
(*                                                                         *)
(* One file stands for the CSV files, one order for a day.  "bad" says     *)
(* that the metrics of the day make the alert rules fire.                  *)
(***************************************************************************)
EXTENDS Integers, Sequences, FiniteSets, FiniteSetsExt

CONSTANTS
  Processes,     \* goroutines and commands that run the pipeline
  Days,          \* a set of numbers
  Files,         \* contents of the data directory: day -> "good" or "bad"
  Plans,         \* sequences of steps: all of them, or one (pipeline run --step)
  MinSeries,     \* days the global rules want, 7 in the code
  MaxDimAlerts,  \* maxDimAlertsPerRun, 50 in the code
  MaxRuns,       \* bound: rows of audit.pipeline_run
  MaxFaults      \* bound: calls that fail, runs that end early

AllSteps == <<"ingest_raw", "build_dwd_order_level", "build_dwd_item_level",
              "build_metric_daily", "build_metric_dimension_daily", "detect_alerts",
              "generate_recommendations", "generate_tasks", "create_outbox_events">>

DayTables == UNION {[D -> {"good", "bad"}] : D \in SUBSET Days}

ASSUME PipelineAssumption ==
  /\ Days \subseteq Nat /\ MinSeries \in Nat /\ MaxDimAlerts \in Nat
  /\ MaxRuns \in Nat /\ MaxFaults \in Nat
  /\ Files \subseteq DayTables
  /\ Plans \subseteq {AllSteps} \cup {<<AllSteps[i]>> : i \in 1 .. 9}

VARIABLES
  db,     \* the tables that the steps read and write
  runs,   \* audit.pipeline_run with its pipeline_step_run rows; committed,
          \* seen, built and cut are history
  proc,   \* proc[p]: where process p is
  tx,     \* tx[p]: the transaction it has open
  faults  \* how many there were

vars == <<db, runs, proc, tx, faults>>

NoRows == [d \in {} |-> "good"]
Idle   == [at |-> "idle"]
NoTx   == [step |-> "none"]

Init ==
  /\ db = [raw |-> NoRows, orders |-> NoRows, items |-> NoRows, daily |-> NoRows,
           dims |-> NoRows, alerts |-> {}, recs |-> {}, tasks |-> {}, events |-> {}]
  /\ runs = << >> /\ faults = 0
  /\ proc = [p \in Processes |-> Idle] /\ tx = [p \in Processes |-> NoTx]

-----------------------------------------------------------------------------
(* What the steps compute.                                                 *)

NewestDays(daily, n) ==
  {d \in DOMAIN daily : Cardinality({e \in DOMAIN daily : e > d}) < n}

\* EvaluateGlobalRules looks at the latest day only.
GlobalAlerts(daily) ==
  IF Cardinality(DOMAIN daily) < MinSeries THEN {}
  ELSE {<<"global", d>> : d \in {e \in NewestDays(daily, 1) : daily[e] = "bad"}}

\* EvaluateDimensionRules looks at all days and suppresses what exceeds the
\* maximum; which alerts of equal impact these are is up to the iteration
\* over a map.
DimensionAlerts(dims) ==
  LET fired == {<<"dim", d>> : d \in {e \in DOMAIN dims : dims[e] = "bad"}}
      number == Cardinality(fired)
  IN kSubset(IF number < MaxDimAlerts THEN number ELSE MaxDimAlerts, fired)

\* Orders and items are joined on the order.
Joined(orders, items) == [d \in DOMAIN orders \cap DOMAIN items |-> orders[d]]

\* A required file may be missing, and there may be no latest day.
MayFail(step) ==
  step = "ingest_raw" \/ (step = "detect_alerts" /\ DOMAIN db.daily = {})

MaySucceed(step) == ~ (step = "detect_alerts" /\ DOMAIN db.daily = {})

\* The rows that a step writes, one element for each choice it has: the
\* files are whatever is in the data directory at that time.
IngestRaw                 == Files
BuildDWDOrderLevel        == {db.raw}
BuildDWDItemLevel         == {db.raw}
BuildMetricDaily          == {db.orders}
BuildMetricDimensionDaily == {Joined(db.orders, db.items)}
DetectAlerts              == {GlobalAlerts(db.daily) \cup dim : dim \in DimensionAlerts(db.dims)}
GenerateRecommendations   == {db.alerts}
GenerateTasks             == {db.recs}
CreateOutboxEvents        == {db.tasks}

RowsOf(step) ==
  CASE step = "ingest_raw" -> IngestRaw
    [] step = "build_dwd_order_level" -> BuildDWDOrderLevel
    [] step = "build_dwd_item_level" -> BuildDWDItemLevel
    [] step = "build_metric_daily" -> BuildMetricDaily
    [] step = "build_metric_dimension_daily" -> BuildMetricDimensionDaily
    [] step = "detect_alerts" -> DetectAlerts
    [] step = "generate_recommendations" -> GenerateRecommendations
    [] step = "generate_tasks" -> GenerateTasks
    [] step = "create_outbox_events" -> CreateOutboxEvents

\* The rows of f, and those of g on other days.
Over(f, g) == [d \in DOMAIN f \cup DOMAIN g |-> IF d \in DOMAIN f THEN f[d] ELSE g[d]]

\* TRUNCATE replaces a table, ON CONFLICT DO NOTHING keeps the old rows, DO
\* UPDATE takes the new ones.  A recommendation, task or event has the id of
\* the alert it comes from.
Apply(step, rows) ==
  CASE step = "ingest_raw" -> [db EXCEPT !.raw = rows]
    [] step = "build_dwd_order_level" -> [db EXCEPT !.orders = Over(@, rows)]
    [] step = "build_dwd_item_level" -> [db EXCEPT !.items = Over(@, rows)]
    [] step = "build_metric_daily" -> [db EXCEPT !.daily = rows]
    [] step = "build_metric_dimension_daily" -> [db EXCEPT !.dims = Over(rows, @)]
    [] step = "detect_alerts" -> [db EXCEPT !.alerts = @ \cup rows]
    [] step = "generate_recommendations" -> [db EXCEPT !.recs = @ \cup rows]
    [] step = "generate_tasks" -> [db EXCEPT !.tasks = @ \cup rows]
    [] step = "create_outbox_events" -> [db EXCEPT !.events = @ \cup rows]

Truncated(step) ==
  CASE step = "ingest_raw" -> {"raw"}
    [] step = "build_metric_daily" -> {"daily"}
    [] OTHER -> {}

Touched(step) ==
  Truncated(step) \cup
  CASE step \in {"build_dwd_order_level", "build_dwd_item_level"} -> {"raw"}
    [] step = "detect_alerts" -> {"daily"}
    [] OTHER -> {}

\* Mutant: a table that is replaced is not locked.
NeverBlocked(p, step) == FALSE

\* TRUNCATE waits for the transactions that touch the table, and they for it.
Blocked(p, step) ==
  \E q \in Processes \ {p} :
    \/ Truncated(step) \cap Touched(tx[q].step) # {}
    \/ Touched(step) \cap Truncated(tx[q].step) # {}

-----------------------------------------------------------------------------
(* Runner.Run and runStep.                                                 *)

RunOf(p)  == runs[proc[p].run]
StepNo(p) == Len(RunOf(p).steps)
StepOf(p) == RunOf(p).plan[StepNo(p)]

Go(p, at)  == proc' = [proc EXCEPT ![p].at = at]

\* The last step record of the run of p gets this status.
RecordStep(p, status) ==
  runs' = [runs EXCEPT ![proc[p].run].steps[StepNo(p)].status = status]

Fault(p) == faults < MaxFaults /\ faults' = faults + 1

NewRun(plan, cut) ==
  [plan |-> plan, status |-> "running", steps |-> << >>, cut |-> cut, seen |-> {}, built |-> {}]

\* CreateRun.  Its error may hide a row that was written, in which case
\* nobody works on the run.
StartRun(p, plan) ==
  /\ proc[p] = Idle
  /\ Len(runs) < MaxRuns
  /\ \/ /\ runs' = Append(runs, NewRun(plan, FALSE))
        /\ proc' = [proc EXCEPT ![p] = [at |-> "between", run |-> Len(runs) + 1]]
        /\ UNCHANGED faults
     \/ /\ runs' = Append(runs, NewRun(plan, TRUE))
        /\ Fault(p)
        /\ UNCHANGED proc
  /\ UNCHANGED <<db, tx>>

NewStep == [status |-> "running", committed |-> FALSE]

\* CreateStepRun, whose error may hide a row, and Begin, whose error is
\* recorded.
StartStep(p) ==
  /\ proc[p].at = "between"
  /\ StepNo(p) < Len(RunOf(p).plan)
  /\ \/ runs' = [runs EXCEPT ![proc[p].run].steps = Append(@, NewStep)]
        /\ Go(p, "begun")
        /\ UNCHANGED faults
     \/ /\ Fault(p)
        /\ \/ runs' = [runs EXCEPT ![proc[p].run].steps = Append(@, NewStep)] /\ Go(p, "unrecorded")
           \/ runs' = [runs EXCEPT ![proc[p].run].steps = Append(@, NewStep)] /\ Go(p, "aborting")
           \/ UNCHANGED runs /\ Go(p, "aborting")
  /\ UNCHANGED <<db, tx>>

\* step.Run: an error leaves the transaction open.
Execute(p) ==
  /\ proc[p].at = "begun"
  /\ ~ Blocked(p, StepOf(p))
  /\ \/ /\ MaySucceed(StepOf(p))
        /\ \E rows \in RowsOf(StepOf(p)) : tx' = [tx EXCEPT ![p] = [step |-> StepOf(p), rows |-> rows]]
        /\ Go(p, "executed")
        /\ UNCHANGED faults
     \/ /\ \/ MayFail(StepOf(p)) /\ UNCHANGED faults
           \/ Fault(p)
        /\ tx' = [tx EXCEPT ![p] = [step |-> StepOf(p)]]
        /\ Go(p, "failed")
  /\ UNCHANGED <<db, runs>>

\* Mutant: a failed step returns without a rollback.
ReturnWithoutRollback(p) ==
  /\ proc[p].at = "failed"
  /\ Go(p, "unrecorded")
  /\ UNCHANGED <<db, runs, tx, faults>>

Rollback(p) ==
  /\ proc[p].at = "failed"
  /\ tx' = [tx EXCEPT ![p] = NoTx]
  /\ Go(p, "unrecorded")
  /\ UNCHANGED <<db, runs, faults>>

\* The rows appear with the commit; when its answer is an error they may
\* have appeared.
Committed(p) ==
  /\ db' = Apply(StepOf(p), tx[p].rows)
  /\ runs' = [runs EXCEPT
       ![proc[p].run].steps[StepNo(p)].committed = TRUE,
       ![proc[p].run].seen = IF StepOf(p) = "generate_recommendations" THEN tx[p].rows ELSE @,
       ![proc[p].run].built = IF StepOf(p) = "build_metric_daily" THEN DOMAIN tx[p].rows ELSE @]

\* Mutant: a commit that fails leaves the transaction open.
CommitWithoutRelease(p) ==
  /\ proc[p].at = "executed"
  /\ \/ /\ Committed(p) /\ Go(p, "committed")
        /\ tx' = [tx EXCEPT ![p] = NoTx]
        /\ UNCHANGED faults
     \/ /\ Fault(p) /\ Go(p, "unrecorded")
        /\ UNCHANGED <<db, runs, tx>>

Commit(p) ==
  /\ proc[p].at = "executed"
  /\ tx' = [tx EXCEPT ![p] = NoTx]
  /\ \/ Committed(p) /\ Go(p, "committed") /\ UNCHANGED faults
     \/ /\ Fault(p)
        /\ Go(p, "unrecorded")
        /\ \/ Committed(p)
           \/ UNCHANGED <<db, runs>>

-----------------------------------------------------------------------------
(* The end of steps and runs.                                              *)

\* Mutant: the next step follows a step whose record could not be written.
CompleteStepAnyway(p) ==
  /\ proc[p].at = "committed"
  /\ \/ RecordStep(p, "completed") /\ UNCHANGED faults
     \/ Fault(p) /\ UNCHANGED runs
  /\ Go(p, "between")
  /\ UNCHANGED <<db, tx>>

\* CompleteStepRun "completed"; an error fails the run.
CompleteStep(p) ==
  /\ proc[p].at = "committed"
  /\ \/ RecordStep(p, "completed") /\ Go(p, "between") /\ UNCHANGED faults
     \/ /\ Fault(p)
        /\ \/ RecordStep(p, "completed")
           \/ UNCHANGED runs
        /\ Go(p, "aborting")
  /\ UNCHANGED <<db, tx>>

\* Mutant: the run goes on after a step that failed.
SkipStep(p) ==
  /\ proc[p].at = "unrecorded"
  /\ \/ RecordStep(p, "failed") /\ UNCHANGED faults
     \/ Fault(p) /\ UNCHANGED runs
  /\ Go(p, "between")
  /\ UNCHANGED <<db, tx>>

\* CompleteStepRun "failed", whose error is ignored.
FailStep(p) ==
  /\ proc[p].at = "unrecorded"
  /\ \/ RecordStep(p, "failed") /\ UNCHANGED faults
     \/ Fault(p) /\ UNCHANGED runs
  /\ Go(p, "aborting")
  /\ UNCHANGED <<db, tx>>

\* CompleteRun.  An error is ignored after a failure, and returned otherwise.
EndRun(p, status) ==
  /\ \/ runs' = [runs EXCEPT ![proc[p].run].status = status] /\ UNCHANGED faults
     \/ runs' = [runs EXCEPT ![proc[p].run].cut = TRUE] /\ Fault(p)
  /\ proc' = [proc EXCEPT ![p] = Idle]
  /\ UNCHANGED <<db, tx>>

\* Mutant: the run of a failed step returns without CompleteRun.
ReturnError(p) ==
  /\ proc[p].at = "aborting"
  /\ proc' = [proc EXCEPT ![p] = Idle]
  /\ UNCHANGED <<db, runs, tx, faults>>

FailRun(p) == proc[p].at = "aborting" /\ EndRun(p, "failed")

CompleteRun(p) ==
  /\ proc[p].at = "between"
  /\ StepNo(p) = Len(RunOf(p).plan)
  /\ EndRun(p, "completed")

\* The process dies, or the half hour of its context is over: every later
\* call fails, the one that would fail the run included.
Cut(p) ==
  /\ proc[p] # Idle
  /\ Fault(p)
  /\ runs' = [runs EXCEPT ![proc[p].run].cut = TRUE]
  /\ proc' = [proc EXCEPT ![p] = Idle]
  /\ tx' = [tx EXCEPT ![p] = NoTx]
  /\ UNCHANGED db

Advance(p) ==
  \/ StartStep(p) \/ Execute(p) \/ Rollback(p) \/ Commit(p)
  \/ CompleteStep(p) \/ FailStep(p) \/ FailRun(p) \/ CompleteRun(p)

Next == \E p \in Processes :
  Advance(p) \/ Cut(p) \/ \E plan \in Plans : StartRun(p, plan)

\* Calls of the database return, and a lock that is released is obtained.
Fairness == \A p \in Processes : WF_vars(Advance(p))

Spec == Init /\ [][Next]_vars /\ Fairness

-----------------------------------------------------------------------------
(* Properties.                                                             *)

Owner(r) == {p \in Processes : proc[p] # Idle /\ proc[p].run = r}

AlertIds == {"global", "dim"} \X Days

Databases ==
  [raw : DayTables, orders : DayTables, items : DayTables, daily : DayTables, dims : DayTables,
   alerts : SUBSET AlertIds, recs : SUBSET AlertIds, tasks : SUBSET AlertIds,
   events : SUBSET AlertIds]

StepRows == [status : {"running", "completed", "failed"}, committed : BOOLEAN]

RunRows ==
  [plan : Plans, status : {"running", "completed", "failed"}, steps : Seq(StepRows),
   cut : BOOLEAN, seen : SUBSET AlertIds, built : SUBSET Days]

Positions ==
  {Idle} \cup [at : {"between", "begun", "executed", "failed", "committed", "unrecorded", "aborting"},
              run : DOMAIN runs]

Steps == {AllSteps[i] : i \in 1 .. 9}

Written(step) ==
  IF step \in {AllSteps[i] : i \in 1 .. 5} THEN DayTables ELSE SUBSET AlertIds

\* The types of the state; one process runs a run, and a transaction is
\* open only while its process is between Begin and the end of the step.
TypeOK ==
  /\ db \in Databases
  /\ runs \in Seq(RunRows)
  /\ proc \in [Processes -> Positions]
  /\ \A r \in DOMAIN runs :
       /\ Len(runs[r].steps) <= Len(runs[r].plan)
       /\ \A p, q \in Owner(r) : p = q
  /\ tx = [p \in Processes |-> tx[p]]
  /\ \A p \in Processes :
       tx[p] \in CASE proc[p].at = "executed" -> [step : {StepOf(p)}, rows : Written(StepOf(p))]
                 [] proc[p].at = "failed" -> [step : {StepOf(p)}]
                 [] OTHER -> {NoTx}

\* A step that is recorded as completed was committed, and it is only the
\* last step of a run that may not be recorded so: a run never goes on from
\* a step that failed or whose record is unknown (runStep, CompleteStepRun).
StepRecordsAreTrue ==
  \A r \in DOMAIN runs : \A k \in DOMAIN runs[r].steps :
    /\ runs[r].steps[k].status = "completed" => runs[r].steps[k].committed
    /\ k < Len(runs[r].steps) => runs[r].steps[k].status = "completed"
    /\ runs[r].status = "completed" =>
         Len(runs[r].steps) = Len(runs[r].plan) /\ runs[r].steps[k].status = "completed"

\* A run nobody works on any more is still "running" only because the audit
\* row could not be written: its process died, its context expired, or the
\* write failed (Run ignores the error of CompleteRun).
RunningIsExplained ==
  \A r \in DOMAIN runs :
    runs[r].status = "running" /\ Owner(r) = {} => runs[r].cut

\* Whatever other runs do meanwhile, a run of all steps that completes has an
\* outbox event for every alert its recommendations were generated from, those
\* of earlier runs that failed half-way included.
CompletedRunDelivers ==
  \A r \in DOMAIN runs :
    runs[r].plan = AllSteps /\ runs[r].status = "completed" => runs[r].seen \subseteq db.events

\* A day that a run has built metrics for never disappears from the daily
\* metrics, although every run empties and refills the table.
MetricsKeepOrders == \A r \in DOMAIN runs : runs[r].built \subseteq DOMAIN db.daily

\* Every run returns, though its steps wait for the locks of others and
\* fail: no step leaves a transaction open behind it.
EveryRunReturns == \A p \in Processes : proc[p] # Idle ~> proc[p] = Idle

=============================================================================
