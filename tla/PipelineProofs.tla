--------------------------- MODULE PipelineProofs ---------------------------
(***************************************************************************)
(* Theorems about Pipeline, for any number of processes, days and runs and *)
(* any contents of the data directory.                                     *)
(***************************************************************************)
EXTENDS Pipeline, TLAPS

-----------------------------------------------------------------------------
(* Lemmas about plans, rows and tables.                                    *)

\* A plan has all the steps in their order, or one of them.
LEMMA PlanShape ==
  ASSUME NEW plan \in Plans
  PROVE  /\ Len(plan) \in {1, 9} /\ DOMAIN plan = 1 .. Len(plan)
         /\ \A k \in 1 .. Len(plan) : plan[k] \in Steps
         /\ Len(plan) = 9 => plan = AllSteps
<1>1. CASE plan = AllSteps
  BY <1>1 DEF AllSteps, Steps
<1>2. CASE \E i \in 1 .. 9 : plan = <<AllSteps[i]>>
  BY <1>2 DEF Steps
<1>3. QED
  BY <1>1, <1>2, PipelineAssumption DEF PipelineAssumption

\* The steps by name.
LEMMA StepNames ==
  /\ Steps = {"ingest_raw", "build_dwd_order_level", "build_dwd_item_level",
              "build_metric_daily", "build_metric_dimension_daily", "detect_alerts",
              "generate_recommendations", "generate_tasks", "create_outbox_events"}
  /\ AllSteps[7] = "generate_recommendations" /\ AllSteps[8] = "generate_tasks"
  /\ AllSteps[9] = "create_outbox_events" /\ Len(AllSteps) = 9
  /\ \A k \in 1 .. 9 : /\ AllSteps[k] = "generate_recommendations" <=> k = 7
                       /\ AllSteps[k] = "generate_tasks" <=> k = 8
                       /\ AllSteps[k] = "create_outbox_events" <=> k = 9
  /\ {AllSteps[i] : i \in 1 .. 5} =
       {"ingest_raw", "build_dwd_order_level", "build_dwd_item_level",
        "build_metric_daily", "build_metric_dimension_daily"}
<1> DEFINE s == AllSteps
<1>1. /\ s[1] = "ingest_raw" /\ s[2] = "build_dwd_order_level" /\ s[3] = "build_dwd_item_level"
      /\ s[4] = "build_metric_daily" /\ s[5] = "build_metric_dimension_daily"
      /\ s[6] = "detect_alerts" /\ s[7] = "generate_recommendations"
      /\ s[8] = "generate_tasks" /\ s[9] = "create_outbox_events" /\ Len(s) = 9
  BY DEF AllSteps
<1> HIDE DEF s
<1>2. \A k \in 1 .. 9 : k = 1 \/ k = 2 \/ k = 3 \/ k = 4 \/ k = 5 \/ k = 6 \/ k = 7 \/ k = 8 \/ k = 9
  OBVIOUS
<1>3. {s[i] : i \in 1 .. 9} = {s[1], s[2], s[3], s[4], s[5], s[6], s[7], s[8], s[9]}
  BY <1>2
<1>4. {s[i] : i \in 1 .. 5} = {s[1], s[2], s[3], s[4], s[5]}
  <2>1. \A k \in 1 .. 5 : k = 1 \/ k = 2 \/ k = 3 \/ k = 4 \/ k = 5
    OBVIOUS
  <2>2. QED
    BY <2>1
<1>5. \A k \in 1 .. 9 : /\ s[k] = "generate_recommendations" <=> k = 7
                        /\ s[k] = "generate_tasks" <=> k = 8
                        /\ s[k] = "create_outbox_events" <=> k = 9
  BY <1>1, <1>2
<1>6. Steps = {s[i] : i \in 1 .. 9}
  BY DEF Steps, s
<1>7. QED
  BY <1>1, <1>3, <1>4, <1>5, <1>6 DEF s

\* A row of a day and the union of two tables are tables again.
LEMMA TableShape ==
  ASSUME NEW f
  PROVE  f \in DayTables <=> /\ f = [d \in DOMAIN f |-> f[d]] /\ DOMAIN f \subseteq Days
                             /\ \A d \in DOMAIN f : f[d] \in {"good", "bad"}
<1>1. ASSUME f \in DayTables
      PROVE  /\ f = [d \in DOMAIN f |-> f[d]] /\ DOMAIN f \subseteq Days
             /\ \A d \in DOMAIN f : f[d] \in {"good", "bad"}
  BY <1>1 DEF DayTables
<1>2. ASSUME f = [d \in DOMAIN f |-> f[d]], DOMAIN f \subseteq Days,
             \A d \in DOMAIN f : f[d] \in {"good", "bad"}
      PROVE  f \in DayTables
  <2>1. f \in [DOMAIN f -> {"good", "bad"}]
    BY <1>2
  <2>2. QED
    BY <1>2, <2>1 DEF DayTables
<1>3. QED
  BY <1>1, <1>2

LEMMA MergeType ==
  ASSUME NEW f \in DayTables, NEW g \in DayTables
  PROVE  Over(f, g) \in DayTables /\ DOMAIN Over(f, g) = DOMAIN f \cup DOMAIN g
<1> DEFINE h == Over(f, g)
<1>1. h = [d \in DOMAIN f \cup DOMAIN g |-> IF d \in DOMAIN f THEN f[d] ELSE g[d]]
  BY DEF Over
<1>2. DOMAIN f \subseteq Days /\ DOMAIN g \subseteq Days
      /\ (\A d \in DOMAIN f : f[d] \in {"good", "bad"})
      /\ (\A d \in DOMAIN g : g[d] \in {"good", "bad"})
  BY TableShape
<1> HIDE DEF h
<1>3. DOMAIN h = DOMAIN f \cup DOMAIN g /\ h = [d \in DOMAIN h |-> h[d]]
  BY <1>1
<1>4. \A d \in DOMAIN h : h[d] \in {"good", "bad"}
  BY <1>1, <1>2
<1>5. h \in DayTables
  BY <1>2, <1>3, <1>4, TableShape
<1>6. QED
  BY <1>3, <1>5 DEF h

\* What a step writes is a table or a set of alerts.
LEMMA RowsType ==
  ASSUME db \in Databases, NEW step \in Steps, NEW rows \in RowsOf(step)
  PROVE  rows \in Written(step)
<1>1. /\ db.raw \in DayTables /\ db.orders \in DayTables /\ db.items \in DayTables
      /\ db.daily \in DayTables /\ db.dims \in DayTables
      /\ db.alerts \subseteq AlertIds /\ db.recs \subseteq AlertIds /\ db.tasks \subseteq AlertIds
  BY DEF Databases
<1> DEFINE tables == {"ingest_raw", "build_dwd_order_level", "build_dwd_item_level",
                      "build_metric_daily", "build_metric_dimension_daily"}
<1>2. Written(step) = IF step \in tables THEN DayTables ELSE SUBSET AlertIds
  BY StepNames DEF Written
<1>3. Joined(db.orders, db.items) \in DayTables
  <2> DEFINE f == Joined(db.orders, db.items)
  <2>1. f = [d \in DOMAIN db.orders \cap DOMAIN db.items |-> db.orders[d]]
    BY DEF Joined
  <2>2. DOMAIN db.orders \subseteq Days /\ \A d \in DOMAIN db.orders : db.orders[d] \in {"good", "bad"}
    BY <1>1, TableShape
  <2> HIDE DEF f
  <2>3. f = [d \in DOMAIN f |-> f[d]] /\ DOMAIN f \subseteq Days /\ \A d \in DOMAIN f : f[d] \in {"good", "bad"}
    BY <2>1, <2>2
  <2>4. f \in DayTables
    BY <2>3, TableShape
  <2>5. QED
    BY <2>4 DEF f
<1>4. CASE step \in tables
  BY <1>1, <1>2, <1>3, <1>4, PipelineAssumption DEF RowsOf, IngestRaw, BuildDWDOrderLevel, BuildDWDItemLevel,
     BuildMetricDaily, BuildMetricDimensionDaily, PipelineAssumption
<1>5. CASE step = "detect_alerts"
  <2>1. DOMAIN db.daily \subseteq Days /\ DOMAIN db.dims \subseteq Days
    BY <1>1, TableShape
  <2>2. GlobalAlerts(db.daily) \subseteq AlertIds
    <3>1. ASSUME NEW a \in GlobalAlerts(db.daily) PROVE a \in AlertIds
      <4>1. PICK d \in NewestDays(db.daily, 1) : a = <<"global", d>>
        BY <3>1 DEF GlobalAlerts
      <4>2. d \in Days
        BY <2>1 DEF NewestDays
      <4>3. QED
        BY <4>1, <4>2 DEF AlertIds
    <3>2. QED
      BY <3>1
  <2>3. ASSUME NEW dim \in DimensionAlerts(db.dims) PROVE dim \subseteq AlertIds
    <3>1. dim \subseteq {<<"dim", d>> : d \in {e \in DOMAIN db.dims : db.dims[e] = "bad"}}
      BY <2>3 DEF DimensionAlerts, kSubset
    <3>2. QED
      BY <2>1, <3>1 DEF AlertIds
  <2>4. rows \subseteq AlertIds
    BY <1>5, <2>2, <2>3 DEF RowsOf, DetectAlerts
  <2>5. QED
    BY <1>2, <1>5, <2>4
<1>6. CASE step \in {"generate_recommendations", "generate_tasks", "create_outbox_events"}
  BY <1>1, <1>2, <1>6 DEF RowsOf, GenerateRecommendations, GenerateTasks, CreateOutboxEvents
<1>7. QED
  BY <1>4, <1>5, <1>6, StepNames

\* A commit leaves tables, and takes nothing away from orders, items,
\* recommendations, tasks and events.
LEMMA ApplyType ==
  ASSUME db \in Databases, NEW step \in Steps, NEW rows \in Written(step)
  PROVE  /\ Apply(step, rows) \in Databases
         /\ DOMAIN db.orders \subseteq DOMAIN Apply(step, rows).orders
         /\ db.recs \subseteq Apply(step, rows).recs
         /\ db.tasks \subseteq Apply(step, rows).tasks
         /\ db.events \subseteq Apply(step, rows).events
         /\ step = "generate_recommendations" => rows \subseteq Apply(step, rows).recs
         /\ step = "generate_tasks" => rows \subseteq Apply(step, rows).tasks
         /\ step = "create_outbox_events" => rows \subseteq Apply(step, rows).events
         /\ Apply(step, rows).daily = (IF step = "build_metric_daily" THEN rows ELSE db.daily)
<1> DEFINE tables == {"ingest_raw", "build_dwd_order_level", "build_dwd_item_level",
                      "build_metric_daily", "build_metric_dimension_daily"}
<1>1. step \in tables => rows \in DayTables
  BY StepNames DEF Written
<1>2. step \notin tables => rows \subseteq AlertIds
  BY StepNames DEF Written
<1>3. /\ db.raw \in DayTables /\ db.orders \in DayTables /\ db.items \in DayTables
      /\ db.daily \in DayTables /\ db.dims \in DayTables
      /\ db.alerts \subseteq AlertIds /\ db.recs \subseteq AlertIds /\ db.tasks \subseteq AlertIds
      /\ db.events \subseteq AlertIds
  BY DEF Databases
<1>4. CASE step = "ingest_raw"
  BY <1>1, <1>3, <1>4 DEF Apply, Databases
<1>5. CASE step = "build_dwd_order_level"
  <2>1. Over(db.orders, rows) \in DayTables /\ DOMAIN db.orders \subseteq DOMAIN Over(db.orders, rows)
    BY <1>1, <1>3, <1>5, MergeType
  <2>2. Apply(step, rows) = [db EXCEPT !.orders = Over(db.orders, rows)]
    BY <1>5 DEF Apply
  <2>3. QED
    BY <1>3, <1>5, <2>1, <2>2 DEF Databases
<1>6. CASE step = "build_dwd_item_level"
  <2>1. Over(db.items, rows) \in DayTables
    BY <1>1, <1>3, <1>6, MergeType
  <2>2. Apply(step, rows) = [db EXCEPT !.items = Over(db.items, rows)]
    BY <1>6 DEF Apply
  <2>3. QED
    BY <1>3, <1>6, <2>1, <2>2 DEF Databases
<1>7. CASE step = "build_metric_daily"
  BY <1>1, <1>3, <1>7 DEF Apply, Databases
<1>8. CASE step = "build_metric_dimension_daily"
  <2>1. Over(rows, db.dims) \in DayTables
    BY <1>1, <1>3, <1>8, MergeType
  <2>2. Apply(step, rows) = [db EXCEPT !.dims = Over(rows, db.dims)]
    BY <1>8 DEF Apply
  <2>3. QED
    BY <1>3, <1>8, <2>1, <2>2 DEF Databases
<1>9. CASE step = "detect_alerts"
  BY <1>2, <1>3, <1>9 DEF Apply, Databases
<1>10. CASE step = "generate_recommendations"
  BY <1>2, <1>3, <1>10 DEF Apply, Databases
<1>11. CASE step = "generate_tasks"
  BY <1>2, <1>3, <1>11 DEF Apply, Databases
<1>12. CASE step = "create_outbox_events"
  BY <1>2, <1>3, <1>12 DEF Apply, Databases
<1>13. QED
  BY <1>4, <1>5, <1>6, <1>7, <1>8, <1>9, <1>10, <1>11, <1>12, StepNames

-----------------------------------------------------------------------------
(* Steps of one process, and type correctness.                             *)

Busy(p) == proc[p] # Idle

\* Every step of a process but the first rewrites the row of its run, its own
\* position and its own transaction.
Moves(p, row, at, t) ==
  /\ runs' = [runs EXCEPT ![proc[p].run] = row]
  /\ proc' = [proc EXCEPT ![p] = IF at = "idle" THEN Idle ELSE [at |-> at, run |-> proc[p].run]]
  /\ tx' = [tx EXCEPT ![p] = t]

OpenTx(at, step) ==
  CASE at = "executed" -> [step : {step}, rows : Written(step)]
    [] at = "failed" -> [step : {step}]
    [] OTHER -> {NoTx}

Working == {"between", "begun", "executed", "failed", "committed", "unrecorded", "aborting"}

\* Of a process that works on a run.
LEMMA BusyType ==
  ASSUME TypeOK, NEW p \in Processes, Busy(p)
  PROVE  /\ proc[p].run \in DOMAIN runs /\ proc[p].at \in Working
         /\ proc[p] = [at |-> proc[p].at, run |-> proc[p].run]
         /\ RunOf(p) \in RunRows /\ RunOf(p) = runs[proc[p].run]
         /\ StepNo(p) \in Nat /\ StepNo(p) <= Len(RunOf(p).plan)
         /\ DOMAIN RunOf(p).steps = 1 .. StepNo(p)
         /\ \A q \in Processes \ {p} : Busy(q) => proc[q].run # proc[p].run
<1>1. proc[p] \in [at : Working, run : DOMAIN runs]
  BY DEF TypeOK, Positions, Busy, Working
<1>2. RunOf(p) \in RunRows
  BY <1>1 DEF TypeOK, RunOf
<1>3. RunOf(p).steps \in Seq(StepRows)
  BY <1>2 DEF RunRows
<1>4. QED
  BY <1>1, <1>2, <1>3 DEF TypeOK, RunOf, StepNo, Owner, Busy

LEMMA PositionNames ==
  ASSUME TypeOK, NEW p \in Processes
  PROVE  /\ proc[p].at \in Working => Busy(p)
         /\ ~ Busy(p) => proc[p].at = "idle"
BY DEF Busy, Idle, Working

\* What a move leaves alone.
Framed(p, row, at, t) ==
  /\ runs' \in Seq(RunRows) /\ DOMAIN runs' = DOMAIN runs
  /\ \A r \in DOMAIN runs : runs'[r] = IF r = proc[p].run THEN row ELSE runs[r]
  /\ proc'[p] = IF at = "idle" THEN Idle ELSE [at |-> at, run |-> proc[p].run]
  /\ proc'[p].at = at
  /\ at # "idle" => RunOf(p)' = row
  /\ tx'[p] = t
  /\ \A q \in Processes \ {p} :
       /\ proc'[q] = proc[q] /\ tx'[q] = tx[q]
       /\ Busy(q) => RunOf(q)' = RunOf(q) /\ StepOf(q)' = StepOf(q)
  /\ \A r \in DOMAIN runs : Owner(r)' = IF at = "idle" /\ r = proc[p].run THEN {} ELSE Owner(r)

LEMMA MoveFrame ==
  ASSUME TypeOK, NEW p \in Processes, Busy(p), NEW row \in RunRows,
         NEW at \in Working \cup {"idle"}, NEW t, Moves(p, row, at, t)
  PROVE  Framed(p, row, at, t)
<1>1. /\ proc[p].run \in DOMAIN runs
      /\ \A q \in Processes \ {p} : Busy(q) => proc[q].run # proc[p].run /\ proc[q].run \in DOMAIN runs
  BY BusyType
<1>2. runs \in Seq(RunRows) /\ proc \in [Processes -> Positions] /\ DOMAIN tx = Processes
  BY DEF TypeOK
<1>3. /\ runs' \in Seq(RunRows) /\ DOMAIN runs' = DOMAIN runs
      /\ \A r \in DOMAIN runs : runs'[r] = IF r = proc[p].run THEN row ELSE runs[r]
  BY <1>1, <1>2 DEF Moves
<1>4. /\ proc'[p] = IF at = "idle" THEN Idle ELSE [at |-> at, run |-> proc[p].run]
      /\ proc'[p].at = at /\ tx'[p] = t
      /\ \A q \in Processes \ {p} : proc'[q] = proc[q] /\ tx'[q] = tx[q]
  BY <1>2 DEF Moves, Idle
<1>5. at # "idle" => RunOf(p)' = row
  BY <1>1, <1>3, <1>4 DEF RunOf
<1>6. ASSUME NEW q \in Processes \ {p}, Busy(q)
      PROVE  RunOf(q)' = RunOf(q) /\ StepOf(q)' = StepOf(q)
  BY <1>1, <1>3, <1>4, <1>6 DEF RunOf, StepOf, StepNo
<1>7. ASSUME NEW r \in DOMAIN runs
      PROVE  Owner(r)' = IF at = "idle" /\ r = proc[p].run THEN {} ELSE Owner(r)
  <2>1. at # "idle" => proc'[p] # Idle /\ proc'[p].run = proc[p].run
    BY <1>4 DEF Idle, Working
  <2>2. CASE at # "idle"
    BY <1>4, <2>1, <2>2 DEF Owner, Busy
  <2>3. CASE at = "idle"
    BY <1>1, <1>4, <2>3 DEF Owner, Busy
  <2>4. QED
    BY <2>2, <2>3
<1>8. QED
  BY <1>3, <1>4, <1>5, <1>6, <1>7 DEF Framed

LEMMA MoveType ==
  ASSUME TypeOK, NEW p \in Processes, Busy(p), NEW row \in RunRows,
         row.plan = RunOf(p).plan, Len(row.steps) <= Len(row.plan),
         NEW at \in Working \cup {"idle"}, NEW t,
         t \in OpenTx(at, row.plan[Len(row.steps)]),
         at \in {"executed", "failed"} => Len(row.steps) \in 1 .. Len(row.plan),
         Moves(p, row, at, t), db' \in Databases
  PROVE  TypeOK'
<1>1. /\ runs' \in Seq(RunRows) /\ DOMAIN runs' = DOMAIN runs
      /\ \A r \in DOMAIN runs : runs'[r] = IF r = proc[p].run THEN row ELSE runs[r]
      /\ proc'[p] = IF at = "idle" THEN Idle ELSE [at |-> at, run |-> proc[p].run]
      /\ proc'[p].at = at /\ tx'[p] = t
      /\ at # "idle" => RunOf(p)' = row
      /\ \A q \in Processes \ {p} :
           /\ proc'[q] = proc[q] /\ tx'[q] = tx[q]
           /\ Busy(q) => RunOf(q)' = RunOf(q) /\ StepOf(q)' = StepOf(q)
      /\ \A r \in DOMAIN runs : Owner(r)' = IF at = "idle" /\ r = proc[p].run THEN {} ELSE Owner(r)
  BY MoveFrame DEF Framed
<1>2. proc' \in [Processes -> Positions']
  <2>1. proc[p].run \in DOMAIN runs
    BY BusyType
  <2>2. Positions' = Positions
    BY <1>1 DEF Positions
  <2>3. proc' = [proc EXCEPT ![p] = IF at = "idle" THEN Idle ELSE [at |-> at, run |-> proc[p].run]]
    BY DEF Moves
  <2>4. QED
    BY <2>1, <2>2, <2>3 DEF TypeOK, Positions, Working
<1>3. ASSUME NEW r \in DOMAIN runs'
      PROVE  Len(runs'[r].steps) <= Len(runs'[r].plan) /\ \A q, s \in Owner(r)' : q = s
  <2>1. r \in DOMAIN runs
    BY <1>1, <1>3
  <2>2. Len(runs[r].steps) <= Len(runs[r].plan) /\ \A q, s \in Owner(r) : q = s
    BY <2>1 DEF TypeOK
  <2>3. runs'[r] = IF r = proc[p].run THEN row ELSE runs[r]
    BY <1>1, <2>1
  <2>4. Len(runs'[r].steps) <= Len(runs'[r].plan)
    BY <2>2, <2>3 DEF RunOf
  <2>5. Owner(r)' \subseteq Owner(r)
    BY <1>1, <2>1
  <2>6. QED
    BY <2>2, <2>4, <2>5
<1>4. at \in {"executed", "failed"} => row.plan[Len(row.steps)] \in Steps /\ StepOf(p)' = row.plan[Len(row.steps)]
  <2>1. row.plan \in Plans
    BY DEF RunRows
  <2>2. QED
    BY <1>1, <2>1, PlanShape DEF StepOf, StepNo
<1>5. tx' = [q \in Processes |-> tx'[q]]
  BY DEF TypeOK, Moves
<1>6. ASSUME NEW q \in Processes
      PROVE  tx'[q] \in CASE proc'[q].at = "executed" -> [step : {StepOf(q)'}, rows : Written(StepOf(q)')]
                          [] proc'[q].at = "failed" -> [step : {StepOf(q)'}]
                          [] OTHER -> {NoTx}
  <2>1. CASE q = p
    BY <1>1, <1>4, <2>1 DEF OpenTx
  <2>2. CASE q # p
    <3>1. tx[q] \in CASE proc[q].at = "executed" -> [step : {StepOf(q)}, rows : Written(StepOf(q))]
                      [] proc[q].at = "failed" -> [step : {StepOf(q)}]
                      [] OTHER -> {NoTx}
      BY DEF TypeOK
    <3>2. proc[q].at \in {"executed", "failed"} => Busy(q)
      BY PositionNames DEF Working
    <3>3. QED
      BY <1>1, <2>2, <3>1, <3>2
  <2>3. QED
    BY <2>1, <2>2
<1>7. QED
  BY <1>1, <1>2, <1>3, <1>5, <1>6 DEF TypeOK, Written

-----------------------------------------------------------------------------
(* Each action is a move.                                                  *)

\* The rows an action may leave, field by field.
Appended(p, row) ==
  /\ row.plan = RunOf(p).plan /\ row.status = RunOf(p).status /\ row.cut = RunOf(p).cut
  /\ row.seen = RunOf(p).seen /\ row.built = RunOf(p).built
  /\ Len(row.steps) = StepNo(p) + 1 /\ DOMAIN row.steps = 1 .. StepNo(p) + 1
  /\ row.steps[StepNo(p) + 1] = NewStep
  /\ \A k \in 1 .. StepNo(p) : row.steps[k] = RunOf(p).steps[k]

Recorded(p, row, status) ==
  /\ row.plan = RunOf(p).plan /\ row.status = RunOf(p).status /\ row.cut = RunOf(p).cut
  /\ row.seen = RunOf(p).seen /\ row.built = RunOf(p).built
  /\ Len(row.steps) = StepNo(p) /\ DOMAIN row.steps = 1 .. StepNo(p)
  /\ row.steps[StepNo(p)].status = status
  /\ row.steps[StepNo(p)].committed = RunOf(p).steps[StepNo(p)].committed
  /\ \A k \in 1 .. StepNo(p) - 1 : row.steps[k] = RunOf(p).steps[k]

Done(p, row) ==
  /\ row.plan = RunOf(p).plan /\ row.status = RunOf(p).status /\ row.cut = RunOf(p).cut
  /\ row.seen = (IF StepOf(p) = "generate_recommendations" THEN tx[p].rows ELSE RunOf(p).seen)
  /\ row.built = (IF StepOf(p) = "build_metric_daily" THEN DOMAIN tx[p].rows ELSE RunOf(p).built)
  /\ Len(row.steps) = StepNo(p) /\ DOMAIN row.steps = 1 .. StepNo(p)
  /\ row.steps[StepNo(p)].status = RunOf(p).steps[StepNo(p)].status
  /\ row.steps[StepNo(p)].committed
  /\ \A k \in 1 .. StepNo(p) - 1 : row.steps[k] = RunOf(p).steps[k]

Ended(p, row, status, cut) ==
  /\ row.plan = RunOf(p).plan /\ row.status = status /\ row.cut = cut
  /\ row.seen = RunOf(p).seen /\ row.built = RunOf(p).built /\ row.steps = RunOf(p).steps

\* A step that leaves the row of the run as it is.
LEMMA SameRow ==
  ASSUME TypeOK, NEW p \in Processes, Busy(p), UNCHANGED runs
  PROVE  runs' = [runs EXCEPT ![proc[p].run] = RunOf(p)]
<1>1. runs \in Seq(RunRows) /\ proc[p].run \in DOMAIN runs /\ RunOf(p) = runs[proc[p].run]
  BY BusyType DEF TypeOK
<1>2. QED
  BY <1>1

LEMMA GoMoves ==
  ASSUME TypeOK, NEW p \in Processes, Busy(p), NEW at \in Working, Go(p, at)
  PROVE  proc' = [proc EXCEPT ![p] = IF at = "idle" THEN Idle ELSE [at |-> at, run |-> proc[p].run]]
<1>1. proc[p] = [at |-> proc[p].at, run |-> proc[p].run]
  BY BusyType
<1>2. [proc[p] EXCEPT !.at = at] = [at |-> at, run |-> proc[p].run]
  BY <1>1
<1>3. at # "idle"
  BY DEF Working
<1>4. QED
  BY <1>2, <1>3 DEF Go

LEMMA StartStepMoves ==
  ASSUME TypeOK, NEW p \in Processes, StartStep(p)
  PROVE  /\ Busy(p) /\ proc[p].at = "between" /\ StepNo(p) < Len(RunOf(p).plan)
         /\ UNCHANGED db
         /\ \E row \in RunRows, at \in {"begun", "unrecorded", "aborting"} :
              /\ Moves(p, row, at, NoTx)
              /\ Appended(p, row) \/ (row = RunOf(p) /\ at = "aborting")
<1>1. Busy(p) /\ proc[p].at = "between"
  BY DEF StartStep, Busy, Idle
<1>2. /\ RunOf(p) \in RunRows /\ StepNo(p) \in Nat /\ proc[p].run \in DOMAIN runs
      /\ RunOf(p) = runs[proc[p].run]
  BY <1>1, BusyType
<1>3. tx' = [tx EXCEPT ![p] = NoTx]
  BY <1>1 DEF TypeOK, StartStep
<1> DEFINE row == [RunOf(p) EXCEPT !.steps = Append(RunOf(p).steps, NewStep)]
<1>4. row \in RunRows /\ Appended(p, row)
  <2>1. RunOf(p).steps \in Seq(StepRows) /\ NewStep \in StepRows
    BY <1>2 DEF RunRows, StepRows, NewStep
  <2>2. Append(RunOf(p).steps, NewStep) \in Seq(StepRows)
    BY <2>1
  <2>3. row \in RunRows
    BY <1>2, <2>2 DEF RunRows
  <2>4. row.steps = Append(RunOf(p).steps, NewStep) /\ Len(RunOf(p).steps) = StepNo(p)
    BY <1>2 DEF RunRows, StepNo
  <2>5. /\ Len(row.steps) = StepNo(p) + 1 /\ DOMAIN row.steps = 1 .. StepNo(p) + 1
        /\ row.steps[StepNo(p) + 1] = NewStep
        /\ \A k \in 1 .. StepNo(p) : row.steps[k] = RunOf(p).steps[k]
    BY <1>2, <2>1, <2>4
  <2>6. QED
    BY <1>2, <2>3, <2>5 DEF RunRows, Appended
<1>5. runs' = [runs EXCEPT ![proc[p].run].steps = Append(@, NewStep)]
      => runs' = [runs EXCEPT ![proc[p].run] = row]
  BY <1>2
<1> HIDE DEF row
<1>6. ASSUME NEW at \in {"begun", "unrecorded", "aborting"}, Go(p, at),
             runs' = [runs EXCEPT ![proc[p].run].steps = Append(@, NewStep)]
      PROVE  Moves(p, row, at, NoTx)
  BY <1>1, <1>3, <1>5, <1>6, GoMoves DEF Moves, Working
<1>7. ASSUME Go(p, "aborting"), UNCHANGED runs PROVE Moves(p, RunOf(p), "aborting", NoTx)
  BY <1>1, <1>3, <1>7, GoMoves, SameRow DEF Moves, Working
<1>8. QED
  BY <1>1, <1>2, <1>4, <1>6, <1>7 DEF StartStep

LEMMA ExecuteMoves ==
  ASSUME TypeOK, NEW p \in Processes, Execute(p)
  PROVE  /\ Busy(p) /\ proc[p].at = "begun" /\ UNCHANGED db /\ ~ Blocked(p, StepOf(p))
         /\ \/ \E rows \in RowsOf(StepOf(p)) :
                 Moves(p, RunOf(p), "executed", [step |-> StepOf(p), rows |-> rows])
            \/ Moves(p, RunOf(p), "failed", [step |-> StepOf(p)])
<1>1. Busy(p) /\ proc[p].at = "begun"
  BY DEF Execute, Busy, Idle
<1>2. runs' = [runs EXCEPT ![proc[p].run] = RunOf(p)]
  BY <1>1, SameRow DEF Execute
<1>3. ASSUME Go(p, "executed"), NEW t, tx' = [tx EXCEPT ![p] = t]
      PROVE  Moves(p, RunOf(p), "executed", t)
  BY <1>1, <1>2, <1>3, GoMoves DEF Moves, Working
<1>4. ASSUME Go(p, "failed"), NEW t, tx' = [tx EXCEPT ![p] = t]
      PROVE  Moves(p, RunOf(p), "failed", t)
  BY <1>1, <1>2, <1>4, GoMoves DEF Moves, Working
<1>5. QED
  BY <1>1, <1>3, <1>4 DEF Execute

LEMMA RollbackMoves ==
  ASSUME TypeOK, NEW p \in Processes, Rollback(p)
  PROVE  /\ Busy(p) /\ proc[p].at = "failed" /\ UNCHANGED db
         /\ Moves(p, RunOf(p), "unrecorded", NoTx)
<1>1. Busy(p) /\ proc[p].at = "failed"
  BY DEF Rollback, Busy, Idle
<1>2. QED
  BY <1>1, SameRow, GoMoves DEF Rollback, Moves, Working

\* Between CreateStepRun and its CompleteStepRun there is a step record.
AtStep(p) ==
  proc[p].at \in {"begun", "executed", "failed", "committed", "unrecorded"} => StepNo(p) > 0

TypeInv == TypeOK /\ \A p \in Processes : AtStep(p)

\* One step record is rewritten.
LEMMA StepRewrite ==
  ASSUME NEW run \in RunRows, NEW n \in DOMAIN run.steps, NEW new \in StepRows,
         NEW row, row = [run EXCEPT !.steps = [run.steps EXCEPT ![n] = new]]
  PROVE  /\ row \in RunRows
         /\ row.plan = run.plan /\ row.status = run.status /\ row.cut = run.cut
         /\ row.seen = run.seen /\ row.built = run.built
         /\ Len(row.steps) = Len(run.steps) /\ DOMAIN row.steps = DOMAIN run.steps
         /\ \A k \in DOMAIN run.steps : row.steps[k] = IF k = n THEN new ELSE run.steps[k]
<1>1. run.steps \in Seq(StepRows)
  BY DEF RunRows
<1> DEFINE steps == [run.steps EXCEPT ![n] = new]
<1>2. /\ steps \in Seq(StepRows) /\ Len(steps) = Len(run.steps)
      /\ DOMAIN steps = DOMAIN run.steps
      /\ \A k \in DOMAIN run.steps : steps[k] = IF k = n THEN new ELSE run.steps[k]
  BY <1>1
<1> HIDE DEF steps
<1>3. row = [run EXCEPT !.steps = steps]
  BY DEF steps
<1>4. QED
  BY <1>2, <1>3 DEF RunRows

LEMMA RecordMoves ==
  ASSUME TypeOK, NEW p \in Processes, Busy(p), StepNo(p) > 0,
         NEW status \in {"completed", "failed"}, RecordStep(p, status)
  PROVE  \E row \in RunRows : /\ runs' = [runs EXCEPT ![proc[p].run] = row]
                              /\ Recorded(p, row, status)
<1> DEFINE n == StepNo(p)
           new == [RunOf(p).steps[n] EXCEPT !.status = status]
           row == [RunOf(p) EXCEPT !.steps = [RunOf(p).steps EXCEPT ![n] = new]]
<1>1. /\ RunOf(p) \in RunRows /\ RunOf(p) = runs[proc[p].run] /\ n \in Nat
      /\ DOMAIN RunOf(p).steps = 1 .. n /\ proc[p].run \in DOMAIN runs
  BY BusyType
<1>2. n \in DOMAIN RunOf(p).steps
  BY <1>1
<1>3. RunOf(p).steps[n] \in StepRows
  <2>1. RunOf(p).steps \in Seq(StepRows)
    BY <1>1 DEF RunRows
  <2>2. QED
    BY <1>2, <2>1
<1>4. /\ new \in StepRows /\ new.status = status
      /\ new.committed = RunOf(p).steps[n].committed
  BY <1>3 DEF StepRows
<1>5. runs' = [runs EXCEPT ![proc[p].run] = row]
  BY <1>1 DEF RecordStep
<1> HIDE DEF new
<1>6. /\ row \in RunRows
      /\ row.plan = RunOf(p).plan /\ row.status = RunOf(p).status /\ row.cut = RunOf(p).cut
      /\ row.seen = RunOf(p).seen /\ row.built = RunOf(p).built
      /\ Len(row.steps) = Len(RunOf(p).steps) /\ DOMAIN row.steps = 1 .. n
      /\ \A k \in 1 .. n : row.steps[k] = IF k = n THEN new ELSE RunOf(p).steps[k]
  <2> HIDE DEF n
  <2>1. QED
    BY <1>1, <1>2, <1>4, StepRewrite
<1> HIDE DEF row
<1>7. Recorded(p, row, status)
  BY <1>1, <1>4, <1>6 DEF Recorded, StepNo
<1>8. QED
  BY <1>5, <1>6, <1>7

LEMMA CommittedMoves ==
  ASSUME TypeOK, NEW p \in Processes, Busy(p), StepNo(p) > 0, proc[p].at = "executed",
         Committed(p)
  PROVE  \E row \in RunRows : /\ runs' = [runs EXCEPT ![proc[p].run] = row]
                              /\ Done(p, row)
<1> DEFINE n == StepNo(p)
           new == [RunOf(p).steps[n] EXCEPT !.committed = TRUE]
           seen == IF StepOf(p) = "generate_recommendations" THEN tx[p].rows ELSE RunOf(p).seen
           built == IF StepOf(p) = "build_metric_daily" THEN DOMAIN tx[p].rows ELSE RunOf(p).built
           first == [RunOf(p) EXCEPT !.steps = [RunOf(p).steps EXCEPT ![n] = new]]
           row == [[first EXCEPT !.seen = seen] EXCEPT !.built = built]
<1>1. /\ RunOf(p) \in RunRows /\ RunOf(p) = runs[proc[p].run] /\ n \in Nat
      /\ DOMAIN RunOf(p).steps = 1 .. n /\ proc[p].run \in DOMAIN runs
  BY BusyType
<1>2. n \in DOMAIN RunOf(p).steps
  BY <1>1
<1>3. RunOf(p).steps[n] \in StepRows
  <2>1. RunOf(p).steps \in Seq(StepRows)
    BY <1>1 DEF RunRows
  <2>2. QED
    BY <1>2, <2>1
<1>4. new \in StepRows /\ new.status = RunOf(p).steps[n].status /\ new.committed
  BY <1>3 DEF StepRows
<1>5. runs' = [runs EXCEPT ![proc[p].run] = row]
  <2>1. runs' = [[[runs EXCEPT ![proc[p].run] = first]
                    EXCEPT ![proc[p].run] = [first EXCEPT !.seen = seen]]
                    EXCEPT ![proc[p].run] = row]
    <3>1. first.seen = RunOf(p).seen /\ [first EXCEPT !.seen = seen].built = RunOf(p).built
      BY <1>1 DEF RunRows
    <3>2. QED
      BY <1>1, <3>1 DEF Committed
  <2> HIDE DEF first, row
  <2>2. QED
    BY <2>1
<1> HIDE DEF new
<1>6. /\ first \in RunRows
      /\ first.plan = RunOf(p).plan /\ first.status = RunOf(p).status /\ first.cut = RunOf(p).cut
      /\ Len(first.steps) = Len(RunOf(p).steps) /\ DOMAIN first.steps = 1 .. n
      /\ \A k \in 1 .. n : first.steps[k] = IF k = n THEN new ELSE RunOf(p).steps[k]
  <2> HIDE DEF n
  <2>1. QED
    BY <1>1, <1>2, <1>4, StepRewrite
<1>7. seen \in SUBSET AlertIds /\ built \in SUBSET Days
  <2>1. tx[p] \in [step : {StepOf(p)}, rows : Written(StepOf(p))]
    BY DEF TypeOK
  <2>2. StepOf(p) = "generate_recommendations" => tx[p].rows \subseteq AlertIds
    BY <2>1, StepNames DEF Written
  <2>3. StepOf(p) = "build_metric_daily" => DOMAIN tx[p].rows \subseteq Days
    BY <2>1, StepNames, TableShape DEF Written
  <2>4. QED
    BY <1>1, <2>2, <2>3 DEF RunRows
<1> HIDE DEF first, seen, built
<1>8. /\ row \in RunRows /\ row.plan = first.plan /\ row.status = first.status
      /\ row.cut = first.cut /\ row.steps = first.steps
      /\ row.seen = seen /\ row.built = built
  BY <1>6, <1>7 DEF RunRows
<1> HIDE DEF row
<1>9. Done(p, row)
  BY <1>1, <1>4, <1>6, <1>8, SMTT(30) DEF Done, StepNo, seen, built
<1>10. QED
  BY <1>5, <1>8, <1>9

LEMMA CommitMoves ==
  ASSUME TypeInv, NEW p \in Processes, Commit(p)
  PROVE  /\ Busy(p) /\ proc[p].at = "executed" /\ StepNo(p) > 0
         /\ \E row \in RunRows, at \in {"committed", "unrecorded"} :
              /\ Moves(p, row, at, NoTx)
              /\ \/ Done(p, row) /\ db' = Apply(StepOf(p), tx[p].rows)
                 \/ row = RunOf(p) /\ UNCHANGED db /\ at = "unrecorded"
<1>1. Busy(p) /\ proc[p].at = "executed" /\ StepNo(p) > 0
  BY DEF Commit, Busy, Idle, TypeInv, AtStep
<1>2. tx' = [tx EXCEPT ![p] = NoTx]
  BY DEF Commit
<1>3. ASSUME NEW at \in {"committed", "unrecorded"}, Go(p, at), Committed(p)
      PROVE  \E row \in RunRows : Moves(p, row, at, NoTx) /\ Done(p, row)
  <2>1. proc' = [proc EXCEPT ![p] = IF at = "idle" THEN Idle ELSE [at |-> at, run |-> proc[p].run]]
    BY <1>1, <1>3, GoMoves DEF Working, TypeInv
  <2>2. QED
    BY <1>1, <1>2, <1>3, <2>1, CommittedMoves DEF Moves, TypeInv
<1>4. ASSUME Go(p, "unrecorded"), UNCHANGED runs
      PROVE  Moves(p, RunOf(p), "unrecorded", NoTx)
  BY <1>1, <1>2, <1>4, GoMoves, SameRow DEF Moves, Working, TypeInv
<1>5. RunOf(p) \in RunRows
  BY <1>1, BusyType DEF TypeInv
<1>6. QED
  BY <1>1, <1>3, <1>4, <1>5 DEF Commit, Committed

LEMMA CompleteStepMoves ==
  ASSUME TypeInv, NEW p \in Processes, CompleteStep(p)
  PROVE  /\ Busy(p) /\ proc[p].at = "committed" /\ StepNo(p) > 0 /\ UNCHANGED db
         /\ \E row \in RunRows, at \in {"between", "aborting"} :
              /\ Moves(p, row, at, NoTx)
              /\ Recorded(p, row, "completed") \/ (row = RunOf(p) /\ at = "aborting")
<1>1. Busy(p) /\ proc[p].at = "committed" /\ StepNo(p) > 0
  BY DEF CompleteStep, Busy, Idle, TypeInv, AtStep
<1>2. tx' = [tx EXCEPT ![p] = NoTx]
  BY <1>1 DEF TypeInv, TypeOK, CompleteStep
<1>3. ASSUME NEW at \in {"between", "aborting"}, Go(p, at), RecordStep(p, "completed")
      PROVE  \E row \in RunRows : Moves(p, row, at, NoTx) /\ Recorded(p, row, "completed")
  <2>1. proc' = [proc EXCEPT ![p] = IF at = "idle" THEN Idle ELSE [at |-> at, run |-> proc[p].run]]
    BY <1>1, <1>3, GoMoves DEF Working, TypeInv
  <2>2. QED
    BY <1>1, <1>2, <1>3, <2>1, RecordMoves DEF Moves, TypeInv
<1>4. ASSUME Go(p, "aborting"), UNCHANGED runs
      PROVE  Moves(p, RunOf(p), "aborting", NoTx)
  BY <1>1, <1>2, <1>4, GoMoves, SameRow DEF Moves, Working, TypeInv
<1>5. RunOf(p) \in RunRows
  BY <1>1, BusyType DEF TypeInv
<1>6. QED
  BY <1>1, <1>3, <1>4, <1>5 DEF CompleteStep

LEMMA FailStepMoves ==
  ASSUME TypeInv, NEW p \in Processes, FailStep(p)
  PROVE  /\ Busy(p) /\ proc[p].at = "unrecorded" /\ StepNo(p) > 0 /\ UNCHANGED db
         /\ \E row \in RunRows : /\ Moves(p, row, "aborting", NoTx)
                                 /\ Recorded(p, row, "failed") \/ row = RunOf(p)
<1>1. Busy(p) /\ proc[p].at = "unrecorded" /\ StepNo(p) > 0
  BY DEF FailStep, Busy, Idle, TypeInv, AtStep
<1>2. tx' = [tx EXCEPT ![p] = NoTx]
  BY <1>1 DEF TypeInv, TypeOK, FailStep
<1>3. proc' = [proc EXCEPT ![p] = IF "aborting" = "idle" THEN Idle
                                  ELSE [at |-> "aborting", run |-> proc[p].run]]
  BY <1>1, GoMoves DEF FailStep, Working, TypeInv
<1>4. ASSUME RecordStep(p, "failed")
      PROVE  \E row \in RunRows : Moves(p, row, "aborting", NoTx) /\ Recorded(p, row, "failed")
  BY <1>1, <1>2, <1>3, <1>4, RecordMoves DEF Moves, TypeInv
<1>5. ASSUME UNCHANGED runs
      PROVE  Moves(p, RunOf(p), "aborting", NoTx) /\ RunOf(p) \in RunRows
  BY <1>1, <1>2, <1>3, <1>5, SameRow, BusyType DEF Moves, TypeInv
<1>6. QED
  BY <1>1, <1>4, <1>5 DEF FailStep

\* CompleteRun, the end that the audit row does not show, and the process's own end.
LEMMA EndMoves ==
  ASSUME TypeOK, NEW p \in Processes, Busy(p), tx' = [tx EXCEPT ![p] = NoTx],
         proc' = [proc EXCEPT ![p] = Idle],
         NEW status \in {"running", "completed", "failed"},
         \/ runs' = [runs EXCEPT ![proc[p].run].status = status]
         \/ runs' = [runs EXCEPT ![proc[p].run].cut = TRUE]
  PROVE  \E row \in RunRows :
           /\ Moves(p, row, "idle", NoTx)
           /\ \/ Ended(p, row, status, RunOf(p).cut)
              \/ Ended(p, row, RunOf(p).status, TRUE)
<1>1. RunOf(p) \in RunRows /\ RunOf(p) = runs[proc[p].run]
  BY BusyType
<1> DEFINE a == [RunOf(p) EXCEPT !.status = status]
           b == [RunOf(p) EXCEPT !.cut = TRUE]
<1>2. a \in RunRows /\ Ended(p, a, status, RunOf(p).cut)
  BY <1>1 DEF RunRows, Ended
<1>3. b \in RunRows /\ Ended(p, b, RunOf(p).status, TRUE)
  BY <1>1 DEF RunRows, Ended
<1>4. runs' = [runs EXCEPT ![proc[p].run] = a] \/ runs' = [runs EXCEPT ![proc[p].run] = b]
  BY <1>1
<1> HIDE DEF a, b
<1>5. QED
  BY <1>2, <1>3, <1>4 DEF Moves

LEMMA FailRunMoves ==
  ASSUME TypeOK, NEW p \in Processes, FailRun(p)
  PROVE  /\ Busy(p) /\ UNCHANGED db
         /\ \E row \in RunRows :
              /\ Moves(p, row, "idle", NoTx)
              /\ Ended(p, row, "failed", RunOf(p).cut) \/ Ended(p, row, RunOf(p).status, TRUE)
<1>1. Busy(p) /\ proc[p].at = "aborting"
  BY DEF FailRun, Busy, Idle
<1>2. tx' = [tx EXCEPT ![p] = NoTx] /\ proc' = [proc EXCEPT ![p] = Idle] /\ UNCHANGED db
  BY <1>1 DEF TypeOK, FailRun, EndRun
<1>3. QED
  BY <1>1, <1>2, EndMoves DEF FailRun, EndRun

LEMMA CompleteRunMoves ==
  ASSUME TypeOK, NEW p \in Processes, CompleteRun(p)
  PROVE  /\ Busy(p) /\ proc[p].at = "between" /\ StepNo(p) = Len(RunOf(p).plan) /\ UNCHANGED db
         /\ \E row \in RunRows :
              /\ Moves(p, row, "idle", NoTx)
              /\ Ended(p, row, "completed", RunOf(p).cut) \/ Ended(p, row, RunOf(p).status, TRUE)
<1>1. Busy(p) /\ proc[p].at = "between" /\ StepNo(p) = Len(RunOf(p).plan)
  BY DEF CompleteRun, Busy, Idle
<1>2. tx' = [tx EXCEPT ![p] = NoTx] /\ proc' = [proc EXCEPT ![p] = Idle] /\ UNCHANGED db
  BY <1>1 DEF TypeOK, CompleteRun, EndRun
<1>3. QED
  BY <1>1, <1>2, EndMoves DEF CompleteRun, EndRun

LEMMA CutMoves ==
  ASSUME TypeOK, NEW p \in Processes, Cut(p)
  PROVE  /\ Busy(p) /\ UNCHANGED db
         /\ \E row \in RunRows :
              Moves(p, row, "idle", NoTx) /\ Ended(p, row, RunOf(p).status, TRUE)
<1>1. Busy(p)
  BY DEF Cut, Busy
<1>2. RunOf(p).status \in {"running", "completed", "failed"} /\ RunOf(p) \in RunRows
  BY <1>1, BusyType DEF RunRows
<1> DEFINE row == [RunOf(p) EXCEPT !.cut = TRUE]
<1>3. row \in RunRows /\ Ended(p, row, RunOf(p).status, TRUE)
  BY <1>2 DEF RunRows, Ended
<1>4. Moves(p, row, "idle", NoTx)
  BY <1>1, BusyType DEF Cut, Moves
<1>5. QED
  BY <1>1, <1>3, <1>4 DEF Cut

\* StartRun adds the row of a run that has not done anything; a process works
\* on it unless the answer was an error.
Started(p, plan, row, n) ==
  /\ row.plan = plan /\ row.status = "running" /\ row.steps = << >> /\ row.seen = {}
  /\ row.built = {}
  /\ UNCHANGED <<db, tx>> /\ ~ Busy(p)
  /\ runs' \in Seq(RunRows) /\ DOMAIN runs' = DOMAIN runs \cup {n} /\ n \notin DOMAIN runs
  /\ runs'[n] = row /\ \A r \in DOMAIN runs : runs'[r] = runs[r]
  /\ \A q \in Processes \ {p} : proc'[q] = proc[q]
  /\ \A q \in Processes : Busy(q) => q # p /\ RunOf(q)' = RunOf(q) /\ StepOf(q)' = StepOf(q)
  /\ \A r \in DOMAIN runs : Owner(r)' = Owner(r)
  /\ \/ proc'[p] = [at |-> "between", run |-> n] /\ Owner(n)' = {p} /\ RunOf(p)' = row
     \/ proc'[p] = proc[p] /\ Owner(n)' = {} /\ row.cut

LEMMA StartRunFrame ==
  ASSUME TypeOK, NEW p \in Processes, NEW plan \in Plans, StartRun(p, plan)
  PROVE  \E row \in RunRows, n \in Nat :
           Started(p, plan, row, n)
<1>1. runs \in Seq(RunRows) /\ proc \in [Processes -> Positions]
  BY DEF TypeOK
<1>2. proc[p] = Idle /\ UNCHANGED <<db, tx>>
  BY DEF StartRun
<1>3. ASSUME NEW cut \in BOOLEAN
      PROVE  NewRun(plan, cut) \in RunRows
  <2>1. << >> \in Seq(StepRows)
    OBVIOUS
  <2>2. QED
    BY <2>1 DEF NewRun, RunRows
<1>4. PICK cut \in BOOLEAN :
        /\ runs' = Append(runs, NewRun(plan, cut))
        /\ \/ proc' = [proc EXCEPT ![p] = [at |-> "between", run |-> Len(runs) + 1]]
           \/ UNCHANGED proc /\ cut
  BY DEF StartRun
<1>a. PICK row : row = NewRun(plan, cut)
  OBVIOUS
<1>b. PICK n : n = Len(runs) + 1
  OBVIOUS
<1>5. /\ row \in RunRows /\ row.plan = plan /\ row.status = "running" /\ row.steps = << >>
      /\ row.seen = {} /\ row.built = {} /\ row.cut = cut
  BY <1>3, <1>a DEF NewRun
<1>6. /\ runs' \in Seq(RunRows) /\ DOMAIN runs' = DOMAIN runs \cup {n} /\ n \notin DOMAIN runs
      /\ n \in Nat /\ runs'[n] = row /\ \A r \in DOMAIN runs : runs'[r] = runs[r]
  <2>1. runs' = Append(runs, row)
    BY <1>4, <1>a
  <2>2. QED
    BY <1>1, <1>5, <1>b, <2>1
<1>7. ASSUME NEW q \in Processes, Busy(q)
      PROVE  q # p /\ proc'[q] = proc[q] /\ proc[q].run \in DOMAIN runs
             /\ RunOf(q)' = RunOf(q) /\ StepOf(q)' = StepOf(q)
  <2>1. q # p /\ proc'[q] = proc[q] /\ proc[q].run \in DOMAIN runs
    BY <1>1, <1>2, <1>4, <1>7, BusyType DEF Busy
  <2>2. QED
    BY <1>6, <2>1 DEF RunOf, StepOf, StepNo
<1>8. ASSUME NEW r \in DOMAIN runs PROVE r # n
  BY <1>6
<1>9. CASE proc' = [proc EXCEPT ![p] = [at |-> "between", run |-> n]]
  <2>1. proc'[p] = [at |-> "between", run |-> n] /\ \A q \in Processes \ {p} : proc'[q] = proc[q]
    BY <1>1, <1>9
  <2>2. RunOf(p)' = row
    BY <1>6, <2>1 DEF RunOf
  <2>3. proc'[p] # Idle /\ proc'[p].run = n
    BY <2>1 DEF Idle
  <2>4. Owner(n)' = {p}
    <3>1. \A q \in Processes \ {p} : proc'[q] # Idle => proc'[q].run # n
      BY <1>6, <1>7, <2>1 DEF Busy
    <3>2. QED
      BY <2>3, <3>1 DEF Owner
  <2>5. ASSUME NEW r \in DOMAIN runs PROVE Owner(r)' = Owner(r)
    BY <1>2, <1>8, <2>1, <2>3 DEF Owner
  <2>6. Started(p, plan, row, n)
    BY <1>2, <1>5, <1>6, <1>7, <2>1, <2>2, <2>4, <2>5 DEF Started, Busy
  <2>7. QED
    BY <1>5, <1>6, <2>6
<1>10. CASE UNCHANGED proc /\ cut
  <2>1. Owner(n)' = {}
    BY <1>6, <1>7, <1>10 DEF Owner, Busy
  <2>2. ASSUME NEW r \in DOMAIN runs PROVE Owner(r)' = Owner(r)
    BY <1>10 DEF Owner
  <2>3. Started(p, plan, row, n)
    BY <1>2, <1>5, <1>6, <1>7, <1>10, <2>1, <2>2 DEF Started, Busy
  <2>4. QED
    BY <1>5, <1>6, <2>3
<1>11. QED
  BY <1>4, <1>9, <1>10, <1>b

LEMMA StartRunType ==
  ASSUME TypeInv, NEW p \in Processes, NEW plan \in Plans, StartRun(p, plan)
  PROVE  TypeInv'
<1> USE DEF TypeInv
<1>1. PICK row \in RunRows, n \in Nat : Started(p, plan, row, n)
  BY StartRunFrame
<1> USE <1>1 DEF Started
<1>2. proc' \in [Processes -> Positions']
  <2>1. Positions \subseteq Positions' /\ [at |-> "between", run |-> n] \in Positions'
    BY <1>1 DEF Positions
  <2>2. proc' = [proc EXCEPT ![p] = proc'[p]]
    BY <1>1 DEF StartRun, TypeOK
  <2>3. QED
    BY <1>1, <2>1, <2>2 DEF TypeOK
<1>3. \A r \in DOMAIN runs' :
        Len(runs'[r].steps) <= Len(runs'[r].plan) /\ \A q, s \in Owner(r)' : q = s
  <2>1. Len(row.plan) \in Nat /\ Len(row.steps) = 0
    BY <1>1, PlanShape
  <2>2. Len(row.steps) <= Len(row.plan)
    BY <2>1
  <2>3. QED
    BY <1>1, <2>2 DEF TypeOK
<1>4. ASSUME NEW q \in Processes
      PROVE  /\ tx'[q] \in CASE proc'[q].at = "executed" -> [step : {StepOf(q)'}, rows : Written(StepOf(q)')]
                            [] proc'[q].at = "failed" -> [step : {StepOf(q)'}]
                            [] OTHER -> {NoTx}
             /\ AtStep(q)'
  <2>1. CASE q = p
    <3>1. proc'[p].at \in {"between", "idle"} /\ proc[p].at = "idle"
      BY <1>1 DEF Busy, Idle
    <3>2. tx[p] = NoTx
      BY <3>1 DEF TypeOK
    <3>3. QED
      BY <1>1, <2>1, <3>1, <3>2 DEF AtStep
  <2>2. CASE q # p
    <3>1. proc'[q] = proc[q] /\ tx'[q] = tx[q]
      BY <1>1, <2>2
    <3>2. proc[q].at \in Working => StepOf(q)' = StepOf(q) /\ RunOf(q)' = RunOf(q)
      BY <1>1, PositionNames
    <3>3. /\ tx[q] \in CASE proc[q].at = "executed" -> [step : {StepOf(q)}, rows : Written(StepOf(q))]
                       [] proc[q].at = "failed" -> [step : {StepOf(q)}]
                       [] OTHER -> {NoTx}
      BY DEF TypeOK
    <3>4. AtStep(q)'
      BY <3>1, <3>2 DEF AtStep, StepNo, Working
    <3>5. QED
      BY <3>1, <3>2, <3>3, <3>4 DEF Working
  <2>3. QED
    BY <2>1, <2>2
<1>5. QED
  BY <1>1, <1>2, <1>3, <1>4 DEF TypeOK, Written

-----------------------------------------------------------------------------
(* Type correctness.                                                       *)

LEMMA MoveTypeInv ==
  ASSUME TypeInv, NEW p \in Processes, Busy(p), NEW row \in RunRows,
         row.plan = RunOf(p).plan, Len(row.steps) <= Len(row.plan),
         NEW at \in Working \cup {"idle"}, NEW t,
         t \in OpenTx(at, row.plan[Len(row.steps)]),
         at \in {"begun", "executed", "failed", "committed", "unrecorded"} =>
           Len(row.steps) \in 1 .. Len(row.plan),
         Moves(p, row, at, t), db' \in Databases
  PROVE  TypeInv'
<1>1. TypeOK'
  BY MoveType DEF TypeInv
<1>2. Framed(p, row, at, t)
  <2>1. TypeOK
    BY DEF TypeInv
  <2>2. QED
    BY <2>1, MoveFrame
<1>3. ASSUME NEW q \in Processes PROVE AtStep(q)'
  <2>1. CASE q = p
    <3>1. Len(row.steps) \in 1 .. Len(row.plan) => Len(row.steps) > 0
      <4>1. row.steps \in Seq(StepRows)
        BY DEF RunRows
      <4>2. QED
        BY <4>1
    <3>2. QED
      BY <1>2, <2>1, <3>1 DEF AtStep, StepNo, Framed
  <2>2. CASE q # p
    <3>1. proc[q].at \in Working => Busy(q)
      BY PositionNames DEF TypeInv
    <3>2. QED
      BY <1>2, <2>2, <3>1 DEF AtStep, StepNo, TypeInv, Working, Framed
  <2>3. QED
    BY <2>1, <2>2
<1>4. QED
  BY <1>1, <1>3 DEF TypeInv

\* What the steps of a process that works on a run start from.
LEMMA BusyFacts ==
  ASSUME TypeInv, NEW p \in Processes, Busy(p)
  PROVE  /\ RunOf(p) \in RunRows /\ StepNo(p) = Len(RunOf(p).steps) /\ StepNo(p) \in Nat
         /\ Len(RunOf(p).plan) \in Nat /\ StepNo(p) <= Len(RunOf(p).plan)
         /\ StepOf(p) = RunOf(p).plan[StepNo(p)]
         /\ StepNo(p) > 0 => StepNo(p) \in 1 .. Len(RunOf(p).plan) /\ StepOf(p) \in Steps
         /\ db \in Databases
<1>1. RunOf(p) \in RunRows /\ StepNo(p) \in Nat /\ StepNo(p) <= Len(RunOf(p).plan)
  BY BusyType DEF TypeInv
<1>2. RunOf(p).plan \in Plans
  BY <1>1 DEF RunRows
<1>3. Len(RunOf(p).plan) \in Nat
  BY <1>2, PlanShape
<1>4. StepNo(p) > 0 => StepNo(p) \in 1 .. Len(RunOf(p).plan)
  BY <1>1, <1>3
<1>5. StepNo(p) > 0 => StepOf(p) \in Steps
  BY <1>2, <1>4, PlanShape DEF StepOf
<1>6. QED
  BY <1>1, <1>3, <1>4, <1>5 DEF StepNo, StepOf, TypeInv, TypeOK

LEMMA AdvanceType ==
  ASSUME TypeInv, NEW p \in Processes, Advance(p) \/ Cut(p)
  PROVE  TypeInv'
<1>a. ASSUME NEW s PROVE /\ NoTx \in OpenTx("begun", s) /\ NoTx \in OpenTx("between", s)
                         /\ NoTx \in OpenTx("committed", s) /\ NoTx \in OpenTx("unrecorded", s)
                         /\ NoTx \in OpenTx("aborting", s) /\ NoTx \in OpenTx("idle", s)
  BY DEF OpenTx
<1>1. CASE StartStep(p)
  <2>1. Busy(p) /\ StepNo(p) < Len(RunOf(p).plan) /\ UNCHANGED db
    BY <1>1, StartStepMoves DEF TypeInv
  <2>2. PICK row \in RunRows, at \in {"begun", "unrecorded", "aborting"} :
          /\ Moves(p, row, at, NoTx)
          /\ Appended(p, row) \/ (row = RunOf(p) /\ at = "aborting")
    BY <1>1, StartStepMoves DEF TypeInv
  <2>3. /\ row.plan = RunOf(p).plan /\ Len(row.steps) <= Len(row.plan)
        /\ at # "aborting" => Len(row.steps) \in 1 .. Len(row.plan)
        /\ db' \in Databases
    BY <2>1, <2>2, BusyFacts DEF Appended
  <2>4. NoTx \in OpenTx(at, row.plan[Len(row.steps)]) /\ at \in Working
    BY <1>a, <2>2 DEF Working
  <2>5. QED
    BY <2>1, <2>2, <2>3, <2>4, MoveTypeInv
<1>2. CASE Execute(p)
  <2>1. Busy(p) /\ proc[p].at = "begun" /\ UNCHANGED db
    BY <1>2, ExecuteMoves DEF TypeInv
  <2>2. StepNo(p) > 0
    BY <2>1 DEF TypeInv, AtStep
  <2>3. /\ RunOf(p) \in RunRows /\ db' \in Databases /\ db \in Databases /\ StepOf(p) \in Steps
        /\ Len(RunOf(p).steps) <= Len(RunOf(p).plan)
        /\ Len(RunOf(p).steps) \in 1 .. Len(RunOf(p).plan)
        /\ StepOf(p) = RunOf(p).plan[Len(RunOf(p).steps)]
    BY <2>1, <2>2, BusyFacts
  <2>4. CASE \E rows \in RowsOf(StepOf(p)) :
               Moves(p, RunOf(p), "executed", [step |-> StepOf(p), rows |-> rows])
    <3>1. PICK rows \in RowsOf(StepOf(p)) :
            Moves(p, RunOf(p), "executed", [step |-> StepOf(p), rows |-> rows])
      BY <2>4
    <3>2. rows \in Written(StepOf(p))
      BY <2>3, RowsType
    <3>3. [step |-> StepOf(p), rows |-> rows] \in OpenTx("executed", RunOf(p).plan[Len(RunOf(p).steps)])
      BY <2>3, <3>2 DEF OpenTx
    <3>4. QED
      BY <2>1, <2>3, <3>1, <3>3, MoveTypeInv DEF Working
  <2>5. CASE Moves(p, RunOf(p), "failed", [step |-> StepOf(p)])
    <3>1. [step |-> StepOf(p)] \in OpenTx("failed", RunOf(p).plan[Len(RunOf(p).steps)])
      BY <2>3 DEF OpenTx
    <3>2. QED
      BY <2>1, <2>3, <2>5, <3>1, MoveTypeInv DEF Working
  <2>6. QED
    BY <1>2, <2>4, <2>5, ExecuteMoves DEF TypeInv
<1>3. CASE Rollback(p)
  <2>1. Busy(p) /\ proc[p].at = "failed" /\ UNCHANGED db /\ Moves(p, RunOf(p), "unrecorded", NoTx)
    BY <1>3, RollbackMoves DEF TypeInv
  <2>2. StepNo(p) > 0
    BY <2>1 DEF TypeInv, AtStep
  <2>3. /\ RunOf(p) \in RunRows /\ db' \in Databases
        /\ Len(RunOf(p).steps) <= Len(RunOf(p).plan)
        /\ Len(RunOf(p).steps) \in 1 .. Len(RunOf(p).plan)
    BY <2>1, <2>2, BusyFacts
  <2>4. NoTx \in OpenTx("unrecorded", RunOf(p).plan[Len(RunOf(p).steps)])
    BY <1>a
  <2>5. QED
    BY <2>1, <2>3, <2>4, MoveTypeInv DEF Working
<1>4. CASE Commit(p)
  <2>1. Busy(p) /\ proc[p].at = "executed" /\ StepNo(p) > 0
    BY <1>4, CommitMoves
  <2>2. PICK row \in RunRows, at \in {"committed", "unrecorded"} :
          /\ Moves(p, row, at, NoTx)
          /\ \/ Done(p, row) /\ db' = Apply(StepOf(p), tx[p].rows)
             \/ row = RunOf(p) /\ UNCHANGED db /\ at = "unrecorded"
    BY <1>4, CommitMoves
  <2>3. StepOf(p) \in Steps /\ db \in Databases
    BY <2>1, BusyFacts
  <2>4. tx[p].rows \in Written(StepOf(p))
    BY <2>1 DEF TypeInv, TypeOK
  <2>5. db' \in Databases
    BY <2>2, <2>3, <2>4, ApplyType
  <2>6. /\ row.plan = RunOf(p).plan /\ Len(row.steps) <= Len(row.plan)
        /\ Len(row.steps) \in 1 .. Len(row.plan)
    BY <2>1, <2>2, BusyFacts DEF Done
  <2>7. NoTx \in OpenTx(at, row.plan[Len(row.steps)]) /\ at \in Working
    BY <1>a, <2>2 DEF Working
  <2>8. QED
    BY <2>1, <2>2, <2>5, <2>6, <2>7, MoveTypeInv
<1>5. CASE CompleteStep(p)
  <2>1. Busy(p) /\ StepNo(p) > 0 /\ UNCHANGED db
    BY <1>5, CompleteStepMoves
  <2>2. PICK row \in RunRows, at \in {"between", "aborting"} :
          /\ Moves(p, row, at, NoTx)
          /\ Recorded(p, row, "completed") \/ (row = RunOf(p) /\ at = "aborting")
    BY <1>5, CompleteStepMoves
  <2>3. row.plan = RunOf(p).plan /\ Len(row.steps) <= Len(row.plan) /\ db' \in Databases
    BY <2>1, <2>2, BusyFacts DEF Recorded
  <2>4. NoTx \in OpenTx(at, row.plan[Len(row.steps)]) /\ at \in Working
    BY <1>a, <2>2 DEF Working
  <2>5. QED
    BY <2>1, <2>2, <2>3, <2>4, MoveTypeInv
<1>6. CASE FailStep(p)
  <2>1. Busy(p) /\ StepNo(p) > 0 /\ UNCHANGED db
    BY <1>6, FailStepMoves
  <2>2. PICK row \in RunRows : Moves(p, row, "aborting", NoTx)
                               /\ (Recorded(p, row, "failed") \/ row = RunOf(p))
    BY <1>6, FailStepMoves
  <2>3. row.plan = RunOf(p).plan /\ Len(row.steps) <= Len(row.plan) /\ db' \in Databases
    BY <2>1, <2>2, BusyFacts DEF Recorded
  <2>4. NoTx \in OpenTx("aborting", row.plan[Len(row.steps)]) /\ "aborting" \in Working
    BY <1>a DEF Working
  <2>5. QED
    BY <2>1, <2>2, <2>3, <2>4, MoveTypeInv
<1>7. CASE FailRun(p) \/ CompleteRun(p) \/ Cut(p)
  <2>1. /\ Busy(p) /\ UNCHANGED db
        /\ \E row \in RunRows : \E status, cut : Moves(p, row, "idle", NoTx) /\ Ended(p, row, status, cut)
    BY <1>7, FailRunMoves, CompleteRunMoves, CutMoves DEF TypeInv
  <2>2. PICK row, status, cut :
        row \in RunRows /\ Moves(p, row, "idle", NoTx) /\ Ended(p, row, status, cut)
    BY <2>1
  <2>3. row.plan = RunOf(p).plan /\ Len(row.steps) <= Len(row.plan) /\ db' \in Databases
    BY <2>1, <2>2, BusyFacts DEF Ended
  <2>4. NoTx \in OpenTx("idle", row.plan[Len(row.steps)])
    BY <1>a
  <2>5. QED
    BY <2>1, <2>2, <2>3, <2>4, MoveTypeInv DEF Working
<1>8. QED
  BY <1>1, <1>2, <1>3, <1>4, <1>5, <1>6, <1>7 DEF Advance

LEMMA InitType == Init => TypeInv
<1> SUFFICES ASSUME Init PROVE TypeInv
  OBVIOUS
<1>1. NoRows \in DayTables
  <2>1. DOMAIN NoRows = {} /\ NoRows = [d \in DOMAIN NoRows |-> NoRows[d]]
    BY DEF NoRows
  <2>2. QED
    BY <2>1, TableShape
<1>2. db \in Databases
  BY <1>1 DEF Init, Databases
<1>3. ASSUME NEW p \in Processes PROVE proc[p].at = "idle" /\ tx[p] = NoTx
  BY DEF Init, Idle
<1>4. QED
  BY <1>2, <1>3 DEF Init, TypeInv, TypeOK, AtStep, Positions, Owner

LEMMA NextType == TypeInv /\ [Next]_vars => TypeInv'
<1> SUFFICES ASSUME TypeInv, [Next]_vars PROVE TypeInv'
  OBVIOUS
<1>1. CASE UNCHANGED vars
  BY <1>1 DEF vars, TypeInv, TypeOK, AtStep, Positions, Owner, RunOf, StepNo, StepOf, Written
<1>2. ASSUME NEW p \in Processes, NEW plan \in Plans, StartRun(p, plan) PROVE TypeInv'
  BY <1>2, StartRunType
<1>3. ASSUME NEW p \in Processes, Advance(p) \/ Cut(p) PROVE TypeInv'
  BY <1>3, AdvanceType
<1>4. QED
  BY <1>1, <1>2, <1>3 DEF Next

\* The state has its type: one process at most runs a run, no step record
\* exceeds the plan, and a transaction is open only in the step that opened
\* it, with rows of the kind that step writes.
THEOREM TypeCorrect == Spec => []TypeOK
<1>1. TypeInv => TypeOK
  BY DEF TypeInv
<1>2. QED
  BY <1>1, InitType, NextType, PTL DEF Spec

-----------------------------------------------------------------------------
(* The inductive invariants.                                               *)

RowTrue(run) ==
  /\ \A k \in DOMAIN run.steps :
       /\ run.steps[k].status = "completed" => run.steps[k].committed
       /\ k < Len(run.steps) => run.steps[k].status = "completed"
  /\ run.status = "completed" =>
       /\ Len(run.steps) = Len(run.plan)
       /\ \A k \in DOMAIN run.steps : run.steps[k].status = "completed"

\* What the row of a run says while a process works on it.
RowAt(at, run) ==
  /\ run.status = "running"
  /\ at = "between" => \A k \in DOMAIN run.steps : run.steps[k].status = "completed"
  /\ at \in {"begun", "executed", "failed", "committed", "unrecorded"} =>
       run.steps[Len(run.steps)].status = "running"
  /\ at = "committed" => run.steps[Len(run.steps)].committed

\* The audit rows agree with the transactions and with the processes.
RecordInv ==
  /\ \A r \in DOMAIN runs : RowTrue(runs[r])
  /\ RunningIsExplained
  /\ \A p \in Processes : Busy(p) => RowAt(proc[p].at, RunOf(p))

Committed8(run) == Len(run.steps) >= 8 /\ run.steps[8].committed
Committed9(run) == Len(run.steps) >= 9 /\ run.steps[9].committed

\* The alerts that a run saw have reached the tables of the steps it committed.
RowDelivered(run, tables) ==
  /\ run.seen \subseteq tables.recs
  /\ run.plan = AllSteps => /\ Committed8(run) => run.seen \subseteq tables.tasks
                            /\ Committed9(run) => run.seen \subseteq tables.events

\* They are in the rows that an open transaction is to add.
InTransit(p) ==
  proc[p].at = "executed" /\ RunOf(p).plan = AllSteps /\ StepNo(p) \in {8, 9} =>
    RunOf(p).seen \subseteq tx[p].rows

DeliveryInv ==
  /\ \A r \in DOMAIN runs : RowDelivered(runs[r], db)
  /\ \A p \in Processes : InTransit(p)

Refilling(p) == proc[p].at = "executed" /\ StepOf(p) = "build_metric_daily"

\* At most one transaction refills the daily metrics, with every day that
\* they have and with none that has no orders.
MetricInv ==
  /\ DOMAIN db.daily \subseteq DOMAIN db.orders
  /\ MetricsKeepOrders
  /\ \A p \in Processes : Refilling(p) =>
       /\ DOMAIN db.daily \subseteq DOMAIN tx[p].rows
       /\ DOMAIN tx[p].rows \subseteq DOMAIN db.orders
       /\ \A q \in Processes : Refilling(q) => p = q

-----------------------------------------------------------------------------
(* The audit rows.                                                         *)

LEMMA RecordsMove ==
  ASSUME TypeInv, RecordInv, NEW p \in Processes, Busy(p), NEW row \in RunRows,
         NEW at \in Working \cup {"idle"}, NEW t, Moves(p, row, at, t),
         RowTrue(row), at # "idle" => RowAt(at, row),
         at = "idle" /\ row.status = "running" => row.cut
  PROVE  RecordInv'
<1>1. Framed(p, row, at, t)
  <2>1. TypeOK
    BY DEF TypeInv
  <2>2. QED
    BY <2>1, MoveFrame
<1>2. \A r \in DOMAIN runs' : RowTrue(runs'[r])
  BY <1>1 DEF Framed, RecordInv
<1>3. ASSUME NEW r \in DOMAIN runs', runs'[r].status = "running", Owner(r)' = {}
      PROVE  runs'[r].cut
  <2>1. CASE r = proc[p].run
    <3>1. p \in Owner(r)
      BY <2>1 DEF Owner, Busy
    <3>2. at = "idle"
      BY <1>1, <1>3, <2>1, <3>1 DEF Framed
    <3>3. QED
      BY <1>1, <1>3, <2>1, <3>2 DEF Framed
  <2>2. CASE r # proc[p].run
    BY <1>1, <1>3, <2>2 DEF Framed, RecordInv, RunningIsExplained
  <2>3. QED
    BY <2>1, <2>2
<1>4. ASSUME NEW q \in Processes, Busy(q)' PROVE RowAt(proc[q].at, RunOf(q))'
  <2>1. CASE q = p
    <3>1. at # "idle"
      BY <1>1, <1>4, <2>1 DEF Framed, Busy
    <3>2. QED
      BY <1>1, <2>1, <3>1 DEF Framed
  <2>2. CASE q # p
    <3>1. Busy(q)
      BY <1>1, <1>4, <2>2 DEF Framed, Busy
    <3>2. QED
      BY <1>1, <2>2, <3>1 DEF Framed, RecordInv
  <2>3. QED
    BY <2>1, <2>2
<1>5. QED
  BY <1>2, <1>3, <1>4 DEF RecordInv, RunningIsExplained

LEMMA AdvanceRecords ==
  ASSUME TypeInv, RecordInv, NEW p \in Processes, Advance(p) \/ Cut(p)
  PROVE  RecordInv'
<1>1. ASSUME Busy(p)
      PROVE  /\ RunOf(p) \in RunRows /\ StepNo(p) = Len(RunOf(p).steps) /\ StepNo(p) \in Nat
             /\ DOMAIN RunOf(p).steps = 1 .. StepNo(p)
             /\ RowTrue(RunOf(p)) /\ RowAt(proc[p].at, RunOf(p))
  <2>1. proc[p].run \in DOMAIN runs /\ RunOf(p) = runs[proc[p].run] /\ DOMAIN RunOf(p).steps = 1 .. StepNo(p)
    BY <1>1, BusyType DEF TypeInv
  <2>2. QED
    BY <1>1, <2>1, BusyFacts DEF RecordInv
<1>2. CASE StartStep(p)
  <2>1. Busy(p) /\ proc[p].at = "between"
    BY <1>2, StartStepMoves DEF TypeInv
  <2>2. PICK row \in RunRows, at \in {"begun", "unrecorded", "aborting"} :
          /\ Moves(p, row, at, NoTx)
          /\ Appended(p, row) \/ (row = RunOf(p) /\ at = "aborting")
    BY <1>2, StartStepMoves DEF TypeInv
  <2>3. RowTrue(row) /\ RowAt(at, row)
    <3>1. CASE Appended(p, row)
      <4>1. \A k \in 1 .. StepNo(p) : row.steps[k].status = "completed" /\ row.steps[k].committed
        BY <1>1, <2>1, <3>1 DEF Appended, RowTrue, RowAt
      <4>2. row.steps[StepNo(p) + 1].status = "running"
        BY <3>1 DEF Appended, NewStep
      <4>3. DOMAIN row.steps = 1 .. StepNo(p) + 1 /\ Len(row.steps) = StepNo(p) + 1 /\ row.status = "running"
        BY <1>1, <2>1, <3>1 DEF Appended, RowAt
      <4>4. \A k \in 1 .. StepNo(p) + 1 : k # StepNo(p) + 1 => k \in 1 .. StepNo(p) /\ k < StepNo(p) + 1
        BY <1>1, <2>1
      <4>5. RowTrue(row)
        BY <4>1, <4>2, <4>3, <4>4 DEF RowTrue
      <4>6. QED
        BY <2>2, <4>2, <4>3, <4>5 DEF RowAt
    <3>2. CASE row = RunOf(p) /\ at = "aborting"
      BY <1>1, <2>1, <3>2 DEF RowAt
    <3>3. QED
      BY <2>2, <3>1, <3>2
  <2>4. at \in Working /\ at # "idle"
    BY <2>2 DEF Working
  <2>5. QED
    BY <2>1, <2>2, <2>3, <2>4, RecordsMove
<1>3. CASE Execute(p)
  <2>1. Busy(p) /\ proc[p].at = "begun"
    BY <1>3, ExecuteMoves DEF TypeInv
  <2>2. PICK at \in {"executed", "failed"} : \E t : Moves(p, RunOf(p), at, t)
    BY <1>3, ExecuteMoves DEF TypeInv
  <2>3. PICK t : Moves(p, RunOf(p), at, t)
    BY <2>2
  <2>4. RowAt(at, RunOf(p)) /\ at \in Working /\ at # "idle"
    BY <1>1, <2>1, <2>2 DEF RowAt, Working
  <2>5. QED
    BY <1>1, <2>1, <2>3, <2>4, RecordsMove
<1>4. CASE Rollback(p)
  <2>1. Busy(p) /\ proc[p].at = "failed" /\ Moves(p, RunOf(p), "unrecorded", NoTx)
    BY <1>4, RollbackMoves DEF TypeInv
  <2>2. RowAt("unrecorded", RunOf(p)) /\ "unrecorded" \in Working
    BY <1>1, <2>1 DEF RowAt, Working
  <2>3. QED
    BY <1>1, <2>1, <2>2, RecordsMove
<1>5. CASE Commit(p)
  <2>1. Busy(p) /\ proc[p].at = "executed" /\ StepNo(p) > 0
    BY <1>5, CommitMoves
  <2>2. PICK row \in RunRows, at \in {"committed", "unrecorded"} :
          /\ Moves(p, row, at, NoTx)
          /\ Done(p, row) \/ (row = RunOf(p) /\ at = "unrecorded")
    BY <1>5, CommitMoves
  <2>3. RowTrue(row) /\ RowAt(at, row)
    <3>1. CASE Done(p, row)
      BY <1>1, <2>1, <3>1 DEF Done, RowTrue, RowAt
    <3>2. CASE row = RunOf(p) /\ at = "unrecorded"
      BY <1>1, <2>1, <3>2 DEF RowAt
    <3>3. QED
      BY <2>2, <3>1, <3>2
  <2>4. at \in Working /\ at # "idle"
    BY <2>2 DEF Working
  <2>5. QED
    BY <2>1, <2>2, <2>3, <2>4, RecordsMove
<1>6. CASE CompleteStep(p)
  <2>1. Busy(p) /\ proc[p].at = "committed" /\ StepNo(p) > 0
    BY <1>6, CompleteStepMoves
  <2>2. PICK row \in RunRows, at \in {"between", "aborting"} :
          /\ Moves(p, row, at, NoTx)
          /\ Recorded(p, row, "completed") \/ (row = RunOf(p) /\ at = "aborting")
    BY <1>6, CompleteStepMoves
  <2>3. RowTrue(row) /\ RowAt(at, row)
    <3>1. CASE Recorded(p, row, "completed")
      BY <1>1, <2>1, <3>1 DEF Recorded, RowTrue, RowAt
    <3>2. CASE row = RunOf(p) /\ at = "aborting"
      BY <1>1, <2>1, <3>2 DEF RowAt
    <3>3. QED
      BY <2>2, <3>1, <3>2
  <2>4. at \in Working /\ at # "idle"
    BY <2>2 DEF Working
  <2>5. QED
    BY <2>1, <2>2, <2>3, <2>4, RecordsMove
<1>7. CASE FailStep(p)
  <2>1. Busy(p) /\ proc[p].at = "unrecorded" /\ StepNo(p) > 0
    BY <1>7, FailStepMoves
  <2>2. PICK row \in RunRows : Moves(p, row, "aborting", NoTx)
                               /\ (Recorded(p, row, "failed") \/ row = RunOf(p))
    BY <1>7, FailStepMoves
  <2>3. RowTrue(row) /\ RowAt("aborting", row)
    <3>1. CASE Recorded(p, row, "failed")
      BY <1>1, <2>1, <3>1 DEF Recorded, RowTrue, RowAt
    <3>2. CASE row = RunOf(p)
      BY <1>1, <2>1, <3>2 DEF RowAt
    <3>3. QED
      BY <2>2, <3>1, <3>2
  <2>4. "aborting" \in Working
    BY DEF Working
  <2>5. QED
    BY <2>1, <2>2, <2>3, <2>4, RecordsMove
<1>8. CASE FailRun(p)
  <2>1. Busy(p)
    BY <1>8, FailRunMoves DEF TypeInv
  <2>2. PICK row \in RunRows :
          /\ Moves(p, row, "idle", NoTx)
          /\ Ended(p, row, "failed", RunOf(p).cut) \/ Ended(p, row, RunOf(p).status, TRUE)
    BY <1>8, FailRunMoves DEF TypeInv
  <2>3. RowTrue(row) /\ (row.status = "running" => row.cut)
    BY <1>1, <2>1, <2>2 DEF Ended, RowTrue
  <2>4. QED
    BY <2>1, <2>2, <2>3, RecordsMove
<1>9. CASE CompleteRun(p)
  <2>1. Busy(p) /\ proc[p].at = "between" /\ StepNo(p) = Len(RunOf(p).plan)
    BY <1>9, CompleteRunMoves DEF TypeInv
  <2>2. PICK row \in RunRows :
          /\ Moves(p, row, "idle", NoTx)
          /\ Ended(p, row, "completed", RunOf(p).cut) \/ Ended(p, row, RunOf(p).status, TRUE)
    BY <1>9, CompleteRunMoves DEF TypeInv
  <2>3. RowTrue(row) /\ (row.status = "running" => row.cut)
    BY <1>1, <2>1, <2>2 DEF Ended, RowTrue, RowAt
  <2>4. QED
    BY <2>1, <2>2, <2>3, RecordsMove
<1>10. CASE Cut(p)
  <2>1. Busy(p)
    BY <1>10, CutMoves DEF TypeInv
  <2>2. PICK row \in RunRows : Moves(p, row, "idle", NoTx) /\ Ended(p, row, RunOf(p).status, TRUE)
    BY <1>10, CutMoves DEF TypeInv
  <2>3. RowTrue(row) /\ row.cut
    BY <1>1, <2>1, <2>2 DEF Ended, RowTrue
  <2>4. QED
    BY <2>1, <2>2, <2>3, RecordsMove
<1>11. QED
  BY <1>2, <1>3, <1>4, <1>5, <1>6, <1>7, <1>8, <1>9, <1>10 DEF Advance

LEMMA StartRunRecords ==
  ASSUME TypeInv, RecordInv, NEW p \in Processes, NEW plan \in Plans, StartRun(p, plan)
  PROVE  RecordInv'
<1>1. PICK row \in RunRows, n \in Nat : Started(p, plan, row, n)
  BY StartRunFrame DEF TypeInv
<1>2. RowTrue(row) /\ RowAt("between", row)
  BY <1>1 DEF Started, RowTrue, RowAt
<1>3. \A r \in DOMAIN runs' : RowTrue(runs'[r])
  BY <1>1, <1>2 DEF Started, RecordInv
<1>4. ASSUME NEW r \in DOMAIN runs', runs'[r].status = "running", Owner(r)' = {}
      PROVE  runs'[r].cut
  <2>1. CASE r = n
    BY <1>1, <1>4, <2>1 DEF Started
  <2>2. CASE r # n
    BY <1>1, <1>4, <2>2 DEF Started, RecordInv, RunningIsExplained
  <2>3. QED
    BY <2>1, <2>2
<1>5. ASSUME NEW q \in Processes, Busy(q)' PROVE RowAt(proc[q].at, RunOf(q))'
  <2>1. CASE q = p
    <3>1. proc'[p] = [at |-> "between", run |-> n] /\ RunOf(p)' = row
      BY <1>1, <1>5, <2>1 DEF Started, Busy
    <3>2. QED
      BY <1>2, <2>1, <3>1
  <2>2. CASE q # p
    <3>1. Busy(q) /\ proc'[q] = proc[q]
      BY <1>1, <1>5, <2>2 DEF Started, Busy
    <3>2. QED
      BY <1>1, <3>1 DEF Started, RecordInv
  <2>3. QED
    BY <2>1, <2>2
<1>6. QED
  BY <1>3, <1>4, <1>5 DEF RecordInv, RunningIsExplained

LEMMA NextRecords == TypeInv /\ RecordInv /\ [Next]_vars => RecordInv'
<1> SUFFICES ASSUME TypeInv, RecordInv, [Next]_vars PROVE RecordInv'
  OBVIOUS
<1>1. CASE UNCHANGED vars
  BY <1>1 DEF vars, RecordInv, RunningIsExplained, Owner, Busy, RunOf
<1>2. ASSUME NEW p \in Processes, NEW plan \in Plans, StartRun(p, plan) PROVE RecordInv'
  BY <1>2, StartRunRecords
<1>3. ASSUME NEW p \in Processes, Advance(p) \/ Cut(p) PROVE RecordInv'
  BY <1>3, AdvanceRecords
<1>4. QED
  BY <1>1, <1>2, <1>3 DEF Next

LEMMA InitRecords == Init => RecordInv
BY DEF Init, RecordInv, RunningIsExplained, Busy

LEMMA RecordsAreTrue == RecordInv => StepRecordsAreTrue /\ RunningIsExplained
BY DEF RecordInv, RowTrue, StepRecordsAreTrue

\* A run never goes on from a step that failed or whose record is unknown,
\* and what it records as completed was committed.
THEOREM RecordsTrue == Spec => []StepRecordsAreTrue
<1>1. QED
  BY InitType, NextType, InitRecords, NextRecords, RecordsAreTrue, PTL DEF Spec

\* A row that stays "running" has lost its process or a call that would have
\* ended it.
THEOREM RunningExplained == Spec => []RunningIsExplained
<1>1. QED
  BY InitType, NextType, InitRecords, NextRecords, RecordsAreTrue, PTL DEF Spec

-----------------------------------------------------------------------------
(* The rows that are delivered.                                            *)

\* The history of a run does not change, and none of its steps commits.
Quiet(p, row) ==
  /\ row.plan = RunOf(p).plan /\ row.seen = RunOf(p).seen /\ row.built = RunOf(p).built
  /\ Len(row.steps) \in Nat
  /\ \A k \in 1 .. Len(row.steps) :
       row.steps[k].committed => k \in 1 .. StepNo(p) /\ RunOf(p).steps[k].committed

\* The step that a transaction of p is open for, and what it wrote there.
Opens(p, row, at, t) ==
  /\ row = RunOf(p) /\ at = "executed" /\ StepNo(p) > 0 /\ ~ Blocked(p, StepOf(p))
  /\ t.rows \in RowsOf(StepOf(p))

Closes(p, row, at) ==
  /\ Done(p, row) /\ at # "executed" /\ proc[p].at = "executed" /\ StepNo(p) > 0
  /\ db' = Apply(StepOf(p), tx[p].rows)

LEMMA AdvanceShape ==
  ASSUME TypeInv, NEW p \in Processes, Advance(p) \/ Cut(p)
  PROVE  /\ Busy(p)
         /\ \E row \in RunRows, at \in Working \cup {"idle"} : \E t :
              /\ Moves(p, row, at, t)
              /\ \/ Quiet(p, row) /\ at # "executed" /\ UNCHANGED db
                 \/ Opens(p, row, at, t) /\ UNCHANGED db
                 \/ Closes(p, row, at)
<1>1. ASSUME Busy(p)
      PROVE  /\ RunOf(p) \in RunRows /\ StepNo(p) = Len(RunOf(p).steps) /\ StepNo(p) \in Nat
             /\ Quiet(p, RunOf(p))
  BY <1>1, BusyFacts DEF Quiet
<1>2. CASE StartStep(p)
  <2>1. Busy(p) /\ UNCHANGED db
    BY <1>2, StartStepMoves DEF TypeInv
  <2>2. PICK row \in RunRows, at \in {"begun", "unrecorded", "aborting"} :
          /\ Moves(p, row, at, NoTx)
          /\ Appended(p, row) \/ (row = RunOf(p) /\ at = "aborting")
    BY <1>2, StartStepMoves DEF TypeInv
  <2>3. ASSUME Appended(p, row) PROVE Quiet(p, row)
    <3>1. ~ row.steps[StepNo(p) + 1].committed
      BY <2>3 DEF Appended, NewStep
    <3>2. \A k \in 1 .. StepNo(p) + 1 : k # StepNo(p) + 1 => k \in 1 .. StepNo(p)
      BY <1>1, <2>1
    <3>3. QED
      BY <1>1, <2>1, <2>3, <3>1, <3>2 DEF Appended, Quiet
  <2>4. at \in Working \cup {"idle"} /\ at # "executed"
    BY <2>2 DEF Working
  <2>5. QED
    BY <1>1, <2>1, <2>2, <2>3, <2>4
<1>3. CASE Execute(p)
  <2>1. Busy(p) /\ proc[p].at = "begun" /\ UNCHANGED db /\ ~ Blocked(p, StepOf(p))
    BY <1>3, ExecuteMoves DEF TypeInv
  <2>2. StepNo(p) > 0
    BY <2>1 DEF TypeInv, AtStep
  <2>3. CASE \E rows \in RowsOf(StepOf(p)) :
               Moves(p, RunOf(p), "executed", [step |-> StepOf(p), rows |-> rows])
    <3>1. PICK rows \in RowsOf(StepOf(p)) :
            Moves(p, RunOf(p), "executed", [step |-> StepOf(p), rows |-> rows])
      BY <2>3
    <3>2. Opens(p, RunOf(p), "executed", [step |-> StepOf(p), rows |-> rows])
      BY <2>1, <2>2 DEF Opens
    <3>3. RunOf(p) \in RunRows /\ "executed" \in Working
      BY <1>1, <2>1 DEF Working
    <3>4. QED
      BY <2>1, <3>1, <3>2, <3>3
  <2>4. CASE Moves(p, RunOf(p), "failed", [step |-> StepOf(p)])
    <3>1. "failed" \in Working
      BY DEF Working
    <3>2. QED
      BY <1>1, <2>1, <2>4, <3>1
  <2>5. QED
    BY <1>3, <2>3, <2>4, ExecuteMoves DEF TypeInv
<1>4. CASE Rollback(p)
  <2>1. Busy(p) /\ UNCHANGED db /\ Moves(p, RunOf(p), "unrecorded", NoTx)
    BY <1>4, RollbackMoves DEF TypeInv
  <2>2. "unrecorded" \in Working
    BY DEF Working
  <2>3. QED
    BY <1>1, <2>1, <2>2
<1>5. CASE Commit(p)
  <2>1. Busy(p) /\ proc[p].at = "executed" /\ StepNo(p) > 0
    BY <1>5, CommitMoves
  <2>2. PICK row \in RunRows, at \in {"committed", "unrecorded"} :
          /\ Moves(p, row, at, NoTx)
          /\ \/ Done(p, row) /\ db' = Apply(StepOf(p), tx[p].rows)
             \/ row = RunOf(p) /\ UNCHANGED db /\ at = "unrecorded"
    BY <1>5, CommitMoves
  <2>3. at \in Working \cup {"idle"} /\ at # "executed"
    BY <2>2 DEF Working
  <2>4. Closes(p, row, at) \/ (Quiet(p, row) /\ UNCHANGED db)
    BY <1>1, <2>1, <2>2, <2>3 DEF Closes
  <2>5. QED
    BY <2>1, <2>2, <2>3, <2>4
<1>6. ASSUME Busy(p), NEW row, NEW status, Recorded(p, row, status), StepNo(p) > 0 PROVE Quiet(p, row)
  BY <1>1, <1>6 DEF Recorded, Quiet
<1>7. CASE CompleteStep(p)
  <2>1. Busy(p) /\ StepNo(p) > 0 /\ UNCHANGED db
    BY <1>7, CompleteStepMoves
  <2>2. PICK row \in RunRows, at \in {"between", "aborting"} :
          /\ Moves(p, row, at, NoTx)
          /\ Recorded(p, row, "completed") \/ row = RunOf(p)
    BY <1>7, CompleteStepMoves
  <2>3. at \in Working \cup {"idle"} /\ at # "executed"
    BY <2>2 DEF Working
  <2>4. QED
    BY <1>1, <1>6, <2>1, <2>2, <2>3
<1>8. CASE FailStep(p)
  <2>1. Busy(p) /\ StepNo(p) > 0 /\ UNCHANGED db
    BY <1>8, FailStepMoves
  <2>2. PICK row \in RunRows : Moves(p, row, "aborting", NoTx)
                               /\ (Recorded(p, row, "failed") \/ row = RunOf(p))
    BY <1>8, FailStepMoves
  <2>3. "aborting" \in Working
    BY DEF Working
  <2>4. QED
    BY <1>1, <1>6, <2>1, <2>2, <2>3
<1>9. CASE FailRun(p) \/ CompleteRun(p) \/ Cut(p)
  <2>1. /\ Busy(p) /\ UNCHANGED db
        /\ \E row \in RunRows : \E status, cut : Moves(p, row, "idle", NoTx) /\ Ended(p, row, status, cut)
    BY <1>9, FailRunMoves, CompleteRunMoves, CutMoves DEF TypeInv
  <2>2. PICK row, status, cut :
        row \in RunRows /\ Moves(p, row, "idle", NoTx) /\ Ended(p, row, status, cut)
    BY <2>1
  <2>3. Quiet(p, row)
    BY <1>1, <2>1, <2>2 DEF Ended, Quiet
  <2>4. QED
    BY <2>1, <2>2, <2>3
<1>10. QED
  BY <1>2, <1>3, <1>4, <1>5, <1>7, <1>8, <1>9 DEF Advance

\* What a run saw stays where it is when the tables only grow.
LEMMA DeliveredStays ==
  ASSUME NEW run, NEW d, NEW e, RowDelivered(run, d),
         d.recs \subseteq e.recs, d.tasks \subseteq e.tasks, d.events \subseteq e.events
  PROVE  RowDelivered(run, e)
BY DEF RowDelivered

LEMMA DeliveryMove ==
  ASSUME TypeInv, DeliveryInv, NEW p \in Processes, Busy(p), NEW row \in RunRows,
         NEW at \in Working \cup {"idle"}, NEW t, Moves(p, row, at, t),
         db.recs \subseteq db'.recs, db.tasks \subseteq db'.tasks, db.events \subseteq db'.events,
         RowDelivered(row, db'),
         at = "executed" /\ row.plan = AllSteps /\ Len(row.steps) \in {8, 9} => row.seen \subseteq t.rows
  PROVE  DeliveryInv'
<1>1. Framed(p, row, at, t)
  <2>1. TypeOK
    BY DEF TypeInv
  <2>2. QED
    BY <2>1, MoveFrame
<1>2. ASSUME NEW r \in DOMAIN runs' PROVE RowDelivered(runs'[r], db')
  BY <1>1, DeliveredStays DEF Framed, DeliveryInv
<1>3. ASSUME NEW q \in Processes PROVE InTransit(q)'
  <2>1. CASE q = p
    <3>1. at = "executed" => at # "idle"
      OBVIOUS
    <3>2. QED
      BY <1>1, <2>1, <3>1 DEF Framed, InTransit, StepNo
  <2>2. CASE q # p
    <3>1. proc'[q] = proc[q] /\ tx'[q] = tx[q] /\ (Busy(q) => RunOf(q)' = RunOf(q))
      BY <1>1, <2>2 DEF Framed
    <3>2. proc[q].at = "executed" => Busy(q)
      BY DEF Busy, Idle
    <3>3. InTransit(q)
      BY DEF DeliveryInv
    <3>4. QED
      BY <3>1, <3>2, <3>3 DEF InTransit, StepNo
  <2>3. QED
    BY <2>1, <2>2
<1>4. QED
  BY <1>2, <1>3 DEF DeliveryInv

LEMMA AdvanceDelivery ==
  ASSUME TypeInv, RecordInv, DeliveryInv, NEW p \in Processes, Advance(p) \/ Cut(p)
  PROVE  DeliveryInv'
<1>1. Busy(p)
  BY AdvanceShape
<1>2. PICK row, at, t :
        /\ row \in RunRows /\ at \in Working \cup {"idle"}
        /\ Moves(p, row, at, t)
        /\ \/ Quiet(p, row) /\ at # "executed" /\ UNCHANGED db
           \/ Opens(p, row, at, t) /\ UNCHANGED db
           \/ Closes(p, row, at)
  BY AdvanceShape
<1>3. /\ RunOf(p) \in RunRows /\ StepNo(p) = Len(RunOf(p).steps) /\ StepNo(p) \in Nat
      /\ StepOf(p) = RunOf(p).plan[StepNo(p)] /\ db \in Databases
      /\ StepNo(p) > 0 => StepOf(p) \in Steps
  BY <1>1, BusyFacts
<1>4. RowDelivered(RunOf(p), db) /\ RowTrue(RunOf(p)) /\ DOMAIN RunOf(p).steps = 1 .. StepNo(p)
  <2>1. proc[p].run \in DOMAIN runs /\ RunOf(p) = runs[proc[p].run] /\ DOMAIN RunOf(p).steps = 1 .. StepNo(p)
    BY <1>1, BusyType DEF TypeInv
  <2>2. QED
    BY <2>1 DEF DeliveryInv, RecordInv
<1>5. CASE Quiet(p, row) /\ at # "executed" /\ UNCHANGED db
  <2>1. /\ Committed8(row) => Committed8(RunOf(p))
        /\ Committed9(row) => Committed9(RunOf(p))
    BY <1>3, <1>5 DEF Quiet, Committed8, Committed9
  <2>2. RowDelivered(row, db')
    BY <1>4, <1>5, <2>1 DEF Quiet, RowDelivered
  <2>3. QED
    BY <1>1, <1>2, <1>5, <2>2, DeliveryMove
<1>6. CASE Opens(p, row, at, t) /\ UNCHANGED db
  <2>1. RowDelivered(row, db')
    BY <1>4, <1>6 DEF Opens
  <2>2. ASSUME row.plan = AllSteps, Len(row.steps) \in {8, 9} PROVE row.seen \subseteq t.rows
    <3>1. StepOf(p) = AllSteps[StepNo(p)] /\ StepNo(p) \in {8, 9}
      BY <1>3, <1>6, <2>2 DEF Opens
    <3>2. CASE StepNo(p) = 8
      <4>1. StepOf(p) = "generate_tasks"
        BY <3>1, <3>2, StepNames
      <4>2. t.rows = db.recs
        BY <1>6, <4>1 DEF Opens, RowsOf, GenerateTasks
      <4>3. QED
        BY <1>4, <1>6, <4>2 DEF RowDelivered, Opens
    <3>3. CASE StepNo(p) = 9
      <4>1. StepOf(p) = "create_outbox_events"
        BY <3>1, <3>3, StepNames
      <4>2. t.rows = db.tasks
        BY <1>6, <4>1 DEF Opens, RowsOf, CreateOutboxEvents
      <4>3. Committed8(RunOf(p))
        BY <1>3, <1>4, <3>3 DEF RowTrue, Committed8
      <4>4. QED
        BY <1>4, <1>6, <2>2, <4>2, <4>3 DEF RowDelivered, Opens
    <3>4. QED
      BY <3>1, <3>2, <3>3
  <2>3. QED
    BY <1>1, <1>2, <1>6, <2>1, <2>2, DeliveryMove
<1>7. CASE Closes(p, row, at)
  <2>1. StepOf(p) \in Steps /\ tx[p].rows \in Written(StepOf(p))
    BY <1>3, <1>7 DEF Closes, TypeInv, TypeOK
  <2>2. /\ db.recs \subseteq db'.recs /\ db.tasks \subseteq db'.tasks /\ db.events \subseteq db'.events
        /\ StepOf(p) = "generate_recommendations" => tx[p].rows \subseteq db'.recs
        /\ StepOf(p) = "generate_tasks" => tx[p].rows \subseteq db'.tasks
        /\ StepOf(p) = "create_outbox_events" => tx[p].rows \subseteq db'.events
    BY <1>3, <1>7, <2>1, ApplyType DEF Closes
  <2>3. row.seen \subseteq db'.recs
    BY <1>4, <1>7, <2>2 DEF Closes, Done, RowDelivered
  <2>4. ASSUME row.plan = AllSteps
        PROVE  /\ Committed8(row) => row.seen \subseteq db'.tasks
               /\ Committed9(row) => row.seen \subseteq db'.events
    <3>1. /\ StepOf(p) = AllSteps[StepNo(p)] /\ StepNo(p) \in 1 .. 9 /\ Len(row.steps) = StepNo(p)
          /\ RunOf(p).plan = AllSteps
      <4>1. RunOf(p).plan = AllSteps /\ Len(row.steps) = StepNo(p) /\ StepNo(p) > 0
        BY <1>7, <2>4 DEF Closes, Done
      <4>2. StepNo(p) <= Len(RunOf(p).plan)
        BY <1>1, BusyFacts
      <4>3. Len(RunOf(p).plan) = 9
        <5>1. Len(AllSteps) = 9
          BY StepNames
        <5>2. QED
          BY <4>1, <5>1
      <4>4. StepNo(p) \in 1 .. 9
        <5>1. StepNo(p) \in Nat /\ StepNo(p) > 0 /\ StepNo(p) <= 9
          BY <1>3, <4>1, <4>2, <4>3
        <5>2. QED
          BY <5>1
      <4>5. QED
        BY <1>3, <4>1, <4>4
    <3>2. StepNo(p) \in {8, 9} => row.seen = RunOf(p).seen /\ RunOf(p).seen \subseteq tx[p].rows
      BY <1>7, <3>1, StepNames DEF Closes, Done, DeliveryInv, InTransit
    <3>3. CASE StepNo(p) < 8
      BY <3>1, <3>3 DEF Committed8, Committed9
    <3>4. CASE StepNo(p) = 8
      BY <2>2, <3>1, <3>2, <3>4, StepNames DEF Committed8, Committed9
    <3>5. CASE StepNo(p) = 9
      <4>1. Committed8(RunOf(p))
        BY <1>3, <1>4, <3>5 DEF RowTrue, Committed8
      <4>2. RunOf(p).seen \subseteq db.tasks
        BY <1>4, <3>1, <4>1 DEF RowDelivered
      <4>3. QED
        BY <2>2, <3>1, <3>2, <3>5, <4>2, StepNames
    <3>6. QED
      BY <3>1, <3>3, <3>4, <3>5
  <2>5. RowDelivered(row, db')
    BY <2>3, <2>4 DEF RowDelivered
  <2>6. at # "executed"
    BY <1>7 DEF Closes
  <2>7. QED
    BY <1>1, <1>2, <2>2, <2>5, <2>6, DeliveryMove
<1>8. QED
  BY <1>2, <1>5, <1>6, <1>7

LEMMA StartRunDelivery ==
  ASSUME TypeInv, DeliveryInv, NEW p \in Processes, NEW plan \in Plans, StartRun(p, plan)
  PROVE  DeliveryInv'
<1>1. PICK row \in RunRows, n \in Nat : Started(p, plan, row, n)
  BY StartRunFrame DEF TypeInv
<1>2. \A r \in DOMAIN runs' : RowDelivered(runs'[r], db')
  <2>1. RowDelivered(row, db')
    BY <1>1 DEF Started, RowDelivered
  <2>2. QED
    BY <1>1, <2>1 DEF Started, DeliveryInv
<1>3. ASSUME NEW q \in Processes, proc'[q].at = "executed" PROVE InTransit(q)'
  <2>1. q # p /\ proc'[q] = proc[q]
    BY <1>1, <1>3 DEF Started, Busy, Idle
  <2>2. Busy(q)
    BY <1>3, <2>1 DEF Busy, Idle
  <2>3. RunOf(q)' = RunOf(q) /\ tx' = tx
    BY <1>1, <2>2 DEF Started
  <2>4. QED
    BY <2>1, <2>3 DEF DeliveryInv, InTransit, StepNo
<1>4. QED
  BY <1>2, <1>3 DEF DeliveryInv, InTransit

LEMMA NextDelivery == TypeInv /\ RecordInv /\ DeliveryInv /\ [Next]_vars => DeliveryInv'
<1> SUFFICES ASSUME TypeInv, RecordInv, DeliveryInv, [Next]_vars PROVE DeliveryInv'
  OBVIOUS
<1>1. CASE UNCHANGED vars
  BY <1>1 DEF vars, DeliveryInv, InTransit, RunOf, StepNo
<1>2. ASSUME NEW p \in Processes, NEW plan \in Plans, StartRun(p, plan) PROVE DeliveryInv'
  BY <1>2, StartRunDelivery
<1>3. ASSUME NEW p \in Processes, Advance(p) \/ Cut(p) PROVE DeliveryInv'
  BY <1>3, AdvanceDelivery
<1>4. QED
  BY <1>1, <1>2, <1>3 DEF Next

LEMMA InitDelivery == Init => DeliveryInv
BY DEF Init, DeliveryInv, InTransit, Idle

LEMMA DeliveryHolds == TypeInv /\ RecordInv /\ DeliveryInv => CompletedRunDelivers
<1> SUFFICES ASSUME TypeInv, RecordInv, DeliveryInv, NEW r \in DOMAIN runs,
                    runs[r].plan = AllSteps, runs[r].status = "completed"
             PROVE  runs[r].seen \subseteq db.events
  BY DEF CompletedRunDelivers
<1>1. runs[r] \in RunRows
  BY DEF TypeInv, TypeOK
<1>2. RowTrue(runs[r]) /\ RowDelivered(runs[r], db)
  BY DEF RecordInv, DeliveryInv
<1>3. Len(runs[r].steps) = 9 /\ 9 \in DOMAIN runs[r].steps
  <2>1. runs[r].steps \in Seq(StepRows) /\ Len(runs[r].steps) = 9
    BY <1>1, <1>2, StepNames DEF RunRows, RowTrue
  <2>2. QED
    BY <2>1
<1>4. Committed9(runs[r])
  BY <1>2, <1>3 DEF RowTrue, Committed9
<1>5. QED
  BY <1>2, <1>4 DEF RowDelivered

\* Whatever other runs do meanwhile, a run of all steps that completes has an
\* outbox event for every alert that its recommendations come from.
THEOREM CompletedDelivers == Spec => []CompletedRunDelivers
<1>1. QED
  BY InitType, NextType, InitRecords, NextRecords, InitDelivery, NextDelivery, DeliveryHolds, PTL
     DEF Spec

-----------------------------------------------------------------------------
(* The days of the daily metrics.                                          *)

LEMMA RefillOpen ==
  ASSUME TypeInv, NEW p \in Processes, Refilling(p)
  PROVE  Busy(p) /\ tx[p].step = "build_metric_daily"
<1>1. tx[p] \in [step : {StepOf(p)}, rows : Written(StepOf(p))]
  BY DEF TypeInv, TypeOK, Refilling
<1>2. QED
  BY <1>1 DEF Refilling, Busy, Idle

\* Nobody else refills the table while p executes the step.
LEMMA RefillAlone ==
  ASSUME TypeInv, NEW p \in Processes, ~ Blocked(p, StepOf(p)), StepOf(p) = "build_metric_daily"
  PROVE  \A q \in Processes \ {p} : ~ Refilling(q)
<1> SUFFICES ASSUME NEW q \in Processes \ {p}, Refilling(q) PROVE FALSE
  OBVIOUS
<1>1. tx[q].step = "build_metric_daily"
  BY RefillOpen
<1>2. "daily" \in Truncated(StepOf(p)) \cap Touched(tx[q].step)
  BY <1>1 DEF Truncated, Touched
<1>3. QED
  BY <1>2 DEF Blocked

LEMMA MetricMove ==
  ASSUME TypeInv, MetricInv, NEW p \in Processes, Busy(p), NEW row \in RunRows,
         NEW at \in Working \cup {"idle"}, NEW t, Moves(p, row, at, t)
  PROVE  /\ \A r \in DOMAIN runs' : r \in DOMAIN runs /\ runs'[r] \in {row, runs[r]}
         /\ \A q \in Processes \ {p} : (Refilling(q)' <=> Refilling(q)) /\ tx'[q] = tx[q]
         /\ at # "executed" => ~ Refilling(p)'
         /\ at = "executed" => /\ Refilling(p)' <=> row.plan[Len(row.steps)] = "build_metric_daily"
                               /\ tx'[p] = t
<1>1. Framed(p, row, at, t)
  <2>1. TypeOK
    BY DEF TypeInv
  <2>2. QED
    BY <2>1, MoveFrame
<1>2. \A r \in DOMAIN runs' : r \in DOMAIN runs /\ runs'[r] \in {row, runs[r]}
  BY <1>1 DEF Framed
<1>3. ASSUME NEW q \in Processes \ {p}
      PROVE  (Refilling(q)' <=> Refilling(q)) /\ tx'[q] = tx[q]
  <2>1. proc[q].at = "executed" => Busy(q)
    BY DEF Busy, Idle
  <2>2. proc'[q] = proc[q] /\ tx'[q] = tx[q] /\ (Busy(q) => StepOf(q)' = StepOf(q))
    BY <1>1 DEF Framed
  <2>3. QED
    BY <2>1, <2>2 DEF Refilling
<1>4. at # "executed" => ~ Refilling(p)'
  BY <1>1 DEF Framed, Refilling
<1>5. ASSUME at = "executed"
      PROVE  (Refilling(p)' <=> row.plan[Len(row.steps)] = "build_metric_daily") /\ tx'[p] = t
  <2>1. RunOf(p)' = row /\ proc'[p].at = "executed" /\ tx'[p] = t
    BY <1>1, <1>5 DEF Framed
  <2>2. QED
    BY <2>1 DEF Refilling, StepOf, StepNo
<1>6. QED
  BY <1>2, <1>3, <1>4, <1>5

LEMMA AdvanceMetrics ==
  ASSUME TypeInv, MetricInv, NEW p \in Processes, Advance(p) \/ Cut(p)
  PROVE  MetricInv'
<1>1. Busy(p)
  BY AdvanceShape
<1>2. PICK row, at, t :
        /\ row \in RunRows /\ at \in Working \cup {"idle"}
        /\ Moves(p, row, at, t)
        /\ \/ Quiet(p, row) /\ at # "executed" /\ UNCHANGED db
           \/ Opens(p, row, at, t) /\ UNCHANGED db
           \/ Closes(p, row, at)
  BY AdvanceShape
<1>3. /\ \A r \in DOMAIN runs' : r \in DOMAIN runs /\ runs'[r] \in {row, runs[r]}
      /\ \A q \in Processes \ {p} : (Refilling(q)' <=> Refilling(q)) /\ tx'[q] = tx[q]
      /\ at # "executed" => ~ Refilling(p)'
      /\ at = "executed" => /\ Refilling(p)' <=> row.plan[Len(row.steps)] = "build_metric_daily"
                            /\ tx'[p] = t
  BY <1>1, <1>2, MetricMove
<1>4. /\ RunOf(p) \in RunRows /\ StepNo(p) = Len(RunOf(p).steps) /\ db \in Databases
      /\ StepOf(p) = RunOf(p).plan[StepNo(p)] /\ (StepNo(p) > 0 => StepOf(p) \in Steps)
  BY <1>1, BusyFacts
<1>5. RunOf(p).built \subseteq DOMAIN db.daily
  <2>1. proc[p].run \in DOMAIN runs /\ RunOf(p) = runs[proc[p].run]
    BY <1>1, BusyType DEF TypeInv
  <2>2. QED
    BY <2>1 DEF MetricInv, MetricsKeepOrders
<1>6. CASE Quiet(p, row) /\ at # "executed" /\ UNCHANGED db
  <2>1. MetricsKeepOrders'
    BY <1>3, <1>5, <1>6 DEF Quiet, MetricInv, MetricsKeepOrders
  <2>2. QED
    BY <1>3, <1>6, <2>1 DEF MetricInv
<1>7. CASE Opens(p, row, at, t) /\ UNCHANGED db
  <2>1. MetricsKeepOrders'
    BY <1>3, <1>5, <1>7 DEF Opens, MetricInv, MetricsKeepOrders
  <2>2. Refilling(p)' <=> StepOf(p) = "build_metric_daily"
    BY <1>3, <1>4, <1>7 DEF Opens
  <2>3. ASSUME StepOf(p) = "build_metric_daily"
        PROVE  /\ tx'[p].rows = db.orders
               /\ \A q \in Processes \ {p} : ~ Refilling(q)
    <3>1. t.rows = db.orders
      BY <1>7, <2>3 DEF Opens, RowsOf, BuildMetricDaily
    <3>2. QED
      BY <1>3, <1>7, <2>3, <3>1, RefillAlone DEF Opens
  <2>4. QED
    BY <1>3, <1>7, <2>1, <2>2, <2>3 DEF MetricInv
<1>8. CASE Closes(p, row, at)
  <2>1. StepOf(p) \in Steps /\ tx[p].rows \in Written(StepOf(p))
    BY <1>4, <1>8 DEF Closes, TypeInv, TypeOK
  <2>2. /\ DOMAIN db.orders \subseteq DOMAIN db'.orders
        /\ db'.daily = (IF StepOf(p) = "build_metric_daily" THEN tx[p].rows ELSE db.daily)
    BY <1>4, <1>8, <2>1, ApplyType DEF Closes
  <2>3. row.built = IF StepOf(p) = "build_metric_daily" THEN DOMAIN tx[p].rows ELSE RunOf(p).built
    BY <1>8 DEF Closes, Done
  <2>4. at # "executed"
    BY <1>8 DEF Closes
  <2>5. CASE StepOf(p) = "build_metric_daily"
    <3>1. Refilling(p)
      BY <1>8, <2>5 DEF Closes, Refilling
    <3>2. /\ DOMAIN db.daily \subseteq DOMAIN db'.daily /\ DOMAIN db'.daily \subseteq DOMAIN db'.orders
          /\ \A q \in Processes \ {p} : ~ Refilling(q)
      BY <2>2, <2>5, <3>1 DEF MetricInv
    <3>3. MetricsKeepOrders'
      BY <1>3, <2>2, <2>3, <2>5, <3>2 DEF MetricInv, MetricsKeepOrders
    <3>4. \A q \in Processes : ~ Refilling(q)'
      BY <1>3, <2>4, <3>2
    <3>5. QED
      BY <3>2, <3>3, <3>4 DEF MetricInv
  <2>6. CASE StepOf(p) # "build_metric_daily"
    <3>1. MetricsKeepOrders'
      BY <1>3, <1>5, <2>2, <2>3, <2>6 DEF MetricInv, MetricsKeepOrders
    <3>2. QED
      BY <1>3, <2>2, <2>4, <2>6, <3>1 DEF MetricInv
  <2>7. QED
    BY <2>5, <2>6
<1>9. QED
  BY <1>2, <1>6, <1>7, <1>8

LEMMA StartRunMetrics ==
  ASSUME TypeInv, MetricInv, NEW p \in Processes, NEW plan \in Plans, StartRun(p, plan)
  PROVE  MetricInv'
<1>1. PICK row \in RunRows, n \in Nat : Started(p, plan, row, n)
  BY StartRunFrame DEF TypeInv
<1>2. ASSUME NEW q \in Processes, Refilling(q)' PROVE Refilling(q)
  <2>1. q # p /\ proc'[q] = proc[q]
    BY <1>1, <1>2 DEF Started, Refilling, Busy, Idle
  <2>2. Busy(q)
    BY <1>2, <2>1 DEF Refilling, Busy, Idle
  <2>3. StepOf(q)' = StepOf(q)
    BY <1>1, <2>2 DEF Started
  <2>4. QED
    BY <1>2, <2>1, <2>3 DEF Refilling
<1>3. MetricsKeepOrders'
  BY <1>1 DEF Started, MetricInv, MetricsKeepOrders
<1>4. UNCHANGED <<db, tx>>
  BY <1>1 DEF Started
<1>5. QED
  BY <1>2, <1>3, <1>4 DEF MetricInv

LEMMA NextMetrics == TypeInv /\ MetricInv /\ [Next]_vars => MetricInv'
<1> SUFFICES ASSUME TypeInv, MetricInv, [Next]_vars PROVE MetricInv'
  OBVIOUS
<1>1. CASE UNCHANGED vars
  BY <1>1 DEF vars, MetricInv, MetricsKeepOrders, Refilling, StepOf, RunOf, StepNo
<1>2. ASSUME NEW p \in Processes, NEW plan \in Plans, StartRun(p, plan) PROVE MetricInv'
  BY <1>2, StartRunMetrics
<1>3. ASSUME NEW p \in Processes, Advance(p) \/ Cut(p) PROVE MetricInv'
  BY <1>3, AdvanceMetrics
<1>4. QED
  BY <1>1, <1>2, <1>3 DEF Next

LEMMA InitMetrics == Init => MetricInv
BY DEF Init, MetricInv, MetricsKeepOrders, Refilling, Idle, NoRows

\* A day that a run has built metrics for never disappears from the daily
\* metrics: the orders only grow, and the lock of TRUNCATE keeps a second
\* transaction from refilling the table with the orders of an earlier time.
THEOREM MetricsKept == Spec => []MetricsKeepOrders
<1>1. MetricInv => MetricsKeepOrders
  BY DEF MetricInv
<1>2. QED
  BY <1>1, InitType, NextType, InitMetrics, NextMetrics, PTL DEF Spec
=============================================================================
