------------------------------- MODULE Alerts -------------------------------
(***************************************************************************)
(* What a run of the pipeline computes: from the orders in the CSV files   *)
(* through the metrics, alerts, recommendations and tasks to the outbox    *)
(* events.  Pipeline has the transactions and interleavings of runs; here  *)
(* one run is one step, and the arithmetic is the code's.                  *)
(*                                                                         *)
(* Rates and scores are whole numbers of 1/Unit, as ROUND(..., 4) leaves   *)
(* them.  A row stands for n equal orders of one item list.                *)
(***************************************************************************)
EXTENDS Null, Integers, Sequences, FiniteSets, FiniteSetsExt, SequencesExt

CONSTANTS
  Files,          \* contents of the data directory: order id -> order
  Short, Long,    \* windows of the global rules, 7 and 14 days
  MaxPerValue,    \* DefaultMaxAlertsPerDimVal, 5
  MaxAlerts,      \* maxDimAlertsPerRun, 50
  MaxRuns         \* bound: runs of the pipeline

VARIABLES
  orders,   \* dwd.order_level with its items: id -> order
  dims,     \* mart.metric_dimension_daily: <<day, type, value, metric>> -> row
  alerts,   \* ops.metric_alert: id -> alert
  recs,     \* ops.recommendation: id -> recommendation
  tasks,    \* ops.task: id -> task
  events,   \* ops.outbox_event: id -> event
  last,     \* history: what the last run saw and kept
  run       \* how many runs there were

\* There are whole orders, and finitely many of them.
ASSUME AlertsAssumption ==
  \A file \in Files : /\ IsFiniteSet(DOMAIN file)
                      /\ \A i \in DOMAIN file : "n" \in DOMAIN file[i] /\ file[i].n \in Nat

alertVars == <<orders, dims, alerts, recs, tasks, events, last, run>>

Empty == [x \in {} |-> 0]

Unit == 10000

-----------------------------------------------------------------------------
(* Metrics.                                                                *)

Round(part, whole) == (2 * part + whole) \div (2 * whole)

\* ROUND(COALESCE(part / NULLIF(whole, 0), 0), 4)
Rate(part, whole) == IF whole = 0 THEN 0 ELSE Round(Unit * part, whole)

\* What build_dwd_order_level derives from the dates and the status.
IsLate(o)      == o.delivered > 0 /\ o.delivered > o.estimated
IsCancelled(o) == o.status = "canceled"
Delivered(o)   == o.status = "delivered"

\* SUM over rows that stand for n orders.
Total(rows, Amount(_)) == MapThenSumSet(LAMBDA o : o.n * Amount(o), rows)
Count(rows, Holds(_))  == Total({o \in rows : Holds(o)}, LAMBDA o : 1)
Anything(o)            == TRUE

\* COUNT(DISTINCT order_id)
CountOrders(rows) == Cardinality(UNION {{o.id} \X (1 .. o.n) : o \in rows})

OnDay(data, day) == {Put(data[i], "id", i) : i \in {j \in DOMAIN data : data[j].day = day}}

Days(data) == {data[i].day : i \in DOMAIN data}

\* A row of metric_daily: a row of the join is an order, as the items are
\* aggregated before.
MetricDaily(data, day) ==
  LET rows   == OnDay(data, day)
      count  == Count(rows, Anything)
      gmv    == Total(rows, LAMBDA o : o.payment)
      Scored(o) == o.review > 0
      scored == Count(rows, Scored)
  IN [gmv |-> gmv, order_count |-> count,
      avg_order_value |-> Round(gmv, count),
      freight_value |-> Total(rows, LAMBDA o : o.items * o.freight),
      avg_review_score |-> Rate(Total(rows, LAMBDA o : o.review), scored),
      low_review_rate |-> Rate(Count(rows, LAMBDA o : Scored(o) /\ o.review <= 2), scored),
      late_delivery_rate |->
        Rate(Count(rows, LAMBDA o : Delivered(o) /\ IsLate(o)), Count(rows, Delivered)),
      cancel_rate |-> Rate(Count(rows, IsCancelled), count)]

DimensionTypes   == {"seller", "category", "region"}
DimensionMetrics == {"gmv", "order_count", "avg_order_value", "avg_review_score",
                     "late_delivery_rate", "cancel_rate"}

Share(rows, Part(_), Whole(_)) ==
  Rate(Total({o \in rows : Part(o)}, LAMBDA o : o.items),
       Total({o \in rows : Whole(o)}, LAMBDA o : o.items))

\* Mutant: items counted as samples.
SampleOfItems(rows) == Total(rows, LAMBDA o : o.items)

\* A row of the join is an item: sums and shares weigh an order by its items,
\* orders are counted once.
DimensionMetric(rows, metric) ==
  LET gmv   == Total(rows, LAMBDA o : o.items * o.price)
      count == CountOrders(rows)
      Scored(o) == o.review > 0
  IN CASE metric = "gmv" -> gmv
       [] metric = "order_count" -> count
       [] metric = "avg_order_value" -> Round(gmv, count)
       [] metric = "avg_review_score" ->
            Rate(Total(rows, LAMBDA o : o.items * o.review),
                 Total({o \in rows : Scored(o)}, LAMBDA o : o.items))
       [] metric = "late_delivery_rate" ->
            Share(rows, LAMBDA o : Delivered(o) /\ IsLate(o), Delivered)
       [] metric = "cancel_rate" -> Share(rows, IsCancelled, Anything)

SampleSize(rows) == CountOrders(rows)

\* The rows of metric_dimension_daily; items without the dimension's value
\* are left out.
WithValue(data, day, type, value) ==
  {o \in OnDay(data, day) : o.items > 0 /\ o[type] = value}

Values(data, day, type) == {o[type] : o \in {p \in OnDay(data, day) : p.items > 0}} \ {""}

MetricDimensionDaily(data) ==
  LET groups == UNION {{<<day, type, value>> : value \in Values(data, day, type)}
                        : day \in Days(data), type \in DimensionTypes}
  IN [k \in {<<g[1], g[2], g[3], m>> : g \in groups, m \in DimensionMetrics} |->
        LET rows == WithValue(data, k[1], k[2], k[3])
        IN [value |-> DimensionMetric(rows, k[4]), sample |-> SampleSize(rows)]]

-----------------------------------------------------------------------------
(* Global rules, on the series of the latest days, newest first.           *)

QueryMetricSeries(data, metric) ==
  LET newest == SetToSortSeq(Days(data), LAMBDA d, e : d > e)
  IN [i \in 1 .. Min({Len(newest), Short + Long}) |-> MetricDaily(data, newest[i])[metric]]

Sum(series, from, to) == FoldSeq(+, 0, SubSeq(series, from, to))

HasBaseline(series) == Len(series) >= Short + Long

\* 7 days' average below 85 % of the average of the 14 days before.
EvaluateGMVDrop(series) ==
  /\ HasBaseline(series)
  /\ LET current == Sum(series, 1, Short)
         before  == Sum(series, Short + 1, Short + Long)
     IN before # 0 /\ 20 * Long * current < 17 * Short * before

EvaluateLateDeliverySpike(series, orderSeries) ==
  /\ Len(series) >= Short
  /\ 4 * series[1] > Unit
  /\ orderSeries[1] >= 20

\* The average changed by more than half, up or down, and the latest rate is
\* above 5 %.  Without a baseline the latest rate stands in.
EvaluateCancelRateSpike(series) ==
  /\ Len(series) >= Short
  /\ LET current == Sum(series, 1, Short)
         base == IF HasBaseline(series)
                 THEN [sum |-> Sum(series, Short + 1, Short + Long), days |-> Long]
                 ELSE [sum |-> series[1], days |-> 1]
         change == current * base.days - base.sum * Short
     IN /\ base.sum # 0
        /\ 2 * (IF change < 0 THEN - change ELSE change) > base.sum * Short
  /\ 20 * series[1] > Unit

\* The enabled ones; review_score_drop and seller_activation_gap are dead.
GlobalRules ==
  [gmv_drop |-> [severity |-> "high", owner |-> "business_ops", metric |-> "gmv"],
   late_delivery_spike |-> [severity |-> "high", owner |-> "logistics_ops",
                            metric |-> "late_delivery_rate"],
   cancel_rate_spike |-> [severity |-> "medium", owner |-> "logistics_ops",
                          metric |-> "cancel_rate"]]

GlobalFires(data, rule) ==
  LET series == QueryMetricSeries(data, GlobalRules[rule].metric)
  IN CASE rule = "gmv_drop" -> EvaluateGMVDrop(series)
       [] rule = "late_delivery_spike" ->
            EvaluateLateDeliverySpike(series, QueryMetricSeries(data, "order_count"))
       [] rule = "cancel_rate_spike" -> EvaluateCancelRateSpike(series)

\* At most one alert for a rule and the latest day; no day is an error.
EvaluateGlobalRules(data) ==
  LET latest == Max(Days(data))
  IN {[rule |-> r, day |-> latest, type |-> "global", value |-> "global",
       severity |-> GlobalRules[r].severity, owner |-> GlobalRules[r].owner,
       sample |-> 0, impact |-> 0] : r \in {q \in DOMAIN GlobalRules : GlobalFires(data, q)}}

-----------------------------------------------------------------------------
(* Dimensional rules.                                                      *)

Rule(type, metric, op, threshold, min, severity, owner) ==
  [type |-> type, metric |-> metric, op |-> op, threshold |-> threshold, min |-> min,
   severity |-> severity, owner |-> owner]

\* No metric low_review_rate exists for a dimension: that rule never fires.
DefaultDimensionalRules ==
  [seller_late_delivery_spike |->
     Rule("seller", "late_delivery_rate", "value_gt", 2500, 20, "high", "seller_ops"),
   seller_review_score_drop |->
     Rule("seller", "avg_review_score", "value_lt", 35000, 20, "medium", "seller_ops"),
   category_gmv_drop |->
     Rule("category", "gmv", "change_rate_lt", -2000, 30, "medium", "category_ops"),
   category_low_review_cluster |->
     Rule("category", "low_review_rate", "value_gt", 1500, 30, "medium", "category_ops"),
   region_cancel_rate_spike |->
     Rule("region", "cancel_rate", "value_gt", 500, 30, "medium", "logistics_ops"),
   region_late_delivery_spike |->
     Rule("region", "late_delivery_rate", "value_gt", 2000, 30, "high", "logistics_ops")]

\* The baseline is the sum of the values of so many days.
EvaluateCondition(op, threshold, current, baseline) ==
  LET change == Unit * (current * baseline.days - baseline.sum)
  IN CASE op = "value_gt" -> current > threshold
       [] op = "value_lt" -> current < threshold
       [] op = "change_rate_lt" -> baseline.sum # 0 /\ change < threshold * baseline.sum
       [] op = "change_rate_gt" -> baseline.sum # 0 /\ change > threshold * baseline.sum

\* The entries before one, as many as the window has.
Baseline(data, rows, type, value, metric, day) ==
  LET before == {d \in Days(data) : d < day /\ <<d, type, value, metric>> \in DOMAIN rows}
      window == {d \in before : Cardinality({e \in before : e > d}) < Long}
  IN [days |-> Cardinality(window),
      sum |-> MapThenSumSet(LAMBDA d : rows[<<d, type, value, metric>>].value, window)]

SeverityWeights == [high |-> 3, medium |-> 2, low |-> 1]
SeverityOrder   == [high |-> 0, medium |-> 1, low |-> 2]

\* Of each value of the dimension the newest entries that fire, with the
\* impact that enrichDimAlerts adds.
ExecuteDimensionalRule(data, rows, id) ==
  LET rule == DefaultDimensionalRules[id]
      series == {k \in DOMAIN rows : k[2] = rule.type /\ k[4] = rule.metric}
      fired == {k \in series :
        /\ rows[k].sample >= rule.min
        /\ EvaluateCondition(rule.op, rule.threshold, rows[k].value,
                             Baseline(data, rows, k[2], k[3], k[4], k[1]))}
  IN {[rule |-> id, day |-> k[1], type |-> k[2], value |-> k[3],
       severity |-> rule.severity, owner |-> rule.owner, sample |-> rows[k].sample,
       impact |-> SeverityWeights[rule.severity] * rows[k].sample] :
      k \in {j \in fired :
        Cardinality({i \in fired : i[3] = j[3] /\ i[1] > j[1]}) < MaxPerValue}}

\* The order of SuppressAlerts; the sort is not stable.
Before(a, b) ==
  \/ SeverityOrder[a.severity] < SeverityOrder[b.severity]
  \/ SeverityOrder[a.severity] = SeverityOrder[b.severity] /\ a.impact > b.impact

\* Mutant: the list is cut before it is sorted.
SuppressUnsorted(fired) == kSubset(Min({Cardinality(fired), MaxAlerts}), fired)

\* The lists that may remain.
SuppressAlerts(fired) ==
  {kept \in kSubset(Min({Cardinality(fired), MaxAlerts}), fired) :
     \A a \in kept, b \in fired \ kept : ~ Before(b, a)}

FiredAlerts(data, rows) ==
  UNION {ExecuteDimensionalRule(data, rows, id) : id \in DOMAIN DefaultDimensionalRules}

EvaluateDimensionRules(data, rows) == SuppressAlerts(FiredAlerts(data, rows))

AlertID(a) == <<a.rule, a.day, a.type, a.value>>

\* ON CONFLICT (alert_id) DO NOTHING
InsertAlerts(table, found) ==
  Over(table, [id \in {AlertID(a) : a \in found} |-> CHOOSE a \in found : AlertID(a) = id])

-----------------------------------------------------------------------------
(* Recommendations, tasks and events.                                      *)

ConfidenceFromSample(sample, min) ==
  IF sample > 2 * min THEN "high" ELSE IF sample > min THEN "medium" ELSE "low"

\* A dimensional alert has a template with the least sample of its rule.
Recommendation(a) ==
  [alert |-> AlertID(a), risk |-> a.severity, owner |-> a.owner,
   confidence |-> IF a.type # "global" /\ a.rule \in DOMAIN DefaultDimensionalRules
                  THEN ConfidenceFromSample(a.sample, DefaultDimensionalRules[a.rule].min)
                  ELSE "medium"]

RecommendationID(alert) == <<"rec", alert>>

DeriveTaskID(rec) ==
  CASE rec[1] = "dimrec" -> <<"dimtask", rec[2]>>
    [] rec[1] = "rec"    -> <<"task", rec[2]>>

DeriveTaskSource(rec) == IF rec[1] = "dimrec" THEN "dimensional_rule" ELSE "heuristic_strategy"

\* Mutant: the fallback for every risk.
DerivePriorityDefault(risk) == "medium"

DerivePriority(risk) == IF risk \in {"high", "medium", "low"} THEN risk ELSE "medium"

TaskRow(rec, row) ==
  [rec |-> rec, alert |-> row.alert, source |-> DeriveTaskSource(rec),
   owner |-> row.owner, priority |-> DerivePriority(row.risk)]

DeriveTargetChannel(source) == IF source = "dimensional_rule" THEN "feishu_cli" ELSE "local_cli"

BuildEvent(id, task) ==
  [task |-> id, payload |-> task, status |-> "pending",
   channel |-> DeriveTargetChannel(task.source)]

\* INSERT ... ON CONFLICT DO NOTHING of one row for each row of another table.
InsertFor(table, ids, new) ==
  Over(table, [id \in Range(ids) |-> new[CHOOSE k \in DOMAIN ids : ids[k] = id]])

GenerateRecommendations(table, source) ==
  InsertFor(table, [k \in DOMAIN source |-> RecommendationID(k)],
            [k \in DOMAIN source |-> Recommendation(source[k])])

GenerateTasks(table, source) ==
  InsertFor(table, [k \in DOMAIN source |-> DeriveTaskID(k)],
            [k \in DOMAIN source |-> TaskRow(k, source[k])])

CreateEvents(table, source) ==
  InsertFor(table, [k \in DOMAIN source |-> <<"outbox", k>>],
            [k \in DOMAIN source |-> BuildEvent(k, source[k])])

\* Rows of the LEFT JOIN that a file gives.
IngestFile(file) == Over(orders, file)

-----------------------------------------------------------------------------
AlertsInit ==
  /\ orders = Empty /\ dims = Empty /\ alerts = Empty /\ recs = Empty
  /\ tasks = Empty /\ events = Empty
  /\ last = [file |-> Empty, kept |-> {}] /\ run = 0

\* Ingestion: an order that is known keeps its row, whatever the file says.
IngestOrders(file) ==
  /\ run < MaxRuns
  /\ last.file # file
  /\ orders' = IngestFile(file)
  /\ last' = [file |-> file, kept |-> {}]
  /\ run' = run + 1
  /\ UNCHANGED <<dims, alerts, recs, tasks, events>>

\* The steps from the metrics to the events; one after ingestion, and any
\* number of times over the same orders.
RunSteps ==
  /\ Days(orders) # {}
  /\ dims' = Over(MetricDimensionDaily(orders), dims)
  /\ \E kept \in EvaluateDimensionRules(orders, dims') :
       LET found == EvaluateGlobalRules(orders) \cup kept
       IN /\ alerts' = InsertAlerts(alerts, found)
          /\ last' = [last EXCEPT !.kept = found]
  /\ recs' = GenerateRecommendations(recs, alerts')
  /\ tasks' = GenerateTasks(tasks, recs')
  /\ events' = CreateEvents(events, tasks')
  /\ UNCHANGED <<orders, run>>

AlertsNext == RunSteps \/ \E file \in Files : IngestOrders(file)

AlertsSpec == AlertsInit /\ [][AlertsNext]_alertVars

-----------------------------------------------------------------------------
(* Properties.                                                             *)

\* An alert on a value of a dimension rests on the least number of different
\* orders its rule asks for, though its rate is taken over items.
AlertsRestOnOrders ==
  \A id \in DOMAIN alerts : LET a == alerts[id] IN a.type # "global" =>
    CountOrders(WithValue(orders, a.day, a.type, a.value)) >= DefaultDimensionalRules[a.rule].min

Ranks(kept) ==
  [r \in {<<a.severity, a.impact>> : a \in kept} |->
     Cardinality({a \in kept : <<a.severity, a.impact>> = r})]

\* A run over the same orders finds alerts of the same severities and impacts
\* as the run before: only which of several equal ones are kept may differ
\* (detect_alerts: "re-running the step produces the same alerts").
RerunAgrees ==
  orders' = orders /\ last.kept # {} /\ last'.kept # {}
    => Ranks(last'.kept) = Ranks(last.kept)

RerunsAgree == [][RerunAgrees]_alertVars

\* Each alert has exactly one event, whose payload leads back to it and has
\* its severity and owner, however often the steps are run.
EventsFollowAlerts ==
  /\ \A id \in DOMAIN alerts : \E e \in DOMAIN events :
       \A x \in DOMAIN events : events[x].payload.alert = id <=> x = e
  /\ \A id \in DOMAIN events :
       LET payload == events[id].payload
       IN /\ payload.alert \in DOMAIN alerts
          /\ payload.priority = alerts[payload.alert].severity
          /\ payload.owner = alerts[payload.alert].owner

=============================================================================
