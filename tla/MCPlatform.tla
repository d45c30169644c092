----------------------------- MODULE MCPlatform -----------------------------
(***************************************************************************)
(* The parts of the platform that share no state, checked in one run: each *)
(* initial state chooses a part, and only that part moves.                 *)
(***************************************************************************)
EXTENDS Gateway, E2E, Delivery, Alerts, Contexts, Ontology, FeishuSync, TLC

VARIABLE part

-----------------------------------------------------------------------------
(* Orders: two files that share an order, late and cancelled ones, several *)
(* items, a category that is missing, samples around the rules' minima.    *)

Order(day, seller, category, status, arrival, score, payment, items, n) ==
  [day |-> day, seller |-> seller, category |-> category, region |-> "SP", status |-> status,
   delivered |-> arrival, estimated |-> 5, review |-> score, payment |-> payment,
   items |-> items, price |-> 10, freight |-> 2, n |-> n]

Calm(day) == Order(day, "s1", "toys", "delivered", 4, 5, 20, 1, 25)

MCFiles ==
  {(<<"a", 1>> :> Calm(1) @@ <<"a", 2>> :> Calm(2)),
   (<<"a", 1>> :> Order(1, "s1", "toys", "delivered", 9, 1, 20, 2, 22)
    @@ <<"b", 2>> :> Order(2, "s1", "toys", "shipped", 0, 0, 20, 2, 15)),
   (<<"b", 2>> :> Order(2, "s2", "toys", "canceled", 9, 2, 20, 1, 21)
    @@ <<"b", 3>> :> Order(3, "s2", "toys", "delivered", 9, 4, 20, 1, 22)),
   (<<"c", 3>> :> Order(3, "s1", "toys", "delivered", 9, 3, 8, 1, 35)
    @@ <<"d", 3>> :> Order(3, "s2", "", "canceled", 9, 3, 8, 2, 31)),
   (<<"c", 1>> :> Order(1, "s2", "toys", "delivered", 3, 3, 8, 0, 21)
    @@ <<"d", 2>> :> Order(2, "s2", "toys", "delivered", 9, 3, 90, 2, 31))}

-----------------------------------------------------------------------------
(* Governance: a file that only one directory has, a level that changes, a *)
(* file that does not parse, two grants of one name.                       *)

Property(sensitivity, readable, availability) ==
  [sensitivity |-> sensitivity, readable |-> readable, availability |-> availability]

MCProperties ==
  [order |-> [customer_id |-> Property(4, FALSE, "real"), status |-> Property(0, TRUE, "real"),
              seller_id |-> Property(1, TRUE, "virtual")],
   seller |-> [seller_id |-> Property(3, FALSE, "real"), city |-> Property(1, TRUE, "planned")]]

MCObjects == <<"order", "o1">> :> {"customer_id", "seller_id"}
             @@ <<"seller", "s1">> :> {"seller_id", "city"}

MCLinks ==
  [order |-> {[name |-> "sold_by", via |-> "seller_id", target |-> <<"seller", "s1">>]},
   seller |-> {[name |-> "sold", via |-> "seller_id", target |-> <<"order", "o1">>]}]

File(hash, typed) == [hash |-> hash, convertible |-> TRUE, typed |-> typed]
Class(asset, level, fields) == [asset |-> asset, level |-> level, fields |-> fields]
Grants(actions, access) ==
  <<[role |-> "analyst", actions |-> actions, access |-> access],
    [role |-> "viewer", actions |-> << >>, access |-> <<"metric_*">>]>>

MCGovDirs ==
  {[aip_object_schema |-> File(1, [order |-> 1]),
    access_policy |-> File(1, Grants(<<"decide">>, <<"order">>)),
    data_classification |-> File(1, {Class("order", "sensitive", [customer_id |-> "pii"])})],
   [access_policy |-> File(2, Grants(<<"decide", "access_seller">>, <<"seller">>)),
    data_classification |->
      File(2, {Class("order", "internal", [customer_id |-> "sensitive", seller_id |-> "internal"]),
               Class("seller", "internal", [seller_id |-> "internal"])}),
    data_lineage |->
      File(2, {[from |-> "raw", to |-> "order", transform |-> "t", type |-> "api_sync"]})],
   [access_policy |-> [hash |-> 3, convertible |-> FALSE, typed |-> Nil],
    data_classification |->
      File(3, {Class("order", "pii", [seller_id |-> "public_internal"])})]}

MCCovers == {<<"metric_*", "metric_daily">>}

MCCases ==
  {[object |-> <<"order", "o1">>, severity |-> Nil, alert |-> [id |-> "a1", severity |-> "high"]],
   [object |-> <<"seller", "s1">>, severity |-> "low", alert |-> Nil]}

MCRecipes ==
  [late |-> [rule |-> "a1", properties |-> {}, actions |-> {"notify_owner", "fly"},
             metrics |-> {"gmv"}, role |-> "agent_readonly", redactPII |-> TRUE],
   plain |-> [rule |-> Nil, properties |-> {"status", "seller_id"}, actions |-> {},
              metrics |-> {}, role |-> "viewer", redactPII |-> FALSE]]

MCActionFiles ==
  {[state |-> "loaded",
    actions |-> [a \in {"notify_owner", "fly"} |->
      [enabled |-> TRUE, required |-> {}, allowed |-> << >>, allowedBy |-> {"ops"},
       llmVisible |-> FALSE, approval |-> TRUE]]]}

-----------------------------------------------------------------------------
(* Ontology: objects that the agent's role may and may not see, a version  *)
(* 2 that gives other actions than version 1, that one object spoils, or   *)
(* that is missing, rows that arrive while a search is read.               *)

V1Object(pk, others, links, actions) ==
  [properties |-> [p \in {pk} \cup others |-> [pk |-> p = pk]], links |-> links,
   actions |-> actions]

MCV1 ==
  [seller |-> V1Object("seller_id", {"seller_state"},
                       {[name |-> "sold", target |-> "product", via |-> "order_id"],
                        [name |-> "of", target |-> "order", via |-> "order_id"]},
                       {"notify_owner"}),
   product |-> V1Object("product_id", {"price"}, {}, {}),
   order |-> V1Object("order_id", {"order_status"}, {}, {"notify_owner"})]

V2Property(source) ==
  [source |-> source, expression |-> Nil, metricRef |-> Nil, agg |-> Nil,
   availability |-> Nil, readable |-> Nil]

V2Link(name, strategy, table, key, limited) ==
  [name |-> name, target |-> "product", strategy |-> strategy, table |-> table, key |-> key,
   sound |-> TRUE, limited |-> limited]

MCV2 ==
  [seller |-> [grain |-> "seller", table |-> "item_level", key |-> "seller_id",
               properties |-> [seller_state |-> V2Property("seller_state"),
                               sales |-> [V2Property("price") EXCEPT !.agg = "sum"],
                               promise |-> [V2Property("x") EXCEPT !.availability = "planned"]],
               links |-> {V2Link("sold", "reverse_lookup", "item_level", "seller_id", FALSE),
                          V2Link("best", "query_ref", "item_level", "seller_id", TRUE)},
               actions |-> {"create_followup_task"}],
   order |-> [grain |-> "order", table |-> "order_level", key |-> "order_id",
              properties |-> [order_status |-> V2Property("order_status")],
              links |-> {}, actions |-> {}]]

MCSchemaFiles ==
  {[v1 |-> MCV1, v2 |-> MCV2, recipes |-> TRUE],
   [v1 |-> MCV1, v2 |-> [MCV2 EXCEPT !.order.grain = Nil], recipes |-> TRUE],
   [v1 |-> Nil, v2 |-> MCV2, recipes |-> FALSE]}

AlertRow(id, severity) ==
  [alert_id |-> id, rule_id |-> 1, severity |-> severity, status |-> 1]

MCContents ==
  [order_level |-> <<[order_id |-> 1, customer_unique_id |-> 1, customer_state |-> 1,
                      order_status |-> 1, payment_value |-> 20, review_score |-> 4]>>,
   item_level |-> <<[seller_id |-> 1, seller_state |-> 1, product_id |-> 1, order_id |-> 1,
                     price |-> 10],
                    [seller_id |-> 1, seller_state |-> 2, product_id |-> 2, order_id |-> 1,
                     price |-> 12]>>,
   marketing_qualified_leads |-> << >>,
   metric_alert |-> <<AlertRow(2, 3), AlertRow(1, 3), AlertRow(3, 1)>>]

MCArrivals == {<<"metric_alert", AlertRow(4, 3)>>}

MCSearches ==
  {[type |-> "metric_alert", query |-> {3}, limit |-> 1],
   [type |-> "seller", query |-> {2}, limit |-> 0],
   [type |-> "order", query |-> {1}, limit |-> 1]}

MCGets ==
  {[type |-> "seller", id |-> 1, link |-> "sold"], [type |-> "seller", id |-> 1, link |-> "best"],
   [type |-> "seller", id |-> 1, link |-> "of"],
   [type |-> "order", id |-> 1, link |-> ""], [type |-> "seller", id |-> 2, link |-> ""]}

Offer(action, id, payload) ==
  [type |-> "seller", id |-> id, action |-> action, payload |-> payload]

MCOffers ==
  {Offer("notify_owner", 1, << >>), Offer("create_followup_task", 1, << >>),
   Offer("create_followup_task", 1, "owner" :> Nil), Offer("export_report", 2, << >>)}

MCRegistryFile ==
  [state |-> "loaded",
   actions |-> [a \in {"notify_owner", "create_followup_task", "export_report"} |->
     [enabled |-> TRUE, required |-> {"owner"}, allowed |-> << >>,
      allowedBy |-> IF a = "notify_owner" THEN {"ops"} ELSE {}, llmVisible |-> FALSE,
      approval |-> TRUE]]]

-----------------------------------------------------------------------------
(* Feishu: a table that is known in part, keys that the file has twice, a  *)
(* record without its key, a table without a key, one without an id.       *)

FeishuTask(id) == [id |-> id, fields |-> {"task_id"}, rev |-> 2]

MCCsvFiles ==
  {[action_tasks |-> <<FeishuTask("1"), FeishuTask("2")>>, notes |-> << >>, daily_metrics |-> << >>],
   [action_tasks |-> <<FeishuTask("2"), FeishuTask("2"), [FeishuTask("1") EXCEPT !.fields = {}]>>,
    notes |-> <<[FeishuTask("1") EXCEPT !.fields = {"text"}]>>, daily_metrics |-> Nil]}

MCRemotes ==
  {[action_tasks |-> <<[id |-> "1", fields |-> {"task_id"}, rev |-> 1, by |-> Nil, again |-> FALSE]>>,
    notes |-> << >>]}

MCTableIds == [action_tasks |-> "t1", notes |-> "t2", daily_metrics |-> Nil]

Request(kind, names, dryRun, applied) ==
  [kind |-> kind, tables |-> names, dryRun |-> dryRun, apply |-> applied]

MCRequests ==
  {Request("sync", {"action_tasks"}, FALSE, FALSE),
   Request("sync", {"notes", "daily_metrics"}, FALSE, FALSE),
   Request("import", {"action_tasks"}, FALSE, FALSE),
   Request("export", {"fleet"}, FALSE, FALSE),
   Request("api", {"action_tasks"}, FALSE, TRUE)}

-----------------------------------------------------------------------------
(* Gateway: both front ends on every row, refusals of each kind, previews, *)
(* what is asked for twice or against one another.                         *)

Sent(via, op) ==
  [via |-> via, op |-> op, token |-> "server", valid |-> TRUE, known |-> TRUE, dryRun |-> Nil,
   by |-> Nil, accepted |-> TRUE, record |-> FALSE]

MCInputs ==
  {Sent("api", op) : op \in {"execute", "dispatch", "batch_dispatch", "create_case", "context",
                             "decide", "compare", "run_pipeline"}}
  \cup {Sent("mcp", op) : op \in {"approve", "cancel_proposal", "create_case", "resolve_case",
                                   "propose_action", "run_pipeline", "create_sandbox"}}
  \cup {[Sent("api", "approve") EXCEPT !.by = "ann"], [Sent("api", "reject") EXCEPT !.by = "bob"],
        [Sent("api", "reject") EXCEPT !.token = "wrong"],
        [Sent("api", "approve") EXCEPT !.valid = FALSE],
        [Sent("mcp", "run_pipeline") EXCEPT !.valid = FALSE],
        [Sent("api", "execute") EXCEPT !.dryRun = FALSE],
        [Sent("mcp", "execute") EXCEPT !.dryRun = FALSE],
        [Sent("api", "cancel_event") EXCEPT !.known = FALSE], Sent("api", "cancel_event"),
        [Sent("api", "batch_dispatch") EXCEPT !.dryRun = TRUE],
        [Sent("mcp", "propose_action") EXCEPT !.record = TRUE],
        [Sent("api", "add_to_sandbox") EXCEPT !.accepted = FALSE],
        [Sent("api", "get_review") EXCEPT !.known = FALSE], Sent("api", "get_review"),
        Sent("mcp", "list_reviews"), Sent("mcp", "add_to_sandbox"),
        [Sent("mcp", "compare_sandboxes") EXCEPT !.known = FALSE]}

Rows(proposal, event, case) ==
  [proposal |-> proposal, event |-> event, case |-> case, sandbox |-> "empty"]

MCStartRows == {Rows("proposed", "pending", "open"), Rows("approved", "failed", "none")}

-----------------------------------------------------------------------------
(* End to end: a database with alerts, without, and without anything.      *)

MCStocks ==
  {[alerts |-> TRUE, raw |-> TRUE], [alerts |-> FALSE, raw |-> TRUE],
   [alerts |-> FALSE, raw |-> FALSE]}

-----------------------------------------------------------------------------
(* Delivery: the channels with the adapters as they are and as they are    *)
(* meant to be configured; one case with its proposal.                     *)

MCCaseOf == 1 :> 1

MCWirings ==
  {[type |-> <<"notify_owner">>, config |-> {"token"}],
   [type |-> <<"notify_owner">>, config |-> {"chat", "app"}],
   [type |-> <<"create_followup_task">>, config |-> {"token"}],
   [type |-> <<"create_followup_task">>, config |-> {"token", "repo"}]}

-----------------------------------------------------------------------------
PlatformInit ==
  /\ part \in {"alerts", "contexts", "ontology", "feishu", "gateway", "e2e", "delivery"}
  /\ AlertsInit
  /\ ContextsInit
  /\ OntologyInit
  /\ FeishuInit
  /\ GatewayInit
  /\ E2EInit
  /\ DeliveryInit
  /\ part # "contexts" => dir = CHOOSE d \in GovDirs : TRUE
  /\ part # "feishu" => files = CHOOSE f \in CsvFiles : TRUE
  /\ part # "gateway" => rows = CHOOSE d \in StartRows : TRUE
  /\ part # "e2e" => stock = CHOOSE d \in Stocks : TRUE
  /\ part # "e2e" => cases = <<>>
  /\ part # "delivery" => wiring = CHOOSE w \in Wirings : TRUE

PlatformNext ==
  \/ part = "alerts" /\ AlertsNext
     /\ UNCHANGED <<part, ctxVars, ontVars, feishuVars, gatewayVars, e2eVars, deliveryVars>>
  \/ part = "contexts" /\ ContextsNext
     /\ UNCHANGED <<part, alertVars, ontVars, feishuVars, gatewayVars, e2eVars, deliveryVars>>
  \/ part = "ontology" /\ OntologyNext
     /\ UNCHANGED <<part, alertVars, ctxVars, feishuVars, gatewayVars, e2eVars, deliveryVars>>
  \/ part = "feishu" /\ FeishuNext
     /\ UNCHANGED <<part, alertVars, ctxVars, ontVars, gatewayVars, e2eVars, deliveryVars>>
  \/ part = "gateway" /\ GatewayNext
     /\ UNCHANGED <<part, alertVars, ctxVars, ontVars, feishuVars, e2eVars, deliveryVars>>
  \/ part = "e2e" /\ E2ENext
     /\ UNCHANGED <<part, alertVars, ctxVars, ontVars, feishuVars, gatewayVars, deliveryVars>>
  \/ part = "delivery" /\ DeliveryNext
     /\ UNCHANGED <<part, alertVars, ctxVars, ontVars, feishuVars, gatewayVars, e2eVars>>

platformVars == <<part, alertVars, ctxVars, ontVars, feishuVars, gatewayVars, e2eVars,
          deliveryVars>>

PlatformSpec == PlatformInit /\ [][PlatformNext]_platformVars

=============================================================================
