------------------------------ MODULE Ontology ------------------------------
(***************************************************************************)
(* The ontology as the MCP server serves it: the two schema files that are *)
(* loaded at the start, the queries compiled from them or taken from the   *)
(* tables of version 1, a client that reads a search page by page while    *)
(* rows arrive, objects with their metrics and links, and the actions that *)
(* are offered and proposed on them.                                       *)
(*                                                                         *)
(* Rows are functions from columns to values; the value of an expression   *)
(* is a column of its own.  Keys are numbers in the order of the database. *)
(***************************************************************************)
EXTENDS DecisionRules, FiniteSetsExt, SequencesExt

CONSTANTS
  SchemaFiles,  \* what may be found at the start: [v1, v2, recipes]
  Contents,     \* rows at the start: table -> sequence
  Arrivals,     \* rows the pipeline may add: pairs <<table, row>>
  Searches,     \* searches: [type, query, limit]; query is the set of values that fit
  Gets,         \* objects asked for: [type, id, link]
  Offers,       \* actions asked for: [type, id, action, payload]
  RegistryFile, \* the action registry's file
  McpRole,      \* BAXI_MCP_ROLE
  MaxCalls      \* bound: calls of tools that do not page

VARIABLES
  registry,     \* ObjectRegistry: [v1, v2], or Nil
  repo,         \* OntologyRepo: [inner, compiler]
  linkResolver, \* is there one?
  up,           \* main has wired the server
  tables,       \* rows by table
  paging,       \* the client's search, or Nil
  answer,       \* objects of the last answer
  offered,    \* rows of action_proposal, as the offers they came from
  advised,      \* history: offers that execute_action called valid
  refusals,     \* history: offers refused by propose_action, with the reason
  calls         \* how many calls there were

ontVars == <<registry, repo, linkResolver, up, tables, paging, answer,
             offered, advised, refusals, calls>>

None == [x \in {} |-> Nil]

-----------------------------------------------------------------------------
(* Schema files.                                                           *)

\* Version 1: everything but the key is readable, every object can be read.
ConvertRawObject(raw) ==
  [readable |-> {p \in DOMAIN raw.properties : ~ raw.properties[p].pk},
   links |-> raw.links,
   actions |-> IF raw.actions = {} THEN {"read"} ELSE raw.actions]

\* NewObjectRegistry is always called without a repository: the file counts.
NewObjectRegistry(file) ==
  IF file = Nil \/ file = None THEN Nil
  ELSE [v1 |-> [t \in DOMAIN file |-> ConvertRawObject(file[t])], v2 |-> None]

Default(value, missing) == IF value = Nil THEN missing ELSE value

\* Version 2: the defaults of a property.
ConvertRawV2(raw) ==
  [raw EXCEPT !.properties = [p \in DOMAIN @ |->
     [@[p] EXCEPT !.availability = Default(@, "real"), !.readable = Default(@, TRUE)]]]

\* One bad object spoils the file, and the registry stays as it was.
LoadV2Schema(reg, file) ==
  IF file = Nil \/ \E t \in DOMAIN file : file[t].grain = Nil \/ file[t].table = Nil
  THEN reg
  ELSE [reg EXCEPT !.v2 = Over([t \in DOMAIN file |-> ConvertRawV2(file[t])], @)]

HasV2(reg, type) == reg # Nil /\ type \in DOMAIN reg.v2

\* Version 2 wins if it has actions at all.
GetAllowedActions(reg, type) ==
  IF HasV2(reg, type) /\ reg.v2[type].actions # {} THEN reg.v2[type].actions
  ELSE IF type \in DOMAIN reg.v1 THEN reg.v1[type].actions ELSE {}

IsLLMReadable(reg, type, property) ==
  type \in DOMAIN reg.v1 /\ property \in reg.v1[type].readable

\* Without a registry nothing is held back.
FilterProperties(reg, type, properties) ==
  IF reg = Nil THEN properties
  ELSE [p \in {q \in DOMAIN properties : IsLLMReadable(reg, type, q)} |-> properties[p]]

-----------------------------------------------------------------------------
(* The tables of version 1; computed columns go by their SQL text.         *)

Mapping(table, key, columns, searchable) ==
  [table |-> table, key |-> key, columns |-> {key} \cup columns,
   searchable |-> {key} \cup searchable]

ObjectTableMap ==
  LET score == "(SELECT) as review_score"
      category == {"product_category_name", "product_category_name_english"}
      alert == {"rule_id", "metric_name", "severity", "status"}
  IN [customer |-> Mapping("order_level", "customer_unique_id",
                     {"customer_state", "order_id", "payment_value", "review_score",
                      "order_purchase_timestamp"},
                     {"customer_state"}),
      order |-> Mapping("order_level", "order_id",
                  {"order_status", "order_purchase_timestamp", "payment_value",
                   "payment_type", "review_score", "CASE END as delivery_status"},
                  {"order_status", "payment_type"}),
      seller |-> Mapping("item_level", "seller_id",
                   {"seller_state", "price", "order_id", score}, {"seller_state"}),
      product |-> Mapping("item_level", "product_id",
                    category \cup {"price", "freight_value", "(SELECT) as product_weight_g",
                                   score},
                    category),
      category |-> Mapping("item_level", "product_category_name",
                     {"product_category_name_english", "price", "order_id", score},
                     {"product_category_name_english"}),
      region |-> Mapping("order_level", "customer_state",
                   {"customer_unique_id", "payment_value", "review_score",
                    "order_purchase_timestamp"}, {}),
      marketing_lead |-> Mapping("marketing_qualified_leads", "mql_id",
                           {"first_contact_date", "landing_page_id", "origin"},
                           {"landing_page_id", "origin"}),
      metric_alert |-> Mapping("metric_alert", "alert_id",
                         alert \cup {"current_value", "baseline_value"}, alert)]

RoleTableAccess ==
  LET marts == {"metric_daily", "metric_dimension_daily", "metric_alert"}
  IN [admin |-> marts \cup {"order_level", "item_level", "marketing_qualified_leads"},
      analyst |-> marts \cup {"item_level"},
      viewer |-> marts,
      marketing_ops |-> {"metric_daily", "metric_alert", "order_level"}]

TableAccessible(role, table) ==
  table \in RoleTableAccess[IF role \in DOMAIN RoleTableAccess THEN role ELSE "analyst"]

\* No request carries a role: every query runs as the default one.
Role == "analyst"

\* Version 1 answers for the type.
Open(type) ==
  type \in DOMAIN ObjectTableMap /\ TableAccessible(Role, ObjectTableMap[type].table)

Column(row, column) == IF column \in DOMAIN row THEN row[column] ELSE Nil

Hits(rows, column, value) == {i \in DOMAIN rows : Column(rows[i], column) = value}

Aggregate(agg, rows, hits, column) ==
  LET known == {i \in hits : Column(rows[i], column) # Nil}
      sum   == MapThenSumSet(LAMBDA i : rows[i][column], known)
  IN CASE agg = "rows" -> Cardinality(hits)
       [] agg = "count" -> Cardinality(known)
       [] agg = "count_distinct" -> Cardinality({rows[i][column] : i \in known})
       [] agg = "sum" -> sum
       [] agg = "avg" -> IF known = {} THEN 0 ELSE sum \div Cardinality(known)
       [] agg = "min" -> IF known = {} THEN Nil ELSE Min({rows[i][column] : i \in known})
       [] agg = "max" -> IF known = {} THEN Nil ELSE Max({rows[i][column] : i \in known})

MetricColumns ==
  LET score == <<"avg", "(SELECT) as review_score">>
  IN [customer |-> [total_orders |-> <<"count_distinct", "order_id">>,
                    total_spent |-> <<"sum", "payment_value">>,
                    avg_review_score |-> <<"avg", "review_score">>],
      order |-> [payment_value |-> <<"sum", "payment_value">>,
                 review_score |-> <<"avg", "review_score">>],
      seller |-> [total_sales |-> <<"sum", "price">>, total_items |-> <<"rows", "price">>,
                  avg_review_score |-> score],
      product |-> [total_sold |-> <<"rows", "price">>, avg_price |-> <<"avg", "price">>,
                   avg_freight |-> <<"avg", "freight_value">>, avg_review_score |-> score],
      category |-> [total_products |-> <<"count_distinct", "product_id">>,
                    total_sold |-> <<"rows", "price">>, avg_price |-> <<"avg", "price">>],
      region |-> [total_customers |-> <<"count_distinct", "customer_unique_id">>,
                  total_spent |-> <<"sum", "payment_value">>,
                  avg_review_score |-> <<"avg", "review_score">>]]

\* v1 metrics: aggregates over the object's rows, zeros if it has none.
MetricsV1(type, id) ==
  IF ~ Open(type) \/ type \notin DOMAIN MetricColumns THEN None
  ELSE LET map  == ObjectTableMap[type]
           rows == tables[map.table]
       IN [m \in DOMAIN MetricColumns[type] |->
             Aggregate(MetricColumns[type][m][1], rows, Hits(rows, map.key, id),
                       MetricColumns[type][m][2])]

\* v1 objects: any row with the key, there is no order.
ObjectsV1(type, id) ==
  IF ~ Open(type) THEN {}
  ELSE LET map  == ObjectTableMap[type]
           rows == tables[map.table]
       IN {[type |-> type, id |-> id, table |-> map.table,
            properties |-> [c \in map.columns |-> Column(rows[i], c)]] :
             i \in Hits(rows, map.key, id)}

\* Rows that a search finds: a searchable column fits the query.
FoundRows(type, query) ==
  LET map == ObjectTableMap[type]
  IN {i \in DOMAIN tables[map.table] :
        \E c \in map.searchable : Column(tables[map.table][i], c) \in query}

\* Mutant: no ORDER BY.
InAnyOrder(rows, key, found) == SetToSeqs(found)

\* ORDER BY 1: the first column is the key.
InOrder(rows, key, found) ==
  {s \in SetToSeqs(found) :
     \A i, j \in DOMAIN s : i < j => rows[s[i]][key] <= rows[s[j]][key]}

\* The rows that a table may ever have.
RowsOf(table) == Range(Contents[table]) \cup {a[2] : a \in {b \in Arrivals : b[1] = table}}

\* The rows of a type that is searched are known by numbers.
ASSUME OntologyAssumption ==
  /\ Contents \in [DOMAIN Contents -> Seq(UNION {RowsOf(table) : table \in DOMAIN Contents})]
  /\ \A type \in DOMAIN ObjectTableMap : Open(type) => ObjectTableMap[type].table \in DOMAIN Contents
  /\ \A search \in Searches :
       /\ search.limit \in Int
       /\ search.type \in DOMAIN ObjectTableMap /\ Open(search.type) =>
            \A row \in RowsOf(ObjectTableMap[search.type].table) :
              row[ObjectTableMap[search.type].key] \in Int

-----------------------------------------------------------------------------
(* Queries compiled from version 2.                                        *)

Selectable(object) ==
  {p \in DOMAIN object.properties : LET prop == object.properties[p] IN
     /\ prop.metricRef = Nil
     /\ prop.availability # "planned"
     /\ prop.availability = "virtual" => prop.expression # Nil}

Expression(prop) == Default(prop.expression, prop.source)

\* CompileGetObject: rows are grouped by the plain properties if there are
\* aggregated ones too, and one group is returned.
ObjectsV2(type, id) ==
  LET object == registry.v2[type]
      rows   == tables[object.table]
      hits   == Hits(rows, object.key, id)
      Prop(p) == object.properties[p]
      plain  == {p \in Selectable(object) : Prop(p).agg = Nil}
      Alike(i, j) == \A p \in plain : Column(rows[i], Expression(Prop(p)))
                                        = Column(rows[j], Expression(Prop(p)))
      groups == IF plain = {} THEN {hits}
                ELSE IF plain = Selectable(object) THEN {{i} : i \in hits}
                ELSE {{j \in hits : Alike(i, j)} : i \in hits}
      Cell(group, p) == IF p \in plain
                        THEN Column(rows[CHOOSE i \in group : TRUE], Expression(Prop(p)))
                        ELSE Aggregate(Prop(p).agg, rows, group, Expression(Prop(p)))
  IN {[type |-> type, id |-> id, table |-> object.table,
       properties |-> [p \in Selectable(object) |-> Cell(group, p)]] : group \in groups}

\* CompileObjectMetrics; without aggregates it selects the plain properties,
\* whose text does not scan.
MetricsV2(type, id) ==
  LET object == registry.v2[type]
      rows   == tables[object.table]
  IN [p \in {q \in Selectable(object) : object.properties[q].agg # Nil} |->
        Aggregate(object.properties[p].agg, rows, Hits(rows, object.key, id),
                  Expression(object.properties[p]))]

-----------------------------------------------------------------------------
(* OntologyRepo.                                                           *)

\* Mutant: the compiler is kept.
SetV2CompilerEagerly(r) == [inner |-> TRUE, compiler |-> TRUE]

\* The repository behind it is made by the first query, and before that the
\* compiler is dropped.
SetV2Compiler(r) == IF r.inner THEN [r EXCEPT !.compiler = TRUE] ELSE r

EnsureInitialized(r) == [r EXCEPT !.inner = TRUE]

Compiled(type) == repo.compiler /\ HasV2(registry, type)

GetObjectByID(type, id) ==
  IF Compiled(type) THEN ObjectsV2(type, id) ELSE ObjectsV1(type, id)

GetObjectMetrics(type, id) ==
  IF Compiled(type) THEN MetricsV2(type, id) ELSE MetricsV1(type, id)

\* The statements of SearchObjects.  A compiled search skips the filter
\* "query", which is no property, and has no order.
SearchFinds(search) ==
  IF Compiled(search.type) THEN DOMAIN tables[registry.v2[search.type].table]
  ELSE FoundRows(search.type, search.query)

SearchOrders(search) ==
  IF Compiled(search.type) THEN SetToSeqs(SearchFinds(search))
  ELSE LET map == ObjectTableMap[search.type]
       IN InOrder(tables[map.table], map.key, SearchFinds(search))

SearchTable(type) ==
  IF Compiled(type) THEN registry.v2[type].table ELSE ObjectTableMap[type].table

SearchKey(type) == IF Compiled(type) THEN registry.v2[type].key ELSE ObjectTableMap[type].key

-----------------------------------------------------------------------------
OntologyInit ==
  /\ registry = Nil /\ repo = [inner |-> FALSE, compiler |-> FALSE]
  /\ linkResolver = FALSE /\ up = FALSE
  /\ tables = Contents
  /\ paging = Nil /\ answer = {}
  /\ offered = {} /\ advised = {} /\ refusals = {} /\ calls = 0

\* main: registry, version 2, compiler, links, in this order and before the
\* server takes a call.
StartServer(files) ==
  /\ ~ up
  /\ up' = TRUE
  /\ LET first == NewObjectRegistry(files.v1)
         full  == IF first = Nil THEN Nil ELSE LoadV2Schema(first, files.v2)
         v2    == full # Nil /\ full.v2 # None
     IN /\ registry' = full
        /\ repo' = IF v2 THEN SetV2Compiler(repo) ELSE repo
        /\ linkResolver' = (v2 /\ files.recipes)
  /\ UNCHANGED <<tables, paging, answer, offered, advised, refusals, calls>>

\* The pipeline or the alerts add a row; a page that is being read may miss it.
AddRow(table, row) ==
  /\ row \notin Range(tables[table])
  /\ tables' = [tables EXCEPT ![table] = Append(@, row)]
  /\ paging' = IF paging = Nil THEN Nil
               ELSE [paging EXCEPT !.changed = @ \/ SearchTable(paging.type) = table]
  /\ UNCHANGED <<registry, repo, linkResolver, up, answer, offered, advised, refusals, calls>>

-----------------------------------------------------------------------------
(* search_records, read page by page: the next page starts where the last  *)
(* one ended, until there are as many rows as the total says.              *)

Smaller(a, b) == IF a < b THEN a ELSE b

\* 20 rows if no limit is given, 100 at most; the clamps below do not bite.
PageSize(limit) == IF limit <= 0 THEN 20 ELSE Smaller(limit, 100)

Paging == paging # Nil /\ ~ paging.done

OpenSearch(search) ==
  /\ up /\ paging = Nil
  /\ search.type \in DOMAIN ObjectTableMap
  /\ paging' = [type |-> search.type, query |-> search.query, size |-> PageSize(search.limit),
                got |-> << >>, total |-> Nil, changed |-> FALSE, lost |-> FALSE, done |-> FALSE]
  /\ UNCHANGED <<registry, repo, linkResolver, up, tables, answer, offered, advised,
                 refusals, calls>>

\* SELECT COUNT(*)
CountRows ==
  /\ Paging /\ paging.total = Nil
  /\ Compiled(paging.type) \/ Open(paging.type)
  /\ repo' = EnsureInitialized(repo)
  /\ paging' = [paging EXCEPT !.total = Cardinality(SearchFinds(paging))]
  /\ UNCHANGED <<registry, linkResolver, up, tables, answer, offered, advised, refusals, calls>>

\* SELECT ... LIMIT size OFFSET offset, a statement of its own.  Of a row the
\* filter leaves the type and the key.
FetchPage ==
  /\ Paging /\ paging.total # Nil
  /\ \E order \in SearchOrders(paging) :
       LET offset == Len(paging.got)
           page   == SubSeq(order, offset + 1, Smaller(offset + paging.size, Len(order)))
           rows   == tables[SearchTable(paging.type)]
           got    == paging.got \o [i \in DOMAIN page |-> rows[page[i]][SearchKey(paging.type)]]
       IN paging' = [paging EXCEPT !.got = got, !.total = Nil,
                                   !.done = page = << >> \/ Len(got) >= paging.total]
  /\ UNCHANGED <<registry, repo, linkResolver, up, tables, answer, offered, advised,
                 refusals, calls>>

\* The role is refused, or a statement fails: the adapter answers with no
\* rows and a total of zero, as if there were none.
SearchFails ==
  /\ Paging
  /\ repo' = EnsureInitialized(repo)
  /\ paging' = [paging EXCEPT !.lost = TRUE, !.done = TRUE]
  /\ UNCHANGED <<registry, linkResolver, up, tables, answer, offered, advised, refusals, calls>>

-----------------------------------------------------------------------------
(* Objects and links.                                                      *)

Called == up /\ calls < MaxCalls /\ calls' = calls + 1

Shown(object, metrics) ==
  [type |-> object.type, id |-> object.id, table |-> object.table,
   properties |-> FilterProperties(registry, object.type, object.properties),
   metrics |-> metrics]

\* get_object with its metrics, whose error is dropped.
GetObject(call) ==
  /\ Called
  /\ repo' = EnsureInitialized(repo)
  /\ \/ \E object \in GetObjectByID(call.type, call.id) :
          answer' = {Shown(object, GetObjectMetrics(call.type, call.id))}
     \/ GetObjectByID(call.type, call.id) = {} /\ answer' = {}
  /\ UNCHANGED <<registry, linkResolver, up, tables, paging, offered, advised, refusals>>

\* compileLink succeeds: the strategies but query_ref differ in nothing.
Compiles(link) ==
  \/ link.strategy \in {"direct_key", "lookup", "reverse_lookup", "bridge_table"}
  \/ link.strategy = "query_ref" /\ link.sound

\* The link's plan, if all links of the type compile.
LinkPlans(type, name) ==
  IF /\ linkResolver /\ HasV2(registry, type)
     /\ \A l \in registry.v2[type].links : Compiles(l)
  THEN {l \in registry.v2[type].links : l.name = name} ELSE {}

\* The plan is compiled with a limit of zero and without columns: only a
\* template that brings its own limit gives rows, and they are empty.
LinkedV2(call, link) ==
  LET rows == tables[link.table]
  IN IF link.strategy = "query_ref" /\ link.limited
     THEN {[type |-> link.target, id |-> call.id, table |-> link.table,
            properties |-> None, metrics |-> None] : i \in Hits(rows, link.key, call.id)}
     ELSE {}

\* Over the property that a link of version 1 names; an object that cannot
\* be read is left out.
LinkedV1(source, link) ==
  LET via == Column(source.properties, link.via)
  IN IF via = Nil THEN {} ELSE {Shown(o, None) : o \in GetObjectByID(link.target, via)}

GetLinkedObjects(call) ==
  /\ Called
  /\ registry # Nil
  /\ IF LinkPlans(call.type, call.link) # {}
     THEN /\ answer' = UNION {LinkedV2(call, l) : l \in LinkPlans(call.type, call.link)}
          /\ UNCHANGED repo
     ELSE LET links == IF call.type \notin DOMAIN registry.v1 THEN {}
                       ELSE {l \in registry.v1[call.type].links : call.link \in {"", l.name}}
          IN /\ repo' = IF links = {} THEN repo ELSE EnsureInitialized(repo)
             /\ \/ links = {} /\ answer' = {}
                \/ \E source \in GetObjectByID(call.type, call.id) :
                     \E found \in SUBSET UNION {LinkedV1(source, l) : l \in links} :
                       /\ \A l \in links : LinkedV1(source, l) # {}
                                             => Cardinality(found \cap LinkedV1(source, l)) = 1
                       /\ answer' = found
                \/ links # {} /\ GetObjectByID(call.type, call.id) = {} /\ answer' = {}
  /\ UNCHANGED <<registry, linkResolver, up, tables, paging, offered, advised, refusals>>

-----------------------------------------------------------------------------
(* Actions on objects.                                                     *)

Allowed == NewActionRegistry(RegistryFile)

\* Parameters are checked only if there are any.
Invalid(offer) ==
  DOMAIN offer.payload # {} /\ ValidatePayload(Allowed, offer.action, offer.payload) # {}

\* execute_action in a dry run, the only mode it has.
\* Mutant: version 1 is asked for the actions.
AdviceV1(offer) ==
  /\ offer.type \in DOMAIN registry.v1
  /\ offer.action \in registry.v1[offer.type].actions
  /\ IsAllowed(Allowed, offer.action)
  /\ ~ Invalid(offer)

Advice(offer) ==
  /\ offer.action \in GetAllowedActions(registry, offer.type)
  /\ IsAllowed(Allowed, offer.action)
  /\ ~ Invalid(offer)

ExecuteAction(offer) ==
  /\ Called
  /\ registry # Nil
  /\ advised' = IF Advice(offer) THEN advised \cup {offer} ELSE advised
  /\ UNCHANGED <<registry, repo, linkResolver, up, tables, paging, answer, offered, refusals>>

RoleRefused(offer) ==
  /\ offer.action \in DOMAIN Allowed
  /\ Allowed[offer.action].allowedBy # {}
  /\ McpRole \notin Allowed[offer.action].allowedBy

\* The case is inserted with the object as its source, and the table admits
\* one that is not closed.
CaseRefused(offer) == \E p \in offered : p.type = offer.type /\ p.id = offer.id

\* Why propose_action refuses, the first reason counting.
Reason(offer) ==
  IF offer.action \notin GetAllowedActions(registry, offer.type) THEN "not allowed"
  ELSE IF ~ IsAllowed(Allowed, offer.action) THEN "not registered"
  ELSE IF Invalid(offer) THEN "invalid payload"
  ELSE IF RoleRefused(offer) THEN "role"
  ELSE IF CaseRefused(offer) THEN "active case"
  ELSE Nil

\* The two rows are inserted in one transaction.  It may fail, and it has not
\* when only the reply to its COMMIT is lost: the answer is then a refusal too.
ProposeOffer(offer) ==
  /\ Called
  /\ registry # Nil
  /\ \/ Reason(offer) = Nil /\ offered' = offered \cup {offer} /\ UNCHANGED refusals
     \/ /\ Reason(offer) # Nil
        /\ refusals' = refusals \cup {<<offer, Reason(offer)>>} /\ UNCHANGED offered
     \/ /\ Reason(offer) \in {Nil, "active case"}
        /\ refusals' = refusals \cup {<<offer, "database">>}
        /\ UNCHANGED offered \/ (Reason(offer) = Nil /\ offered' = offered \cup {offer})
  /\ UNCHANGED <<registry, repo, linkResolver, up, tables, paging, answer, advised>>

-----------------------------------------------------------------------------
OntologyNext ==
  \/ \E files \in SchemaFiles : StartServer(files)
  \/ \E a \in Arrivals : AddRow(a[1], a[2])
  \/ \E search \in Searches : OpenSearch(search)
  \/ CountRows
  \/ FetchPage
  \/ SearchFails
  \/ \E call \in Gets : GetObject(call) \/ GetLinkedObjects(call)
  \/ \E offer \in Offers : ExecuteAction(offer) \/ ProposeOffer(offer)

OntologySpec == OntologyInit /\ [][OntologyNext]_ontVars

-----------------------------------------------------------------------------
(* Properties.                                                             *)

Distinct(values) == Cardinality(Range(values)) = Len(values)

KeysFound ==
  LET rows == tables[SearchTable(paging.type)]
  IN [i \in FoundRows(paging.type, paging.query) |-> rows[i][ObjectTableMap[paging.type].key]]

\* A client that reads on from where it is until it has the total gets every
\* row that fits once, if the keys are different, no row arrived meanwhile
\* and no statement failed.
PagingIsExact ==
  paging # Nil /\ paging.done /\ ~ paging.lost /\ ~ paging.changed =>
    LET keys == Range(KeysFound)
    IN Cardinality(keys) = Cardinality(DOMAIN KeysFound)
         => Range(paging.got) = keys /\ Distinct(paging.got)

\* Whatever path answers a call, objects and keys are served only from tables
\* that are open to the role the server queries with, and with a registry
\* only readable properties are shown.
AnswersAreOpen ==
  /\ \A o \in answer :
       /\ o.properties # None \/ o.metrics # None => TableAccessible(Role, o.table)
       /\ registry # Nil => \A p \in DOMAIN o.properties : IsLLMReadable(registry, o.type, p)
  /\ paging # Nil /\ paging.got # << >> => TableAccessible(Role, SearchTable(paging.type))

\* What execute_action calls valid ("use propose_action to create a proposal")
\* is refused by propose_action only because of the server's role, because of
\* a proposal on the same object, or because the database failed.
AdviceIsKept ==
  \A r \in refusals : r[1] \in advised =>
    \/ r[2] = "role" /\ RoleRefused(r[1])
    \/ r[2] = "active case" /\ \E p \in offered : p.type = r[1].type /\ p.id = r[1].id
    \/ r[2] = "database"

=============================================================================
