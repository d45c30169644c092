---------------------------- MODULE Governance ----------------------------
(***************************************************************************)
(* The governance tables and what is computed from them: the loader that   *)
(* copies the files of the configuration directory into gov.*, access      *)
(* decisions, classifications and markings, redaction, checkpoints,        *)
(* lineage and the status report.                                          *)
(* Nil of DecisionRules stands for a nil pointer and for an error.         *)
(*                                                                         *)
(* A directory is a partial function from keys (file names without .yml)   *)
(* to files; a file is [hash, convertible, typed], typed being Nil when    *)
(* the file does not parse as its type.                                    *)
(***************************************************************************)
EXTENDS DecisionRules, FiniteSetsExt, SequencesExt

CONSTANTS
  GovDirs,      \* contents the configuration directory may have
  Covers,       \* pairs <<pattern, name>>: the pattern ends in * and fits
  Properties,   \* ontology: object type -> property -> [sensitivity, readable]
  MaxLoads      \* bound: loads

VARIABLES
  dir,     \* contents of the configuration directory
  gov,     \* the tables of the schema gov
  loads,   \* history: the directories whose load was committed
  runs     \* how many loads there were

govVars == <<dir, gov, loads, runs>>

Union(S) == UNION S

EmptyTable == [x \in {} |-> Nil]

-----------------------------------------------------------------------------
(* Loading files.                                                          *)

ConfigTypes == {"aip_object_schema", "data_classification", "access_policy", "data_lineage"}

\* LoadAll: what could be read.  A file that cannot be is left out, one of
\* another type or without its structure stays raw.
LoadAll(d, unreadable) == [k \in DOMAIN d \ unreadable |-> d[k]]

Typed(registry, key) == IF key \in DOMAIN registry THEN registry[key].typed ELSE Nil

\* Only logged: a load goes on without them.
ValidateRequired(registry) == ConfigTypes \ DOMAIN registry

SyncConfigSnapshots(rows, registry) ==
  rows \cup {<<k, registry[k].hash>> : k \in {f \in DOMAIN registry : registry[f].convertible}}

\* ON CONFLICT (object_type, version) DO UPDATE
SyncObjectSchema(rows, schema) == IF schema = Nil THEN rows ELSE Over(schema, rows)

SensitivityScore(level) ==
  CASE level = "pii" -> 100
    [] level = "sensitive" -> 80
    [] level = "derived_sensitive" -> 75
    [] level = "internal" -> 60
    [] level = "public_internal" -> 40
    [] OTHER -> 50

\* Mutant: a load replaces the rows.
SyncDataClassificationAfresh(rows, entries) ==
  IF entries = Nil THEN rows
  ELSE Union({{<<<<c.asset, f>>, c.fields[f]>> : f \in DOMAIN c.fields} : c \in entries})

\* The key of a row is its path and its level: a new level is a new row.
SyncDataClassification(rows, entries) ==
  IF entries = Nil THEN rows
  ELSE Union({{<<<<c.asset, "">>, c.level>>}
               \cup {<<<<c.asset, f>>, c.fields[f]>> : f \in DOMAIN c.fields} : c \in entries})
       \cup rows

LineageConfidence(transform) ==
  CASE transform = "batch_load" -> 100
    [] transform = "api_sync" -> 95
    [] transform = "sql_aggregation" -> 90
    [] transform = "channel_routing" -> 85
    [] transform = "template_instantiation" -> 80
    [] transform = "heuristic_rule" -> 70
    [] OTHER -> 50

SyncDataLineage(rows, edges) ==
  IF edges = Nil THEN rows
  ELSE Over([k \in {<<e.from, e.to, e.transform>> : e \in edges} |->
               LET e == CHOOSE x \in edges : <<x.from, x.to, x.transform>> = k
               IN LineageConfidence(e.type)], rows)

\* role + "_" + action, role + "_access_" + asset: different grants may have
\* one name.
ActionRow(role, action) ==
  [name |-> role \o "_" \o action, resource |-> action, action |-> action,
   principal |-> role, effect |-> "allow", conditions |-> FALSE]

AccessRow(role, asset) ==
  [name |-> role \o "_access_" \o asset, resource |-> asset, action |-> "read",
   principal |-> role, effect |-> "allow", conditions |-> FALSE]

DefaultDenyAll ==
  [name |-> "default_deny_all", resource |-> "*", action |-> "*",
   principal |-> "*", effect |-> "deny", conditions |-> FALSE]

\* A role's rows: its actions, then its data; after the last role comes the
\* row that the loader adds.
PolicyRows(roles, i) ==
  IF i > Len(roles) THEN <<DefaultDenyAll>>
  ELSE [j \in DOMAIN roles[i].actions |-> ActionRow(roles[i].role, roles[i].actions[j])]
       \o [j \in DOMAIN roles[i].access |-> AccessRow(roles[i].role, roles[i].access[j])]

PolicyPlaces(roles) ==
  UNION {{<<i, j>> : j \in DOMAIN PolicyRows(roles, i)} : i \in 1 .. Len(roles) + 1}

PolicyAt(roles, place) == PolicyRows(roles, place[1])[place[2]]

Sooner(p, q) == p[1] < q[1] \/ (p[1] = q[1] /\ p[2] < q[2])

\* The statements for one name, the first and the last of them.
Upserts(roles, name) == {p \in PolicyPlaces(roles) : PolicyAt(roles, p).name = name}

FirstUpsert(roles, name) ==
  CHOOSE p \in Upserts(roles, name) : \A q \in Upserts(roles, name) : ~ Sooner(q, p)

LastUpsert(roles, name) ==
  CHOOSE p \in Upserts(roles, name) : \A q \in Upserts(roles, name) : ~ Sooner(p, q)

\* ON CONFLICT (policy_name) DO UPDATE SET resource_pattern, action: they are
\* the last statement's, and the rest stays as it was inserted.
UpsertPolicy(rows, roles, name) ==
  LET old == IF name \in DOMAIN rows THEN rows[name]
             ELSE PolicyAt(roles, FirstUpsert(roles, name))
      new == PolicyAt(roles, LastUpsert(roles, name))
  IN [name |-> name, resource |-> new.resource, action |-> new.action,
      principal |-> old.principal, effect |-> old.effect, conditions |-> old.conditions]

SyncAccessPolicy(rows, roles) ==
  IF roles = Nil THEN rows
  ELSE [name \in DOMAIN rows \cup {PolicyAt(roles, p).name : p \in PolicyPlaces(roles)} |->
          IF Upserts(roles, name) = {} THEN rows[name] ELSE UpsertPolicy(rows, roles, name)]

\* SyncSnapshots; nothing is ever deleted.
SyncSnapshots(tables, registry) ==
  [snapshot |-> SyncConfigSnapshots(tables.snapshot, registry),
   schema |-> SyncObjectSchema(tables.schema, Typed(registry, "aip_object_schema")),
   classification |->
     SyncDataClassification(tables.classification, Typed(registry, "data_classification")),
   lineage |-> SyncDataLineage(tables.lineage, Typed(registry, "data_lineage")),
   policy |-> SyncAccessPolicy(tables.policy, Typed(registry, "access_policy"))]

IsSequence(s) == s \in Seq(Range(s))

\* What parses as access policies: lists of roles with lists.
ASSUME GovernanceAssumption ==
  \A d \in GovDirs : LET roles == Typed(d, "access_policy") IN
    roles # Nil =>
      /\ IsSequence(roles)
      /\ \A i \in DOMAIN roles : IsSequence(roles[i].actions) /\ IsSequence(roles[i].access)

-----------------------------------------------------------------------------
(* Access.                                                                 *)

Matches(pattern, name) == pattern \in {"*", "", name} \/ <<pattern, name>> \in Covers

\* Mutant: an allowed resource is allowed for every action.
CheckAccessAnyAction(policies, role, object, action) ==
  IF \E n \in DOMAIN policies : /\ policies[n].principal = role
                                /\ Matches(policies[n].resource, object)
  THEN "allowed" ELSE "denied"

\* The role's policies by name; a deny among the matching ones wins, and the
\* first allow decides.
CheckAccess(policies, role, object, action) ==
  LET matching(effect) ==
        {n \in DOMAIN policies : /\ policies[n].principal = role
                                 /\ policies[n].effect = effect
                                 /\ Matches(policies[n].resource, object)
                                 /\ Matches(policies[n].action, action)}
  IN IF matching("deny") # {} \/ matching("allow") = {} THEN "denied"
     ELSE IF \E n \in matching("allow") : policies[n].conditions THEN "conditional"
     ELSE "allowed"

-----------------------------------------------------------------------------
(* Classifications and markings.  A path with rows of several levels may   *)
(* be read as any of them: the rows are ordered by their path only.        *)

ResolveLevel(level) ==
  CASE level \in {"pii", "sensitive"} -> 3
    [] level = "public_internal" -> 1
    [] OTHER -> 2

Levels(rows, path) == {r[2] : r \in {q \in rows : q[1] = path}}

ReadAs(level) ==
  [level |-> ResolveLevel(level), pii |-> level = "pii", llm |-> ResolveLevel(level) # 3]

DefaultMarking == ReadAs("internal")

\* ClassificationService.GetFieldMarking: the answers it may give.
ClassMarkings(rows, type, field) ==
  LET levels == Levels(rows, <<type, field>>)
  IN IF levels = {} THEN {DefaultMarking} ELSE {ReadAs(l) : l \in levels}

GetClassification(rows, path) ==
  IF Levels(rows, path) = {} THEN {ResolveLevel("internal")}
  ELSE {ResolveLevel(l) : l \in Levels(rows, path)}

Sensitivity(type, field) ==
  IF type \in DOMAIN Properties /\ field \in DOMAIN Properties[type]
  THEN Properties[type][field].sensitivity ELSE 0

\* MarkingAdapter.GetFieldMarking: the default gives way to a higher level
\* of the ontology.
Unify(marking, sensitivity) ==
  IF marking = DefaultMarking /\ sensitivity > marking.level
  THEN [level |-> 3, pii |-> TRUE, llm |-> FALSE]
  ELSE marking

FieldMarkings(rows, type, field) ==
  {Unify(m, Sensitivity(type, field)) : m \in ClassMarkings(rows, type, field)}

GetObjectMarkings(rows, type) ==
  [f \in DOMAIN Properties[type] |-> FieldMarkings(rows, type, f)]

\* The ontology's own flag, and not its sensitivity, completes the answer.
IsLLMAllowed(marking, type, field) ==
  /\ marking.level # 3
  /\ type \in DOMAIN Properties /\ field \in DOMAIN Properties[type]
  /\ Properties[type][field].readable

MapClassification(marking) ==
  IF marking.pii THEN "pii"
  ELSE CASE marking.level = 3 -> "sensitive"
         [] marking.level = 1 -> "public_internal"
         [] OTHER -> "internal"

ResolveOverall(classifications) ==
  LET classes == {classifications[f] : f \in DOMAIN classifications}
  IN IF classes \cap {"pii", "sensitive"} # {} THEN 3
     ELSE IF classes \cap {"internal", "derived_sensitive"} # {} THEN 2 ELSE 1

-----------------------------------------------------------------------------
(* Redaction.                                                              *)

CheckMarking(marking, role) ==
  \/ marking \in {"PII", "FINANCIAL_INTERNAL", "RAW_DATA"} /\ role # "admin"
  \/ marking = "OPERATIONAL_INTERNAL" /\ role = "viewer"

CheckClassification(class, role) ==
  \/ class = "pii"
  \/ class \in {"sensitive", "derived_sensitive"} /\ role \in {"viewer", "agent_readonly"}
  \/ class = "internal" /\ role = "viewer"

\* The fields that are taken out; a field without a class stays.
RedactObjectContext(fields, classifications, markings, role) ==
  {f \in fields : \/ f \in DOMAIN markings /\ CheckMarking(markings[f], role)
                  \/ f \in DOMAIN classifications /\ CheckClassification(classifications[f], role)}

-----------------------------------------------------------------------------
(* Checkpoints, lineage, status.                                           *)

\* The rules of the configuration are parsed out of the snapshot's status,
\* which is always "loaded": only the built-in ones count.
RequiresCheckpoint(action) ==
  action \in {"execute_dispatch", "modify_business_policy", "trigger_pipeline"}

GetUpstream(rows, resource)   == {k[1] : k \in {r \in DOMAIN rows : r[2] = resource}}
GetDownstream(rows, resource) == {k[2] : k \in {r \in DOMAIN rows : r[1] = resource}}

GetLineage(rows, resource) ==
  [upstream |-> GetUpstream(rows, resource), downstream |-> GetDownstream(rows, resource)]

GetStatus(tables) ==
  [layer |-> IF tables.snapshot = {} THEN "unknown" ELSE "active",
   configs |-> {s[1] : s \in tables.snapshot},
   schemas |-> Cardinality(DOMAIN tables.schema)]

HealthStatus(rows) == IF rows = {} THEN "unknown" ELSE "healthy"

\* The catalogue names datasets and keys by the object's type.
InferSourceDataset(type) ==
  LET known == [customer |-> "olist_customers", order |-> "olist_orders",
                product |-> "olist_products", seller |-> "olist_sellers",
                geolocation |-> "olist_geolocation"]
  IN IF type \in DOMAIN known THEN known[type] ELSE type

InferPrimaryKey(type) ==
  LET known == [customer |-> "customer_id", order |-> "order_id", product |-> "product_id",
                seller |-> "seller_id", geolocation |-> "zip_code_prefix"]
  IN IF type \in DOMAIN known THEN known[type] ELSE "id"

GetCatalog(tables) ==
  [objects |-> {<<t, InferSourceDataset(t), InferPrimaryKey(t)>> : t \in DOMAIN tables.schema},
   datasets |-> {InferSourceDataset(t) : t \in DOMAIN tables.schema}]

\* baxi-cli governance check: every required key has been loaded once.
CheckPasses(tables) == ConfigTypes \subseteq {s[1] : s \in tables.snapshot}

-----------------------------------------------------------------------------
EmptyTables ==
  [snapshot |-> {}, schema |-> EmptyTable, classification |-> {},
   lineage |-> EmptyTable, policy |-> EmptyTable]

GovInit ==
  /\ dir \in GovDirs
  /\ gov = EmptyTables
  /\ loads = << >>
  /\ runs = 0

\* Somebody edits the files.
Edit ==
  /\ dir' \in GovDirs \ {dir}
  /\ UNCHANGED <<gov, loads, runs>>

\* A load that commits; when the reply to its COMMIT is lost, its caller is
\* told of an error all the same.
Load(unreadable) ==
  /\ runs < MaxLoads
  /\ LET registry == LoadAll(dir, unreadable)
     IN /\ gov' = SyncSnapshots(gov, registry)
        /\ loads' = Append(loads, registry)
  /\ runs' = runs + 1
  /\ UNCHANGED dir

\* Mutant: one statement fails, and the rest is committed.
LoadFailsPartly(part) ==
  /\ runs < MaxLoads
  /\ gov' = [SyncSnapshots(gov, dir) EXCEPT ![part] = gov[part]]
  /\ loads' = Append(loads, dir)
  /\ runs' = runs + 1
  /\ UNCHANGED dir

\* A statement or the commit fails.  The error of a statement is logged and
\* the load goes on, but the transaction is aborted: no later statement and no
\* commit can succeed.
LoadFails(part) ==
  /\ runs < MaxLoads
  /\ runs' = runs + 1
  /\ UNCHANGED <<dir, gov, loads>>

GovNext ==
  \/ Edit
  \/ \E unreadable \in {{}} \cup {{k} : k \in DOMAIN dir} : Load(unreadable)
  \/ \E part \in DOMAIN gov : LoadFails(part)

-----------------------------------------------------------------------------
(* Properties.                                                             *)

Roles == {"admin", "analyst", "viewer", "agent_readonly"}

\* What a loaded configuration grants: the rows it asks for.
Granted(registry) ==
  LET roles == Typed(registry, "access_policy")
  IN IF roles = Nil THEN {} ELSE {PolicyAt(roles, p) : p \in PolicyPlaces(roles)}

Loaded == UNION {Granted(loads[i]) : i \in DOMAIN loads}

\* Two grants have one name.
Shared(name) == \E g, h \in Loaded : g # h /\ g.name = name /\ h.name = name

\* Access is granted only by a policy that a committed load asked for, to that
\* role, unless two grants of it share a name; and what the last one of them
\* grants to a role, which is not called *, is granted, whatever happened to
\* the loads after it.
AccessFollowsLoads ==
  /\ \A n \in DOMAIN gov.policy : LET p == gov.policy[n] IN
       \A object \in {g.resource : g \in Loaded}, action \in {g.action : g \in Loaded} :
         CheckAccess(gov.policy, p.principal, object, action) # "denied"
           => \E g \in Loaded : \/ /\ g.principal = p.principal /\ g.effect = "allow"
                                   /\ Matches(g.resource, object) /\ Matches(g.action, action)
                                \/ g.principal = p.principal /\ Shared(g.name)
  /\ loads # << >> => \A g \in Granted(Last(loads)) :
       g.effect = "allow" /\ g.principal # "*" /\ ~ Shared(g.name)
         => CheckAccess(gov.policy, g.principal, g.resource, g.action) = "allowed"

=============================================================================
