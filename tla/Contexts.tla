------------------------------ MODULE Contexts ------------------------------
(***************************************************************************)
(* How the context of a decision is built while the governance tables may  *)
(* change: one lookup per field, redaction, links, actions, evidence, and  *)
(* the envelope of a recipe.  v1 asks the classifications, v2 the unified  *)
(* markings, v3 adds the objects that v2's object links to, and a recipe   *)
(* takes its classes from the ontology alone.                              *)
(***************************************************************************)
EXTENDS Governance

CONSTANTS
  Objects,     \* what can be asked for: <<type, id>> -> fields that are not null
  ContextCases,       \* the cases: [object, severity, alert], the latter two may be Nil
  Links,       \* ontology: object type -> set of [name, via, target]
  Recipes,     \* the recipes: name -> recipe
  ActionFiles, \* states of the action registry's file
  MaxBuilds    \* bound: contexts

VARIABLES
  build,       \* the context under construction, or Nil
  context,     \* the last one, or Nil
  builds       \* how many there were

\* Fields have names, and recipes are for roles that see nothing secret.
ASSUME ContextsAssumption ==
  /\ \A case \in ContextCases : "" \notin Objects[case.object]
  /\ \A name \in DOMAIN Recipes : Recipes[name].role \in {"viewer", "agent_readonly"}
  /\ \A type \in DOMAIN Properties : \A f \in DOMAIN Properties[type] :
       Properties[type][f].sensitivity \in Nat

buildVars == <<build, context, builds>>
ctxVars == <<dir, gov, loads, runs, build, context, builds>>

-----------------------------------------------------------------------------
(* The choice of a builder.                                                *)

\* SwitchableContextBuilder: the version that was chosen, then the flag.
PickBuilder(version, wired, flag) ==
  IF version \in {"v2", "v3"} /\ version \in wired THEN version
  ELSE IF flag /\ "v2" \in wired THEN "v2" ELSE "v1"

\* v1 and v2 report the severity of the case, or else of its alert.
BuildTrigger(severity, alert) ==
  IF alert = Nil THEN [alert |-> Nil, severity |-> severity]
  ELSE [alert |-> alert.id, severity |-> IF severity = Nil THEN alert.severity ELSE severity]

-----------------------------------------------------------------------------
(* Links: what traverseAtDepth finds from an object, two levels deep.  An  *)
(* object that cannot be read is skipped, and so is a link whose property  *)
(* is null.  What it finds is not redacted.                                *)

Follow(object, prefix, depth, readable) ==
  IF object \notin readable THEN {}
  ELSE {[path |-> Append(prefix, l.name), depth |-> depth, object |-> l.target] :
          l \in {k \in Links[object[1]] : k.via \in Objects[object] /\ k.target \in readable}}

Traverse(object, readable) ==
  LET near == Follow(object, << >>, 1, readable)
  IN near \cup UNION {Follow(n.object, n.path, 2, readable) : n \in near}

-----------------------------------------------------------------------------
(* What the context lets the agent do.                                     *)

ForbiddenV1 == {"execute_dispatch", "modify_raw_data", "write_dwd", "write_mart"}
ForbiddenV2 == {"execute", "apply", "dispatch"}

AllowedActions(builder, registry) ==
  IF builder = "v1"
  THEN {"create_followup_task", "notify_owner", "export_report", "escalate_to_human"}
  ELSE DOMAIN registry

\* v2's buildPolicyResult: the registry lists what it allows, so that
\* nothing is blocked.
BuildPolicyResult(registry) ==
  LET approval == {a \in DOMAIN registry : registry[a].approval}
  IN [allowed |-> DOMAIN registry, blocked |-> {}, approval |-> approval,
      human |-> approval # {},
      sources |-> UNION {registry[a].allowedBy : a \in DOMAIN registry}]

EvidenceKeys(trigger, metrics) ==
  {<<"alert", "id">> : x \in {trigger.alert} \ {Nil}}
  \cup UNION {{<<m, "value">>, <<m, "baseline">>} : m \in metrics}

-----------------------------------------------------------------------------
(* Recipes.                                                                *)

\* The recipe asked for, or one whose rule is named in the alert's id; the
\* map is walked in any order.
MatchRecipes(asked, rule) ==
  IF asked \in DOMAIN Recipes THEN {asked}
  ELSE {r \in DOMAIN Recipes : Recipes[r].rule # Nil /\ Recipes[r].rule = rule}

\* Planned properties are left out; those the recipe does not name, too.
RootFields(recipe, object) ==
  LET known == {f \in DOMAIN Properties[object[1]] :
                  recipe.properties = {} \/ f \in recipe.properties}
  IN {f \in known : Properties[object[1]][f].availability # "planned"}

\* Every property gets a class from its sensitivity; L0 and L4 fall through
\* to the default.
RecipeClass(recipe, sensitivity) ==
  CASE sensitivity = 3 -> "sensitive"
    [] sensitivity = 2 -> "internal"
    [] sensitivity = 1 -> "public_internal"
    [] OTHER -> IF recipe.redactPII THEN "pii" ELSE "internal"

ApplyGovernance(recipe, type, fields) ==
  LET classes == [f \in DOMAIN Properties[type] |-> RecipeClass(recipe, Sensitivity(type, f))]
  IN RedactObjectContext(fields, classes, EmptyTable, recipe.role)

ResolveActions(recipe, registry) ==
  IF recipe.actions # {}
  THEN [allowed |-> recipe.actions \cap DOMAIN registry,
        forbidden |-> recipe.actions \ DOMAIN registry]
  ELSE [allowed |-> DOMAIN registry, forbidden |-> {}]

\* The overall level is taken from an empty map, and the linked objects are
\* read and dropped.
RecipeEnvelope(name, object, trigger, planned, metrics, registry) ==
  LET recipe == Recipes[name]
      root   == IF planned THEN {} ELSE RootFields(recipe, object)
      fields == root \cup UNION {{"metric_" \o m \o "_value", "metric_" \o m \o "_baseline"}
                                  : m \in metrics}
      hidden == ApplyGovernance(recipe, object[1], fields)
  IN [builder |-> "recipe", object |-> object, shown |-> fields \ hidden, hidden |-> hidden,
      overall |-> ResolveOverall(EmptyTable), linked |-> {}, lost |-> {}, since |-> loads,
      actions |-> ResolveActions(recipe, registry).allowed, policy |-> Nil,
      evidence |-> EvidenceKeys(trigger, metrics)]

-----------------------------------------------------------------------------
ContextsInit ==
  /\ GovInit
  /\ build = Nil /\ context = Nil /\ builds = 0

\* The trigger and the object are read.
StartBuild(case, builder) ==
  /\ build = Nil /\ builds < MaxBuilds
  /\ build' = [builder |-> builder, object |-> case.object,
               trigger |-> BuildTrigger(case.severity, case.alert),
               left |-> Objects[case.object], classes |-> EmptyTable, lost |-> {},
               since |-> loads]
  /\ builds' = builds + 1
  /\ UNCHANGED <<dir, gov, loads, runs, context>>

Markings(b, field) ==
  IF b.builder = "v1" THEN ClassMarkings(gov.classification, b.object[1], field)
  ELSE FieldMarkings(gov.classification, b.object[1], field)

\* One field is looked up, each time in the tables as they are now.
ClassifyField(field, marking) ==
  /\ build # Nil
  /\ field \in build.left
  /\ build' = [build EXCEPT !.left = @ \ {field},
                            !.classes = Put(@, field, MapClassification(marking))]
  /\ UNCHANGED <<dir, gov, loads, runs, context, builds>>

\* The lookup fails: v1 leaves the field without a class, v2 takes it for
\* internal; neither hides it from the agent.
LookupFails(field) ==
  /\ build # Nil
  /\ field \in build.left
  /\ build' = [build EXCEPT !.left = @ \ {field}, !.lost = @ \cup {field},
                            !.classes = IF build.builder = "v1" THEN @
                                        ELSE Put(@, field, "internal")]
  /\ UNCHANGED <<dir, gov, loads, runs, context, builds>>

FinishBuild(registry, readable) ==
  /\ build # Nil
  /\ build.left = {}
  /\ LET fields == Objects[build.object]
         hidden == RedactObjectContext(fields, build.classes, EmptyTable, "agent_readonly")
     IN context' = [builder |-> build.builder, object |-> build.object,
                    shown |-> fields \ hidden, hidden |-> hidden,
                    overall |-> ResolveOverall(build.classes),
                    linked |-> IF build.builder = "v3" THEN Traverse(build.object, readable)
                               ELSE {},
                    lost |-> build.lost, since |-> build.since,
                    actions |-> AllowedActions(build.builder, registry),
                    policy |-> IF build.builder = "v1" THEN Nil ELSE BuildPolicyResult(registry),
                    evidence |-> EvidenceKeys(build.trigger, {})]
  /\ build' = Nil
  /\ UNCHANGED <<dir, gov, loads, runs, builds>>

\* BuildDecisionContext fails: no case, no object, no alert.
AbortBuild ==
  /\ build # Nil
  /\ build' = Nil
  /\ UNCHANGED <<dir, gov, loads, runs, context, builds>>

BuildEnvelope(case, name, planned, metrics, registry) ==
  /\ build = Nil /\ builds < MaxBuilds
  /\ context' = RecipeEnvelope(name, case.object, BuildTrigger(case.severity, case.alert),
                               planned, metrics, registry)
  /\ builds' = builds + 1
  /\ UNCHANGED <<dir, gov, loads, runs, build>>

ContextsNext ==
  \/ GovNext /\ UNCHANGED buildVars
  \/ \E case \in ContextCases, version \in {"", "v2", "v3"}, flag \in BOOLEAN,
        wired \in {{}, {"v2"}, {"v2", "v3"}} :
       StartBuild(case, PickBuilder(version, wired, flag))
  \/ \E field \in (IF build = Nil THEN {} ELSE build.left) :
       \/ LookupFails(field)
       \/ \E marking \in Markings(build, field) : ClassifyField(field, marking)
  \/ \E file \in ActionFiles,
        readable \in {DOMAIN Objects} \cup {DOMAIN Objects \ {o} : o \in DOMAIN Objects} :
       FinishBuild(NewActionRegistry(file), readable)
  \/ AbortBuild
  \/ \E case \in ContextCases, asked \in {Nil} \cup DOMAIN Recipes, planned \in BOOLEAN,
        file \in ActionFiles :
       \E name \in MatchRecipes(asked, IF case.alert = Nil THEN Nil ELSE case.alert.id) :
         BuildEnvelope(case, name, planned, Recipes[name].metrics, NewActionRegistry(file))

ContextsSpec == ContextsInit /\ [][ContextsNext]_ctxVars

-----------------------------------------------------------------------------
(* Properties.                                                             *)

Secret == {"pii", "sensitive"}

\* The levels a loaded configuration gives to a field.
NamedLevels(registry, type, field) ==
  IF Typed(registry, "data_classification") = Nil THEN {}
  ELSE {c.fields[field] : c \in {e \in Typed(registry, "data_classification") :
                                   e.asset = type /\ field \in DOMAIN e.fields}}

\* Some load before the build has named the field, and no load until now has
\* called it anything but secret.
KnownSecret(type, field) ==
  /\ \E i \in DOMAIN context.since : NamedLevels(context.since[i], type, field) # {}
  /\ \A i \in DOMAIN loads : NamedLevels(loads[i], type, field) \subseteq Secret

Unnamed(type, field) == \A i \in DOMAIN loads : NamedLevels(loads[i], type, field) = {}

\* A field that the loaded configurations agree to keep from the agent is not
\* in a context, however loads and lookups interleave, unless its lookup
\* failed; v2 and v3 also keep what only the ontology calls sensitive, and
\* so does a recipe.
HiddenStaysHidden ==
  context # Nil => \A f \in context.shown \ context.lost :
    LET type == context.object[1]
    IN /\ context.builder # "recipe" => ~ KnownSecret(type, f)
       /\ context.builder \in {"v2", "v3"} /\ Unnamed(type, f) => Sensitivity(type, f) <= 2
       /\ context.builder = "recipe" => Sensitivity(type, f) # 3

=============================================================================
