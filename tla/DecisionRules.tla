--------------------------- MODULE DecisionRules ---------------------------
(***************************************************************************)
(* What the decision service computes without touching a table: the        *)
(* action registry, the validation of an LLM's output, the rule-based      *)
(* provider, and the scores and comparisons of decisions.  A confidence is *)
(* a percentage, a ratio a pair <<numerator, denominator>>; summaries and  *)
(* rationales are left out except where they decide something.             *)
(***************************************************************************)
EXTENDS Integers, Sequences, FiniteSets, Null

CanonicalActions == {"create_followup_task", "notify_owner", "export_report",
                     "create_outbox_message"}

-----------------------------------------------------------------------------
(* The action registry.  A file is [state, actions], actions a partial     *)
(* function to configurations; a registry is the function that is left.    *)

DefaultConfig == [enabled |-> TRUE, required |-> {}, allowed |-> << >>,
                  allowedBy |-> {}, llmVisible |-> FALSE, approval |-> TRUE]

WhitelistActions(file) ==
  IF file.state = "absent"
  THEN [a \in CanonicalActions |-> DefaultConfig]
  ELSE [a \in {b \in DOMAIN file.actions \cap CanonicalActions :
                 file.actions[b].enabled} |-> file.actions[a]]

EmptyRegistry == [a \in {} |-> DefaultConfig]

\* A file that is absent gives the defaults, one that cannot be parsed no
\* registry at all; the callers take the empty one.
NewActionRegistry(file) ==
  IF file.state = "unparsable" THEN EmptyRegistry ELSE WhitelistActions(file)

IsAllowed(registry, action) == action \in DOMAIN registry

GetLLMVisibleActions(registry) == {a \in DOMAIN registry : registry[a].llmVisible}

\* allowed[f] is the set of values that type, enum and maxLength of field f
\* admit; a field without a definition, and a null, pass.
ValidatePayload(registry, action, payload) ==
  IF action \notin DOMAIN registry THEN {<<"action type not found", action>>}
  ELSE LET config == registry[action]
       IN {<<"missing", f>> : f \in {g \in config.required :
                 g \notin DOMAIN payload \/ payload[g] = Nil}}
          \cup {<<"inadmissible", f>> :
                 f \in {g \in DOMAIN payload \cap DOMAIN config.allowed :
                          payload[g] # Nil /\ payload[g] \notin config.allowed[g]}}

-----------------------------------------------------------------------------
(* Outputs of providers.                                                   *)

DecisionTypes   == {"monitor_only", "investigate", "optimize", "intervention", "experiment"}
Severities      == {"low", "medium", "high", "critical"}
ValidActions    == CanonicalActions \cup {"escalate_to_human"}
ActionTypes(output) == {output.actions[i].type : i \in DOMAIN output.actions}

ValidateDecision(output, allowedActions) ==
  IF output = Nil THEN {<<"output", 0>>}
  ELSE {<<"schema_version", 0>> : x \in {output.schema} \ {"", "decision_output.v1"}}
       \cup {<<"decision_type", 0>> : x \in {output.decisionType} \ DecisionTypes}
       \cup {<<"severity", 0>> : x \in {output.severity} \ Severities}
       \cup {<<"confidence", 0>> : x \in {output.confidence} \ (0 .. 100)}
       \cup {<<"requires_human_review", 0>> : x \in {output.review} \ {TRUE}}
       \cup {<<"recommended_actions", i>> : i \in {j \in DOMAIN output.actions :
               output.actions[j].type \notin allowedActions \cap ValidActions}}

IsValid(output, allowedActions) == ValidateDecision(output, allowedActions) = {}

NoPayload == [f \in {} |-> Nil]

Recommend(type, owner) == [type |-> type, owner |-> owner, payload |-> NoPayload]

\* RuleBasedProvider.decide: never fails, and asks for a review.
RuleOutput(severity) ==
  LET Decide(type, confidence, actions) ==
        [schema |-> "", decisionType |-> type, severity |-> severity,
         confidence |-> confidence, review |-> TRUE, actions |-> actions]
  IN CASE severity = "critical" -> Decide("escalate_to_human", 95,
             <<Recommend("escalate_to_human", "ops"), Recommend("notify_owner", "ops")>>)
       [] severity = "high" -> Decide("escalate_to_human", 85,
             <<Recommend("escalate_to_human", "ops"), Recommend("notify_owner", "ops")>>)
       [] severity = "medium" -> Decide("investigate", 72,
             <<Recommend("notify_owner", "analyst"), Recommend("create_followup_task", "analyst")>>)
       [] severity = "low" -> Decide("monitor_only", 60,
             <<Recommend("create_followup_task", "analyst")>>)
       [] OTHER -> Decide("investigate", 50, <<Recommend("notify_owner", "analyst")>>)

\* What OpenAICompatibleProvider.GenerateDecision makes of an answer of the
\* API: Nil stands for an error, a timeout, no choice, a refusal or a text
\* that is not JSON.
OpenAIOutput(answer) ==
  IF answer = Nil THEN Nil
  ELSE [answer EXCEPT !.schema = IF @ = "" THEN "decision_output.v1" ELSE @,
                      !.review = TRUE]

\* ProviderFactory.CreateProvider; an error makes the callers fall back.
ProviderKind(enabled, configured, hasPrompts) ==
  IF /\ enabled
     /\ configured \in {"openai", "openai_compatible"}
     /\ hasPrompts
  THEN "openai" ELSE "rule_based"

MapRiskLevel(severity) ==
  CASE severity \in {"critical", "high"} -> "high"
    [] severity = "low" -> "low"
    [] OTHER -> "medium"

-----------------------------------------------------------------------------
(* Evaluation, replay and comparison of decisions.                         *)

Distance(x, y) == IF x < y THEN y - x ELSE x - y

\* jaccardIndex of comparison.go, on sets.
JaccardIndex(a, b) ==
  LET left  == ActionTypes(a)
      right == ActionTypes(b)
      intersection == Cardinality(left \cap right)
      union == Cardinality(left) + Cardinality(right) - intersection
  IN IF union = 0 THEN <<1, 1>> ELSE <<intersection, union>>

\* computeDecisionDiff of replay.go counts the replayed list, repetitions too.
ActionOverlap(original, replayed) ==
  LET matches == Cardinality({i \in DOMAIN replayed.actions :
                                replayed.actions[i].type \in ActionTypes(original)})
      union == Len(original.actions) + Len(replayed.actions) - matches
  IN IF union > 0 THEN <<matches, union>> ELSE <<1, 1>>

ComputeDecisionDiff(original, replayed) ==
  [typeMatch |-> original.decisionType = replayed.decisionType,
   severityMatch |-> original.severity = replayed.severity,
   confidence |-> Distance(original.confidence, replayed.confidence),
   overlap |-> ActionOverlap(original, replayed)]

Compare(llm, rule) ==
  [typeMatch |-> llm.decisionType = rule.decisionType,
   severityMatch |-> llm.severity = rule.severity,
   confidence |-> Distance(llm.confidence, rule.confidence),
   overlap |-> JaccardIndex(llm, rule)]

\* The dimensions that pass; substantive says whether the summary has ten
\* characters, reasoned whether there is a rationale.
EvaluateDimensions(output, allowedActions, substantive, reasoned) ==
  IF output = Nil THEN {}
  ELSE LET some   == output.actions # << >>
           inside == ActionTypes(output) \subseteq allowedActions
           Holds(name, condition) == {x \in {name} : condition}
       IN Holds("schema_validity", IsValid(output, allowedActions))
          \cup Holds("governance_compliance", some /\ inside)
          \cup Holds("action_safety", inside)
          \cup Holds("human_review_required", output.review)
          \cup Holds("context_grounding", substantive)
          \cup Holds("rationale_completeness", reasoned)
          \cup Holds("not_overgeneralized",
                     some /\ ActionTypes(output) \cap {"", "default", "all", "any"} = {})
          \cup Holds("has_owner_role",
                     some /\ \A i \in DOMAIN output.actions : output.actions[i].owner # "")
          \cup Holds("action_relevance", some /\ inside)

\* Nine dimensions of equal weight: pass from an average of 0.75 on.
EvalStatus(passed) == IF Cardinality(passed) * 100 < 75 * 9 THEN "fail" ELSE "pass"

=============================================================================
