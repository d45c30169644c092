--------------------------- MODULE MCDecisionCase ---------------------------
EXTENDS DecisionCase, TLC

CallerSymmetry == Permutations(Callers)

Payload(field) == [f \in {field} |-> "text"]

MCAlerts == [a \in {"alert"} |-> [severity |-> "high", object |-> "order"]]

\* The file configures an action that is not canonical; a field is required.
MCRegistryFile ==
  [state |-> "loaded",
   actions |-> [a \in {"notify_owner", "create_followup_task", "escalate_to_human"} |->
     [DefaultConfig EXCEPT !.required = IF a = "escalate_to_human" THEN {} ELSE {"message"},
                           !.allowedBy = {"analyst"}]]]

Answer(type, actions) ==
  [schema |-> "decision_output.v1", decisionType |-> type, severity |-> "high",
   confidence |-> 80, review |-> TRUE, actions |-> actions]

\* A valid answer whose first action lacks its payload, an invalid one, none.
MCOutputs ==
  {Answer("investigate",
     <<Recommend("create_followup_task", "ops"),
       [Recommend("notify_owner", "ops") EXCEPT !.payload = Payload("message")]>>),
   Answer("panic", << >>), Nil}

MCContextActions == {"create_followup_task", "notify_owner", "export_report", "escalate_to_human"}
=============================================================================
