------------------------- MODULE DecisionCaseProofs -------------------------
(***************************************************************************)
(* Theorems about DecisionCase, for any number of callers, alerts, objects *)
(* and answers of the LLM.                                                 *)
(***************************************************************************)
EXTENDS DecisionCase, TLAPS

-----------------------------------------------------------------------------
(* Lemmas about sequences of rows and the operators of the model.          *)

\* A table keeps its type when the type grows.
LEMMA SeqMonotone ==
  ASSUME NEW S, NEW T, S \subseteq T, NEW s \in Seq(S)
  PROVE  s \in Seq(T)
OBVIOUS

\* INSERT adds a row at the end and leaves the others where they are.
LEMMA AppendRow ==
  ASSUME NEW S, NEW s \in Seq(S), NEW row \in S
  PROVE  /\ Append(s, row) \in Seq(S)
         /\ DOMAIN Append(s, row) = DOMAIN s \cup {Len(s) + 1}
         /\ Len(s) + 1 \notin DOMAIN s
         /\ Len(s) + 1 \in Nat
         /\ Append(s, row)[Len(s) + 1] = row
         /\ \A i \in DOMAIN s : Append(s, row)[i] = s[i]
OBVIOUS

\* UPDATE replaces one row.
LEMMA UpdateRow ==
  ASSUME NEW S, NEW s \in Seq(S), NEW i \in DOMAIN s, NEW row \in S
  PROVE  /\ [s EXCEPT ![i] = row] \in Seq(S)
         /\ DOMAIN [s EXCEPT ![i] = row] = DOMAIN s
         /\ \A j \in DOMAIN s : [s EXCEPT ![i] = row][j] = IF j = i THEN row ELSE s[j]
OBVIOUS

\* A decision recommends a list of actions, the rules' output included.
LEMMA ActionsAreLists ==
  ASSUME NEW a \in {o.actions : o \in Outputs \ {Nil}} \cup {RuleOutput(s).actions : s \in Severity}
  PROVE  Len(a) \in Nat /\ DOMAIN a = 1 .. Len(a)
<1>1. CASE a \in {o.actions : o \in Outputs \ {Nil}}
  <2>1. a \in Seq({a[i] : i \in DOMAIN a})
    BY <1>1, CaseAssumption DEF CaseAssumption
  <2>2. QED
    BY <2>1
<1>2. CASE \E s \in Severity : a = RuleOutput(s).actions
  <2>1. PICK s \in Severity : a = RuleOutput(s).actions
    BY <1>2
  <2>2. \/ a = <<Recommend("escalate_to_human", "ops"), Recommend("notify_owner", "ops")>>
        \/ a = <<Recommend("notify_owner", "analyst"), Recommend("create_followup_task", "analyst")>>
        \/ a = <<Recommend("create_followup_task", "analyst")>>
        \/ a = <<Recommend("notify_owner", "analyst")>>
    BY <2>1 DEF RuleOutput
  <2>3. QED
    BY <2>2
<1>3. QED
  BY <1>1, <1>2

\* What the engine hands to SaveDecision has such a list.
LEMMA EngineActions ==
  ASSUME NEW context, context.severity \in Severity, NEW output \in EngineOutputs(context)
  PROVE  output.actions \in {o.actions : o \in Outputs \ {Nil}}
                            \cup {RuleOutput(s).actions : s \in Severity}
<1>1. CASE output = RuleOutput(context.severity)
  BY <1>1
<1>2. CASE output \in Outputs /\ IsValid(output, ContextActions)
  <2>1. output # Nil
    BY <1>2 DEF IsValid, ValidateDecision
  <2>2. QED
    BY <1>2, <2>1
<1>3. QED
  BY <1>1, <1>2 DEF EngineOutputs

\* An UPDATE of a status changes that status and nothing else, and only when
\* the index admits it.
LEMMA StatusUpdate ==
  ASSUME TypeOK, NEW i \in DOMAIN cases, NEW status \in Statuses,
         \/ cases' = [cases EXCEPT ![i].status = status]
         \/ UpdateCaseStatus(i, status)
         \/ UNCHANGED cases
  PROVE  /\ cases' \in Seq(CaseRows)
         /\ DOMAIN cases' = DOMAIN cases
         /\ Len(cases') = Len(cases)
         /\ \A j \in DOMAIN cases : cases'[j].source = cases[j].source
         /\ \A j \in DOMAIN cases \ {i} : cases'[j].status = cases[j].status
         /\ cases'[i].status \in {status, cases[i].status}
<1>1. CASE cases' = cases
  BY <1>1 DEF TypeOK
<1>2. CASE cases' = [cases EXCEPT ![i].status = status]
  <2> DEFINE row == [cases[i] EXCEPT !.status = status]
  <2>1. cases[i] \in CaseRows
    BY DEF TypeOK
  <2>2. row \in CaseRows /\ row.source = cases[i].source /\ row.status = status
    BY <2>1 DEF CaseRows
  <2>3. cases' = [cases EXCEPT ![i] = row]
    BY <1>2
  <2> HIDE DEF row
  <2>4. QED
    BY <2>2, <2>3, UpdateRow DEF TypeOK
<1>3. QED
  BY <1>1, <1>2 DEF UpdateCaseStatus

-----------------------------------------------------------------------------
(* Type correctness.                                                       *)

\* The fields of a call that is under way.
LEMMA CallShape ==
  ASSUME NEW x \in Calls
  PROVE  /\ x.step \in {"inserting"} => x \in [step : {"inserting"}, alert : DOMAIN Alerts]
         /\ x.step \in {"generating"} => x \in [step : {"generating"}, job : Jobs]
         /\ x.step \in {"marking"} =>
              x \in [step : {"marking"}, job : Jobs, decision : DOMAIN decisions]
         /\ x.step \in {"proposing"} =>
              x \in [step : {"proposing"}, job : Jobs, decision : DOMAIN decisions,
                     index : Nat \ {0}]
         /\ x.step \in {"reviewing"} =>
              x \in [step : {"reviewing"}, proposal : proposals, read : Statuses]
BY DEF Calls, Idle

\* A call keeps its type while the tables it refers to grow.
LEMMA CallsGrow ==
  ASSUME TypeOK, NEW x \in Calls,
         DOMAIN cases \subseteq DOMAIN cases', DOMAIN decisions \subseteq DOMAIN decisions',
         version' \in Nat, version <= version',
         x.step = "reviewing" => x.proposal \in proposals'
  PROVE  x \in Calls'
<1>1. Contexts \subseteq Contexts'
  BY DEF Contexts, TypeOK
<1>2. Jobs \subseteq Jobs'
  BY <1>1 DEF Jobs
<1>3. CASE x.step = "reviewing"
  BY <1>3, CallShape DEF Calls
<1>4. CASE x.step # "reviewing"
  BY <1>2, <1>4 DEF Calls
<1>5. QED
  BY <1>3, <1>4

LEMMA DecisionsGrow ==
  ASSUME TypeOK, DOMAIN cases \subseteq DOMAIN cases', version' \in Nat, version <= version'
  PROVE  /\ DecisionRows \subseteq DecisionRows'
         /\ decisions \in Seq(DecisionRows')
         /\ DOMAIN decisions \subseteq DOMAIN decisions' => proposals \subseteq ProposalRows'
<1>1. Contexts \subseteq Contexts'
  BY DEF Contexts, TypeOK
<1>2. DecisionRows \subseteq DecisionRows'
  BY <1>1 DEF DecisionRows
<1>3. DOMAIN decisions \subseteq DOMAIN decisions' => ProposalRows \subseteq ProposalRows'
  BY <1>1 DEF ProposalRows
<1>4. QED
  BY <1>2, <1>3, SeqMonotone DEF TypeOK

\* Two reviews that are under way hold different proposals: a review locks
\* the row.
ReviewsAreApart ==
  \A c, d \in Callers :
    At(c, "reviewing") /\ At(d, "reviewing") /\ call[c].proposal = call[d].proposal => c = d

ReviewedIsOpen ==
  \A c \in Callers : At(c, "reviewing") => call[c].proposal.status = "proposed"

TypeInv == TypeOK /\ ReviewsAreApart /\ ReviewedIsOpen

\* An outcome changes only from "open", and nothing else of a decision does.
LEMMA OutcomeUpdate ==
  ASSUME TypeOK, NEW c \in Callers, NEW outcome \in {"done", "aborted"},
         call[c].decision \in DOMAIN decisions, Ends(c, outcome)
  PROVE  /\ decisions' \in Seq(DecisionRows)
         /\ DOMAIN decisions' = DOMAIN decisions /\ Len(decisions') = Len(decisions)
         /\ \A d \in DOMAIN decisions :
              /\ decisions'[d].case = decisions[d].case
              /\ decisions'[d].context = decisions[d].context
              /\ decisions'[d].actions = decisions[d].actions
              /\ d # call[c].decision => decisions'[d].outcome = decisions[d].outcome
         /\ decisions'[call[c].decision].outcome =
              IF decisions[call[c].decision].outcome = "open"
              THEN outcome ELSE decisions[call[c].decision].outcome
<1> DEFINE d == call[c].decision
           row == [decisions[d] EXCEPT !.outcome =
                     IF decisions[d].outcome = "open" THEN outcome ELSE decisions[d].outcome]
<1>1. decisions[d] \in DecisionRows
  BY DEF TypeOK
<1>2. /\ row \in DecisionRows
      /\ row.case = decisions[d].case
      /\ row.context = decisions[d].context
      /\ row.actions = decisions[d].actions
      /\ row.outcome = IF decisions[d].outcome = "open" THEN outcome ELSE decisions[d].outcome
  BY <1>1 DEF DecisionRows
<1>3. decisions' = [decisions EXCEPT ![d] = row]
  BY DEF Ends
<1> HIDE DEF row
<1>4. QED
  BY <1>2, <1>3, UpdateRow DEF TypeOK

LEMMA InitTypeInv == Init => TypeInv
BY CaseAssumption DEF Init, TypeInv, TypeOK, ReviewsAreApart, ReviewedIsOpen, Calls, Idle, At,
   CaseAssumption

\* A caller that goes on, to a state other than a review.
LEMMA GoType ==
  ASSUME TypeInv, NEW c \in Callers, NEW state, Go(c, state),
         state \in Calls', state.step # "reviewing",
         DOMAIN cases \subseteq DOMAIN cases', DOMAIN decisions \subseteq DOMAIN decisions',
         version' = version,
         \A d \in Callers \ {c} : At(d, "reviewing") => call[d].proposal \in proposals'
  PROVE  call' \in [Callers -> Calls'] /\ ReviewsAreApart' /\ ReviewedIsOpen'
<1>1. version \in Nat
  BY CaseAssumption DEF TypeInv, TypeOK, CaseAssumption
<1>2. call' = [call EXCEPT ![c] = state] /\ call \in [Callers -> Calls]
  BY DEF Go, TypeInv, TypeOK
<1>3. ASSUME NEW d \in Callers, d # c
      PROVE  call[d] \in Calls'
  BY <1>1, <1>2, <1>3, CallsGrow DEF TypeInv, At
<1>4. call' \in [Callers -> Calls']
  BY <1>2, <1>3
<1>5. ReviewsAreApart' /\ ReviewedIsOpen'
  BY <1>2 DEF TypeInv, ReviewsAreApart, ReviewedIsOpen, At
<1>6. QED
  BY <1>4, <1>5

\* Of the decision a call works on.
LEMMA WorkType ==
  ASSUME TypeOK, NEW c \in Callers, call[c].step \in {"marking", "proposing"}
  PROVE  /\ call[c].decision \in DOMAIN decisions
         /\ call[c].job \in Jobs
         /\ call[c].job.case \in DOMAIN cases
         /\ decisions[call[c].decision] \in DecisionRows
<1>1. call[c] \in Calls
  BY DEF TypeOK
<1>2. call[c].decision \in DOMAIN decisions /\ call[c].job \in Jobs
  BY <1>1, CallShape
<1>3. QED
  BY <1>2 DEF Jobs, TypeOK

LEMMA IdleType == Idle \in Calls /\ Idle.step # "reviewing"
BY DEF Calls, Idle

\* The reads and the steps that only move a call.
LEMMA LookUpType ==
  ASSUME TypeInv, NEW c \in Callers, NEW alert \in DOMAIN Alerts, LookUp(c, alert)
  PROVE  TypeInv'
<1>1. [step |-> "inserting", alert |-> alert] \in Calls'
  BY DEF Calls
<1>2. UNCHANGED <<cases, decisions, proposals, version>>
  BY DEF LookUp
<1>3. \A d \in Callers : At(d, "reviewing") => call[d].proposal \in proposals'
  BY <1>2, CallShape DEF TypeInv, TypeOK, At
<1>4. call' \in [Callers -> Calls'] /\ ReviewsAreApart' /\ ReviewedIsOpen'
  BY <1>1, <1>2, <1>3, GoType DEF LookUp
<1>5. DecisionRows' = DecisionRows /\ ProposalRows' = ProposalRows
  BY <1>2 DEF DecisionRows, ProposalRows, Contexts
<1>6. QED
  BY <1>2, <1>4, <1>5 DEF TypeInv, TypeOK

LEMMA StartType ==
  ASSUME TypeInv, NEW c \in Callers, NEW i \in DOMAIN cases,
         NEW mode \in {"decide", "compare"}, Start(c, i, mode)
  PROVE  TypeInv'
<1>1. UNCHANGED <<cases, decisions, proposals, version>>
  BY DEF Start
<1>2. cases[i].severity \in Severity /\ version \in 0 .. version
  <2>1. cases[i] \in CaseRows
    BY DEF TypeInv, TypeOK
  <2>2. version \in 0 .. version
    BY CaseAssumption DEF TypeInv, TypeOK, CaseAssumption
  <2>3. QED
    BY <2>1, <2>2 DEF CaseRows
<1>3. Context(i) \in Contexts /\ Context(i).case = i
  BY <1>2 DEF Context, Contexts
<1>4. [case |-> i, mode |-> mode, context |-> Context(i)] \in Jobs
  BY <1>3 DEF Jobs
<1>5. [step |-> "generating",
       job |-> [case |-> i, mode |-> mode, context |-> Context(i)]] \in Calls'
  BY <1>1, <1>4 DEF Calls, Jobs, Contexts
<1>6. \A d \in Callers : At(d, "reviewing") => call[d].proposal \in proposals'
  BY <1>1, CallShape DEF TypeInv, TypeOK, At
<1>7. call' \in [Callers -> Calls'] /\ ReviewsAreApart' /\ ReviewedIsOpen'
  BY <1>1, <1>5, <1>6, GoType DEF Start
<1>8. DecisionRows' = DecisionRows /\ ProposalRows' = ProposalRows
  BY <1>1 DEF DecisionRows, ProposalRows, Contexts
<1>9. QED
  BY <1>1, <1>7, <1>8 DEF TypeInv, TypeOK

LEMMA InsertType ==
  ASSUME TypeInv, NEW c \in Callers, Insert(c)
  PROVE  TypeInv'
<1> DEFINE alert == call[c].alert
           row == NewCase(FromAlert(alert), Alerts[alert].object, Alerts[alert].severity, "created")
<1>1. UNCHANGED <<decisions, proposals, version>> /\ Go(c, Idle)
  BY DEF Insert
<1>2. alert \in DOMAIN Alerts
  BY CallShape DEF TypeInv, TypeOK, Insert, At
<1>3. row \in CaseRows
  BY <1>2 DEF CaseRows, NewCase, Severity, Statuses
<1>4. cases' = cases \/ cases' = Append(cases, row)
  BY DEF Insert
<1> HIDE DEF row
<1>5. cases' \in Seq(CaseRows) /\ DOMAIN cases \subseteq DOMAIN cases'
  <2>1. cases \in Seq(CaseRows)
    BY DEF TypeInv, TypeOK
  <2>2. CASE cases' = Append(cases, row)
    BY <1>3, <2>1, <2>2, AppendRow
  <2>3. QED
    BY <1>4, <2>1, <2>2
<1>6. version \in Nat /\ version' = version
  BY <1>1, CaseAssumption DEF TypeInv, TypeOK, CaseAssumption
<1>7. \A d \in Callers : At(d, "reviewing") => call[d].proposal \in proposals'
  BY <1>1, CallShape DEF TypeInv, TypeOK, At
<1>8. call' \in [Callers -> Calls'] /\ ReviewsAreApart' /\ ReviewedIsOpen'
  <2>1. Idle \in Calls' /\ Idle.step # "reviewing"
    BY DEF Calls, Idle
  <2>2. QED
    BY <1>1, <1>5, <1>7, <2>1, GoType
<1>9. decisions' \in Seq(DecisionRows') /\ proposals' \subseteq ProposalRows'
  BY <1>1, <1>5, <1>6, DecisionsGrow DEF TypeInv
<1>10. QED
  BY <1>1, <1>5, <1>8, <1>9 DEF TypeInv, TypeOK

\* The generated context's case, and the row SaveDecision adds.
LEMMA SaveDecisionType ==
  ASSUME TypeInv, NEW c \in Callers, SaveDecision(c)
  PROVE  /\ TypeInv'
         /\ call[c].job \in Jobs
         /\ decisions'[Len(decisions) + 1].outcome =
              (IF call[c].job.mode = "compare" THEN "compared" ELSE "open")
         /\ decisions'[Len(decisions) + 1].case = call[c].job.case
         /\ decisions'[Len(decisions) + 1].context = call[c].job.context
         /\ DOMAIN decisions' = DOMAIN decisions \cup {Len(decisions) + 1}
         /\ Len(decisions) + 1 \notin DOMAIN decisions
         /\ \A d \in DOMAIN decisions : decisions'[d] = decisions[d]
<1> DEFINE job == call[c].job
           state == [step |-> "marking", job |-> call[c].job, decision |-> Len(decisions) + 1]
<1>1. UNCHANGED <<cases, proposals, version>> /\ Go(c, state)
  BY DEF SaveDecision
<1>2. job \in Jobs
  BY CallShape DEF TypeInv, TypeOK, SaveDecision, At
<1>3. PICK output \in EngineOutputs(job.context) :
        decisions' = Append(decisions,
          [case |-> job.case, context |-> job.context, actions |-> output.actions,
           outcome |-> IF job.mode = "compare" THEN "compared" ELSE "open"])
  BY DEF SaveDecision
<1> DEFINE row == [case |-> job.case, context |-> job.context, actions |-> output.actions,
                   outcome |-> IF job.mode = "compare" THEN "compared" ELSE "open"]
<1>4. row \in DecisionRows
  <2>1. job.context \in Contexts /\ job.case \in DOMAIN cases
    BY <1>2 DEF Jobs
  <2>2. job.context.severity \in Severity
    BY <2>1 DEF Contexts
  <2>3. output.actions \in {o.actions : o \in Outputs \ {Nil}}
                           \cup {RuleOutput(s).actions : s \in Severity}
    BY <2>2, EngineActions
  <2>4. QED
    BY <2>1, <2>3 DEF DecisionRows
<1>5. decisions \in Seq(DecisionRows) /\ decisions' = Append(decisions, row)
  BY <1>3 DEF TypeInv, TypeOK
<1>6. /\ row.case = job.case /\ row.context = job.context
      /\ row.outcome = IF job.mode = "compare" THEN "compared" ELSE "open"
  OBVIOUS
<1> HIDE DEF row
<1>7. /\ decisions' \in Seq(DecisionRows)
      /\ DOMAIN decisions' = DOMAIN decisions \cup {Len(decisions) + 1}
      /\ Len(decisions) + 1 \notin DOMAIN decisions
      /\ decisions'[Len(decisions) + 1] = row
      /\ \A d \in DOMAIN decisions : decisions'[d] = decisions[d]
  BY <1>4, <1>5, AppendRow
<1>8. DecisionRows' = DecisionRows /\ Jobs' = Jobs
  BY <1>1 DEF DecisionRows, Jobs, Contexts
<1>9. call' \in [Callers -> Calls'] /\ ReviewsAreApart' /\ ReviewedIsOpen'
  <2>1. state \in Calls' /\ state.step # "reviewing"
    BY <1>2, <1>7, <1>8 DEF Calls
  <2>2. \A d \in Callers : At(d, "reviewing") => call[d].proposal \in proposals'
    BY <1>1, CallShape DEF TypeInv, TypeOK, At
  <2> HIDE DEF state
  <2>3. QED
    BY <1>1, <1>7, <2>1, <2>2, GoType
<1>10. proposals' \subseteq ProposalRows'
  BY <1>1, <1>7, CaseAssumption, DecisionsGrow DEF TypeInv, TypeOK, CaseAssumption
<1>11. TypeInv'
  BY <1>1, <1>7, <1>8, <1>9, <1>10 DEF TypeInv, TypeOK
<1>12. QED
  BY <1>2, <1>6, <1>7, <1>11

\* MarkDecided and MarkProposed update a status and end a decision.
LEMMA MarkType ==
  ASSUME TypeInv, NEW c \in Callers, call[c].step \in {"marking", "proposing"},
         NEW status \in Statuses, UpdateCaseStatus(call[c].job.case, status),
         NEW outcome \in {"done", "aborted"}, UNCHANGED decisions \/ Ends(c, outcome),
         UNCHANGED <<proposals, version>>,
         NEW state, Go(c, state), state.step # "reviewing", state \in Calls
  PROVE  TypeInv'
<1>1. call[c].job.case \in DOMAIN cases /\ call[c].decision \in DOMAIN decisions
  BY WorkType DEF TypeInv
<1>2. cases' \in Seq(CaseRows) /\ DOMAIN cases' = DOMAIN cases
  BY <1>1, StatusUpdate DEF TypeInv
<1>3. /\ decisions' \in Seq(DecisionRows) /\ DOMAIN decisions' = DOMAIN decisions
      /\ Len(decisions') = Len(decisions)
  BY <1>1, OutcomeUpdate DEF TypeInv, TypeOK
<1>4. DecisionRows' = DecisionRows /\ ProposalRows' = ProposalRows /\ Calls' = Calls
  BY <1>2, <1>3 DEF DecisionRows, ProposalRows, Contexts, Calls, Jobs
<1>5. \A d \in Callers : At(d, "reviewing") => call[d].proposal \in proposals'
  BY CallShape DEF TypeInv, TypeOK, At
<1>6. call' \in [Callers -> Calls'] /\ ReviewsAreApart' /\ ReviewedIsOpen'
  BY <1>2, <1>3, <1>4, <1>5, GoType
<1>7. QED
  BY <1>2, <1>3, <1>4, <1>6 DEF TypeInv, TypeOK

LEMMA MarkDecidedType ==
  ASSUME TypeInv, NEW c \in Callers, MarkDecided(c)
  PROVE  TypeInv'
<1> DEFINE state == [step |-> "proposing", job |-> call[c].job,
                     decision |-> call[c].decision, index |-> 1]
<1>1. call[c].step \in {"marking", "proposing"} /\ "decision_generated" \in Statuses
  BY DEF MarkDecided, At, Statuses
<1>2. UpdateCaseStatus(call[c].job.case, "decision_generated") /\ UNCHANGED <<proposals, version>>
  BY DEF MarkDecided
<1>3. CASE Go(c, state) /\ UNCHANGED decisions
  <2>1. state \in Calls /\ state.step # "reviewing"
    BY <1>1, WorkType DEF Calls, TypeInv
  <2> HIDE DEF state
  <2>2. QED
    BY <1>1, <1>2, <1>3, <2>1, MarkType
<1>4. CASE Go(c, Idle) /\ Ends(c, "aborted")
  BY <1>1, <1>2, <1>4, IdleType, MarkType
<1>5. QED
  BY <1>3, <1>4 DEF MarkDecided

LEMMA MarkProposedType ==
  ASSUME TypeInv, NEW c \in Callers, MarkProposed(c)
  PROVE  TypeInv'
<1>1. call[c].step \in {"marking", "proposing"} /\ "proposal_generated" \in Statuses
  BY DEF MarkProposed, At, Statuses
<1>2. QED
  BY <1>1, IdleType, MarkType DEF MarkProposed

LEMMA AbortType ==
  ASSUME TypeInv, NEW c \in Callers, Abort(c)
  PROVE  TypeInv'
<1>1. UNCHANGED <<cases, proposals, version>> /\ Go(c, Idle)
  BY DEF Abort
<1>2. /\ decisions' \in Seq(DecisionRows) /\ DOMAIN decisions' = DOMAIN decisions
      /\ Len(decisions') = Len(decisions)
  <2>1. CASE call[c].step \in {"marking", "proposing"}
    <3>1. call[c].decision \in DOMAIN decisions /\ Ends(c, "aborted")
      BY <2>1, WorkType DEF TypeInv, Abort
    <3>2. QED
      BY <3>1, OutcomeUpdate DEF TypeInv
  <2>2. QED
    BY <2>1 DEF Abort, TypeInv, TypeOK
<1>3. DecisionRows' = DecisionRows /\ ProposalRows' = ProposalRows /\ Calls' = Calls
  BY <1>1, <1>2 DEF DecisionRows, ProposalRows, Contexts, Calls, Jobs
<1>4. \A d \in Callers : At(d, "reviewing") => call[d].proposal \in proposals'
  BY <1>1, CallShape DEF TypeInv, TypeOK, At
<1>5. call' \in [Callers -> Calls'] /\ ReviewsAreApart' /\ ReviewedIsOpen'
  BY <1>1, <1>2, <1>3, <1>4, IdleType, GoType
<1>6. QED
  BY <1>1, <1>2, <1>3, <1>5 DEF TypeInv, TypeOK

LEMMA ProposeType ==
  ASSUME TypeInv, NEW c \in Callers, Propose(c)
  PROVE  TypeInv'
<1> DEFINE state == [call[c] EXCEPT !.index = call[c].index + 1]
<1>1. UNCHANGED <<cases, version>>
  BY DEF Propose
<1>2. call[c].step = "proposing"
  BY DEF Propose, At
<1>3. call[c] \in [step : {"proposing"}, job : Jobs, decision : DOMAIN decisions,
                   index : Nat \ {0}]
  BY <1>2, CallShape DEF TypeInv, TypeOK
<1>4. state \in Calls /\ state.step # "reviewing"
  <2>1. state \in [step : {"proposing"}, job : Jobs, decision : DOMAIN decisions,
                   index : Nat \ {0}]
    BY <1>3
  <2>2. QED
    BY <2>1 DEF Calls
<1>5. \/ Go(c, state) /\ UNCHANGED decisions
      \/ Go(c, Idle) /\ Ends(c, "aborted")
  BY DEF Propose
<1> HIDE DEF state
<1>6. proposals' \in {proposals, proposals \cup {NewProposal(c)}}
  BY DEF Propose
<1>7. NewProposal(c) \in ProposalRows \/ proposals' = proposals
  <2>1. call[c].job.case \in DOMAIN cases /\ call[c].job.context \in Contexts
    BY <1>3 DEF Jobs
  <2>2. \/ proposals' = proposals
        \/ Recommended(c)[call[c].index].type \in CanonicalActions
    BY DEF Propose, CheckAdmits
  <2>3. QED
    BY <1>3, <2>1, <2>2 DEF NewProposal, ProposalRows
<1>8. /\ decisions' \in Seq(DecisionRows) /\ DOMAIN decisions' = DOMAIN decisions
      /\ Len(decisions') = Len(decisions)
  <2>1. CASE UNCHANGED decisions
    BY <2>1 DEF TypeInv, TypeOK
  <2>2. CASE Ends(c, "aborted")
    BY <1>3, <2>2, OutcomeUpdate DEF TypeInv
  <2>3. QED
    BY <1>5, <2>1, <2>2
<1>9. DecisionRows' = DecisionRows /\ ProposalRows' = ProposalRows
  BY <1>1, <1>8 DEF DecisionRows, ProposalRows, Contexts
<1>10. Calls \subseteq Calls'
  BY <1>1, <1>6, <1>8 DEF Contexts, Calls, Jobs
<1>11. \A d \in Callers : At(d, "reviewing") => call[d].proposal \in proposals'
  BY <1>6, CallShape DEF TypeInv, TypeOK, At
<1>12. call' \in [Callers -> Calls'] /\ ReviewsAreApart' /\ ReviewedIsOpen'
  BY <1>1, <1>4, <1>5, <1>8, <1>10, <1>11, IdleType, GoType
<1>13. QED
  BY <1>1, <1>6, <1>7, <1>8, <1>9, <1>12 DEF TypeInv, TypeOK

LEMMA ReviewType ==
  ASSUME TypeInv, NEW c \in Callers, NEW p \in proposals, Review(c, p)
  PROVE  TypeInv'
<1> DEFINE state == [step |-> "reviewing", proposal |-> p, read |-> cases[p.case].status]
<1>1. UNCHANGED <<cases, decisions, proposals, version>> /\ Go(c, state)
  BY DEF Review
<1>2. cases[p.case].status \in Statuses
  <2>1. cases[p.case] \in CaseRows
    BY DEF TypeInv, TypeOK, ProposalRows
  <2>2. QED
    BY <2>1 DEF CaseRows
<1>3. state \in Calls
  BY <1>2 DEF Calls
<1>4. DecisionRows' = DecisionRows /\ ProposalRows' = ProposalRows /\ Calls' = Calls
  BY <1>1 DEF DecisionRows, ProposalRows, Contexts, Calls, Jobs
<1>5. call' \in [Callers -> Calls']
  BY <1>1, <1>3, <1>4 DEF Go, TypeInv, TypeOK
<1>6. ReviewsAreApart'
  <2>1. \A d \in Callers : ~ (At(d, "reviewing") /\ call[d].proposal = p)
    BY DEF Review
  <2>2. QED
    BY <1>1, <2>1 DEF Go, TypeInv, TypeOK, ReviewsAreApart, At
<1>7. ReviewedIsOpen'
  BY <1>1 DEF Go, TypeInv, TypeOK, ReviewedIsOpen, At, Review
<1>8. QED
  BY <1>1, <1>4, <1>5, <1>6, <1>7 DEF TypeInv, TypeOK

LEMMA CommitReviewType ==
  ASSUME TypeInv, NEW c \in Callers, CommitReview(c)
  PROVE  /\ TypeInv'
         /\ DOMAIN cases' = DOMAIN cases
         /\ call[c].proposal \in proposals /\ call[c].proposal.case \in DOMAIN cases
<1> DEFINE p == call[c].proposal
           q == [p EXCEPT !.status = "reviewed"]
<1>1. UNCHANGED <<decisions, version>> /\ Go(c, Idle)
  BY DEF CommitReview
<1>2. At(c, "reviewing") /\ p \in proposals /\ p.case \in DOMAIN cases
  BY CallShape DEF TypeInv, TypeOK, ProposalRows, CommitReview, At
<1>3. cases' \in Seq(CaseRows) /\ DOMAIN cases' = DOMAIN cases
  BY <1>2, StatusUpdate DEF CommitReview, TypeInv, Statuses
<1>4. proposals' \in {proposals, (proposals \ {p}) \cup {q}}
  BY DEF CommitReview
<1>5. proposals' \subseteq ProposalRows
  <2>1. q \in ProposalRows
    BY <1>2 DEF TypeInv, TypeOK, ProposalRows
  <2> HIDE DEF q
  <2>2. QED
    BY <1>4, <2>1 DEF TypeInv, TypeOK
<1>6. \A d \in Callers \ {c} : At(d, "reviewing") => call[d].proposal \in proposals'
  BY <1>2, <1>4, CallShape DEF TypeInv, TypeOK, ReviewsAreApart, At
<1>7. Idle \in Calls' /\ Idle.step # "reviewing"
  BY DEF Calls, Idle
<1>8. call' \in [Callers -> Calls'] /\ ReviewsAreApart' /\ ReviewedIsOpen'
  BY <1>1, <1>3, <1>6, <1>7, GoType
<1>9. DecisionRows' = DecisionRows /\ ProposalRows' = ProposalRows
  BY <1>1, <1>3 DEF DecisionRows, ProposalRows, Contexts
<1>10. QED
  BY <1>1, <1>2, <1>3, <1>5, <1>8, <1>9 DEF TypeInv, TypeOK

LEMMA ResolveCaseType ==
  ASSUME TypeInv, NEW i \in DOMAIN cases, ResolveCase(i)
  PROVE  TypeInv'
<1>1. UNCHANGED <<decisions, proposals, version, call>>
  BY DEF ResolveCase
<1>2. cases' \in Seq(CaseRows) /\ DOMAIN cases' = DOMAIN cases
  BY StatusUpdate DEF ResolveCase, TypeInv, Statuses
<1>3. DecisionRows' = DecisionRows /\ ProposalRows' = ProposalRows /\ Calls' = Calls
  BY <1>1, <1>2 DEF DecisionRows, ProposalRows, Contexts, Calls, Jobs
<1>4. QED
  BY <1>1, <1>2, <1>3 DEF TypeInv, TypeOK, ReviewsAreApart, ReviewedIsOpen, At

\* The proposal ProposeAction adds, and what it leaves.
LEMMA ProposeActionType ==
  ASSUME TypeInv, NEW object \in Objects, NEW type, NEW payload,
         ProposeAction(object, type, payload)
  PROVE  /\ TypeInv'
         /\ DOMAIN cases' = DOMAIN cases \cup {Len(cases) + 1}
         /\ Len(cases) + 1 \notin DOMAIN cases
         /\ \A i \in DOMAIN cases : cases'[i] = cases[i]
         /\ cases'[Len(cases) + 1].source = <<"object", object>>
         /\ cases'[Len(cases) + 1].status = "open"
<1> DEFINE row == NewCase(<<"object", object>>, object, "", "open")
           p == [case |-> Len(cases) + 1, action |-> type, context |-> Nil,
                 status |-> "proposed", from |-> 0, index |-> 0]
<1>1. /\ UNCHANGED <<decisions, version, call>>
      /\ cases' = Append(cases, row) /\ proposals' = proposals \cup {p}
  BY DEF ProposeAction
<1>2. row \in CaseRows /\ row.source = <<"object", object>> /\ row.status = "open"
  BY DEF CaseRows, NewCase, Severity, Statuses
<1> HIDE DEF row
<1>3. cases \in Seq(CaseRows) /\ version \in Nat
  BY CaseAssumption DEF TypeInv, TypeOK, CaseAssumption
<1>4. /\ cases' \in Seq(CaseRows)
      /\ DOMAIN cases' = DOMAIN cases \cup {Len(cases) + 1}
      /\ Len(cases) + 1 \notin DOMAIN cases
      /\ cases'[Len(cases) + 1] = row
      /\ \A i \in DOMAIN cases : cases'[i] = cases[i]
  BY <1>1, <1>2, <1>3, AppendRow
<1>5. p \in ProposalRows'
  BY <1>1, <1>4 DEF ProposalRows, ProposeAction, CheckAdmits
<1> HIDE DEF p
<1>6. decisions' \in Seq(DecisionRows') /\ proposals' \subseteq ProposalRows'
  BY <1>1, <1>3, <1>4, <1>5, DecisionsGrow DEF TypeInv
<1>7. ASSUME NEW c \in Callers PROVE call[c] \in Calls'
  <2>1. call[c] \in Calls
    BY DEF TypeInv, TypeOK
  <2>2. call[c].step = "reviewing" => call[c].proposal \in proposals'
    BY <1>1, <2>1, CallShape
  <2>3. QED
    BY <1>1, <1>3, <1>4, <2>1, <2>2, CallsGrow DEF TypeInv
<1>8. TypeInv'
  BY <1>1, <1>4, <1>6, <1>7 DEF TypeInv, TypeOK, ReviewsAreApart, ReviewedIsOpen, At
<1>9. QED
  BY <1>2, <1>4, <1>8

LEMMA NewDataType ==
  ASSUME TypeInv, NewData
  PROVE  TypeInv'
<1>1. UNCHANGED <<cases, decisions, proposals, call>>
  BY DEF NewData
<1>2. version \in Nat /\ version' \in 0 .. MaxVersion /\ version <= version'
  BY CaseAssumption DEF TypeInv, TypeOK, CaseAssumption, NewData
<1>3. decisions' \in Seq(DecisionRows') /\ proposals' \subseteq ProposalRows'
  BY <1>1, <1>2, DecisionsGrow DEF TypeInv
<1>4. ASSUME NEW c \in Callers PROVE call[c] \in Calls'
  <2>1. call[c] \in Calls
    BY DEF TypeInv, TypeOK
  <2>2. call[c].step = "reviewing" => call[c].proposal \in proposals'
    BY <1>1, <2>1, CallShape
  <2>3. QED
    BY <1>1, <1>2, <2>1, <2>2, CallsGrow DEF TypeInv
<1>5. QED
  BY <1>1, <1>2, <1>3, <1>4 DEF TypeInv, TypeOK, ReviewsAreApart, ReviewedIsOpen, At

LEMMA NextTypeInv == TypeInv /\ [Next]_vars => TypeInv'
<1> SUFFICES ASSUME TypeInv, [Next]_vars PROVE TypeInv'
  OBVIOUS
<1>1. CASE UNCHANGED vars
  <2>1. DecisionRows' = DecisionRows /\ ProposalRows' = ProposalRows /\ Calls' = Calls
    BY <1>1 DEF DecisionRows, ProposalRows, Contexts, Calls, Jobs, vars
  <2>2. QED
    BY <1>1, <2>1 DEF TypeInv, TypeOK, ReviewsAreApart, ReviewedIsOpen, At, vars
<1>2. QED
  BY <1>1, LookUpType, StartType, ReviewType, InsertType, SaveDecisionType, MarkDecidedType,
     ProposeType, MarkProposedType, CommitReviewType, AbortType, ResolveCaseType,
     ProposeActionType, NewDataType DEF Next

\* The rows have their types and refer to rows that are there, whatever the
\* callers do at the same time (the foreign keys of ai.llm_decision and
\* ai.action_proposal, and the CHECKs on their columns).
THEOREM TypeCorrect == Spec => []TypeOK
<1>1. TypeInv => TypeOK
  BY DEF TypeInv
<1>2. QED
  BY <1>1, InitTypeInv, NextTypeInv, PTL DEF Spec

-----------------------------------------------------------------------------
(* One active case.                                                        *)

\* The index admits an update only to a row without an active rival.
LEMMA UpdateKeepsOne ==
  ASSUME TypeOK, OneActiveCase, NEW i \in DOMAIN cases, NEW status \in Statuses,
         \/ UpdateCaseStatus(i, status)
         \/ UNCHANGED cases
         \/ cases' = [cases EXCEPT ![i].status = status] /\ ~ Active(status)
  PROVE  OneActiveCase'
<1>1. CASE UNCHANGED cases
  BY <1>1 DEF OneActiveCase
<1>2. CASE ~ UNCHANGED cases
  <2>1. /\ DOMAIN cases' = DOMAIN cases
        /\ \A j \in DOMAIN cases : cases'[j].source = cases[j].source
        /\ \A j \in DOMAIN cases \ {i} : cases'[j].status = cases[j].status
        /\ cases'[i].status \in {status, cases[i].status}
    BY StatusUpdate
  <2>2. ~ Active(status) \/ IndexAdmits(i, cases[i].source, status)
    BY <1>2 DEF UpdateCaseStatus
  <2>3. Active(status) => \A j \in DOMAIN cases \ {i} :
          ~ (cases[j].source = cases[i].source /\ Active(cases[j].status))
    BY <2>2 DEF IndexAdmits
  <2>4. QED
    BY <2>1, <2>3, ZenonT(30) DEF OneActiveCase
<1>3. QED
  BY <1>1, <1>2

\* An INSERT that the index admits meets no active row of its source.
LEMMA InsertKeepsOne ==
  ASSUME TypeOK, OneActiveCase, NEW row \in CaseRows,
         IndexAdmits(0, row.source, row.status), cases' = Append(cases, row)
  PROVE  OneActiveCase'
<1>1. cases \in Seq(CaseRows)
  BY DEF TypeOK
<1>2. /\ DOMAIN cases' = DOMAIN cases \cup {Len(cases) + 1}
      /\ cases'[Len(cases) + 1] = row
      /\ \A i \in DOMAIN cases : cases'[i] = cases[i]
  BY <1>1, AppendRow
<1>3. Active(row.status) => \A j \in DOMAIN cases :
        ~ (cases[j].source = row.source /\ Active(cases[j].status))
  BY <1>1 DEF IndexAdmits
<1>4. SUFFICES ASSUME NEW i \in DOMAIN cases', NEW j \in DOMAIN cases',
                      cases'[i].source = cases'[j].source,
                      Active(cases'[i].status), Active(cases'[j].status)
               PROVE  i = j
  BY DEF OneActiveCase
<1>5. CASE i \in DOMAIN cases /\ j \in DOMAIN cases
  BY <1>2, <1>4, <1>5 DEF OneActiveCase
<1>6. CASE i = Len(cases) + 1 \/ j = Len(cases) + 1
  BY <1>2, <1>3, <1>4, <1>6
<1>7. QED
  BY <1>2, <1>5, <1>6

LEMMA NextOneActive == TypeInv /\ OneActiveCase /\ [Next]_vars => OneActiveCase'
<1> SUFFICES ASSUME TypeInv, OneActiveCase, [Next]_vars PROVE OneActiveCase'
  OBVIOUS
<1> USE DEF TypeInv
<1>1. CASE UNCHANGED cases
  BY <1>1 DEF OneActiveCase
<1>2. ASSUME NEW c \in Callers, Insert(c) PROVE OneActiveCase'
  <2> DEFINE alert == call[c].alert
             row == NewCase(FromAlert(alert), Alerts[alert].object, Alerts[alert].severity, "created")
  <2>1. alert \in DOMAIN Alerts
    BY <1>2, CallShape DEF TypeOK, Insert, At
  <2>2. row \in CaseRows
    BY <2>1 DEF CaseRows, NewCase, Severity, Statuses
  <2>3. UNCHANGED cases \/ (cases' = Append(cases, row) /\ IndexAdmits(0, row.source, row.status))
    BY <1>2 DEF Insert
  <2> HIDE DEF row
  <2>4. QED
    BY <1>1, <2>2, <2>3, InsertKeepsOne
<1>3. ASSUME NEW c \in Callers, MarkDecided(c) PROVE OneActiveCase'
  <2>1. call[c].job.case \in DOMAIN cases
    BY <1>3, WorkType DEF MarkDecided, At
  <2>2. QED
    BY <1>3, <2>1, UpdateKeepsOne DEF MarkDecided, Statuses
<1>4. ASSUME NEW c \in Callers, MarkProposed(c) PROVE OneActiveCase'
  <2>1. call[c].job.case \in DOMAIN cases
    BY <1>4, WorkType DEF MarkProposed, At
  <2>2. QED
    BY <1>4, <2>1, UpdateKeepsOne DEF MarkProposed, Statuses
<1>5. ASSUME NEW c \in Callers, CommitReview(c) PROVE OneActiveCase'
  <2>1. call[c].proposal.case \in DOMAIN cases
    BY <1>5, CommitReviewType
  <2>2. QED
    BY <1>5, <2>1, UpdateKeepsOne DEF CommitReview, Statuses
<1>6. ASSUME NEW i \in DOMAIN cases, ResolveCase(i) PROVE OneActiveCase'
  BY <1>6, UpdateKeepsOne DEF ResolveCase, Statuses, Active
<1>7. ASSUME NEW object \in Objects, NEW type \in ObjectActions, NEW payload \in Payloads,
             ProposeAction(object, type, payload)
      PROVE  OneActiveCase'
  <2> DEFINE row == NewCase(<<"object", object>>, object, "", "open")
  <2>1. row \in CaseRows /\ row.source = <<"object", object>> /\ row.status = "open"
    BY DEF CaseRows, NewCase, Severity, Statuses
  <2>2. cases' = Append(cases, row) /\ IndexAdmits(0, row.source, row.status)
    BY <1>7, <2>1 DEF ProposeAction
  <2> HIDE DEF row
  <2>3. QED
    BY <2>1, <2>2, InsertKeepsOne
<1>8. QED
  BY <1>1, <1>2, <1>3, <1>4, <1>5, <1>6, <1>7 DEF Next, vars, LookUp, Start, Review,
     SaveDecision, Propose, Abort, NewData

\* A source has at most one active case, for any number of callers: the partial
\* unique index (idx_ai_decision_case_active_source) holds through every
\* insert and through updates that do not look at the status they replace.
THEOREM OneActive == Spec => []OneActiveCase
<1>1. Init => OneActiveCase
  BY DEF Init, OneActiveCase
<1>2. QED
  BY <1>1, InitTypeInv, NextTypeInv, NextOneActive, PTL DEF Spec

-----------------------------------------------------------------------------
(* Decisions, proposals and the calls at work on them.                     *)

Indexes(d) == {p.index : p \in {q \in proposals : q.from = d}}

AtWork(c) == call[c].step \in {"marking", "proposing"}

\* A call works on a decision of its own case and context.
WorkOK(c) ==
  AtWork(c) => /\ decisions[call[c].decision].case = call[c].job.case
               /\ decisions[call[c].decision].context = call[c].job.context

\* How far GenerateProposals has come in a call that is under way.
ProgressOK(c) ==
  LET d == call[c].decision
  IN /\ At(c, "marking") =>
          /\ decisions[d].outcome = IF call[c].job.mode = "compare" THEN "compared" ELSE "open"
          /\ Indexes(d) = {}
     /\ At(c, "proposing") =>
          /\ decisions[d].outcome = "open"
          /\ call[c].index <= Len(decisions[d].actions) + 1
          /\ Indexes(d) = AdmissibleUpTo(d, call[c].index - 1)

\* A case that a review read as proposed had its decision.
ReadOK(c) ==
  At(c, "reviewing") /\ call[c].read = "proposal_generated" =>
    \E d \in DOMAIN decisions : decisions[d].case = call[c].proposal.case

\* No two calls work on one decision.
Alone ==
  \A c, d \in Callers :
    AtWork(c) /\ AtWork(d) /\ call[c].decision = call[d].decision => c = d

CallInv == Alone /\ \A c \in Callers : WorkOK(c) /\ ProgressOK(c) /\ ReadOK(c)

CaseInv ==
  TypeInv /\ CallInv /\ ProposalsArePrefix /\ ProposalRestsOnDecision /\ StatusHasEvidence

\* ProposalsArePrefix, ProposalRestsOnDecision and StatusHasEvidence of one row.
Prefix(d) ==
  \E k \in 0 .. Len(decisions[d].actions) :
    /\ Indexes(d) = AdmissibleUpTo(d, k)
    /\ decisions[d].outcome = "done" => k = Len(decisions[d].actions)
    /\ decisions[d].outcome = "compared" => k = 0

Rests(p) ==
  p.from > 0 =>
    /\ decisions[p.from].case = p.case
    /\ decisions[p.from].context = p.context
    /\ decisions[p.from].actions[p.index].type = p.action

Evidence(i) ==
  /\ cases[i].status \in {"decision_generated", "proposal_generated", "review_required"}
       => \E d \in DOMAIN decisions : decisions[d].case = i
  /\ cases[i].status = "review_required"
       => \E p \in proposals : p.case = i /\ p.status = "reviewed"
  /\ cases[i].status = "open" => \E p \in proposals : p.case = i

LEMMA Rowwise ==
  /\ ProposalsArePrefix <=> \A d \in DOMAIN decisions : Prefix(d)
  /\ ProposalRestsOnDecision <=> \A p \in proposals : Rests(p)
  /\ StatusHasEvidence <=> \A i \in DOMAIN cases : Evidence(i)
<1>1. ProposalsArePrefix <=> \A d \in DOMAIN decisions : Prefix(d)
  BY Zenon DEF ProposalsArePrefix, Prefix, Indexes
<1>2. ProposalRestsOnDecision <=> \A p \in proposals : Rests(p)
  BY DEF ProposalRestsOnDecision, Rests
<1>3. StatusHasEvidence <=> \A i \in DOMAIN cases : Evidence(i)
  BY DEF StatusHasEvidence, Evidence
<1>4. QED
  BY <1>1, <1>2, <1>3

\* What no step takes away: rows of the three tables, and what a decision
\* says; a proposal only moves from "proposed" to "reviewed".
SameProposal(p, q) ==
  /\ q.case = p.case /\ q.action = p.action /\ q.context = p.context
  /\ q.from = p.from /\ q.index = p.index
  /\ p.status = "reviewed" => q.status = "reviewed"

Kept ==
  /\ DOMAIN cases \subseteq DOMAIN cases'
  /\ \A d \in DOMAIN decisions :
       /\ d \in DOMAIN decisions'
       /\ decisions'[d].case = decisions[d].case
       /\ decisions'[d].context = decisions[d].context
       /\ decisions'[d].actions = decisions[d].actions
  /\ \A p \in proposals : \E q \in proposals' : SameProposal(p, q)

NoneNew == \A q \in proposals' : \E p \in proposals : SameProposal(p, q)

LEMMA SameKept ==
  ASSUME UNCHANGED proposals
  PROVE  (\A p \in proposals : \E q \in proposals' : SameProposal(p, q)) /\ NoneNew
BY DEF NoneNew, SameProposal

LEMMA IndexesKept ==
  ASSUME Kept, NoneNew, NEW d
  PROVE  Indexes(d)' = Indexes(d)
BY DEF Kept, NoneNew, Indexes, SameProposal

LEMMA PrefixKept ==
  ASSUME Kept, NEW d \in DOMAIN decisions, Prefix(d), Indexes(d)' = Indexes(d),
         decisions'[d].outcome \in {decisions[d].outcome, "aborted"}
  PROVE  Prefix(d)'
BY DEF Kept, Prefix, AdmissibleUpTo

LEMMA RestsKept ==
  ASSUME TypeInv, Kept, NoneNew, ProposalRestsOnDecision
  PROVE  ProposalRestsOnDecision'
<1>1. ASSUME NEW q \in proposals' PROVE Rests(q)'
  <2>1. PICK p \in proposals : SameProposal(p, q)
    BY DEF NoneNew
  <2>2. Rests(p) /\ p.from \in {0} \cup DOMAIN decisions
    BY Rowwise DEF TypeInv, TypeOK, ProposalRows
  <2>3. QED
    BY <2>1, <2>2 DEF Kept, Rests, SameProposal
<1>2. QED
  BY <1>1 DEF ProposalRestsOnDecision, Rests

LEMMA EvidenceKept ==
  ASSUME Kept, NEW i \in DOMAIN cases, Evidence(i),
         cases'[i].status \in {cases[i].status, "closed"}
  PROVE  Evidence(i)'
BY DEF Kept, Evidence, SameProposal

\* A call that stays where it is, or stops to depend on a row.
LEMMA CallKept ==
  ASSUME CaseInv, Kept, NEW c \in Callers,
         \/ call'[c].step \in {"idle", "inserting", "generating"}
         \/ /\ call'[c] = call[c]
            /\ AtWork(c) => LET d == call[c].decision
                            IN decisions'[d].outcome = decisions[d].outcome /\ Indexes(d)' = Indexes(d)
  PROVE  WorkOK(c)' /\ ProgressOK(c)' /\ ReadOK(c)'
<1>1. CASE call'[c].step \in {"idle", "inserting", "generating"}
  BY <1>1 DEF WorkOK, ProgressOK, ReadOK, At, AtWork
<1>2. CASE call'[c] = call[c] /\ AtWork(c)
  <2>1. call[c].decision \in DOMAIN decisions
    BY <1>2, WorkType DEF CaseInv, TypeInv, AtWork
  <2>2. WorkOK(c)' /\ ReadOK(c)'
    BY <1>2, <2>1 DEF CaseInv, CallInv, Kept, WorkOK, ReadOK, At, AtWork
  <2>3. decisions'[call[c].decision].actions = decisions[call[c].decision].actions
    BY <2>1 DEF Kept
  <2>4. ProgressOK(c)
    BY DEF CaseInv, CallInv
  <2>5. ProgressOK(c)'
    BY <1>2, <2>3, <2>4 DEF ProgressOK, At, AtWork, AdmissibleUpTo
  <2>6. QED
    BY <2>2, <2>5
<1>3. CASE call'[c] = call[c] /\ ~ AtWork(c)
  BY <1>3 DEF CaseInv, CallInv, Kept, WorkOK, ProgressOK, ReadOK, At, AtWork
<1>4. QED
  BY <1>1, <1>2, <1>3

\* Steps that read, or create a case without rows of its own: nothing of a
\* decision or of a proposal changes.
LEMMA QuietStep ==
  ASSUME CaseInv, UNCHANGED <<decisions, proposals>>, DOMAIN cases \subseteq DOMAIN cases',
         \A i \in DOMAIN cases' : \/ i \in DOMAIN cases /\ cases'[i].status \in {cases[i].status, "closed"}
                                  \/ cases'[i].status = "created",
         \A c \in Callers : \/ call'[c] = call[c]
                            \/ call'[c].step \in {"idle", "inserting", "generating"}
  PROVE  /\ CallInv' /\ ProposalsArePrefix' /\ ProposalRestsOnDecision' /\ StatusHasEvidence'
<1>1. Kept /\ NoneNew
  BY SameKept DEF Kept
<1>2. \A d : Indexes(d)' = Indexes(d)
  BY <1>1, IndexesKept
<1>3. \A c \in Callers : WorkOK(c)' /\ ProgressOK(c)' /\ ReadOK(c)'
  BY <1>1, <1>2, CallKept
<1>4. Alone'
  BY DEF CaseInv, CallInv, Alone, AtWork
<1>5. ProposalsArePrefix'
  <2>1. \A d \in DOMAIN decisions : Prefix(d)'
    BY <1>1, <1>2, Rowwise, PrefixKept DEF CaseInv
  <2>2. QED
    BY <2>1, Zenon DEF ProposalsArePrefix, Prefix, Indexes
<1>6. ProposalRestsOnDecision'
  BY <1>1, RestsKept DEF CaseInv
<1>7. StatusHasEvidence'
  <2>1. \A i \in DOMAIN cases : Evidence(i)
    BY Rowwise DEF CaseInv
  <2>2. ASSUME NEW i \in DOMAIN cases' PROVE Evidence(i)'
    <3>1. CASE cases'[i].status = "created"
      BY <3>1 DEF Evidence
    <3>2. CASE i \in DOMAIN cases /\ cases'[i].status \in {cases[i].status, "closed"}
      BY <1>1, <2>1, <3>2, EvidenceKept
    <3>3. QED
      BY <3>1, <3>2
  <2>3. QED
    BY <2>2 DEF StatusHasEvidence, Evidence
<1>8. QED
  BY <1>3, <1>4, <1>5, <1>6, <1>7 DEF CallInv

\* A call that marks its case, or ends: its decision's outcome may change, the
\* status of its case too, and the decision is there to show for it.
LEMMA EndStep ==
  ASSUME CaseInv, NEW c \in Callers, AtWork(c), UNCHANGED <<proposals, version>>,
         NEW outcome \in {"done", "aborted"}, UNCHANGED decisions \/ Ends(c, outcome),
         outcome = "done" => At(c, "proposing") /\ call[c].index > Len(Recommended(c)),
         NEW status \in {"decision_generated", "proposal_generated"},
         UNCHANGED cases \/ UpdateCaseStatus(call[c].job.case, status),
         NEW state, Go(c, state), state = Idle \/ (UNCHANGED decisions /\ state.step = "proposing")
  PROVE  /\ Kept
         /\ \A d : Indexes(d)' = Indexes(d)
         /\ \A d \in Callers \ {c} : WorkOK(d)' /\ ProgressOK(d)' /\ ReadOK(d)'
         /\ ProposalsArePrefix' /\ ProposalRestsOnDecision' /\ StatusHasEvidence'
         /\ state = Idle => CallInv'
<1>0. PICK k, i : k = call[c].decision /\ i = call[c].job.case
  OBVIOUS
<1>1. k \in DOMAIN decisions /\ i \in DOMAIN cases /\ decisions[k].case = i
  BY <1>0, WorkType DEF CaseInv, CallInv, TypeInv, AtWork, WorkOK
<1>2. /\ DOMAIN decisions' = DOMAIN decisions
      /\ \A d \in DOMAIN decisions :
           /\ decisions'[d].case = decisions[d].case
           /\ decisions'[d].context = decisions[d].context
           /\ decisions'[d].actions = decisions[d].actions
           /\ d # k => decisions'[d].outcome = decisions[d].outcome
      /\ decisions'[k].outcome \in {decisions[k].outcome} \cup
           (IF decisions[k].outcome = "open" THEN {outcome} ELSE {})
  BY <1>0, <1>1, OutcomeUpdate DEF CaseInv, TypeInv
<1>3. /\ DOMAIN cases' = DOMAIN cases
      /\ \A j \in DOMAIN cases \ {i} : cases'[j].status = cases[j].status
      /\ cases'[i].status \in {status, cases[i].status}
  BY <1>0, <1>1, StatusUpdate DEF CaseInv, TypeInv, Statuses
<1>4. Kept /\ NoneNew
  BY <1>2, <1>3, SameKept DEF Kept
<1>5. \A d : Indexes(d)' = Indexes(d)
  BY <1>4, IndexesKept
<1>6. \A d \in Callers \ {c} : call'[d] = call[d]
  BY DEF Go, CaseInv, TypeInv, TypeOK
<1>7. ASSUME NEW d \in Callers \ {c} PROVE WorkOK(d)' /\ ProgressOK(d)' /\ ReadOK(d)'
  <2>1. ASSUME AtWork(d) PROVE decisions'[call[d].decision].outcome = decisions[call[d].decision].outcome
    <3>1. call[d].decision # k /\ call[d].decision \in DOMAIN decisions
      BY <1>0, <2>1, WorkType DEF CaseInv, CallInv, Alone, AtWork, TypeInv
    <3>2. QED
      BY <1>2, <3>1
  <2>2. QED
    BY <1>4, <1>5, <1>6, <2>1, CallKept
<1>8. ProposalsArePrefix'
  <2>1. \A d \in DOMAIN decisions : Prefix(d)
    BY Rowwise DEF CaseInv
  <2>2. ASSUME NEW d \in DOMAIN decisions PROVE Prefix(d)'
    <3>1. CASE decisions'[d].outcome \in {decisions[d].outcome, "aborted"}
      BY <1>4, <1>5, <2>1, <3>1, PrefixKept
    <3>2. CASE d = k /\ decisions'[d].outcome = "done" /\ outcome = "done"
      <4>1. /\ call[c].index <= Len(decisions[k].actions) + 1
            /\ Indexes(k) = AdmissibleUpTo(k, call[c].index - 1)
        BY <1>0, <3>2 DEF CaseInv, CallInv, ProgressOK
      <4>2. Len(decisions[k].actions) \in Nat
        <5>1. decisions[k] \in DecisionRows
          BY <1>1 DEF CaseInv, TypeInv, TypeOK
        <5>2. QED
          BY <5>1, ActionsAreLists DEF DecisionRows
      <4>3. call[c].index \in Nat
        BY <3>2, CallShape DEF CaseInv, TypeInv, TypeOK, At
      <4>4. call[c].index - 1 = Len(decisions[k].actions)
        BY <1>0, <3>2, <4>1, <4>2, <4>3 DEF Recommended
      <4>5. Indexes(k)' = AdmissibleUpTo(k, Len(decisions[k].actions))'
        <5>1. Indexes(k) = AdmissibleUpTo(k, Len(decisions[k].actions))
          BY <4>1, <4>4
        <5>2. decisions'[k].actions = decisions[k].actions
          BY <1>1, <1>2
        <5>3. QED
          BY <1>5, <5>1, <5>2 DEF AdmissibleUpTo
      <4>6. QED
        BY <1>1, <1>2, <3>2, <4>2, <4>5 DEF Prefix
    <3>3. QED
      BY <1>2, <3>1, <3>2
  <2>3. QED
    BY <1>2, <2>2, Zenon DEF ProposalsArePrefix, Prefix, Indexes
<1>9. ProposalRestsOnDecision'
  BY <1>4, RestsKept DEF CaseInv
<1>10. StatusHasEvidence'
  <2>1. \A j \in DOMAIN cases : Evidence(j)
    BY Rowwise DEF CaseInv
  <2>2. ASSUME NEW j \in DOMAIN cases PROVE Evidence(j)'
    <3>1. CASE cases'[j].status = cases[j].status
      BY <1>4, <2>1, <3>1, EvidenceKept
    <3>2. CASE j = i /\ cases'[j].status = status
      BY <1>1, <1>2, <3>2 DEF Evidence
    <3>3. QED
      BY <1>3, <3>1, <3>2
  <2>3. QED
    BY <1>3, <2>2 DEF StatusHasEvidence, Evidence
<1>11. ASSUME state = Idle PROVE CallInv'
  <2>1. call'[c] = Idle
    BY <1>11 DEF Go, CaseInv, TypeInv, TypeOK
  <2>2. WorkOK(c)' /\ ProgressOK(c)' /\ ReadOK(c)'
    BY <1>4, <2>1, CallKept DEF Idle
  <2>3. Alone'
    BY <1>6, <2>1 DEF CaseInv, CallInv, Alone, AtWork, Idle
  <2>4. QED
    BY <1>7, <2>2, <2>3 DEF CallInv
<1>12. QED
  BY <1>4, <1>5, <1>7, <1>8, <1>9, <1>10, <1>11

LEMMA MarkDecidedKeeps ==
  ASSUME CaseInv, NEW c \in Callers, MarkDecided(c)
  PROVE  CallInv' /\ ProposalsArePrefix' /\ ProposalRestsOnDecision' /\ StatusHasEvidence'
<1> DEFINE state == [step |-> "proposing", job |-> call[c].job,
                     decision |-> call[c].decision, index |-> 1]
<1>0. PICK k : k = call[c].decision
  OBVIOUS
<1>1. /\ AtWork(c) /\ At(c, "marking") /\ UNCHANGED <<proposals, version>>
      /\ UpdateCaseStatus(call[c].job.case, "decision_generated")
  BY DEF MarkDecided, At, AtWork
<1>2. CASE Go(c, Idle) /\ Ends(c, "aborted")
  BY <1>1, <1>2, EndStep
<1>3. CASE Go(c, state) /\ UNCHANGED decisions /\ call[c].job.mode = "decide"
  <2>1. state.step = "proposing"
    OBVIOUS
  <2>2. /\ \A d : Indexes(d)' = Indexes(d)
        /\ \A d \in Callers \ {c} : WorkOK(d)' /\ ProgressOK(d)' /\ ReadOK(d)'
        /\ ProposalsArePrefix' /\ ProposalRestsOnDecision' /\ StatusHasEvidence'
    <3> HIDE DEF state
    <3>1. QED
      BY <1>1, <1>3, <2>1, EndStep
  <2>3. call' = [call EXCEPT ![c] = state] /\ call \in [Callers -> Calls]
    BY <1>3 DEF Go, CaseInv, TypeInv, TypeOK
  <2>4. WorkOK(c)' /\ ReadOK(c)'
    BY <1>1, <1>3, <2>3 DEF CaseInv, CallInv, WorkOK, ReadOK, At, AtWork
  <2>5. ProgressOK(c)'
    <3>1. decisions[k].outcome = "open" /\ Indexes(k) = {}
      BY <1>0, <1>1, <1>3 DEF CaseInv, CallInv, ProgressOK
    <3>2. Len(decisions[k].actions) \in Nat
      <4>1. decisions[k] \in DecisionRows
        BY <1>0, <1>1, WorkType DEF CaseInv, TypeInv, AtWork
      <4>2. QED
        BY <4>1, ActionsAreLists DEF DecisionRows
    <3>3. AdmissibleUpTo(k, 0) = {}
      BY DEF AdmissibleUpTo
    <3>4. call'[c] = state /\ decisions' = decisions /\ Indexes(k)' = {}
      BY <1>3, <2>2, <2>3, <3>1
    <3>5. AdmissibleUpTo(k, 0)' = AdmissibleUpTo(k, 0)
      BY <3>4 DEF AdmissibleUpTo
    <3>6. /\ call'[c].decision = k /\ call'[c].step = "proposing" /\ call'[c].index = 1
          /\ Indexes(k)' = AdmissibleUpTo(k, 0)'
      BY <1>0, <3>3, <3>4, <3>5
    <3>7. QED
      BY <3>1, <3>2, <3>4, <3>6 DEF ProgressOK, At
  <2>6. Alone'
    BY <1>1, <2>3 DEF CaseInv, CallInv, Alone, AtWork
  <2>7. QED
    BY <2>2, <2>4, <2>5, <2>6 DEF CallInv
<1>4. QED
  <2>1. call[c].job.mode \in {"decide", "compare"}
    BY <1>1, WorkType DEF CaseInv, TypeInv, AtWork, Jobs
  <2>2. QED
    BY <1>2, <1>3 DEF MarkDecided

LEMMA MarkProposedKeeps ==
  ASSUME CaseInv, NEW c \in Callers, MarkProposed(c)
  PROVE  CallInv' /\ ProposalsArePrefix' /\ ProposalRestsOnDecision' /\ StatusHasEvidence'
BY EndStep DEF MarkProposed, At, AtWork

LEMMA AbortKeeps ==
  ASSUME CaseInv, NEW c \in Callers, Abort(c)
  PROVE  CallInv' /\ ProposalsArePrefix' /\ ProposalRestsOnDecision' /\ StatusHasEvidence'
<1>1. UNCHANGED <<cases, proposals, version>> /\ Go(c, Idle)
  BY DEF Abort
<1>2. CASE AtWork(c)
  BY <1>1, <1>2, EndStep DEF Abort, AtWork
<1>3. CASE ~ AtWork(c)
  <2>1. UNCHANGED decisions
    BY <1>3 DEF Abort, AtWork
  <2>2. \A d \in Callers : call'[d] = call[d] \/ call'[d].step = "idle"
    BY <1>1 DEF Go, CaseInv, TypeInv, TypeOK, Idle
  <2>3. \A i \in DOMAIN cases' : i \in DOMAIN cases /\ cases'[i].status = cases[i].status
    BY <1>1
  <2>4. QED
    BY <1>1, <2>1, <2>2, <2>3, QuietStep
<1>4. QED
  BY <1>2, <1>3

\* A new decision starts without proposals, and nobody else works on it.
LEMMA SaveDecisionKeeps ==
  ASSUME CaseInv, NEW c \in Callers, SaveDecision(c)
  PROVE  CallInv' /\ ProposalsArePrefix' /\ ProposalRestsOnDecision' /\ StatusHasEvidence'
<1>0. PICK k : k = Len(decisions) + 1
  OBVIOUS
<1>1. /\ call[c].job \in Jobs
      /\ decisions'[k].outcome = (IF call[c].job.mode = "compare" THEN "compared" ELSE "open")
      /\ decisions'[k].case = call[c].job.case
      /\ decisions'[k].context = call[c].job.context
      /\ DOMAIN decisions' = DOMAIN decisions \cup {k}
      /\ k \notin DOMAIN decisions
      /\ \A d \in DOMAIN decisions : decisions'[d] = decisions[d]
      /\ TypeInv'
  BY <1>0, SaveDecisionType DEF CaseInv
<1>2. UNCHANGED <<cases, proposals, version>>
  BY DEF SaveDecision
<1>3. /\ call' = [call EXCEPT ![c] = [step |-> "marking", job |-> call[c].job, decision |-> k]]
      /\ call \in [Callers -> Calls]
  BY <1>0 DEF SaveDecision, Go, CaseInv, TypeInv, TypeOK
<1>4. Kept /\ NoneNew
  BY <1>1, <1>2, SameKept DEF Kept
<1>5. \A d : Indexes(d)' = Indexes(d)
  BY <1>4, IndexesKept
<1>6. Indexes(k) = {}
  <2>1. k # 0 /\ \A p \in proposals : p.from \in {0} \cup DOMAIN decisions
    <3>1. Len(decisions) \in Nat
      BY DEF CaseInv, TypeInv, TypeOK
    <3>2. QED
      BY <1>0, <3>1 DEF CaseInv, TypeInv, TypeOK, ProposalRows
  <2>2. QED
    BY <1>1, <2>1 DEF Indexes
<1>7. ASSUME NEW d \in Callers \ {c}
      PROVE  /\ WorkOK(d)' /\ ProgressOK(d)' /\ ReadOK(d)'
             /\ AtWork(d) => call[d].decision # k
  <2>1. call'[d] = call[d]
    BY <1>3
  <2>2. AtWork(d) => call[d].decision \in DOMAIN decisions
    BY WorkType DEF AtWork, CaseInv, TypeInv
  <2>3. QED
    BY <1>1, <1>4, <1>5, <2>1, <2>2, CallKept
<1>8. WorkOK(c)' /\ ReadOK(c)' /\ ProgressOK(c)'
  <2>1. /\ call'[c].step = "marking" /\ call'[c].job = call[c].job /\ call'[c].decision = k
        /\ Indexes(k)' = {}
    BY <1>3, <1>5, <1>6
  <2>2. QED
    BY <1>1, <2>1 DEF WorkOK, ReadOK, ProgressOK, At, AtWork
<1>9. Alone'
  BY <1>3, <1>7 DEF CaseInv, CallInv, Alone, AtWork
<1>10. ProposalsArePrefix'
  <2>1. \A d \in DOMAIN decisions : Prefix(d)'
    BY <1>1, <1>4, <1>5, Rowwise, PrefixKept DEF CaseInv
  <2>2. Prefix(k)'
    <3>1. decisions'[k] \in DecisionRows'
      <4>1. decisions' \in Seq(DecisionRows') /\ k \in DOMAIN decisions'
        BY <1>1 DEF TypeInv, TypeOK
      <4>2. QED
        BY <4>1
    <3>2. Len(decisions'[k].actions) \in Nat
      BY <3>1, ActionsAreLists DEF DecisionRows
    <3>3. Indexes(k)' = {} /\ AdmissibleUpTo(k, 0)' = {}
      BY <1>5, <1>6 DEF AdmissibleUpTo
    <3>4. QED
      BY <1>1, <3>2, <3>3 DEF Prefix
  <2>3. QED
    BY <1>1, <2>1, <2>2, Zenon DEF ProposalsArePrefix, Prefix, Indexes
<1>11. ProposalRestsOnDecision'
  BY <1>4, RestsKept DEF CaseInv
<1>12. StatusHasEvidence'
  <2>1. \A i \in DOMAIN cases : Evidence(i)'
    BY <1>2, <1>4, Rowwise, EvidenceKept DEF CaseInv
  <2>2. QED
    BY <1>2, <2>1 DEF StatusHasEvidence, Evidence
<1>13. QED
  BY <1>7, <1>8, <1>9, <1>10, <1>11, <1>12 DEF CallInv

\* One more action is gone through: its proposal is there if it is admissible.
LEMMA ProposeKeeps ==
  ASSUME CaseInv, NEW c \in Callers, Propose(c)
  PROVE  CallInv' /\ ProposalsArePrefix' /\ ProposalRestsOnDecision' /\ StatusHasEvidence'
<1>0. PICK k, n : k = call[c].decision /\ n = call[c].index
  OBVIOUS
<1> DEFINE recommended == Recommended(c)[call[c].index]
           state == [call[c] EXCEPT !.index = call[c].index + 1]
<1>1. /\ UNCHANGED <<cases, version>> /\ AtWork(c) /\ At(c, "proposing")
      /\ call \in [Callers -> Calls]
  BY DEF Propose, AtWork, At, CaseInv, TypeInv, TypeOK
<1>2. call[c] \in [step : {"proposing"}, job : Jobs, decision : DOMAIN decisions, index : Nat \ {0}]
  BY <1>1, CallShape DEF At
<1>3. /\ k \in DOMAIN decisions /\ n \in Nat \ {0}
      /\ n <= Len(decisions[k].actions) /\ Len(decisions[k].actions) \in Nat
      /\ Indexes(k) = AdmissibleUpTo(k, n - 1)
      /\ recommended = decisions[k].actions[n]
      /\ decisions[k].outcome = "open"
      /\ decisions[k].case = call[c].job.case /\ decisions[k].context = call[c].job.context
  <2>1. decisions[k] \in DecisionRows
    BY <1>0, <1>2 DEF CaseInv, TypeInv, TypeOK
  <2>2. Len(decisions[k].actions) \in Nat
    BY <2>1, ActionsAreLists DEF DecisionRows
  <2>3. QED
    BY <1>0, <1>1, <1>2, <2>2 DEF CaseInv, CallInv, WorkOK, ProgressOK, Propose, Recommended
<1>4. CASE Go(c, Idle) /\ Ends(c, "aborted") /\ UNCHANGED proposals
  BY <1>1, <1>4, EndStep DEF Propose
<1>5. CASE Go(c, state) /\ UNCHANGED decisions
           /\ IF Admissible(recommended) THEN proposals' = proposals \cup {NewProposal(c)}
              ELSE UNCHANGED proposals
  <2>1. /\ call'[c].step = "proposing" /\ call'[c].decision = k /\ call'[c].index = n + 1
        /\ call'[c].job = call[c].job
        /\ \A d \in Callers \ {c} : call'[d] = call[d]
    BY <1>0, <1>1, <1>2, <1>5 DEF Go
  <2>2. /\ NewProposal(c).from = k /\ NewProposal(c).index = n
        /\ NewProposal(c).case = decisions[k].case
        /\ NewProposal(c).context = decisions[k].context
        /\ NewProposal(c).action = decisions[k].actions[n].type
    BY <1>0, <1>3 DEF NewProposal
  <2>3. Kept
    BY <1>1, <1>5 DEF Kept, SameProposal
  <2>4. \A d : d # k => Indexes(d)' = Indexes(d)
    BY <1>5, <2>2 DEF Indexes
  <2>5. Indexes(k)' = AdmissibleUpTo(k, n)
    <3>1. AdmissibleUpTo(k, n) = AdmissibleUpTo(k, n - 1) \cup
            (IF Admissible(recommended) THEN {n} ELSE {})
      BY <1>3 DEF AdmissibleUpTo
    <3>2. CASE Admissible(recommended)
      BY <1>3, <1>5, <2>2, <3>1, <3>2 DEF Indexes
    <3>3. CASE ~ Admissible(recommended)
      BY <1>3, <1>5, <3>1, <3>3 DEF Indexes
    <3>4. QED
      BY <3>2, <3>3
  <2>6. AdmissibleUpTo(k, n)' = AdmissibleUpTo(k, n)
    BY <1>5 DEF AdmissibleUpTo
  <2>7. ASSUME NEW d \in Callers \ {c} PROVE WorkOK(d)' /\ ProgressOK(d)' /\ ReadOK(d)'
    <3>1. AtWork(d) => call[d].decision # k
      BY <1>0, <1>1 DEF CaseInv, CallInv, Alone
    <3>2. QED
      BY <1>5, <2>1, <2>3, <2>4, <3>1, CallKept
  <2>8. WorkOK(c)' /\ ProgressOK(c)' /\ ReadOK(c)'
    BY <1>3, <1>5, <2>1, <2>5, <2>6 DEF WorkOK, ProgressOK, ReadOK, At, AtWork
  <2>9. Alone'
    BY <1>0, <1>1, <2>1 DEF CaseInv, CallInv, Alone, AtWork
  <2>10. ProposalsArePrefix'
    <3>1. \A d \in DOMAIN decisions : Prefix(d)
      BY Rowwise DEF CaseInv
    <3>2. \A d \in DOMAIN decisions \ {k} : Prefix(d)'
      BY <1>5, <2>3, <2>4, <3>1, PrefixKept
    <3>3. Prefix(k)'
      BY <1>3, <1>5, <2>5, <2>6 DEF Prefix
    <3>4. QED
      BY <1>5, <3>2, <3>3, Zenon DEF ProposalsArePrefix, Prefix, Indexes
  <2>11. ProposalRestsOnDecision'
    <3>1. \A p \in proposals : Rests(p)
      BY Rowwise DEF CaseInv
    <3>2. Rests(NewProposal(c))
      BY <2>2 DEF Rests
    <3>3. ASSUME NEW p \in proposals' PROVE Rests(p)
      BY <1>5, <3>1, <3>2
    <3>4. QED
      BY <1>5, <3>3 DEF ProposalRestsOnDecision, Rests
  <2>12. StatusHasEvidence'
    <3>1. \A i \in DOMAIN cases : Evidence(i)'
      BY <1>1, <2>3, Rowwise, EvidenceKept DEF CaseInv
    <3>2. QED
      BY <1>1, <3>1 DEF StatusHasEvidence, Evidence
  <2>13. QED
    BY <2>7, <2>8, <2>9, <2>10, <2>11, <2>12 DEF CallInv
<1>6. QED
  BY <1>4, <1>5 DEF Propose

LEMMA ReviewKeeps ==
  ASSUME CaseInv, NEW c \in Callers, NEW p \in proposals, Review(c, p)
  PROVE  CallInv' /\ ProposalsArePrefix' /\ ProposalRestsOnDecision' /\ StatusHasEvidence'
<1>1. /\ UNCHANGED <<cases, decisions, proposals, version>>
      /\ call' = [call EXCEPT ![c] = [step |-> "reviewing", proposal |-> p,
                                      read |-> cases[p.case].status]]
      /\ call \in [Callers -> Calls]
  BY DEF Review, Go, CaseInv, TypeInv, TypeOK
<1>2. Kept /\ NoneNew
  BY <1>1, SameKept DEF Kept
<1>3. \A d : Indexes(d)' = Indexes(d)
  BY <1>2, IndexesKept
<1>4. \A d \in Callers \ {c} : WorkOK(d)' /\ ProgressOK(d)' /\ ReadOK(d)'
  BY <1>1, <1>2, <1>3, CallKept
<1>5. WorkOK(c)' /\ ProgressOK(c)'
  BY <1>1 DEF WorkOK, ProgressOK, At, AtWork
<1>6. ReadOK(c)'
  <2>1. p.case \in DOMAIN cases
    BY DEF CaseInv, TypeInv, TypeOK, ProposalRows
  <2>2. Evidence(p.case)
    BY <2>1, Rowwise DEF CaseInv
  <2>3. QED
    BY <1>1, <2>2 DEF ReadOK, Evidence, At
<1>7. Alone'
  BY <1>1 DEF CaseInv, CallInv, Alone, AtWork
<1>8. ProposalsArePrefix' /\ ProposalRestsOnDecision' /\ StatusHasEvidence'
  BY <1>1 DEF CaseInv, ProposalsArePrefix, ProposalRestsOnDecision, StatusHasEvidence, AdmissibleUpTo
<1>9. QED
  BY <1>4, <1>5, <1>6, <1>7, <1>8 DEF CallInv

\* The reviewed proposal stays what it was; the case it marks had a decision
\* when the review read it, and decisions do not go away.
LEMMA CommitReviewKeeps ==
  ASSUME CaseInv, NEW c \in Callers, CommitReview(c)
  PROVE  CallInv' /\ ProposalsArePrefix' /\ ProposalRestsOnDecision' /\ StatusHasEvidence'
<1> DEFINE p == call[c].proposal
           q == [p EXCEPT !.status = "reviewed"]
<1>1. /\ UNCHANGED <<decisions, version>> /\ At(c, "reviewing")
      /\ \A d \in Callers : call'[d] = IF d = c THEN Idle ELSE call[d]
  BY DEF CommitReview, Go, CaseInv, TypeInv, TypeOK
<1>2. /\ DOMAIN cases' = DOMAIN cases
      /\ p \in proposals /\ p.case \in DOMAIN cases
  BY CommitReviewType DEF CaseInv
<1>3. SameProposal(p, q) /\ p.status = "proposed" /\ q.status = "reviewed" /\ q.case = p.case
  <2>1. p.status = "proposed"
    BY <1>1 DEF CaseInv, TypeInv, ReviewedIsOpen
  <2>2. p \in ProposalRows
    BY <1>2 DEF CaseInv, TypeInv, TypeOK
  <2>3. QED
    BY <2>1, <2>2 DEF SameProposal, ProposalRows
<1>4. proposals' \in {proposals, (proposals \ {p}) \cup {q}}
  BY DEF CommitReview
<1> HIDE DEF q
<1>5. Kept /\ NoneNew
  <2>1. \A r \in proposals : \E s \in proposals' : SameProposal(r, s)
    BY <1>3, <1>4 DEF SameProposal
  <2>2. NoneNew
    BY <1>2, <1>3, <1>4 DEF NoneNew, SameProposal
  <2>3. QED
    BY <1>1, <1>2, <2>1, <2>2 DEF Kept
<1>6. \A d : Indexes(d)' = Indexes(d)
  BY <1>5, IndexesKept
<1>7. \A d \in Callers : WorkOK(d)' /\ ProgressOK(d)' /\ ReadOK(d)'
  BY <1>1, <1>5, <1>6, CallKept DEF Idle
<1>8. Alone'
  BY <1>1 DEF CaseInv, CallInv, Alone, AtWork, Idle
<1>9. ProposalsArePrefix'
  <2>1. \A d \in DOMAIN decisions : Prefix(d)'
    BY <1>1, <1>5, <1>6, Rowwise, PrefixKept DEF CaseInv
  <2>2. QED
    BY <1>1, <2>1, Zenon DEF ProposalsArePrefix, Prefix, Indexes
<1>10. ProposalRestsOnDecision'
  BY <1>5, RestsKept DEF CaseInv
<1>11. StatusHasEvidence'
  <2>1. ASSUME NEW i \in DOMAIN cases PROVE Evidence(i)'
    <3>1. Evidence(i)
      BY Rowwise DEF CaseInv
    <3>2. CASE cases'[i].status = cases[i].status
      BY <1>5, <3>1, <3>2, EvidenceKept
    <3>3. CASE cases'[i].status # cases[i].status
      <4>1. /\ UpdateCaseStatus(p.case, "review_required")
            /\ call[c].read = "proposal_generated" /\ proposals' = (proposals \ {p}) \cup {q}
        BY <3>3 DEF CommitReview, q
      <4>2. i = p.case /\ cases'[i].status = "review_required"
        BY <1>2, <3>3, <4>1, StatusUpdate DEF CaseInv, TypeInv, Statuses
      <4>3. \E d \in DOMAIN decisions : decisions[d].case = i
        BY <1>1, <4>1, <4>2 DEF CaseInv, CallInv, ReadOK
      <4>4. q \in proposals' /\ q.case = i /\ q.status = "reviewed"
        BY <1>3, <4>1, <4>2
      <4>5. QED
        BY <1>1, <4>2, <4>3, <4>4 DEF Evidence
    <3>4. QED
      BY <3>2, <3>3
  <2>2. QED
    BY <1>2, <2>1 DEF StatusHasEvidence, Evidence
<1>12. QED
  BY <1>7, <1>8, <1>9, <1>10, <1>11 DEF CallInv

\* The new case has its proposal, and the proposal belongs to no decision.
LEMMA ProposeActionKeeps ==
  ASSUME CaseInv, NEW object \in Objects, NEW type, NEW payload,
         ProposeAction(object, type, payload)
  PROVE  CallInv' /\ ProposalsArePrefix' /\ ProposalRestsOnDecision' /\ StatusHasEvidence'
<1>0. PICK n : n = Len(cases) + 1
  OBVIOUS
<1> DEFINE p == [case |-> n, action |-> type, context |-> Nil,
                 status |-> "proposed", from |-> 0, index |-> 0]
<1>1. /\ UNCHANGED <<decisions, version, call>> /\ proposals' = proposals \cup {p}
      /\ p.from = 0 /\ p.case = n
  BY <1>0 DEF ProposeAction
<1> HIDE DEF p
<1>2. /\ DOMAIN cases' = DOMAIN cases \cup {n}
      /\ \A i \in DOMAIN cases : cases'[i] = cases[i]
      /\ cases'[n].status = "open"
  BY <1>0, ProposeActionType DEF CaseInv
<1>3. Kept
  BY <1>1, <1>2 DEF Kept, SameProposal
<1>4. ASSUME NEW d \in DOMAIN decisions PROVE Indexes(d)' = Indexes(d)
  <2>1. d # 0
    BY DEF CaseInv, TypeInv, TypeOK
  <2>2. QED
    BY <1>1, <2>1 DEF Indexes
<1>5. ASSUME NEW c \in Callers PROVE WorkOK(c)' /\ ProgressOK(c)' /\ ReadOK(c)'
  <2>1. AtWork(c) => call[c].decision \in DOMAIN decisions
    BY WorkType DEF AtWork, CaseInv, TypeInv
  <2>2. QED
    BY <1>1, <1>3, <1>4, <2>1, CallKept
<1>6. Alone'
  BY <1>1 DEF CaseInv, CallInv, Alone, AtWork
<1>7. ProposalsArePrefix'
  <2>1. \A d \in DOMAIN decisions : Prefix(d)'
    BY <1>1, <1>3, <1>4, Rowwise, PrefixKept DEF CaseInv
  <2>2. QED
    BY <1>1, <2>1, Zenon DEF ProposalsArePrefix, Prefix, Indexes
<1>8. ProposalRestsOnDecision'
  <2>1. \A r \in proposals' : Rests(r)
    BY <1>1, Rowwise DEF CaseInv, Rests
  <2>2. QED
    BY <1>1, <2>1 DEF ProposalRestsOnDecision, Rests
<1>9. StatusHasEvidence'
  <2>1. \A i \in DOMAIN cases : Evidence(i)'
    BY <1>2, <1>3, Rowwise, EvidenceKept DEF CaseInv
  <2>2. Evidence(n)'
    BY <1>1, <1>2 DEF Evidence
  <2>3. QED
    BY <1>2, <2>1, <2>2 DEF StatusHasEvidence, Evidence
<1>10. QED
  BY <1>5, <1>6, <1>7, <1>8, <1>9 DEF CallInv

LEMMA NextCaseInv == CaseInv /\ [Next]_vars => CaseInv'
<1> SUFFICES ASSUME CaseInv, [Next]_vars PROVE CaseInv'
  OBVIOUS
<1>1. TypeInv'
  BY NextTypeInv DEF CaseInv
<1> DEFINE Links == CallInv /\ ProposalsArePrefix /\ ProposalRestsOnDecision /\ StatusHasEvidence
<1>2. call \in [Callers -> Calls] /\ cases \in Seq(CaseRows)
  BY DEF CaseInv, TypeInv, TypeOK
<1>3. ASSUME UNCHANGED vars PROVE Links'
  <2>1. UNCHANGED <<cases, decisions, proposals>> /\ call' = call
    BY <1>3 DEF vars
  <2>2. /\ DOMAIN cases \subseteq DOMAIN cases'
        /\ \A i \in DOMAIN cases' : i \in DOMAIN cases /\ cases'[i].status = cases[i].status
    BY <2>1
  <2>3. QED
    BY <2>1, <2>2, QuietStep
<1>4. ASSUME NEW c \in Callers, NEW alert \in DOMAIN Alerts, LookUp(c, alert) PROVE Links'
  <2>1. \A d \in Callers : call'[d] = call[d] \/ call'[d].step = "inserting"
    BY <1>2, <1>4 DEF LookUp, Go
  <2>2. QED
    BY <1>4, <2>1, QuietStep DEF LookUp
<1>5. ASSUME NEW c \in Callers, NEW i \in DOMAIN cases, NEW mode \in {"decide", "compare"},
             Start(c, i, mode)
      PROVE  Links'
  <2>1. \A d \in Callers : call'[d] = call[d] \/ call'[d].step = "generating"
    BY <1>2, <1>5 DEF Start, Go
  <2>2. QED
    BY <1>5, <2>1, QuietStep DEF Start
<1>6. ASSUME NEW c \in Callers, Insert(c) PROVE Links'
  <2> DEFINE alert == call[c].alert
             row == NewCase(FromAlert(alert), Alerts[alert].object, Alerts[alert].severity, "created")
  <2>1. \A d \in Callers : call'[d] = call[d] \/ call'[d].step = "idle"
    BY <1>2, <1>6 DEF Insert, Go, Idle
  <2>2. cases' = cases \/ cases' = Append(cases, row)
    BY <1>6 DEF Insert
  <2>3. row.status = "created" /\ row \in CaseRows
    <3>1. alert \in DOMAIN Alerts
      BY <1>2, <1>6, CallShape DEF Insert, At
    <3>2. QED
      BY <3>1 DEF CaseRows, NewCase, Severity, Statuses
  <2> HIDE DEF row
  <2>4. /\ DOMAIN cases \subseteq DOMAIN cases'
        /\ \A i \in DOMAIN cases' :
             (i \in DOMAIN cases /\ cases'[i].status = cases[i].status) \/ cases'[i].status = "created"
    <3>1. CASE cases' = cases
      BY <3>1
    <3>2. CASE cases' = Append(cases, row)
      BY <1>2, <2>3, <3>2, AppendRow
    <3>3. QED
      BY <2>2, <3>1, <3>2
  <2>5. QED
    BY <1>6, <2>1, <2>4, QuietStep DEF Insert
<1>7. ASSUME NEW i \in DOMAIN cases, ResolveCase(i) PROVE Links'
  <2>1. /\ DOMAIN cases' = DOMAIN cases
        /\ \A j \in DOMAIN cases : cases'[j].status \in {cases[j].status, "closed"}
    BY <1>7, StatusUpdate DEF ResolveCase, Statuses, CaseInv, TypeInv
  <2>2. QED
    BY <1>7, <2>1, QuietStep DEF ResolveCase
<1>8. ASSUME NewData PROVE Links'
  <2>1. UNCHANGED <<cases, decisions, proposals>> /\ call' = call
    BY <1>8 DEF NewData
  <2>2. /\ DOMAIN cases \subseteq DOMAIN cases'
        /\ \A i \in DOMAIN cases' : i \in DOMAIN cases /\ cases'[i].status = cases[i].status
    BY <2>1
  <2>3. QED
    BY <2>1, <2>2, QuietStep
<1>9. ASSUME NEW c \in Callers,
             \/ SaveDecision(c) \/ MarkDecided(c) \/ Propose(c) \/ MarkProposed(c)
             \/ CommitReview(c) \/ Abort(c) \/ \E p \in proposals : Review(c, p)
      PROVE  Links'
  BY <1>9, SaveDecisionKeeps, MarkDecidedKeeps, ProposeKeeps, MarkProposedKeeps, AbortKeeps,
     ReviewKeeps, CommitReviewKeeps
<1>10. ASSUME NEW object \in Objects, NEW type \in ObjectActions, NEW payload \in Payloads,
              ProposeAction(object, type, payload)
       PROVE  Links'
  BY <1>10, ProposeActionKeeps
<1>11. Links'
  <2> HIDE DEF Links
  <2>1. ASSUME NEW c \in Callers,
               \/ \E alert \in DOMAIN Alerts : LookUp(c, alert)
               \/ \E i \in DOMAIN cases, mode \in {"decide", "compare"} : Start(c, i, mode)
               \/ \E p \in proposals : Review(c, p)
               \/ Insert(c) \/ SaveDecision(c) \/ MarkDecided(c) \/ Propose(c)
               \/ MarkProposed(c) \/ CommitReview(c) \/ Abort(c)
        PROVE  Links'
    BY <1>4, <1>5, <1>6, <1>9, <2>1
  <2>2. QED
    BY <1>3, <1>7, <1>8, <1>10, <2>1, Zenon DEF Next
<1>12. QED
  BY <1>1, <1>11 DEF CaseInv

LEMMA InitCaseInv == Init => CaseInv
BY InitTypeInv DEF Init, CaseInv, CallInv, Alone, AtWork, At, Idle, WorkOK, ProgressOK, ReadOK,
   ProposalsArePrefix, ProposalRestsOnDecision, StatusHasEvidence

LEMMA CaseInvHolds == Spec => []CaseInv
BY InitCaseInv, NextCaseInv, PTL DEF Spec

\* The proposals of a decision are the admissible ones of its actions up to
\* some point, all of them when Decide has answered, wherever a call of
\* GenerateProposals is cut off and whatever reviews do in between.
THEOREM PrefixOfProposals == Spec => []ProposalsArePrefix
<1>1. CaseInv => ProposalsArePrefix
  BY DEF CaseInv
<1>2. QED
  BY <1>1, CaseInvHolds, PTL

\* A proposal recommends what a saved decision of its case recommends and bears
\* the hash of that decision's context, whatever the data behind the context
\* become while the LLM thinks.
THEOREM ProposalsRest == Spec => []ProposalRestsOnDecision
<1>1. CaseInv => ProposalRestsOnDecision
  BY DEF CaseInv
<1>2. QED
  BY <1>1, CaseInvHolds, PTL

\* A case whose status speaks of a decision, a reviewed proposal or a proposal
\* has it, although a review writes from a status it read earlier and no
\* update looks at the status it replaces.
THEOREM StatusRestsOnRows == Spec => []StatusHasEvidence
<1>1. CaseInv => StatusHasEvidence
  BY DEF CaseInv
<1>2. QED
  BY <1>1, CaseInvHolds, PTL
=============================================================================
