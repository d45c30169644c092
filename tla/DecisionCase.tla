---------------------------- MODULE DecisionCase ----------------------------
(***************************************************************************)
(* ai.decision_case with the rows that hang on it: ai.llm_decision and     *)
(* ai.action_proposal.  Any number of callers (API handlers, MCP tools,    *)
(* CLI commands) create cases from alerts, decide them, compare the LLM    *)
(* with the rules, review proposals, propose actions on objects and        *)
(* resolve cases, at the same time.  Apart from a review and ProposeAction *)
(* nothing is a transaction, and no UPDATE of the status tests the status  *)
(* it replaces; a partial unique index admits one active case per source.  *)
(***************************************************************************)
EXTENDS DecisionRules

CONSTANTS
  Callers,       \* concurrent calls of the services
  Alerts,        \* alert -> [severity, object], the object possibly Nil
  Objects,       \* objects of the ontology
  ObjectActions, \* actions the ontology allows on them
  Role,          \* the role the MCP server is started with
  RegistryFile,  \* the configuration of actions, see DecisionRules
  Outputs,       \* what the LLM may answer, a list of actions in each, or Nil
  ContextActions,\* the allowed actions a context names
  NumCases,      \* bound: rows of decision_case
  NumDecisions,  \* bound: rows of llm_decision
  MaxVersion     \* bound: changes of the data behind a context

ASSUME CaseAssumption ==
  /\ NumCases \in Nat /\ NumDecisions \in Nat /\ MaxVersion \in Nat
  /\ \A o \in Outputs \ {Nil} : o.actions \in Seq({o.actions[i] : i \in DOMAIN o.actions})

VARIABLES
  cases,      \* sequence of rows
  decisions,  \* sequence of rows; context and outcome are history
  proposals,  \* set of rows; from and index are history
  version,    \* of the data that contexts are built from
  call        \* call[c]: where caller c is

vars == <<cases, decisions, proposals, version, call>>

Registry == NewActionRegistry(RegistryFile)

Statuses == {"created", "open", "decision_generated", "proposal_generated",
             "review_required", "closed"}

Active(status) == status \notin {"closed", "failed"}

Idle == [step |-> "idle"]

\* Mutant: a test in CreateCase in place of the index.
IndexAdmitsOnInsert(i, source, status) ==
  (i = 0 /\ Active(status)) =>
    ~ \E j \in DOMAIN cases : cases[j].source = source /\ Active(cases[j].status)

\* The partial unique index on (source) of active rows: whether row i may
\* have this status and source (i = 0 for a row to be inserted).
IndexAdmits(i, source, status) ==
  Active(status) =>
    ~ \E j \in DOMAIN cases \ {i} : cases[j].source = source /\ Active(cases[j].status)

Go(c, state) == call' = [call EXCEPT ![c] = state]

At(c, step) == call[c].step = step

Init ==
  /\ cases = << >> /\ decisions = << >> /\ proposals = {} /\ version = 0
  /\ call = [c \in Callers |-> Idle]

-----------------------------------------------------------------------------
(* CreateCaseFromAlert.                                                    *)

FromAlert(alert) == <<"alert", alert>>

\* GetCaseBySource takes any row of the source; an active one is the answer.
LookUp(c, alert) ==
  /\ At(c, "idle")
  /\ LET found == {i \in DOMAIN cases : cases[i].source = FromAlert(alert)}
     IN found = {} \/ \E i \in found : ~ Active(cases[i].status)
  /\ Go(c, [step |-> "inserting", alert |-> alert])
  /\ UNCHANGED <<cases, decisions, proposals, version>>

NewCase(source, object, severity, status) ==
  [source |-> source, object |-> object, severity |-> severity, status |-> status]

Insert(c) ==
  /\ At(c, "inserting")
  /\ Len(cases) < NumCases
  /\ LET alert == call[c].alert
         row == NewCase(FromAlert(alert), Alerts[alert].object, Alerts[alert].severity, "created")
     IN cases' = IF IndexAdmits(0, row.source, row.status) THEN Append(cases, row) ELSE cases
  /\ Go(c, Idle)
  /\ UNCHANGED <<decisions, proposals, version>>

-----------------------------------------------------------------------------
(* Decide, and Compare, which ends when the case is marked.                *)

Context(i) == [case |-> i, severity |-> cases[i].severity, version |-> version]

\* GetCase and BuildDecisionContext, which wants an object.
Start(c, i, mode) ==
  /\ At(c, "idle")
  /\ Len(decisions) < NumDecisions
  /\ cases[i].object # Nil
  /\ Go(c, [step |-> "generating", job |-> [case |-> i, mode |-> mode, context |-> Context(i)]])
  /\ UNCHANGED <<cases, decisions, proposals, version>>

\* GenerateDecision asks the LLM, once more with the errors when the answer
\* is invalid, and takes the rules when that fails too.  They never fail, and
\* their output is not validated.
EngineOutputs(context) ==
  {o \in Outputs : IsValid(o, ContextActions)} \cup
  (IF \E o \in Outputs : ~ IsValid(o, ContextActions)
   THEN {RuleOutput(context.severity)} ELSE {})

SaveDecision(c) ==
  /\ At(c, "generating")
  /\ Len(decisions) < NumDecisions
  /\ \E output \in EngineOutputs(call[c].job.context) :
       decisions' = Append(decisions,
         [case |-> call[c].job.case, context |-> call[c].job.context, actions |-> output.actions,
          outcome |-> IF call[c].job.mode = "compare" THEN "compared" ELSE "open"])
  /\ Go(c, [step |-> "marking", job |-> call[c].job, decision |-> Len(decisions) + 1])
  /\ UNCHANGED <<cases, proposals, version>>

\* UpdateCaseStatus, refused by the index alone.
UpdateCaseStatus(i, status) ==
  cases' = IF IndexAdmits(i, cases[i].source, status)
           THEN [cases EXCEPT ![i].status = status] ELSE cases

Ends(c, outcome) ==
  decisions' = [decisions EXCEPT ![call[c].decision].outcome =
                  IF @ = "open" THEN outcome ELSE @]

MarkDecided(c) ==
  /\ At(c, "marking")
  /\ LET i == call[c].job.case
         admitted == IndexAdmits(i, cases[i].source, "decision_generated")
     IN /\ UpdateCaseStatus(i, "decision_generated")
        /\ IF admitted /\ call[c].job.mode = "decide"
           THEN /\ Go(c, [step |-> "proposing", job |-> call[c].job,
                         decision |-> call[c].decision, index |-> 1])
                /\ UNCHANGED decisions
           ELSE /\ Go(c, Idle)
                /\ Ends(c, "aborted")
  /\ UNCHANGED <<proposals, version>>

Recommended(c) == decisions[call[c].decision].actions

\* An action the registry does not admit is skipped.
Admissible(recommended) ==
  ValidatePayload(Registry, recommended.type, recommended.payload) = {}

\* The CHECK on action_type.
CheckAdmits(type) == type \in CanonicalActions

\* Mutant: the context hash of a context built again.
NewProposalOfNewContext(c) ==
  [case |-> call[c].job.case, action |-> Recommended(c)[call[c].index].type,
   context |-> Context(call[c].job.case), status |-> "proposed",
   from |-> call[c].decision, index |-> call[c].index]

\* One INSERT, with the context hash of the call and a decision id of its own,
\* which no row of llm_decision has.
NewProposal(c) ==
  [case |-> call[c].job.case, action |-> Recommended(c)[call[c].index].type,
   context |-> call[c].job.context, status |-> "proposed",
   from |-> call[c].decision, index |-> call[c].index]

Propose(c) ==
  /\ At(c, "proposing")
  /\ call[c].index <= Len(Recommended(c))
  /\ LET recommended == Recommended(c)[call[c].index]
         Continue == /\ Go(c, [call[c] EXCEPT !.index = @ + 1])
                     /\ UNCHANGED decisions
     IN IF ~ Admissible(recommended)
        THEN Continue /\ UNCHANGED proposals
        ELSE IF CheckAdmits(recommended.type)
             THEN Continue /\ proposals' = proposals \cup {NewProposal(c)}
             ELSE Go(c, Idle) /\ Ends(c, "aborted") /\ UNCHANGED proposals
  /\ UNCHANGED <<cases, version>>

\* Mutant: the last action is forgotten.
MarkProposedEarly(c) ==
  /\ At(c, "proposing")
  /\ call[c].index >= Len(Recommended(c))
  /\ UpdateCaseStatus(call[c].job.case, "proposal_generated")
  /\ Ends(c, "done")
  /\ Go(c, Idle)
  /\ UNCHANGED <<proposals, version>>

MarkProposed(c) ==
  /\ At(c, "proposing")
  /\ call[c].index > Len(Recommended(c))
  /\ UpdateCaseStatus(call[c].job.case, "proposal_generated")
  /\ Ends(c, "done")
  /\ Go(c, Idle)
  /\ UNCHANGED <<proposals, version>>

\* The client goes away, the process ends or a statement fails: what is
\* written stays written.
Abort(c) ==
  /\ call[c].step \in {"inserting", "generating", "marking", "proposing"}
  /\ Go(c, Idle)
  /\ IF call[c].step \in {"marking", "proposing"}
     THEN Ends(c, "aborted") ELSE UNCHANGED decisions
  /\ UNCHANGED <<cases, proposals, version>>

-----------------------------------------------------------------------------
(* Reviews, resolutions, proposals on objects, new data.                   *)

\* Inside of one transaction: the proposal is locked and tested; the case's
\* status is read, and written later.
Review(c, p) ==
  /\ At(c, "idle")
  /\ p.status = "proposed"
  /\ ~ \E d \in Callers : At(d, "reviewing") /\ call[d].proposal = p
  /\ Go(c, [step |-> "reviewing", proposal |-> p, read |-> cases[p.case].status])
  /\ UNCHANGED <<cases, decisions, proposals, version>>

\* Mutant: the case is updated outside of the review's transaction.
CommitReviewOnPool(c) ==
  /\ At(c, "reviewing")
  /\ LET p == call[c].proposal
     IN /\ proposals' \in {proposals,
             (proposals \ {p}) \cup {[p EXCEPT !.status = "reviewed"]}}
        /\ IF call[c].read = "proposal_generated"
           THEN UpdateCaseStatus(p.case, "review_required") ELSE UNCHANGED cases
  /\ Go(c, Idle)
  /\ UNCHANGED <<decisions, version>>

CommitReview(c) ==
  /\ At(c, "reviewing")
  /\ LET p == call[c].proposal
         marks == call[c].read = "proposal_generated"
     IN \/ /\ marks => IndexAdmits(p.case, cases[p.case].source, "review_required")
           /\ proposals' = (proposals \ {p}) \cup {[p EXCEPT !.status = "reviewed"]}
           /\ IF marks THEN UpdateCaseStatus(p.case, "review_required") ELSE UNCHANGED cases
        \/ UNCHANGED <<cases, proposals>>    \* rolled back
  /\ Go(c, Idle)
  /\ UNCHANGED <<decisions, version>>

\* Mutant: a status that no constraint knows.
ResolveCaseAsResolved(i) ==
  /\ cases' = [cases EXCEPT ![i].status = "resolved"]
  /\ UNCHANGED <<decisions, proposals, version, call>>

\* ResolveCase closes whatever it meets.
ResolveCase(i) ==
  /\ cases' = [cases EXCEPT ![i].status = "closed"]
  /\ UNCHANGED <<decisions, proposals, version, call>>

\* Whether the MCP server takes an action: the ontology, the registry, the
\* payload unless it is empty, the role.
Proposable(type, payload) ==
  /\ type \in ObjectActions
  /\ IsAllowed(Registry, type)
  /\ payload # NoPayload => ValidatePayload(Registry, type, payload) = {}
  /\ LET roles == Registry[type].allowedBy IN roles = {} \/ Role \in roles

\* One transaction with two INSERTs; the case it names is a new one.
ProposeAction(object, type, payload) ==
  /\ Len(cases) < NumCases
  /\ Proposable(type, payload)
  /\ IndexAdmits(0, <<"object", object>>, "open")
  /\ CheckAdmits(type)
  /\ cases' = Append(cases, NewCase(<<"object", object>>, object, "", "open"))
  /\ proposals' = proposals \cup
       {[case |-> Len(cases) + 1, action |-> type, context |-> Nil,
         status |-> "proposed", from |-> 0, index |-> 0]}
  /\ UNCHANGED <<decisions, version, call>>

\* The pipeline renews the data that a context is built from.
NewData ==
  /\ version < MaxVersion
  /\ version' = version + 1
  /\ UNCHANGED <<cases, decisions, proposals, call>>

Payloads == {NoPayload} \cup
  UNION {{o.actions[i].payload : i \in DOMAIN o.actions} : o \in Outputs \ {Nil}}

Next ==
  \/ \E c \in Callers :
       \/ \E alert \in DOMAIN Alerts : LookUp(c, alert)
       \/ \E i \in DOMAIN cases, mode \in {"decide", "compare"} : Start(c, i, mode)
       \/ \E p \in proposals : Review(c, p)
       \/ Insert(c) \/ SaveDecision(c) \/ MarkDecided(c) \/ Propose(c) \/ MarkProposed(c)
       \/ CommitReview(c) \/ Abort(c)
  \/ \E i \in DOMAIN cases : ResolveCase(i)
  \/ \E object \in Objects, type \in ObjectActions, payload \in Payloads :
       ProposeAction(object, type, payload)
  \/ NewData

Spec == Init /\ [][Next]_vars

-----------------------------------------------------------------------------
(* Properties.                                                             *)

Severity == {Alerts[a].severity : a \in DOMAIN Alerts} \cup {""}

CaseRows ==
  [source : {FromAlert(a) : a \in DOMAIN Alerts} \cup {<<"object", o>> : o \in Objects},
   object : {Alerts[a].object : a \in DOMAIN Alerts} \cup Objects,
   severity : Severity, status : Statuses]

Contexts == [case : DOMAIN cases, severity : Severity, version : 0 .. version]

Jobs == {j \in [case : DOMAIN cases, mode : {"decide", "compare"}, context : Contexts] :
           j.context.case = j.case}

DecisionRows ==
  [case : DOMAIN cases, context : Contexts,
   actions : {o.actions : o \in Outputs \ {Nil}} \cup {RuleOutput(s).actions : s \in Severity},
   outcome : {"open", "done", "aborted", "compared"}]

ProposalRows ==
  [case : DOMAIN cases, action : CanonicalActions, context : Contexts \cup {Nil},
   status : {"proposed", "reviewed"}, from : {0} \cup DOMAIN decisions, index : Nat]

Calls ==
  {Idle} \cup [step : {"inserting"}, alert : DOMAIN Alerts]
  \cup [step : {"generating"}, job : Jobs]
  \cup [step : {"marking"}, job : Jobs, decision : DOMAIN decisions]
  \cup [step : {"proposing"}, job : Jobs, decision : DOMAIN decisions, index : Nat \ {0}]
  \cup [step : {"reviewing"}, proposal : proposals, read : Statuses]

\* The rows and the calls have their types, and refer to rows that are there.
TypeOK ==
  /\ cases \in Seq(CaseRows)
  /\ decisions \in Seq(DecisionRows)
  /\ proposals \subseteq ProposalRows
  /\ version \in 0 .. MaxVersion
  /\ call \in [Callers -> Calls]

\* One source has at most one active case, though creations race, a lookup may
\* meet a closed row of several, and decisions and stale reviews activate
\* closed cases again (idx_ai_decision_case_active_source).
OneActiveCase ==
  \A i, j \in DOMAIN cases :
    (cases[i].source = cases[j].source /\ Active(cases[i].status) /\ Active(cases[j].status))
      => i = j

AdmissibleUpTo(d, k) == {i \in 1 .. k : Admissible(decisions[d].actions[i])}

\* The proposals of a decision are its admissible actions up to some point, all
\* of them once Decide has answered: a failure leaves a prefix, and nothing
\* else, of what GenerateProposals inserts one by one.
ProposalsArePrefix ==
  \A d \in DOMAIN decisions :
    \E k \in 0 .. Len(decisions[d].actions) :
      /\ {p.index : p \in {q \in proposals : q.from = d}} = AdmissibleUpTo(d, k)
      /\ decisions[d].outcome = "done" => k = Len(decisions[d].actions)
      /\ decisions[d].outcome = "compared" => k = 0

\* A proposal recommends what a saved decision of its case recommends, and its
\* context hash is that of the context the decision was made from, although the
\* data change between: decision_id does not lead there.
ProposalRestsOnDecision ==
  \A p \in proposals : p.from > 0 =>
    /\ decisions[p.from].case = p.case
    /\ decisions[p.from].context = p.context
    /\ decisions[p.from].actions[p.index].type = p.action

\* A status has the rows it speaks of behind it: a case that reads as decided
\* has a decision, one in review a reviewed proposal, an open one the proposal
\* it was opened for.
StatusHasEvidence ==
  \A i \in DOMAIN cases :
    LET mine == {p \in proposals : p.case = i}
    IN /\ cases[i].status \in {"decision_generated", "proposal_generated", "review_required"}
            => \E d \in DOMAIN decisions : decisions[d].case = i
       /\ cases[i].status = "review_required" => \E p \in mine : p.status = "reviewed"
       /\ cases[i].status = "open" => mine # {}

=============================================================================
