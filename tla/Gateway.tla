------------------------------- MODULE Gateway -------------------------------
(***************************************************************************)
(* The two front ends, the HTTP API and the MCP server, on the same rows:  *)
(* who may ask, how a request becomes transactions, and what the caller is *)
(* told.  One proposal, one outbox event, one alert with its newest case,  *)
(* one sandbox; the services behind them are those of Proposal, Outbox and *)
(* DecisionCase, here with no more than their answers depend on.           *)
(***************************************************************************)
EXTENDS Integers, FiniteSets, Null

CONSTANTS
  Callers,        \* requests, each is sent once
  Inputs,         \* what callers send: [via, op, token, valid, known, dryRun, by, accepted, record]
  StartRows,      \* contents of the tables at the start
  LiveExecution   \* BAXI_ALLOW_LIVE_EXECUTION is "true"

VARIABLES
  rows,      \* proposal, event, case: a status; sandbox: what is linked to it
  requests,  \* caller -> its request: where it is, what was answered
  committed    \* every transaction that was committed: [call, what, by]

gatewayVars == <<rows, requests, committed>>

RowType ==
  [proposal : {"proposed", "approved", "rejected", "applied", "failed"},
   event : {"pending", "dispatched", "failed", "cancelled"},
   case : {"none", "open", "closed"}, sandbox : {"empty", "linked"}]

Reviews == {"approve", "reject", "cancel_proposal"}

\* What only reads, by the row it reads.
CaseReads == {"get_case", "list_cases", "list_proposals"}

ProposalReads == {"get_review", "get_proposal", "list_reviews"}

EventReads == {"get_event", "list_events", "pipeline_status"}

SandboxReads == {"get_sandbox", "list_sandboxes"}

\* The routes behind the token, and the tools.
ApiOps == Reviews \cup CaseReads \cup SandboxReads \cup
  {"get_review", "get_proposal", "get_event", "list_events", "execute", "dispatch",
   "cancel_event", "batch_dispatch", "create_case", "context", "decide", "compare",
   "run_pipeline", "create_sandbox", "add_to_sandbox", "compare_sandboxes"}

McpOps == Reviews \cup CaseReads \cup
  {"get_proposal", "list_reviews", "list_events", "pipeline_status", "get_sandbox", "execute",
   "create_case", "context", "decide", "run_pipeline", "create_sandbox", "add_to_sandbox",
   "compare_sandboxes", "resolve_case", "propose_action"}

Offered(via) == IF via = "api" THEN ApiOps ELSE McpOps

\* What a caller is told: that nothing was done, that it is not known.
Clean == {"unauthorized", "invalid", "not_found", "conflict", "forbidden",
          "previewed", "existing", "read", "nothing"}

Unknown == {"error", "tool_error", "refused", "not_dispatched"}

\* No request is no answer, and the rows at the start are such as the tables hold.
ASSUME GatewayAssumption ==
  /\ Nil \notin Clean \cup Unknown \cup {"started"}
  /\ StartRows \subseteq RowType

-----------------------------------------------------------------------------
(* Who asks.                                                               *)

\* A token passes when it is the server's, unless that one is short or one of
\* the known placeholders: then nothing passes.
Authenticated(token) == token = "server"

\* The name in a JWT is taken when its signature is made with the server's
\* token; the token that passes is that token itself, so no JWT passes.
ActorOfToken == "qoder"

\* Whom the rows name: the reviewer of the body, the owner of the token, a
\* constant.
ApiActor(i) ==
  CASE i.op \in Reviews      -> i.by
    [] i.op = "execute"      -> ActorOfToken
    [] i.op = "create_case"  -> "api_user"
    [] OTHER                 -> Nil

\* The user that the MCP server runs as, whoever calls the tool.
McpActor(i) ==
  CASE i.op \in Reviews \cup {"execute"}      -> "mcp_system"
    [] i.op = "create_case" /\ i.by = Nil     -> "mcp_user"
    [] i.op = "create_case" /\ i.by # Nil     -> i.by
    [] OTHER                                  -> Nil

Actor(i) == IF i.via = "api" THEN ApiActor(i) ELSE McpActor(i)

\* Mutant: a caller that does not say so means it.
DryRunWhenAsked(i) == i.dryRun = TRUE

\* An execution is a preview unless the caller says otherwise; the others are
\* previews when the caller says so.
DryRun(i) == IF i.op = "execute" THEN i.dryRun # FALSE ELSE i.dryRun = TRUE

\* What is refused before any row is read: a body that is not JSON, a field
\* that is empty, a configuration that is not on the MCP server's list.
Refusal(i) ==
  CASE i.via = "api" /\ ~Authenticated(i.token) -> "unauthorized"
    [] i.via = "api" /\ ~i.valid                -> "invalid"
    [] i.via = "mcp" /\ ~i.valid                -> "tool_error"
    [] OTHER                                    -> Nil

-----------------------------------------------------------------------------
(* A request: pc is the next thing to do, "answered" or "gone".            *)

NotSent == [pc |-> "idle", input |-> Nil, answer |-> Nil, hidden |-> FALSE]

GatewayInit ==
  /\ rows \in StartRows
  /\ requests = [r \in Callers |-> NotSent]
  /\ committed = {}

Input(r) == requests[r].input

At(r, pc) == requests[r].pc = pc

Goes(r, pc) == [requests EXCEPT ![r].pc = pc]

\* A tool answers every failure with an error text.
ToolAnswer(answer) ==
  IF answer \in {"not_found", "conflict", "forbidden", "error"} THEN "tool_error" ELSE answer

Answers(r, answer) ==
  [requests EXCEPT ![r].pc = "answered",
     ![r].answer = IF Input(r).via = "mcp" THEN ToolAnswer(answer) ELSE answer]

Says(r, answer) == requests' = Answers(r, answer) /\ UNCHANGED <<rows, committed>>

Continues(r, pc) == requests' = Goes(r, pc) /\ UNCHANGED <<rows, committed>>

\* What a failure on the way is answered with.
Failure(r) ==
  CASE At(r, "propose") -> "refused"
    [] Input(r).op = "batch_dispatch" /\ requests[r].pc \in {"each", "mark"} -> "not_dispatched"
    [] OTHER -> "error"

\* Mutant: the error of Commit is not looked at.
TransactionUnchecked == [kept : BOOLEAN, reported : {TRUE}]

\* A transaction is kept and known to be, rolled back, or kept without the
\* caller of Commit getting to know.
Transaction == {[kept |-> TRUE, reported |-> TRUE], [kept |-> FALSE, reported |-> FALSE],
                [kept |-> TRUE, reported |-> FALSE]}

\* One transaction of r: the rows it leaves, and how r goes on after it.
Commit(r, what, new, success) ==
  \E t \in Transaction :
    /\ rows' = IF t.kept THEN new ELSE rows
    /\ committed' = committed \cup
         IF t.kept THEN {[call |-> r, what |-> what, by |-> Actor(Input(r))]} ELSE {}
    /\ requests' = [IF t.reported THEN success ELSE Answers(r, Failure(r))
                      EXCEPT ![r].hidden = @ \/ (t.kept /\ ~t.reported)]

Writes(r, what, new) == Commit(r, what, new, Answers(r, what))

Receive(r) ==
  /\ At(r, "idle")
  /\ \E i \in Inputs :
       /\ i.op \in Offered(i.via)
       /\ requests' = [requests EXCEPT ![r] =
            IF Refusal(i) = Nil THEN [NotSent EXCEPT !.pc = i.op, !.input = i]
            ELSE [NotSent EXCEPT !.pc = "answered", !.input = i, !.answer = Refusal(i)]]
  /\ UNCHANGED <<rows, committed>>

\* A statement fails, or the context of the request has expired.
Fail(r) == requests[r].pc \notin {"idle", "answered", "gone"} /\ Says(r, Failure(r))

\* The process stops, or the answer comes after the server's write timeout,
\* which is shorter than the time a handler may take.
Lose(r) ==
  /\ requests[r].pc \notin {"idle", "gone"}
  /\ requests' = [requests EXCEPT ![r].pc = "gone", ![r].answer = Nil]
  /\ UNCHANGED <<rows, committed>>

-----------------------------------------------------------------------------
(* Proposals.                                                              *)

\* The proposal stays locked from the test of its status to the commit.
HandleReview(r) ==
  /\ requests[r].pc \in Reviews
  /\ LET op == requests[r].pc
     IN \/ ~Input(r).known /\ Says(r, "not_found")
        \/ Input(r).known /\ rows.proposal # "proposed" /\ Says(r, "conflict")
        \/ /\ Input(r).known /\ rows.proposal = "proposed"
           /\ Writes(r, op, [rows EXCEPT !.proposal =
                               IF op = "approve" THEN "approved" ELSE "rejected"])

\* Nothing is locked between the test of the status and the transaction.
HandleExecute(r) ==
  /\ At(r, "execute")
  /\ LET i == Input(r)
     IN CASE ~DryRun(i) /\ ~LiveExecution     -> Says(r, "error")
          [] ~i.known                         -> Says(r, "not_found")
          [] rows.proposal # "approved"       -> Says(r, "forbidden")
          [] ~i.accepted                      -> Says(r, "forbidden")
          [] DryRun(i)                        -> Says(r, "previewed")
          [] OTHER                            -> Continues(r, "apply")

\* The MCP server has no executors: what it executes ends as failed.
Outcomes(via) == IF via = "mcp" THEN {"failed"} ELSE {"applied", "failed"}

ExecuteForReal(r) ==
  /\ At(r, "apply")
  /\ \E outcome \in Outcomes(Input(r).via) : Writes(r, outcome, [rows EXCEPT !.proposal = outcome])

\* propose_action with a decision records that first, in a statement of its own.
HandleDecisionJSON(r) ==
  /\ At(r, "propose_action")
  /\ IF Input(r).record
     THEN Commit(r, "llm_decision", rows, Goes(r, "propose"))
     ELSE Continues(r, "propose")

\* The case is a new row: one that the decision names, or one for the object,
\* must not be there.  Every refusal, and an error of Commit, is an answer
\* with success = false.
HandleProposeAction(r) ==
  /\ At(r, "propose")
  /\ LET i == Input(r)
         taken == IF i.record THEN rows.case # "none" ELSE rows.case = "open"
     IN IF ~i.accepted \/ taken
        THEN Says(r, "refused")
        ELSE Writes(r, "proposal", [rows EXCEPT !.case = "open"])

-----------------------------------------------------------------------------
(* Outbox events.                                                          *)

EventIsOpen == rows.event \in {"pending", "failed"}

\* GetEvent has no error for an id that it does not know, and the handler
\* reads through nil: the panic is answered as an internal error.
HandleCancel(r) ==
  /\ At(r, "cancel_event")
  /\ CASE ~Input(r).known -> Says(r, "error")
       [] Input(r).known /\ ~EventIsOpen -> Says(r, "conflict")
       [] OTHER -> Continues(r, "cancel")

CancelEvent(r) ==
  /\ At(r, "cancel")
  /\ Writes(r, "cancelled", [rows EXCEPT !.event = "cancelled"])

HandleDispatch(r) ==
  /\ At(r, "dispatch")
  /\ CASE ~Input(r).known -> Says(r, "not_found")
       [] Input(r).known /\ ~EventIsOpen -> Says(r, "conflict")
       [] OTHER -> Continues(r, "mark")

\* What the list had as pending is dispatched one by one, an error is counted.
HandleBatchDispatch(r) ==
  /\ At(r, "batch_dispatch")
  /\ CASE rows.event # "pending" -> Says(r, "nothing")
       [] rows.event = "pending" /\ DryRun(Input(r)) -> Says(r, "previewed")
       [] OTHER -> Continues(r, "each")

DispatchEach(r) ==
  /\ At(r, "each")
  /\ IF EventIsOpen THEN Continues(r, "mark") ELSE Says(r, "not_dispatched")

\* The executor previews, and the event is marked as dispatched; when the
\* preview is an error it is marked as failed and the caller gets that error.
DispatchEvent(r) ==
  /\ At(r, "mark")
  /\ \/ Writes(r, "dispatched", [rows EXCEPT !.event = "dispatched"])
     \/ Commit(r, "undelivered", [rows EXCEPT !.event = "failed"], Answers(r, Failure(r)))

-----------------------------------------------------------------------------
(* Cases.                                                                  *)

\* An alert's open case is returned, with the status of a new one.
CreateCase(r) ==
  /\ At(r, "create_case")
  /\ CASE ~Input(r).known -> Says(r, "not_found")
       [] Input(r).known /\ rows.case = "open" -> Says(r, "existing")
       [] OTHER -> Continues(r, "insert")

\* The index refuses a second open case of the alert.
InsertCase(r) ==
  /\ At(r, "insert")
  /\ IF rows.case = "open" THEN Says(r, "error")
     ELSE Writes(r, "case", [rows EXCEPT !.case = "open"])

HasCase(r) == Input(r).known /\ rows.case # "none"

BuildContext(r) == At(r, "context") /\ Says(r, IF HasCase(r) THEN "read" ELSE "not_found")

\* A decision is written, then the case's status, closed or not, then the
\* proposals; comparing does the same and stops before them.
SaveDecision(r) ==
  /\ requests[r].pc \in {"decide", "compare"}
  /\ IF HasCase(r) THEN Commit(r, "decision", rows, Goes(r, "status")) ELSE Says(r, "not_found")

MarkDecided(r) ==
  /\ At(r, "status")
  /\ Commit(r, "decided", [rows EXCEPT !.case = "open"],
            IF Input(r).op = "decide" THEN Goes(r, "proposals") ELSE Answers(r, "decided"))

GenerateProposals(r) == At(r, "proposals") /\ Writes(r, "proposals", rows)

HandleResolveCase(r) ==
  /\ At(r, "resolve_case")
  /\ IF ~HasCase(r) THEN Says(r, "error") ELSE Writes(r, "closed", [rows EXCEPT !.case = "closed"])

\* A list of nothing is an answer; a review is found once there is one.
Found(r) ==
  CASE requests[r].pc = "get_case"   -> HasCase(r)
    [] requests[r].pc = "get_review" -> Input(r).known /\ rows.proposal # "proposed"
    [] requests[r].pc \in {"get_proposal", "get_event", "get_sandbox"} -> Input(r).known
    [] OTHER -> TRUE

Read(r) ==
  /\ requests[r].pc \in CaseReads \cup ProposalReads \cup EventReads \cup SandboxReads
  /\ Says(r, IF Found(r) THEN "read" ELSE "not_found")

-----------------------------------------------------------------------------
(* Sandboxes and the pipeline.                                             *)

\* A case that is not there breaks the foreign key.
CreateSandbox(r) ==
  /\ At(r, "create_sandbox")
  /\ IF ~HasCase(r) THEN Says(r, "error") ELSE Writes(r, "sandbox", rows)

\* A sandbox that is not there is no error of the statement, a proposal that
\* is not there is one.
AddProposalToSandbox(r) ==
  /\ At(r, "add_to_sandbox")
  /\ CASE ~Input(r).known -> Says(r, "not_found")
       [] Input(r).known /\ ~Input(r).accepted -> Says(r, "error")
       [] OTHER -> Writes(r, "linked", [rows EXCEPT !.sandbox = "linked"])

CompareSandbox(r) ==
  /\ At(r, "compare_sandboxes")
  /\ Says(r, IF Input(r).known THEN "read" ELSE "not_found")

\* The API answers and leaves the run to a goroutine of the server.
StartPipeline(r) ==
  /\ At(r, "run_pipeline") /\ Input(r).via = "api"
  /\ Says(r, IF DryRun(Input(r)) THEN "previewed" ELSE "started")

RunInBackground(r) ==
  /\ At(r, "answered") /\ requests[r].answer = "started"
  /\ committed' = committed \cup {[call |-> r, what |-> "run", by |-> Nil]}
  /\ UNCHANGED <<rows, requests>>

\* A tool call runs the pipeline before it answers that it has started it; a
\* run that fails on its way keeps what it has committed.
RunPipeline(r) == At(r, "run_pipeline") /\ Input(r).via = "mcp" /\ Writes(r, "run", rows)

-----------------------------------------------------------------------------
GatewayNext ==
  \E r \in Callers :
    \/ Receive(r) \/ Fail(r) \/ Lose(r)
    \/ HandleReview(r) \/ HandleExecute(r) \/ ExecuteForReal(r)
    \/ HandleDecisionJSON(r) \/ HandleProposeAction(r)
    \/ HandleCancel(r) \/ CancelEvent(r) \/ HandleDispatch(r) \/ HandleBatchDispatch(r)
    \/ DispatchEach(r) \/ DispatchEvent(r)
    \/ CreateCase(r) \/ InsertCase(r) \/ BuildContext(r) \/ Read(r) \/ SaveDecision(r) \/ MarkDecided(r)
    \/ GenerateProposals(r) \/ HandleResolveCase(r)
    \/ CreateSandbox(r) \/ AddProposalToSandbox(r) \/ CompareSandbox(r)
    \/ StartPipeline(r) \/ RunInBackground(r) \/ RunPipeline(r)

GatewaySpec == GatewayInit /\ [][GatewayNext]_gatewayVars

-----------------------------------------------------------------------------
Of(r) == {e \in committed : e.call = r}

\* What a caller may conclude from an answer, whatever other callers of either
\* front end do in between and whichever transactions fail, or are kept while
\* their reply is lost: a success names a row that was written, with the actor
\* of its front end; a refusal, a preview, or an execution that was not asked
\* to be a live one has left nothing; only an error can hide a write, that of a
\* lost reply or of an earlier step.  Of the reviews of one proposal one is
\* kept, and a proposal that was rejected is never executed.
AnswersFollowEffects ==
  /\ \A r \in Callers :
       LET answer == requests[r].answer
       IN /\ answer \in Clean => Of(r) = {}
          /\ answer \in Unknown =>
               \A e \in Of(r) : \/ e.what \in {"decision", "decided", "llm_decision", "undelivered"}
                                \/ requests[r].hidden
          /\ (requests[r].pc # "idle" /\ Input(r).op = "execute" /\ Input(r).dryRun # FALSE)
               => Of(r) = {}
          /\ answer \notin Clean \cup Unknown \cup {Nil, "started"} =>
               [call |-> r, what |-> answer, by |-> Actor(Input(r))] \in committed
  /\ \A d, e \in {x \in committed : x.what \in Reviews} : d = e
  /\ \A d, e \in committed : d.what \in {"reject", "cancel_proposal"}
                             => e.what \notin {"applied", "failed"}

==============================================================================
