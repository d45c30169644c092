------------------------------ MODULE Delivery ------------------------------
(***************************************************************************)
(* What an approval sets off: the apply service executes the proposal      *)
(* through the adapter of its channel and leaves an outbox event with the  *)
(* same content, from which the worker executes it through the same        *)
(* adapter once more.  Proposal and Outbox on one database, with the       *)
(* adapters in place of their external systems.                            *)
(***************************************************************************)
EXTENDS Outbox, Proposal, Integers, Null

CONSTANT Wirings  \* how the executables are configured

DeliveryActions == {"export_report", "notify_owner", "create_outbox_message", "create_followup_task"}

\* What is followed here is a proposal that an ApplyService with executors runs
\* for real, and the worker.  Decide, the outbox API, dry runs and the events
\* that the worker cannot execute are in Proposal and in Outbox.
ASSUME DeliveryAssumption ==
  /\ Whitelisted = Proposals /\ Equipped = Appliers /\ Deciders = {}
  /\ Decodable = Events /\ Routable = Events /\ PreviewFails = {}
  /\ DryRunWorkers = {} /\ Requests = {}
  /\ Wirings \subseteq [type : [Proposals -> DeliveryActions],
                        config : SUBSET {"chat", "app", "token", "repo"}]
  /\ Nil \notin Proposals

VARIABLES
  wiring,  \* [type: the proposals' action types, config: what the adapters got]
  origin,  \* event -> the proposal whose execution left it
  acts     \* history: what external systems really did for a proposal

deliveryVars == <<proposalVars, outboxVars, wiring, origin, acts>>

-----------------------------------------------------------------------------
(* Adapters.                                                               *)

\* The same for the apply service and for its event.
ActionChannel(type) ==
  CASE type \in {"export_report", "notify_owner", "create_outbox_message"} -> "feishu"
    [] type = "create_followup_task" -> "github"
    [] OTHER -> "unknown"

Channel(p) == ActionChannel(wiring.type[p])

\* The executables set the token of GitHub, and none of the others.
Ready(channel) ==
  CASE channel = "feishu" -> {"chat", "app"} \subseteq wiring.config
    [] channel = "github" -> {"token", "repo"} \subseteq wiring.config

\* An issue is reported on a status of 200 or 201 with a JSON body: a refusal,
\* a timeout and an answer that cannot be read are errors, in the latter two
\* cases of an issue that may be there.
CreateIssue == [acted : BOOLEAN, success : BOOLEAN] \ {[acted |-> FALSE, success |-> TRUE]}

\* An answer without a code, whatever its status, counts as a success.
SendMessage == [acted : BOOLEAN, success : BOOLEAN]

\* Execute of an adapter that is no dry run: what it may do and report.
Execute(channel) ==
  IF ~ Ready(channel) THEN {[acted |-> FALSE, success |-> FALSE]}
  ELSE IF channel = "github" THEN CreateIssue ELSE SendMessage

Acts(p, reply) == acts' = [acts EXCEPT ![p] = IF reply.acted THEN @ + 1 ELSE @]

-----------------------------------------------------------------------------
DeliveryInit ==
  /\ ProposalInit /\ OutboxInit
  /\ wiring \in Wirings
  /\ origin = [e \in Events |-> Nil]
  /\ acts = [p \in Proposals |-> 0]

\* The apply service calls the adapter while it holds the row.
AdapterExecutes(x) ==
  /\ apply[x].step = "begun"
  /\ \E reply \in Execute(Channel(apply[x].p)) :
       /\ Acts(apply[x].p, reply)
       /\ IF reply.success THEN ApplyExecutes(x)
          ELSE IF reply.acted THEN ApplyExecuteTimesOut(x) ELSE ApplyExecuteFails(x)
  /\ UNCHANGED <<outboxVars, wiring, origin>>

\* CreateOutboxEventFromProposal and the commit.  The id is a reading of the
\* clock: if an event has it, the INSERT does nothing, and nobody looks.
ApplyCommits(x) ==
  /\ ApplyCommit(x)
  /\ \/ \E e \in Events :
          /\ CreateEvent(e)
          /\ \A f \in Events : eventStatus[f] = "absent" => e <= f
          /\ origin' = [origin EXCEPT ![e] = apply[x].p]
     \/ /\ \E e \in Events : eventStatus[e] # "absent"
        /\ UNCHANGED <<outboxVars, origin>>
  /\ UNCHANGED <<wiring, acts>>

\* What else happens to proposals.
ProposalStep ==
  /\ \/ \E p \in Proposals : ProposeAction(p)
     \/ \E c \in Cases : ResolveCase(c)
     \/ \E r \in Reviewers : ReviewStarts(r) \/ ReviewProceeds(r) \/ ReviewAborts(r)
     \/ \E x \in Appliers : ApplyStarts(x) \/ ApplyBegin(x)
                            \/ ApplyCommitFailure(x) \/ ApplyAborts(x)
  /\ UNCHANGED <<outboxVars, wiring, origin, acts>>

\* The worker calls the adapter on its copy of the event.
WorkerExecutes(w, e) ==
  /\ CanExecute(w, e)
  /\ \E reply \in Execute(Channel(origin[e])) :
       /\ Acts(origin[e], reply)
       /\ IF reply.success THEN ExecuteDelivers(w, e)
          ELSE IF reply.acted THEN ExecuteTimesOut(w, e) ELSE ExecuteFails(w, e)
  /\ UNCHANGED <<proposalVars, wiring, origin>>

\* What else happens to events.
EventStep ==
  /\ \/ Tick
     \/ \E w \in Workers :
          \/ Poll(w) \/ EndSelect(w)
          \/ \E e \in Events :
               \/ GiveUp(w, e) \/ MarkDispatched(w, e) \/ MarkFailedWithBackoff(w, e)
               \/ MarkFailedInPlace(w, e) \/ MarkLost(w, e) \/ Crash(w, e)
  /\ UNCHANGED <<proposalVars, wiring, origin, acts>>

DeliveryNext ==
  \/ \E x \in Appliers : AdapterExecutes(x) \/ ApplyCommits(x)
  \/ \E w \in Workers, e \in Events : WorkerExecutes(w, e)
  \/ ProposalStep \/ EventStep

DeliverySpec == DeliveryInit /\ [][DeliveryNext]_deliveryVars

-----------------------------------------------------------------------------
(* Properties.                                                             *)

EventsOf(p) == {e \in Events : origin[e] = p}

\* What count[e] counts for the events e of S, each time as a pair.
Occasions(S, count) == UNION {{e} \X (1 .. count[e]) : e \in S}

\* One worker: an approval leads to at most two acts of the external system
\* for each execution that was let in, one by the apply service and one by
\* the worker, and to one more for each that was lost with a fault; without an
\* approval, or with an adapter that is not configured, there is none.  On
\* GitHub that is what happens: behind each event there is one issue, behind
\* one that the worker has dispatched there are two.
ApprovalBoundsActs ==
  \A p \in Proposals :
    /\ acts[p] > 0 => reviews[p] = <<"approve">> /\ Ready(Channel(p))
    /\ acts[p] <= 2 * Cardinality(Appliers) + proposalLost[p]
                  + Cardinality(Occasions(EventsOf(p), eventLost))
    /\ Channel(p) = "github" =>
         acts[p] >= Cardinality(EventsOf(p))
           + Cardinality({e \in EventsOf(p) : eventStatus[e] = "dispatched"})

=============================================================================
