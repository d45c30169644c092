--------------------------- MODULE DeliveryProofs ---------------------------
(***************************************************************************)
(* Proofs about Delivery: Proposal and Outbox behave in it as they do on   *)
(* their own, so what is proved of them holds there, and an approval       *)
(* bounds what the external systems do.                                    *)
(***************************************************************************)
EXTENDS Delivery, OutboxProofs, ProposalProofs

-----------------------------------------------------------------------------
(* The parts.                                                              *)

LEMMA DeliveryMaps ==
  [DeliveryNext]_deliveryVars => [ProposalNext]_proposalVars /\ [OutboxNext]_outboxVars
<1> SUFFICES ASSUME [DeliveryNext]_deliveryVars
             PROVE  [ProposalNext]_proposalVars /\ [OutboxNext]_outboxVars
  OBVIOUS
<1>1. ASSUME NEW x \in Appliers, AdapterExecutes(x)
      PROVE  ProposalNext /\ UNCHANGED outboxVars
  <2>1. ApplyExecutes(x) \/ ApplyExecuteTimesOut(x) \/ ApplyExecuteFails(x)
    BY <1>1 DEF AdapterExecutes
  <2>2. UNCHANGED outboxVars
    BY <1>1 DEF AdapterExecutes, outboxVars
  <2> QED BY <2>1, <2>2 DEF ProposalNext, ApplyProceeds
<1>2. ASSUME NEW x \in Appliers, ApplyCommits(x)
      PROVE  ProposalNext /\ (OutboxNext \/ UNCHANGED outboxVars)
  <2>1. ApplyCommit(x)
    BY <1>2 DEF ApplyCommits
  <2>2. (\E e \in Events : CreateEvent(e)) \/ UNCHANGED outboxVars
    BY <1>2 DEF ApplyCommits, outboxVars
  <2> QED BY <2>1, <2>2 DEF ProposalNext, ApplyProceeds, OutboxNext
<1>3. ASSUME NEW w \in Workers, NEW e \in Events, WorkerExecutes(w, e)
      PROVE  OutboxNext /\ UNCHANGED proposalVars
  <2>1. ExecuteDelivers(w, e) \/ ExecuteTimesOut(w, e) \/ ExecuteFails(w, e)
    BY <1>3 DEF WorkerExecutes
  <2>2. UNCHANGED proposalVars
    BY <1>3 DEF WorkerExecutes, proposalVars
  <2> QED BY <2>1, <2>2 DEF OutboxNext, WorkerStep, WorkerFault
<1>4. ASSUME ProposalStep
      PROVE  ProposalNext /\ UNCHANGED outboxVars
  <2>1. UNCHANGED outboxVars
    BY <1>4 DEF ProposalStep, outboxVars
  <2> QED BY <1>4, <2>1 DEF ProposalStep, ProposalNext, ApplyProceeds
<1>5. ASSUME EventStep
      PROVE  OutboxNext /\ UNCHANGED proposalVars
  <2>1. UNCHANGED proposalVars
    BY <1>5 DEF EventStep, proposalVars
  <2> QED BY <1>5, <2>1 DEF EventStep, OutboxNext, WorkerStep, WorkerFault
<1>6. CASE UNCHANGED deliveryVars
  BY <1>6 DEF deliveryVars
<1> QED BY <1>1, <1>2, <1>3, <1>4, <1>5, <1>6 DEF DeliveryNext

\* One database: the apply service and the worker, with adapters and with the
\* events that executions leave, do nothing to proposals and to events that
\* Proposal and Outbox do not describe.
THEOREM PartsBehave == DeliverySpec => ProposalSpec /\ OutboxSpec
<1>1. DeliveryInit => ProposalInit /\ OutboxInit
  BY DEF DeliveryInit
<1> QED BY <1>1, DeliveryMaps, PTL DEF DeliverySpec, ProposalSpec, OutboxSpec

-----------------------------------------------------------------------------
(* Occasions.                                                              *)

LEMMA OccasionsAre ==
  ASSUME NEW S, NEW f
  PROVE  \A o : o \in Occasions(S, f) <=> \E e \in S : \E n \in 1 .. f[e] : o = <<e, n>>
<1>1. \A e, o : o \in {e} \X (1 .. f[e]) <=> \E n \in 1 .. f[e] : o = <<e, n>>
  OBVIOUS
<1> QED BY <1>1 DEF Occasions

\* Finitely many events with finite counts have finitely many occasions.
LEMMA OccasionsFinite ==
  ASSUME NEW S, IsFiniteSet(S), NEW f, \A e \in S : f[e] \in Nat
  PROVE  IsFiniteSet(Occasions(S, f)) /\ Cardinality(Occasions(S, f)) \in Nat
<1> DEFINE g == [e \in S |-> {e} \X (1 .. f[e])]
           T == {{e} \X (1 .. f[e]) : e \in S}
<1>1. \A e \in S : g[e] = {e} \X (1 .. f[e])
  OBVIOUS
<1>2. g \in [S -> T]
  OBVIOUS
<1>3. \A t \in T : \E e \in S : g[e] = t
  BY <1>1
<1>4. g \in Surjection(S, T)
  BY <1>2, <1>3 DEF Surjection
<1>5. IsFiniteSet(T)
  BY <1>4, FS_Surjection
<1>6. ASSUME NEW e \in S
      PROVE  IsFiniteSet({e} \X (1 .. f[e]))
  <2>1. IsFiniteSet({e})
    BY FS_Singleton
  <2>2. PICK n \in Nat : n = f[e]
    BY <1>6
  <2>3. 1 \in Int /\ n \in Int
    OBVIOUS
  <2>4. IsFiniteSet(1 .. n)
    BY <2>3, FS_Interval
  <2> QED BY <2>1, <2>2, <2>4, FS_Product
<1>7. \A t \in T : IsFiniteSet(t)
  BY <1>6
<1>8. IsFiniteSet(UNION T)
  BY <1>5, <1>7, FS_UNION
<1> QED BY <1>8, FS_CardinalityType DEF Occasions

\* To count an event once more adds one occasion.
LEMMA OccasionAdded ==
  ASSUME NEW S, IsFiniteSet(S), NEW f, NEW g, NEW e \in S,
         \A d \in S : f[d] \in Nat /\ g[d] = IF d = e THEN f[d] + 1 ELSE f[d]
  PROVE  Cardinality(Occasions(S, g)) = Cardinality(Occasions(S, f)) + 1
<1>1. \A n : n \in 1 .. g[e] <=> n \in 1 .. f[e] \/ n = f[e] + 1
  OBVIOUS
<1>2. Occasions(S, g) = Occasions(S, f) \cup {<<e, f[e] + 1>>}
  <2>1. ASSUME NEW o \in Occasions(S, g)
        PROVE  o \in Occasions(S, f) \cup {<<e, f[e] + 1>>}
    <3>1. PICK d \in S : \E n \in 1 .. g[d] : o = <<d, n>>
      BY <2>1, OccasionsAre
    <3>2. CASE d = e
      BY <3>1, <3>2, <1>1, OccasionsAre
    <3>3. CASE d # e
      BY <3>1, <3>3, OccasionsAre
    <3> QED BY <3>2, <3>3
  <2>2. ASSUME NEW o \in Occasions(S, f)
        PROVE  o \in Occasions(S, g)
    <3>1. PICK d \in S : \E n \in 1 .. f[d] : o = <<d, n>>
      BY <2>2, OccasionsAre
    <3>2. 1 .. f[d] \subseteq 1 .. g[d]
      OBVIOUS
    <3> QED BY <3>1, <3>2, OccasionsAre
  <2>3. <<e, f[e] + 1>> \in Occasions(S, g)
    BY <1>1, OccasionsAre
  <2> QED BY <2>1, <2>2, <2>3
<1>3. <<e, f[e] + 1>> \notin Occasions(S, f)
  <2> SUFFICES ASSUME <<e, f[e] + 1>> \in Occasions(S, f) PROVE FALSE
    OBVIOUS
  <2>1. PICK d \in S : \E n \in 1 .. f[d] : <<e, f[e] + 1>> = <<d, n>>
    BY OccasionsAre
  <2>2. d = e /\ f[e] + 1 \in 1 .. f[e]
    BY <2>1
  <2> QED BY <2>2
<1>4. IsFiniteSet(Occasions(S, f)) /\ Cardinality(Occasions(S, f)) \in Nat
  BY OccasionsFinite
<1> QED BY <1>2, <1>3, <1>4, FS_AddElement

\* Counts that differ by one at most.
LEMMA OccasionsCompare ==
  ASSUME NEW S, IsFiniteSet(S), NEW f, NEW g,
         \A e \in S : f[e] \in Nat /\ g[e] \in Nat /\ f[e] <= 1 + g[e]
  PROVE  Cardinality(Occasions(S, f)) <= Cardinality(S) + Cardinality(Occasions(S, g))
<1> DEFINE last == [e \in S |-> <<e, 1 + g[e]>>]
           T == {<<e, 1 + g[e]>> : e \in S}
<1>1. last \in Surjection(S, T)
  BY DEF Surjection
<1>2. IsFiniteSet(T) /\ Cardinality(T) <= Cardinality(S)
  BY <1>1, FS_Surjection
<1>3. Occasions(S, f) \subseteq T \cup Occasions(S, g)
  <2>1. ASSUME NEW o \in Occasions(S, f)
        PROVE  o \in T \cup Occasions(S, g)
    <3>1. PICK e \in S : \E n \in 1 .. f[e] : o = <<e, n>>
      BY <2>1, OccasionsAre
    <3>2. PICK n \in 1 .. f[e] : o = <<e, n>>
      BY <3>1
    <3>3. n = 1 + g[e] \/ n \in 1 .. g[e]
      OBVIOUS
    <3> QED BY <3>2, <3>3, OccasionsAre
  <2> QED BY <2>1
<1>4. IsFiniteSet(Occasions(S, g)) /\ Cardinality(Occasions(S, g)) \in Nat
  BY OccasionsFinite
<1>5. Cardinality(S) \in Nat /\ Cardinality(T) \in Nat
  BY <1>2, FS_CardinalityType
<1> HIDE DEF T
<1>6. /\ IsFiniteSet(T \cup Occasions(S, g))
      /\ Cardinality(T \cup Occasions(S, g)) <= Cardinality(T) + Cardinality(Occasions(S, g))
  <2>1. Cardinality(T \cap Occasions(S, g)) \in Nat
    BY <1>2, FS_Subset, FS_CardinalityType
  <2>2. /\ IsFiniteSet(T \cup Occasions(S, g))
        /\ Cardinality(T \cup Occasions(S, g))
             = Cardinality(T) + Cardinality(Occasions(S, g)) - Cardinality(T \cap Occasions(S, g))
    BY <1>2, <1>4, FS_Union
  <2> QED BY <2>1, <2>2, <1>4, <1>5
<1>7. Cardinality(Occasions(S, f)) <= Cardinality(T \cup Occasions(S, g))
  BY <1>3, <1>6, FS_Subset
<1>8. Cardinality(Occasions(S, f)) \in Nat /\ Cardinality(T \cup Occasions(S, g)) \in Nat
  BY <1>6, OccasionsFinite, FS_CardinalityType
<1> QED BY <1>2, <1>4, <1>5, <1>6, <1>7, <1>8

\* Each event that counts at all has an occasion of its own.
LEMMA OccasionsCover ==
  ASSUME NEW S, IsFiniteSet(S), NEW f, \A e \in S : f[e] \in Nat,
         NEW T \in SUBSET S, \A e \in T : f[e] >= 1
  PROVE  Cardinality(T) <= Cardinality(Occasions(S, f))
<1> DEFINE first == [e \in T |-> <<e, 1>>]
<1>1. \A e \in T : first[e] \in Occasions(S, f)
  BY OccasionsAre
<1>2. first \in [T -> Occasions(S, f)]
  BY <1>1
<1>3. \A d, e \in T : first[d] = first[e] => d = e
  OBVIOUS
<1>4. first \in Injection(T, Occasions(S, f))
  BY <1>2, <1>3 DEF Injection, IsInjective
<1> QED BY <1>4, OccasionsFinite, FS_Injection

-----------------------------------------------------------------------------
(* The acts.                                                               *)

\* A row exists once an execution has left it, and nothing happens to it before.
OriginOK ==
  /\ origin \in [Events -> Proposals \cup {Nil}]
  /\ \A e \in Events :
       IF eventStatus[e] = "absent" THEN origin[e] = Nil /\ delivered[e] = 0
       ELSE origin[e] \in Proposals
  /\ \A w \in Workers : \A e \in batch[w] : eventStatus[e] # "absent"

\* Every event of p has its commit; each act is one that the apply service or
\* the worker counts, and on GitHub each that they count is an act.
ActsExplained(p) ==
  /\ IsFiniteSet(EventsOf(p)) /\ Cardinality(EventsOf(p)) <= recorded[p]
  /\ acts[p] <= effects[p] + Cardinality(Occasions(EventsOf(p), delivered))
  /\ Channel(p) = "github" =>
       acts[p] >= effects[p] + Cardinality(Occasions(EventsOf(p), delivered))
  /\ acts[p] > 0 => Ready(Channel(p))

\* The inductive invariant, with the type invariants of Proposal and Outbox.
ActsInv ==
  /\ wiring \in Wirings
  /\ acts \in [Proposals -> Nat]
  /\ OriginOK
  /\ \A p \in Proposals : ActsExplained(p)

\* A proposal has a channel with an adapter.
LEMMA ChannelType ==
  ASSUME wiring \in Wirings, NEW p \in Proposals
  PROVE  Channel(p) \in {"feishu", "github"}
<1>1. wiring.type \in [Proposals -> DeliveryActions]
  BY DeliveryAssumption DEF DeliveryAssumption
<1>2. wiring.type[p] \in DeliveryActions
  BY <1>1
<1> QED BY <1>2 DEF Channel, ActionChannel, DeliveryActions

\* Only a configured adapter acts, and GitHub reports nothing that is not there.
LEMMA ReplyType ==
  ASSUME NEW channel \in {"feishu", "github"}, NEW reply \in Execute(channel)
  PROVE  /\ reply.acted \in BOOLEAN /\ reply.success \in BOOLEAN
         /\ reply.acted => Ready(channel)
         /\ channel = "github" /\ reply.success => reply.acted
<1>1. CASE ~ Ready(channel)
  <2>1. reply = [acted |-> FALSE, success |-> FALSE]
    BY <1>1 DEF Execute
  <2>2. reply.acted = FALSE /\ reply.success = FALSE
    BY <2>1
  <2> QED BY <2>2
<1>2. CASE Ready(channel) /\ channel = "feishu"
  BY <1>2 DEF Execute, SendMessage
<1>3. CASE Ready(channel) /\ channel = "github"
  <2>1. reply \in CreateIssue
    BY <1>3 DEF Execute
  <2>2. reply = [acted |-> reply.acted, success |-> reply.success]
    BY <2>1 DEF CreateIssue
  <2> QED BY <1>3, <2>1, <2>2 DEF CreateIssue
<1> QED BY <1>1, <1>2, <1>3 DEF Ready

\* The counts of p move together.
LEMMA ActsCount ==
  ASSUME NEW p \in Proposals, ActsExplained(p), wiring' = wiring,
         NEW a \in {0, 1}, NEW c \in {0, 1}, NEW d \in {0, 1},
         acts[p] \in Nat, effects[p] \in Nat,
         acts'[p] = acts[p] + a, effects'[p] = effects[p] + c,
         Cardinality(Occasions(EventsOf(p), delivered)) \in Nat,
         Cardinality(Occasions(EventsOf(p), delivered)')
           = Cardinality(Occasions(EventsOf(p), delivered)) + d,
         a <= c + d, Channel(p) = "github" => a = c + d, a = 1 => Ready(Channel(p)),
         IsFiniteSet(EventsOf(p)'), Cardinality(EventsOf(p)') <= recorded'[p]
  PROVE  ActsExplained(p)'
<1>1. Channel(p)' = Channel(p) /\ Ready(Channel(p))' = Ready(Channel(p))
  BY DEF Channel, Ready
<1>2. PICK n \in Nat : n = Cardinality(Occasions(EventsOf(p), delivered))
  OBVIOUS
<1>3. Cardinality(Occasions(EventsOf(p), delivered)') = n + d
  BY <1>2
<1>4. /\ acts[p] <= effects[p] + n
      /\ Channel(p) = "github" => acts[p] >= effects[p] + n
      /\ acts[p] > 0 => Ready(Channel(p))
  BY <1>2 DEF ActsExplained
<1>5. acts'[p] <= effects'[p] + (n + d)
  BY <1>4
<1>6. Channel(p) = "github" => acts'[p] >= effects'[p] + (n + d)
  BY <1>4
<1>7. acts'[p] > 0 => Ready(Channel(p))
  BY <1>4
<1> QED BY <1>1, <1>3, <1>5, <1>6, <1>7 DEF ActsExplained

\* The events of p are known to the outbox, with what they count.
LEMMA EventsType ==
  ASSUME OutboxTypeOK, NEW p \in Proposals, ActsExplained(p)
  PROVE  /\ IsFiniteSet(EventsOf(p)) /\ Cardinality(EventsOf(p)) \in Nat
         /\ \A e \in EventsOf(p) : delivered[e] \in Nat /\ eventLost[e] \in Nat
         /\ Cardinality(Occasions(EventsOf(p), delivered)) \in Nat
<1>1. IsFiniteSet(EventsOf(p)) /\ Cardinality(EventsOf(p)) \in Nat
  BY FS_CardinalityType DEF ActsExplained
<1>2. \A e \in EventsOf(p) : delivered[e] \in Nat /\ eventLost[e] \in Nat
  BY DEF EventsOf, OutboxTypeOK, HistoryTypeOK
<1> QED BY <1>1, <1>2, OccasionsFinite

\* Steps that count nothing.
LEMMA ActsStay ==
  ASSUME OutboxTypeOK, ProposalTypeOK, ActsInv, UNCHANGED <<wiring, origin, acts, delivered, effects>>,
         \A p \in Proposals : recorded'[p] = recorded[p],
         NEW p \in Proposals
  PROVE  ActsExplained(p)'
<1>1. EventsOf(p)' = EventsOf(p)
  BY DEF EventsOf
<1>2. Occasions(EventsOf(p), delivered)' = Occasions(EventsOf(p), delivered)
  BY <1>1 DEF Occasions
<1>3. ActsExplained(p)
  BY DEF ActsInv
<1>4. Channel(p)' = Channel(p) /\ Ready(Channel(p))' = Ready(Channel(p))
  BY DEF Channel, Ready
<1> QED BY <1>1, <1>2, <1>3, <1>4 DEF ActsExplained

\* The apply service calls the adapter: an act that it counts.
LEMMA ActsOfApply ==
  ASSUME OutboxTypeOK, ProposalTypeOK, ActsInv, NEW x \in Appliers, AdapterExecutes(x),
         NEW p \in Proposals
  PROVE  ActsExplained(p)'
<1> DEFINE q == apply[x].p
<1>1. apply[x] # Idle
  BY StepsDiffer DEF AdapterExecutes
<1>2. q \in Proposals
  BY <1>1, CallsAreRecords
<1>3. PICK reply \in Execute(Channel(q)) :
        /\ Acts(q, reply)
        /\ IF reply.success THEN ApplyExecutes(x)
           ELSE IF reply.acted THEN ApplyExecuteTimesOut(x) ELSE ApplyExecuteFails(x)
  BY DEF AdapterExecutes
<1>4. Channel(q) \in {"feishu", "github"}
  BY <1>2, ChannelType DEF ActsInv
<1>5. /\ reply.acted \in BOOLEAN /\ reply.success \in BOOLEAN
      /\ reply.acted => Ready(Channel(q))
      /\ Channel(q) = "github" /\ reply.success => reply.acted
  BY <1>4, ReplyType
<1>6. UNCHANGED <<wiring, origin, delivered>>
  BY DEF AdapterExecutes, outboxVars, eventHistory
<1>7. recorded' = recorded
  BY <1>3 DEF ApplyExecutes, ApplyExecuteTimesOut, ApplyExecuteFails, Executed, tableVars
<1>8. effects' = IF reply.success \/ reply.acted THEN [effects EXCEPT ![q] = @ + 1] ELSE effects
  BY <1>3, <1>5 DEF ApplyExecutes, ApplyExecuteTimesOut, ApplyExecuteFails, proposalHistory
<1>9. acts' = [acts EXCEPT ![q] = IF reply.acted THEN @ + 1 ELSE @]
  BY <1>3 DEF Acts
<1>10. EventsOf(p)' = EventsOf(p) /\ Occasions(EventsOf(p), delivered)' = Occasions(EventsOf(p), delivered)
  BY <1>6 DEF EventsOf, Occasions
<1>11. ActsExplained(p) /\ acts \in [Proposals -> Nat] /\ effects \in [Proposals -> Nat]
  BY DEF ActsInv, ProposalTypeOK
<1>12. PICK a \in {0, 1}, c \in {0, 1} :
         /\ a = IF p = q /\ reply.acted THEN 1 ELSE 0
         /\ c = IF p = q /\ (reply.success \/ reply.acted) THEN 1 ELSE 0
  OBVIOUS
<1>13. acts'[p] = acts[p] + a /\ effects'[p] = effects[p] + c
  BY <1>8, <1>9, <1>11, <1>12
<1>14. a <= c + 0 /\ (Channel(p) = "github" => a = c + 0) /\ (a = 1 => Ready(Channel(p)))
  BY <1>5, <1>12
<1>15. /\ Cardinality(Occasions(EventsOf(p), delivered)) \in Nat
       /\ IsFiniteSet(EventsOf(p)') /\ Cardinality(EventsOf(p)') <= recorded'[p]
  BY <1>7, <1>10, <1>11, EventsType DEF ActsExplained
<1>16. Cardinality(Occasions(EventsOf(p), delivered)')
         = Cardinality(Occasions(EventsOf(p), delivered)) + 0
  BY <1>10, <1>15
<1> HIDE DEF q
<1>17. wiring' = wiring /\ acts[p] \in Nat /\ effects[p] \in Nat /\ 0 \in {0, 1}
  BY <1>6, <1>11
<1> QED BY <1>11, <1>13, <1>14, <1>15, <1>16, <1>17, ActsCount

\* The worker calls it: an act that its event counts.
LEMMA ActsOfWorker ==
  ASSUME OutboxTypeOK, ProposalTypeOK, ActsInv, NEW w \in Workers, NEW e \in Events,
         WorkerExecutes(w, e), NEW p \in Proposals
  PROVE  ActsExplained(p)'
<1> DEFINE q == origin[e]
<1>1. e \in batch[w]
  BY DEF WorkerExecutes, CanExecute, HasExecutor, Dispatching, IsNext
<1>2. q \in Proposals
  BY <1>1 DEF ActsInv, OriginOK
<1>3. PICK reply \in Execute(Channel(q)) :
        /\ Acts(q, reply)
        /\ IF reply.success THEN ExecuteDelivers(w, e)
           ELSE IF reply.acted THEN ExecuteTimesOut(w, e) ELSE ExecuteFails(w, e)
  BY DEF WorkerExecutes
<1>4. Channel(q) \in {"feishu", "github"}
  BY <1>2, ChannelType DEF ActsInv
<1>5. /\ reply.acted \in BOOLEAN /\ reply.success \in BOOLEAN
      /\ reply.acted => Ready(Channel(q))
      /\ Channel(q) = "github" /\ reply.success => reply.acted
  BY <1>4, ReplyType
<1>6. UNCHANGED <<wiring, origin, recorded, effects>>
  BY DEF WorkerExecutes, proposalVars, tableVars, proposalHistory
<1>7. delivered' = IF reply.success \/ reply.acted THEN [delivered EXCEPT ![e] = @ + 1] ELSE delivered
  BY <1>3, <1>5 DEF ExecuteDelivers, ExecuteTimesOut, ExecuteFails, eventHistory
<1>8. acts' = [acts EXCEPT ![q] = IF reply.acted THEN @ + 1 ELSE @]
  BY <1>3 DEF Acts
<1>9. EventsOf(p)' = EventsOf(p)
  BY <1>6 DEF EventsOf
<1>10. ActsExplained(p) /\ acts \in [Proposals -> Nat] /\ effects \in [Proposals -> Nat]
  BY DEF ActsInv, ProposalTypeOK
<1>11. PICK a \in {0, 1}, d \in {0, 1} :
         /\ a = IF p = q /\ reply.acted THEN 1 ELSE 0
         /\ d = IF p = q /\ (reply.success \/ reply.acted) THEN 1 ELSE 0
  OBVIOUS
<1>12. acts'[p] = acts[p] + a /\ effects'[p] = effects[p] + 0
  BY <1>6, <1>8, <1>10, <1>11
<1>13. a <= 0 + d /\ (Channel(p) = "github" => a = 0 + d) /\ (a = 1 => Ready(Channel(p)))
  BY <1>5, <1>11
<1>14. /\ Cardinality(Occasions(EventsOf(p), delivered)) \in Nat /\ IsFiniteSet(EventsOf(p))
       /\ \A f \in EventsOf(p) : delivered[f] \in Nat
  BY <1>10, EventsType
<1>15. IsFiniteSet(EventsOf(p)') /\ Cardinality(EventsOf(p)') <= recorded'[p]
  BY <1>6, <1>9, <1>10 DEF ActsExplained
<1>16. Occasions(EventsOf(p), delivered)' = Occasions(EventsOf(p), delivered')
  BY <1>9 DEF Occasions
<1>17. Cardinality(Occasions(EventsOf(p), delivered'))
         = Cardinality(Occasions(EventsOf(p), delivered)) + d
  <2>1. delivered \in [Events -> Nat]
    BY DEF OutboxTypeOK, HistoryTypeOK
  <2>2. CASE d = 1
    <3>1. e \in EventsOf(p)
      BY <1>11, <2>2 DEF EventsOf
    <3>2. \A f \in EventsOf(p) :
            delivered'[f] = IF f = e THEN delivered[f] + 1 ELSE delivered[f]
      BY <1>7, <1>11, <2>1, <2>2 DEF EventsOf
    <3> QED BY <1>14, <2>2, <3>1, <3>2, OccasionAdded
  <2>3. CASE d = 0
    <3>1. \A f \in EventsOf(p) : delivered'[f] = delivered[f]
      BY <1>7, <1>11, <2>1, <2>3 DEF EventsOf
    <3>2. Occasions(EventsOf(p), delivered') = Occasions(EventsOf(p), delivered)
      BY <3>1 DEF Occasions
    <3> QED BY <1>14, <2>3, <3>2
  <2> QED BY <2>2, <2>3
<1> HIDE DEF q
<1>18. wiring' = wiring /\ acts[p] \in Nat /\ effects[p] \in Nat /\ 0 \in {0, 1}
  BY <1>6, <1>10
<1> QED BY <1>10, <1>12, <1>13, <1>14, <1>15, <1>16, <1>17, <1>18, ActsCount

\* The commit leaves an event, or finds one with the same id.
LEMMA ActsOfCommit ==
  ASSUME OutboxTypeOK, ProposalTypeOK, ActsInv, NEW x \in Appliers, ApplyCommits(x),
         NEW p \in Proposals
  PROVE  ActsExplained(p)'
<1> DEFINE q == apply[x].p
<1>1. apply[x] # Idle
  BY StepsDiffer DEF ApplyCommits, ApplyCommit
<1>2. q \in Proposals
  BY <1>1, CallsAreRecords
<1>3. recorded' = [recorded EXCEPT ![q] = @ + 1] /\ effects' = effects
  BY DEF ApplyCommits, ApplyCommit, proposalHistory
<1>4. UNCHANGED <<wiring, acts, delivered>>
  BY DEF ApplyCommits, CreateEvent, outboxVars, eventHistory
<1>5. /\ ActsExplained(p) /\ acts \in [Proposals -> Nat] /\ effects \in [Proposals -> Nat]
      /\ recorded \in [Proposals -> Nat]
  BY DEF ActsInv, ProposalTypeOK
<1>6. /\ Cardinality(Occasions(EventsOf(p), delivered)) \in Nat
      /\ IsFiniteSet(EventsOf(p)) /\ Cardinality(EventsOf(p)) \in Nat
      /\ Cardinality(EventsOf(p)) <= recorded[p]
  BY <1>5, EventsType DEF ActsExplained
<1>7. recorded'[p] = IF p = q THEN recorded[p] + 1 ELSE recorded[p]
  BY <1>3, <1>5
<1>8. ASSUME EventsOf(p)' = EventsOf(p)
      PROVE  ActsExplained(p)'
  <2>1. Occasions(EventsOf(p), delivered)' = Occasions(EventsOf(p), delivered)
    BY <1>4, <1>8 DEF Occasions
  <2>2. Cardinality(EventsOf(p)') <= recorded'[p]
    BY <1>5, <1>6, <1>7, <1>8
  <2>3. Channel(p)' = Channel(p) /\ Ready(Channel(p))' = Ready(Channel(p))
    BY <1>4 DEF Channel, Ready
  <2> QED BY <1>3, <1>4, <1>5, <1>8, <2>1, <2>2, <2>3 DEF ActsExplained
<1>9. CASE UNCHANGED origin
  BY <1>8, <1>9 DEF EventsOf
<1>10. ASSUME NEW e \in Events, CreateEvent(e), origin' = [origin EXCEPT ![e] = q]
       PROVE  ActsExplained(p)'
  <2>1. origin[e] = Nil /\ delivered[e] = 0
    BY <1>10 DEF CreateEvent, ActsInv, OriginOK
  <2>2. \A f \in Events : origin'[f] = IF f = e THEN q ELSE origin[f]
    BY <1>10 DEF ActsInv, OriginOK
  <2>3. CASE p # q
    <3>1. Nil # p
      BY DeliveryAssumption DEF DeliveryAssumption
    <3>2. EventsOf(p)' = EventsOf(p)
      BY <2>1, <2>2, <2>3, <3>1 DEF EventsOf
    <3> QED BY <3>2, <1>8
  <2>4. CASE p = q
    <3>1. EventsOf(p)' = EventsOf(p) \cup {e}
      BY <2>2, <2>4 DEF EventsOf
    <3>2. /\ IsFiniteSet(EventsOf(p) \cup {e})
          /\ \/ Cardinality(EventsOf(p) \cup {e}) = Cardinality(EventsOf(p))
             \/ Cardinality(EventsOf(p) \cup {e}) = Cardinality(EventsOf(p)) + 1
      BY <1>6, FS_AddElement, Zenon
    <3>3. PICK n \in Nat : n = Cardinality(EventsOf(p))
      BY <1>6
    <3>4. Cardinality(EventsOf(p)') <= recorded'[p]
      BY <1>5, <1>6, <1>7, <2>4, <3>1, <3>2, <3>3
    <3>5. Occasions(EventsOf(p), delivered)' = Occasions(EventsOf(p), delivered)
      <4>1. {e} \X (1 .. delivered[e]) = {}
        BY <2>1
      <4>2. Occasions(EventsOf(p) \cup {e}, delivered)
              = Occasions(EventsOf(p), delivered) \cup ({e} \X (1 .. delivered[e]))
        BY DEF Occasions
      <4>3. Occasions(EventsOf(p), delivered)' = Occasions(EventsOf(p) \cup {e}, delivered)
        BY <1>4, <3>1 DEF Occasions
      <4> QED BY <4>1, <4>2, <4>3
    <3>6. Channel(p)' = Channel(p) /\ Ready(Channel(p))' = Ready(Channel(p))
      BY <1>4 DEF Channel, Ready
    <3> QED BY <1>3, <1>4, <1>5, <3>1, <3>2, <3>4, <3>5, <3>6 DEF ActsExplained
  <2> QED BY <2>3, <2>4
<1>11. \/ UNCHANGED origin
       \/ \E e \in Events : CreateEvent(e) /\ origin' = [origin EXCEPT ![e] = q]
  BY DEF ApplyCommits
<1> QED BY <1>9, <1>10, <1>11

\* What the worker does to rows and to its copies: rows stay, and it fetches
\* only those that are there.
LEMMA WorkerKeepsRows ==
  ASSUME OutboxTypeOK, OriginOK,
         \/ EventStep
         \/ \E w \in Workers, e \in Events : WorkerExecutes(w, e)
  PROVE  /\ \A e \in Events : eventStatus'[e] = "absent" <=> eventStatus[e] = "absent"
         /\ \A e \in Events : eventStatus[e] = "absent" => delivered'[e] = delivered[e]
         /\ \A w \in Workers : \A e \in batch'[w] : eventStatus[e] # "absent"
<1>0. /\ eventStatus \in [Events -> EventStatuses] /\ batch \in [Workers -> SUBSET Events]
      /\ delivered \in [Events -> Nat]
      /\ \A w \in Workers : \A e \in batch[w] : eventStatus[e] # "absent"
  BY DEF OutboxTypeOK, RowsTypeOK, WorkersTypeOK, HistoryTypeOK, OriginOK
<1>1. ASSUME NEW w \in Workers, NEW e \in Events, WorkerExecutes(w, e)
      PROVE  /\ UNCHANGED <<eventStatus, batch>> /\ e \in batch[w]
             /\ \A f \in Events \ {e} : delivered'[f] = delivered[f]
  <2>1. e \in batch[w]
    BY <1>1 DEF WorkerExecutes, CanExecute, HasExecutor, Dispatching, IsNext
  <2>2. ExecuteDelivers(w, e) \/ ExecuteTimesOut(w, e) \/ ExecuteFails(w, e)
    BY <1>1 DEF WorkerExecutes
  <2>3. UNCHANGED <<eventStatus, batch>>
    BY <2>2 DEF ExecuteDelivers, ExecuteTimesOut, ExecuteFails, Decide, rowVars
  <2>4. \A f \in Events \ {e} : delivered'[f] = delivered[f]
    BY <1>0, <2>2 DEF ExecuteDelivers, ExecuteTimesOut, ExecuteFails, eventHistory
  <2> QED BY <2>1, <2>3, <2>4
<1>2. ASSUME Tick
      PROVE  UNCHANGED <<eventStatus, delivered, batch>>
  BY <1>2 DEF Tick, workerVars, eventHistory
<1>3. ASSUME NEW w \in Workers, Poll(w)
      PROVE  /\ UNCHANGED <<eventStatus, delivered>>
             /\ \A v \in Workers : \A e \in batch'[v] : eventStatus[e] # "absent"
  <2>1. UNCHANGED <<eventStatus, delivered>>
    BY <1>3 DEF Poll, rowVars, eventHistory
  <2>2. PICK skipped \in SUBSET BeingMarked :
          batch' = [batch EXCEPT ![w] =
            Oldest({e \in Events \ skipped : Eligible(e) /\ ~ Locked(e)}, BatchSize)]
    BY <1>3 DEF Poll
  <2>3. \A e \in batch'[w] : Eligible(e)
    BY <1>0, <2>2 DEF Oldest
  <2>4. \A v \in Workers \ {w} : batch'[v] = batch[v]
    BY <1>0, <2>2
  <2> QED BY <1>0, <2>1, <2>3, <2>4 DEF Eligible, Dispatchable
<1>4. ASSUME NEW w \in Workers, NEW e \in Events, GiveUp(w, e)
      PROVE  UNCHANGED <<eventStatus, delivered, batch>>
  BY <1>4 DEF GiveUp, Decide, rowVars, eventHistory
<1>5. ASSUME NEW w \in Workers, NEW e \in Events,
             MarkDispatched(w, e) \/ MarkFailedWithBackoff(w, e) \/ MarkFailedInPlace(w, e)
      PROVE  /\ delivered' = delivered /\ e \in batch[w]
             /\ \A f \in Events \ {e} : eventStatus'[f] = eventStatus[f]
             /\ eventStatus'[e] # "absent"
             /\ \A v \in Workers : batch'[v] \subseteq batch[v]
  <2>1. /\ delivered' = delivered /\ Marking(w, e) /\ Advance(w, e)
        /\ (\E who : SetDispatched(e, who)) \/ SetFailed(e)
    BY <1>5 DEF MarkDispatched, MarkFailedWithBackoff, MarkFailedInPlace
  <2> QED BY <1>0, <2>1 DEF Marking, IsNext, Advance, SetDispatched, SetFailed
<1>6. ASSUME NEW w \in Workers, NEW e \in Events, MarkLost(w, e) \/ Crash(w, e)
      PROVE  /\ UNCHANGED <<eventStatus, delivered>>
             /\ \A v \in Workers : batch'[v] \subseteq batch[v]
  BY <1>0, <1>6 DEF MarkLost, Crash, Advance, rowVars
<1>7. ASSUME UNCHANGED eventStatus, delivered' = delivered,
             \A v \in Workers : \A e \in batch'[v] : eventStatus[e] # "absent"
      PROVE  /\ \A e \in Events : eventStatus'[e] = "absent" <=> eventStatus[e] = "absent"
             /\ \A e \in Events : eventStatus[e] = "absent" => delivered'[e] = delivered[e]
             /\ \A v \in Workers : \A e \in batch'[v] : eventStatus[e] # "absent"
  BY <1>7
<1>8. CASE \E w \in Workers, e \in Events : WorkerExecutes(w, e)
  BY <1>0, <1>1, <1>8
<1>9. CASE \E w \in Workers, e \in Events :
             MarkDispatched(w, e) \/ MarkFailedWithBackoff(w, e) \/ MarkFailedInPlace(w, e)
  <2>1. PICK w \in Workers, e \in Events :
          MarkDispatched(w, e) \/ MarkFailedWithBackoff(w, e) \/ MarkFailedInPlace(w, e)
    BY <1>9
  <2>2. /\ delivered' = delivered /\ e \in batch[w]
        /\ \A f \in Events \ {e} : eventStatus'[f] = eventStatus[f]
        /\ eventStatus'[e] # "absent"
        /\ \A v \in Workers : batch'[v] \subseteq batch[v]
    BY <2>1, <1>5
  <2>3. eventStatus[e] # "absent"
    BY <1>0, <2>2
  <2> QED BY <1>0, <2>2, <2>3
<1>10. CASE \E w \in Workers : \/ Poll(w) \/ EndSelect(w)
                               \/ \E e \in Events : GiveUp(w, e) \/ MarkLost(w, e) \/ Crash(w, e)
  <2>1. CASE \E w \in Workers : Poll(w)
    BY <1>3, <1>7, <2>1
  <2>2. CASE \E w \in Workers, e \in Events : GiveUp(w, e)
    BY <1>0, <1>4, <1>7, <2>2
  <2>3. CASE \E w \in Workers, e \in Events : MarkLost(w, e) \/ Crash(w, e)
    BY <1>0, <1>6, <1>7, <2>3
  <2>4. CASE \E w \in Workers : EndSelect(w)
    BY <1>0, <1>7, <2>4 DEF EndSelect, rowVars, eventHistory
  <2> QED BY <1>10, <2>1, <2>2, <2>3, <2>4
<1>11. CASE Tick
  BY <1>0, <1>2, <1>7, <1>11
<1>12. CASE EventStep
  BY <1>12, <1>9, <1>10, <1>11 DEF EventStep
<1> QED BY <1>8, <1>12

LEMMA InitActs == DeliveryInit => ActsInv
<1> SUFFICES ASSUME DeliveryInit PROVE ActsInv
  OBVIOUS
<1>1. /\ wiring \in Wirings /\ origin = [e \in Events |-> Nil] /\ acts = [p \in Proposals |-> 0]
      /\ eventStatus = [e \in Events |-> "absent"] /\ delivered = [e \in Events |-> 0]
      /\ batch = [w \in Workers |-> {}]
      /\ recorded = [p \in Proposals |-> 0] /\ effects = [p \in Proposals |-> 0]
  BY DEF DeliveryInit, ProposalInit, OutboxInit
<1>2. OriginOK
  BY <1>1 DEF OriginOK
<1>3. ASSUME NEW p \in Proposals
      PROVE  ActsExplained(p)
  <2>1. EventsOf(p) = {}
    BY <1>1, DeliveryAssumption DEF EventsOf, DeliveryAssumption
  <2>2. Occasions(EventsOf(p), delivered) = {}
    BY <2>1 DEF Occasions
  <2>3. acts[p] = 0 /\ effects[p] = 0 /\ recorded[p] = 0
    BY <1>1
  <2> QED BY <2>1, <2>2, <2>3, FS_EmptySet DEF ActsExplained
<1> QED BY <1>1, <1>2, <1>3 DEF ActsInv

\* The origins: an event gets its own with its row.
LEMMA NextOrigin ==
  OutboxTypeOK /\ ProposalTypeOK /\ ActsInv /\ [DeliveryNext]_deliveryVars => OriginOK'
<1> SUFFICES ASSUME OutboxTypeOK, ProposalTypeOK, ActsInv, [DeliveryNext]_deliveryVars
             PROVE  OriginOK'
  OBVIOUS
<1>0. OriginOK
  BY DEF ActsInv
<1>1. ASSUME UNCHANGED <<origin, eventStatus, delivered, batch>>
      PROVE  OriginOK'
  BY <1>0, <1>1 DEF OriginOK
<1>2. ASSUME NEW x \in Appliers, AdapterExecutes(x)
      PROVE  OriginOK'
  BY <1>1, <1>2 DEF AdapterExecutes, outboxVars, rowVars, workerVars, eventHistory
<1>3. ASSUME NEW x \in Appliers, ApplyCommits(x)
      PROVE  OriginOK'
  <2>1. CASE UNCHANGED <<outboxVars, origin>>
    BY <1>1, <2>1 DEF outboxVars, rowVars, workerVars, eventHistory
  <2>2. ASSUME NEW e \in Events, CreateEvent(e),
               origin' = [origin EXCEPT ![e] = apply[x].p]
        PROVE  OriginOK'
    <3>1. apply[x].p \in Proposals
      BY <1>3, CallsAreRecords, StepsDiffer DEF ApplyCommits, ApplyCommit
    <3>2. UNCHANGED <<delivered, batch>>
      BY <2>2 DEF CreateEvent, workerVars, eventHistory
    <3>3. eventStatus \in [Events -> EventStatuses] /\ batch \in [Workers -> SUBSET Events]
      BY DEF OutboxTypeOK, RowsTypeOK, WorkersTypeOK
    <3>4. \A f \in Events :
            /\ eventStatus'[f] = IF f = e THEN "pending" ELSE eventStatus[f]
            /\ origin'[f] = IF f = e THEN apply[x].p ELSE origin[f]
      BY <1>0, <2>2, <3>3 DEF CreateEvent, OriginOK
    <3>5. origin' \in [Events -> Proposals \cup {Nil}]
      BY <1>0, <2>2, <3>1 DEF OriginOK
    <3>6. \A w \in Workers : \A f \in batch'[w] : eventStatus'[f] # "absent"
      BY <1>0, <3>2, <3>3, <3>4 DEF OriginOK
    <3>7. \A f \in Events :
            IF eventStatus'[f] = "absent" THEN origin'[f] = Nil /\ delivered'[f] = 0
            ELSE origin'[f] \in Proposals
      BY <1>0, <3>1, <3>2, <3>4 DEF OriginOK
    <3> QED BY <3>5, <3>6, <3>7 DEF OriginOK
  <2> QED BY <1>3, <2>1, <2>2 DEF ApplyCommits
<1>4. ASSUME ProposalStep
      PROVE  OriginOK'
  BY <1>1, <1>4 DEF ProposalStep, outboxVars, rowVars, workerVars, eventHistory
<1>5. ASSUME EventStep \/ \E w \in Workers, e \in Events : WorkerExecutes(w, e)
      PROVE  OriginOK'
  <2>1. origin' = origin
    BY <1>5 DEF EventStep, WorkerExecutes
  <2>2. /\ \A e \in Events : eventStatus'[e] = "absent" <=> eventStatus[e] = "absent"
        /\ \A e \in Events : eventStatus[e] = "absent" => delivered'[e] = delivered[e]
        /\ \A w \in Workers : \A e \in batch'[w] : eventStatus[e] # "absent"
    BY <1>0, <1>5, WorkerKeepsRows
  <2>3. batch' \in [Workers -> SUBSET Events]
    <3>1. OutboxTypeOK'
      BY DeliveryMaps, NextTypeOK
    <3> QED BY <3>1 DEF OutboxTypeOK, WorkersTypeOK
  <2> QED BY <1>0, <2>1, <2>2, <2>3 DEF OriginOK
<1>6. CASE UNCHANGED deliveryVars
  BY <1>1, <1>6 DEF deliveryVars, outboxVars, rowVars, workerVars, eventHistory
<1> QED BY <1>2, <1>3, <1>4, <1>5, <1>6 DEF DeliveryNext

LEMMA NextActs ==
  OutboxTypeOK /\ ProposalTypeOK /\ ActsInv /\ [DeliveryNext]_deliveryVars => ActsInv'
<1> SUFFICES ASSUME OutboxTypeOK, ProposalTypeOK, ActsInv, [DeliveryNext]_deliveryVars
             PROVE  ActsInv'
  OBVIOUS
<1>1. OriginOK'
  BY NextOrigin
<1>2. wiring' = wiring
  BY DEF DeliveryNext, AdapterExecutes, ApplyCommits, WorkerExecutes, ProposalStep, EventStep,
     deliveryVars
<1>3. acts' \in [Proposals -> Nat]
  <2>0. acts \in [Proposals -> Nat]
    BY DEF ActsInv
  <2>1. ASSUME NEW q, NEW reply, Acts(q, reply)
        PROVE  acts' \in [Proposals -> Nat]
    <3>1. acts' = [acts EXCEPT ![q] = IF reply.acted THEN acts[q] + 1 ELSE acts[q]]
      BY <2>1 DEF Acts
    <3>2. CASE q \in Proposals
      <4>1. acts[q] \in Nat
        BY <2>0, <3>2
      <4>2. PICK n \in Nat : n = IF reply.acted THEN acts[q] + 1 ELSE acts[q]
        BY <4>1
      <4>3. acts' = [acts EXCEPT ![q] = n]
        BY <3>1, <4>2
      <4> QED BY <2>0, <4>3
    <3>3. CASE q \notin Proposals
      <4>1. acts' = acts
        BY <2>0, <3>1, <3>3
      <4> QED BY <2>0, <4>1
    <3> QED BY <3>2, <3>3
  <2>2. \/ acts' = acts
        \/ \E q, reply : Acts(q, reply)
    BY DEF DeliveryNext, AdapterExecutes, ApplyCommits, WorkerExecutes, ProposalStep, EventStep,
       deliveryVars
  <2> QED BY <2>0, <2>1, <2>2
<1>4. ASSUME NEW p \in Proposals
      PROVE  ActsExplained(p)'
  <2>1. CASE \E x \in Appliers : AdapterExecutes(x)
    BY <2>1, ActsOfApply
  <2>2. CASE \E x \in Appliers : ApplyCommits(x)
    BY <2>2, ActsOfCommit
  <2>3. CASE \E w \in Workers, e \in Events : WorkerExecutes(w, e)
    BY <2>3, ActsOfWorker
  <2>4. CASE ProposalStep
    <3>1. UNCHANGED <<wiring, origin, acts, delivered>>
      BY <2>4 DEF ProposalStep, outboxVars, eventHistory
    <3>2. effects' = effects /\ recorded' = recorded
      BY <2>4 DEF ProposalStep, ProposeAction, ResolveCase, ReviewStarts, ReviewLock, ReviewProceeds,
         ReviewReadCase, ReviewCommit, ReviewAborts, ApplyStarts, ApplyLoad, ApplyBegin,
         ApplyCommitFailure, ApplyAborts, tableVars, proposalHistory
    <3> QED BY <3>1, <3>2, ActsStay
  <2>5. CASE EventStep
    <3>1. UNCHANGED <<wiring, origin, acts, effects, recorded>>
      BY <2>5 DEF EventStep, proposalVars, tableVars, proposalHistory
    <3>2. delivered' = delivered
      BY <2>5 DEF EventStep, Tick, Poll, EndSelect, GiveUp, MarkDispatched, MarkFailedWithBackoff,
         MarkFailedInPlace, MarkLost, Crash, eventHistory
    <3> QED BY <3>1, <3>2, ActsStay
  <2>6. CASE UNCHANGED deliveryVars
    <3>1. UNCHANGED <<wiring, origin, acts, delivered, effects, recorded>>
      BY <2>6 DEF deliveryVars, outboxVars, eventHistory, proposalVars, tableVars, proposalHistory
    <3> QED BY <3>1, ActsStay
  <2> QED BY <2>1, <2>2, <2>3, <2>4, <2>5, <2>6 DEF DeliveryNext
<1> QED BY <1>1, <1>2, <1>3, <1>4 DEF ActsInv

LEMMA ActsAlways == DeliverySpec => []ActsInv
<1>1. DeliveryInit => OutboxTypeOK /\ ProposalTypeOK /\ ActsInv
  BY InitTypeOK, InitType, InitActs DEF DeliveryInit
<1>2. OutboxTypeOK /\ ProposalTypeOK /\ ActsInv /\ [DeliveryNext]_deliveryVars
        => OutboxTypeOK' /\ ProposalTypeOK' /\ ActsInv'
  BY DeliveryMaps, NextTypeOK, NextType, NextActs
<1> QED BY <1>1, <1>2, PTL DEF DeliverySpec

\* One worker: an approval, and nothing else, sets off at most two acts for each
\* execution that was let in and one for each that was lost, and an event on
\* GitHub, once it is reported as dispatched, has two issues behind it.
THEOREM ApprovalIsTheLimit ==
  ASSUME NEW w, Workers = {w}
  PROVE  DeliverySpec => []ApprovalBoundsActs
<1> DEFINE Facts == /\ OutboxTypeOK /\ SoleInv(w)
                    /\ ProposalTypeOK /\ ActsOnlyIfApproved
                    /\ EffectsAreRecorded /\ EffectsAreBounded
                    /\ ActsInv
<1>1. Facts => ApprovalBoundsActs
  <2> SUFFICES ASSUME Facts, NEW p \in Proposals
               PROVE  /\ acts[p] > 0 => reviews[p] = <<"approve">> /\ Ready(Channel(p))
                      /\ acts[p] <= 2 * Cardinality(Appliers) + proposalLost[p]
                                    + Cardinality(Occasions(EventsOf(p), eventLost))
                      /\ Channel(p) = "github" =>
                           acts[p] >= Cardinality(EventsOf(p))
                             + Cardinality({e \in EventsOf(p) : eventStatus[e] = "dispatched"})
    BY DEF ApprovalBoundsActs
  <2> DEFINE D == Cardinality(Occasions(EventsOf(p), delivered))
             L == Cardinality(Occasions(EventsOf(p), eventLost))
             E == Cardinality(EventsOf(p))
             S == {e \in EventsOf(p) : eventStatus[e] = "dispatched"}
             A == Cardinality(Appliers)
  <2>1. /\ ActsExplained(p)
        /\ acts[p] \in Nat /\ effects[p] \in Nat /\ recorded[p] \in Nat /\ proposalLost[p] \in Nat
    BY DEF ActsInv, ProposalTypeOK
  <2>2. /\ IsFiniteSet(EventsOf(p)) /\ E \in Nat /\ D \in Nat
        /\ \A e \in EventsOf(p) : delivered[e] \in Nat /\ eventLost[e] \in Nat
    BY <2>1, EventsType
  <2>3. L \in Nat
    BY <2>2, OccasionsFinite
  <2>4. A \in Nat /\ effects[p] <= A + proposalLost[p]
    BY CallsAreFinite, DeliveryAssumption DEF DeliveryAssumption, EffectsAreBounded
  <2>5. recorded[p] + proposalLost[p] <= effects[p]
    <3>1. Cardinality(InFlight(p)) \in Nat
      BY CallsAreFinite DEF InFlight
    <3>2. effects[p] = recorded[p] + proposalLost[p] + Cardinality(InFlight(p))
      BY DEF EffectsAreRecorded
    <3> QED BY <2>1, <3>1, <3>2
  <2>6. \A e \in EventsOf(p) :
          /\ delivered[e] <= 1 + eventLost[e]
          /\ eventStatus[e] = "dispatched" => delivered[e] >= 1
    BY <2>2 DEF EventsOf, SoleInv, Credited
  <2>7. D <= E + L
    BY <2>2, <2>6, OccasionsCompare
  <2>8. Cardinality(S) <= D
    BY <2>2, <2>6, OccasionsCover
  <2>9. Cardinality(S) \in Nat
    BY <2>2, FS_Subset, FS_CardinalityType
  <2>10. /\ E <= recorded[p] /\ acts[p] <= effects[p] + D
         /\ Channel(p) = "github" => acts[p] >= effects[p] + D
         /\ acts[p] > 0 => Ready(Channel(p))
    BY <2>1 DEF ActsExplained
  <2>11. ASSUME effects[p] = 0
         PROVE  acts[p] = 0
    <3>1. E = 0
      BY <2>1, <2>2, <2>5, <2>10, <2>11
    <3>2. EventsOf(p) = {}
      BY <2>2, <3>1, FS_EmptySet
    <3>3. Occasions(EventsOf(p), delivered) = {}
      BY <3>2 DEF Occasions
    <3>4. D = 0
      BY <3>3, FS_EmptySet
    <3> QED BY <2>1, <2>10, <2>11, <3>4
  <2> HIDE DEF D, L, E, S, A
  <2>12. acts[p] > 0 => reviews[p] = <<"approve">>
    BY <2>1, <2>11 DEF ActsOnlyIfApproved
  <2>13. acts[p] <= 2 * A + proposalLost[p] + L
    BY <2>1, <2>2, <2>3, <2>4, <2>5, <2>7, <2>10
  <2>14. Channel(p) = "github" => acts[p] >= E + Cardinality(S)
    BY <2>1, <2>2, <2>5, <2>8, <2>9, <2>10
  <2> QED BY <2>10, <2>12, <2>13, <2>14 DEF D, L, E, S, A
<1>2. OutboxSpec => [](OutboxTypeOK /\ SoleInv(w))
  BY SoleInvHolds, DeliveryAssumption DEF DeliveryAssumption
<1> QED
  BY <1>1, <1>2, PartsBehave, ActsAlways, ProposalTypeCorrect, ApprovalComesFirst, EffectsRecorded,
     EffectsBounded, PTL

=============================================================================
