----------------------------- MODULE DataProofs -----------------------------
(***************************************************************************)
(* The theorems about the data that comes in, is computed, shown and sent: *)
(* Governance and Contexts, Alerts, and FeishuSync, for any configuration  *)
(* directories, objects, recipes, files, windows, limits, calls and        *)
(* faults.                                                                 *)
(***************************************************************************)
EXTENDS Contexts, Alerts, FeishuSync, FiniteSetTheorems, WellFoundedInduction, TLAPS

-----------------------------------------------------------------------------
(* The first and the last statement for a name.                            *)

LEMMA LeastOf ==
  ASSUME NEW S, S \subseteq Nat, S # {}
  PROVE  \E m \in S : \A x \in S : m <= x
<1>1. PICK m \in S : \A x \in S : ~ (<<x, m>> \in OpToRel(<, Nat))
  BY NatLessThanWellFounded, WFMin
<1>2. \A x \in S : ~ (x < m)
  <2> TAKE x \in S
  <2>1. <<x, m>> \in Nat \X Nat
    OBVIOUS
  <2>2. x < m => <<x, m>> \in OpToRel(<, Nat)
    BY <2>1, Zenon DEF OpToRel
  <2>3. QED
    BY <1>1, <2>2
<1>3. \A x \in S : m <= x
  BY <1>2
<1>4. QED
  BY <1>3

LEMMA GreatestOf ==
  ASSUME NEW S, S # {}, NEW b \in Nat, S \subseteq 0 .. b
  PROVE  \E m \in S : \A x \in S : x <= m
<1> DEFINE back == {b - x : x \in S}
<1>0. \A x \in S : x \in Int /\ 0 <= x /\ x <= b
  OBVIOUS
<1>1. back \subseteq Nat /\ back # {}
  <2>1. \A x \in S : b - x \in Nat
    BY <1>0
  <2>2. QED
    BY <2>1
<1> HIDE DEF back
<1>2. PICK e \in back : \A x \in back : e <= x
  BY <1>1, LeastOf
<1>3. PICK m \in S : e = b - m
  BY DEF back
<1>4. \A x \in S : b - x \in back
  BY DEF back
<1>5. \A x \in S : b - m <= b - x
  BY <1>2, <1>3, <1>4
<1>6. m \in Int /\ \A x \in S : x \in Int
  OBVIOUS
<1>7. \A x \in S : x <= m
  BY <1>5, <1>6
<1>8. QED
  BY <1>7

\* Places in a list of lists.
LEMMA FirstOf ==
  ASSUME NEW S, S \subseteq Nat \X Nat, S # {}
  PROVE  \E p \in S : \A q \in S : ~ Sooner(q, p)
<1> DEFINE rows == {p[1] : p \in S}
<1>1. PICK i \in rows : \A k \in rows : i <= k
  <2>1. rows \subseteq Nat /\ rows # {}
    OBVIOUS
  <2> HIDE DEF rows
  <2>2. QED
    BY <2>1, LeastOf
<1> DEFINE places == {p[2] : p \in {q \in S : q[1] = i}}
<1>2. PICK j \in places : \A k \in places : j <= k
  <2>1. places \subseteq Nat /\ places # {}
    OBVIOUS
  <2> HIDE DEF places
  <2>2. QED
    BY <2>1, LeastOf
<1>3. PICK p \in S : p[1] = i /\ p[2] = j
  OBVIOUS
<1>4. \A q \in S : q[1] \in Nat /\ q[2] \in Nat /\ i <= q[1] /\ (q[1] = i => j <= q[2])
  BY <1>1, <1>2
<1>5. i \in Nat /\ j \in Nat
  BY <1>3
<1>6. \A q \in S : ~ Sooner(q, p)
  BY <1>3, <1>4, <1>5 DEF Sooner
<1>7. QED
  BY <1>6

LEMMA LastOf ==
  ASSUME NEW S, S # {}, NEW b \in Nat, NEW len \in [0 .. b -> Nat],
         \A p \in S : p \in Nat \X Nat /\ p[1] <= b /\ p[2] <= len[p[1]]
  PROVE  \E p \in S : \A q \in S : ~ Sooner(p, q)
<1> DEFINE rows == {p[1] : p \in S}
<1>1. PICK i \in rows : \A k \in rows : k <= i
  <2>1. rows \subseteq 0 .. b /\ rows # {}
    OBVIOUS
  <2> HIDE DEF rows
  <2>2. QED
    BY <2>1, GreatestOf
<1> DEFINE places == {p[2] : p \in {q \in S : q[1] = i}}
<1>2. PICK j \in places : \A k \in places : k <= j
  <2>1. len[i] \in Nat
    OBVIOUS
  <2>2. places \subseteq 0 .. len[i] /\ places # {}
    BY <2>1
  <2> HIDE DEF places
  <2>3. QED
    BY <2>1, <2>2, GreatestOf
<1>3. PICK p \in S : p[1] = i /\ p[2] = j
  OBVIOUS
<1>4. \A q \in S : q[1] \in Nat /\ q[2] \in Nat /\ q[1] <= i /\ (q[1] = i => q[2] <= j)
  BY <1>1, <1>2
<1>5. i \in Nat /\ j \in Nat
  BY <1>3
<1>6. \A q \in S : ~ Sooner(p, q)
  BY <1>3, <1>4, <1>5 DEF Sooner
<1>7. QED
  BY <1>6

\* What parses as access policies.
Policies(roles) ==
  /\ IsSequence(roles)
  /\ \A i \in DOMAIN roles : IsSequence(roles[i].actions) /\ IsSequence(roles[i].access)

\* What the loader makes of a grant.
IsPolicy(g) ==
  /\ g = [name |-> g.name, resource |-> g.resource, action |-> g.action,
          principal |-> g.principal, effect |-> g.effect, conditions |-> g.conditions]
  /\ g.conditions = FALSE
  /\ g.effect = "allow" \/ g.principal = "*"

LEMMA MadePolicies ==
  ASSUME NEW role, NEW what
  PROVE  IsPolicy(ActionRow(role, what)) /\ IsPolicy(AccessRow(role, what))
         /\ IsPolicy(DefaultDenyAll)
<1>1. \A name, resource, action, principal, effect :
        effect = "allow" \/ principal = "*" =>
          IsPolicy([name |-> name, resource |-> resource, action |-> action,
                    principal |-> principal, effect |-> effect, conditions |-> FALSE])
  BY DEF IsPolicy
<1>2. QED
  BY <1>1 DEF ActionRow, AccessRow, DefaultDenyAll

LEMMA RowsOfRole ==
  ASSUME NEW roles, Policies(roles), NEW i \in 1 .. Len(roles) + 1
  PROVE  /\ DOMAIN PolicyRows(roles, i) = 1 .. Len(PolicyRows(roles, i))
         /\ Len(PolicyRows(roles, i)) \in Nat
         /\ \A j \in DOMAIN PolicyRows(roles, i) : IsPolicy(PolicyRows(roles, i)[j])
<1>1. CASE i > Len(roles)
  <2>1. PolicyRows(roles, i) = <<DefaultDenyAll>>
    BY <1>1 DEF PolicyRows
  <2>2. QED
    BY <2>1, MadePolicies
<1>2. CASE ~ (i > Len(roles))
  <2> DEFINE actions == roles[i].actions  access == roles[i].access
             a == [j \in DOMAIN actions |-> ActionRow(roles[i].role, actions[j])]
             b == [j \in DOMAIN access |-> AccessRow(roles[i].role, access[j])]
  <2>1. i \in DOMAIN roles
    BY <1>2 DEF Policies, IsSequence
  <2>2. actions \in Seq(Range(actions)) /\ access \in Seq(Range(access))
    BY <2>1 DEF Policies, IsSequence
  <2>3. a \in Seq(Range(a) \cup Range(b)) /\ b \in Seq(Range(a) \cup Range(b))
    <3>1. /\ DOMAIN a = 1 .. Len(actions) /\ Len(actions) \in Nat
          /\ DOMAIN b = 1 .. Len(access) /\ Len(access) \in Nat
      BY <2>2
    <3>2. /\ a \in [1 .. Len(actions) -> Range(a) \cup Range(b)]
          /\ b \in [1 .. Len(access) -> Range(a) \cup Range(b)]
      BY <3>1 DEF Range
    <3> HIDE DEF a, b
    <3>3. a \in Seq(Range(a) \cup Range(b))
      BY ONLY <3>1, <3>2
    <3>4. b \in Seq(Range(a) \cup Range(b))
      BY ONLY <3>1, <3>2
    <3>5. QED
      BY ONLY <3>3, <3>4
  <2>4. PolicyRows(roles, i) = a \o b
    BY <1>2 DEF PolicyRows
  <2>5. (\A j \in DOMAIN a : IsPolicy(a[j])) /\ (\A j \in DOMAIN b : IsPolicy(b[j]))
    BY MadePolicies
  <2> HIDE DEF a, b
  <2>6. \A j \in DOMAIN (a \o b) : IsPolicy((a \o b)[j])
    BY ONLY <2>3, <2>5
  <2>7. QED
    BY <2>3, <2>4, <2>6
<1>3. QED
  BY <1>1, <1>2

LEMMA PlacesBounded ==
  ASSUME NEW roles, Policies(roles)
  PROVE  \E b \in Nat : \E len \in [0 .. b -> Nat] :
           \A p \in PolicyPlaces(roles) : p \in Nat \X Nat /\ p[1] <= b /\ p[2] <= len[p[1]]
<1> DEFINE b == Len(roles) + 1
           len == [i \in 0 .. b |-> IF i = 0 THEN 0 ELSE Len(PolicyRows(roles, i))]
<1>1. b \in Nat
  BY DEF Policies, IsSequence
<1>2. \A i \in 1 .. b : /\ DOMAIN PolicyRows(roles, i) = 1 .. Len(PolicyRows(roles, i))
                       /\ Len(PolicyRows(roles, i)) \in Nat
  BY RowsOfRole
<1>3. len \in [0 .. b -> Nat]
  BY <1>1, <1>2
<1>4. \A i \in 1 .. b : len[i] = Len(PolicyRows(roles, i))
  BY <1>1
<1>5. ASSUME NEW i \in 1 .. b, NEW j \in DOMAIN PolicyRows(roles, i)
      PROVE  i \in Nat /\ j \in Nat /\ i <= b /\ j <= len[i]
  BY <1>1, <1>2, <1>4
<1>6. \A p \in PolicyPlaces(roles) : p \in Nat \X Nat /\ p[1] <= b /\ p[2] <= len[p[1]]
  <2> HIDE DEF len
  <2> TAKE p \in PolicyPlaces(roles)
  <2>1. PICK i \in 1 .. b : \E j \in DOMAIN PolicyRows(roles, i) : p = <<i, j>>
    BY DEF PolicyPlaces
  <2>2. PICK j \in DOMAIN PolicyRows(roles, i) : p = <<i, j>>
    BY <2>1
  <2>3. QED
    BY <1>5, <2>2
<1> HIDE DEF b, len
<1>7. QED
  BY <1>1, <1>3, <1>6

LEMMA UpsertsHave ==
  ASSUME NEW roles, Policies(roles), NEW name, Upserts(roles, name) # {}
  PROVE  FirstUpsert(roles, name) \in Upserts(roles, name)
         /\ LastUpsert(roles, name) \in Upserts(roles, name)
<1> DEFINE S == Upserts(roles, name)
<1>1. PICK b \in Nat : \E len \in [0 .. b -> Nat] :
        \A p \in PolicyPlaces(roles) : p \in Nat \X Nat /\ p[1] <= b /\ p[2] <= len[p[1]]
  BY PlacesBounded
<1>2. PICK len \in [0 .. b -> Nat] :
        \A p \in PolicyPlaces(roles) : p \in Nat \X Nat /\ p[1] <= b /\ p[2] <= len[p[1]]
  BY <1>1
<1>3. S \subseteq PolicyPlaces(roles)
  BY DEF Upserts
<1>4. \A p \in S : p \in Nat \X Nat /\ p[1] <= b /\ p[2] <= len[p[1]]
  BY <1>2, <1>3
<1> HIDE DEF S
<1>5. S # {}
  BY DEF S
<1>6. S \subseteq Nat \X Nat
  BY <1>4
<1>7. \E p \in S : \A q \in S : ~ Sooner(q, p)
  BY <1>5, <1>6, FirstOf
<1>8. \E p \in S : \A q \in S : ~ Sooner(p, q)
  BY <1>4, <1>5, LastOf
<1>9. QED
  BY <1>7, <1>8 DEF FirstUpsert, LastUpsert, S

-----------------------------------------------------------------------------
(* What the rows of the policies come from.                                *)

LEMMA GrantShape ==
  ASSUME NEW registry, NEW roles, roles = Typed(registry, "access_policy"),
         roles # Nil => Policies(roles), NEW g \in Granted(registry)
  PROVE  IsPolicy(g)
<1>1. PICK place \in PolicyPlaces(roles) : g = PolicyAt(roles, place) /\ roles # Nil
  BY DEF Granted
<1>2. PICK i \in 1 .. Len(roles) + 1 : \E j \in DOMAIN PolicyRows(roles, i) : place = <<i, j>>
  BY <1>1 DEF PolicyPlaces
<1>3. PICK j \in DOMAIN PolicyRows(roles, i) : place = <<i, j>>
  BY <1>2
<1>4. g = PolicyRows(roles, i)[j]
  BY <1>1, <1>3 DEF PolicyAt
<1>5. QED
  BY <1>1, <1>4, RowsOfRole

\* A row keeps what its first grant gave and has what its last grant asks for.
Backed(row, name, grants) ==
  /\ row.name = name /\ row.conditions = FALSE
  /\ \E g \in grants : g.name = name /\ g.principal = row.principal /\ g.effect = row.effect
  /\ \E g \in grants : g.name = name /\ g.resource = row.resource /\ g.action = row.action

AllBacked(rows, grants) ==
  /\ DOMAIN rows = {g.name : g \in grants}
  /\ \A name \in DOMAIN rows : Backed(rows[name], name, grants)

LEMMA SyncedPolicies ==
  ASSUME NEW registry, NEW roles, roles = Typed(registry, "access_policy"),
         roles # Nil => Policies(roles), NEW rows, NEW grants, AllBacked(rows, grants)
  PROVE  AllBacked(SyncAccessPolicy(rows, roles), grants \cup Granted(registry))
<1>0. /\ DOMAIN rows = {g.name : g \in grants}
      /\ \A name \in DOMAIN rows : Backed(rows[name], name, grants)
  BY DEF AllBacked
<1> DEFINE all == grants \cup Granted(registry)  new == SyncAccessPolicy(rows, roles)
<1>1. CASE roles = Nil
  <2>1. new = rows /\ all = grants
    BY <1>1 DEF SyncAccessPolicy, Granted
  <2>2. QED
    BY <2>1 DEF AllBacked
<1>2. CASE roles # Nil
  <2>1. Granted(registry) = {PolicyAt(roles, p) : p \in PolicyPlaces(roles)}
    BY <1>2 DEF Granted
  <2>2. DOMAIN new = DOMAIN rows \cup {PolicyAt(roles, p).name : p \in PolicyPlaces(roles)}
    BY <1>2 DEF SyncAccessPolicy
  <2>3. DOMAIN new = {g.name : g \in all}
    <3>1. {g.name : g \in Granted(registry)} =
            {PolicyAt(roles, p).name : p \in PolicyPlaces(roles)}
      BY ONLY <2>1
    <3>2. {g.name : g \in all} = {g.name : g \in grants} \cup {g.name : g \in Granted(registry)}
      OBVIOUS
    <3> HIDE DEF all, new
    <3>3. QED
      BY ONLY <1>0, <2>2, <3>1, <3>2
  <2>4. ASSUME NEW name \in DOMAIN new, Upserts(roles, name) = {}
        PROVE  Backed(new[name], name, all)
    <3>1. name \in DOMAIN rows
      BY <2>2, <2>4 DEF Upserts
    <3>2. new[name] = rows[name]
      BY <1>2, <2>4 DEF SyncAccessPolicy
    <3>3. QED
      BY <1>0, <3>1, <3>2 DEF Backed
  <2>5. ASSUME NEW name \in DOMAIN new, Upserts(roles, name) # {}
        PROVE  Backed(new[name], name, all)
    <3> DEFINE first == PolicyAt(roles, FirstUpsert(roles, name))
               final == PolicyAt(roles, LastUpsert(roles, name))
               old == IF name \in DOMAIN rows THEN rows[name] ELSE first
    <3>1. new[name] = [name |-> name, resource |-> final.resource, action |-> final.action,
                       principal |-> old.principal, effect |-> old.effect,
                       conditions |-> old.conditions]
      BY <1>2, <2>5 DEF SyncAccessPolicy, UpsertPolicy
    <3>2. /\ first \in Granted(registry) /\ first.name = name
          /\ final \in Granted(registry) /\ final.name = name
      BY <1>2, <2>1, <2>5, UpsertsHave DEF Upserts
    <3>3. first.conditions = FALSE
      BY <3>2, GrantShape DEF IsPolicy
    <3> HIDE DEF first, final
    <3>4. old.conditions = FALSE
      BY <1>0, <3>3 DEF Backed
    <3>5. \E g \in all : g.name = name /\ g.principal = old.principal /\ g.effect = old.effect
      BY <1>0, <3>2 DEF Backed
    <3> HIDE DEF old, new, all
    <3>6. /\ new[name].name = name /\ new[name].conditions = old.conditions
          /\ new[name].principal = old.principal /\ new[name].effect = old.effect
          /\ new[name].resource = final.resource /\ new[name].action = final.action
      BY <3>1
    <3>7. final \in all
      BY <3>2 DEF all
    <3>8. QED
      BY <3>2, <3>4, <3>5, <3>6, <3>7 DEF Backed
  <2>6. QED
    BY <2>3, <2>4, <2>5 DEF AllBacked
<1>3. QED
  BY <1>1, <1>2

-----------------------------------------------------------------------------
(* Access.                                                                 *)

\* Registries, of which only the files that were read are known.
Readable(registry) ==
  LET roles == Typed(registry, "access_policy") IN roles # Nil => Policies(roles)

AccessInv ==
  /\ dir \in GovDirs
  /\ IsSequence(loads)
  /\ \A i \in 1 .. Len(loads) : Readable(loads[i])
  /\ AllBacked(gov.policy, Loaded)

LEMMA RegistryReadable ==
  ASSUME NEW d \in GovDirs, NEW unreadable
  PROVE  Readable(LoadAll(d, unreadable))
<1>1. Typed(LoadAll(d, unreadable), "access_policy") \in {Typed(d, "access_policy"), Nil}
  BY DEF Typed, LoadAll
<1>2. Typed(d, "access_policy") # Nil => Policies(Typed(d, "access_policy"))
  BY GovernanceAssumption DEF GovernanceAssumption, Policies
<1>3. QED
  BY <1>1, <1>2 DEF Readable

LEMMA SequenceFacts ==
  ASSUME NEW s, IsSequence(s)
  PROVE  /\ Len(s) \in Nat /\ DOMAIN s = 1 .. Len(s)
         /\ Len(s) = 0 => s = << >>
BY DEF IsSequence

LEMMA OneMore ==
  ASSUME NEW s, IsSequence(s), NEW e
  PROVE  /\ IsSequence(Append(s, e))
         /\ Len(Append(s, e)) = Len(s) + 1
         /\ \A i \in 1 .. Len(s) : Append(s, e)[i] = s[i]
         /\ Append(s, e)[Len(s) + 1] = e
<1> DEFINE t == Append(s, e)
<1>1. s \in Seq(Range(s) \cup {e}) /\ e \in Range(s) \cup {e}
  <2>1. s \in [1 .. Len(s) -> Range(s) \cup {e}] /\ Len(s) \in Nat
    BY DEF IsSequence, Range
  <2>2. QED
    BY <2>1
<1> DEFINE S == Range(s) \cup {e}
<1> HIDE DEF S
<1>2. /\ t \in Seq(S) /\ Len(t) = Len(s) + 1 /\ Len(s) \in Nat
      /\ \A i \in 1 .. Len(s) : t[i] = s[i]
      /\ t[Len(s) + 1] = e
  BY <1>1 DEF S
<1> HIDE DEF t
<1>3. t \in Seq(Range(t))
  <2>1. t \in [1 .. Len(t) -> S] /\ Len(t) \in Nat /\ DOMAIN t = 1 .. Len(t)
    BY <1>2
  <2>2. t \in [1 .. Len(t) -> Range(t)]
    BY <2>1 DEF Range
  <2>3. \A n \in Nat : \A f \in [1 .. n -> Range(t)] : f \in Seq(Range(t))
    OBVIOUS
  <2>4. QED
    BY <2>1, <2>2, <2>3
<1>4. QED
  BY <1>2, <1>3 DEF IsSequence, t

\* One more load.
LEMMA MoreLoaded ==
  ASSUME IsSequence(loads), NEW registry, loads' = Append(loads, registry)
  PROVE  /\ IsSequence(loads') /\ Len(loads') = Len(loads) + 1 /\ Len(loads) \in Nat
         /\ \A i \in 1 .. Len(loads) : loads'[i] = loads[i]
         /\ loads'[Len(loads) + 1] = registry
         /\ Loaded' = Loaded \cup Granted(registry)
<1>1. /\ Len(loads) \in Nat /\ DOMAIN loads = 1 .. Len(loads)
  BY SequenceFacts
<1>2. /\ IsSequence(loads') /\ Len(loads') = Len(loads) + 1
      /\ \A i \in 1 .. Len(loads) : loads'[i] = loads[i]
      /\ loads'[Len(loads) + 1] = registry
  BY OneMore
<1>3. DOMAIN loads' = 1 .. Len(loads')
  BY <1>2, SequenceFacts
<1>4. Loaded' = Loaded \cup Granted(registry)
  <2>1. \A i \in DOMAIN loads' : i \in DOMAIN loads \/ i = Len(loads) + 1
    BY <1>1, <1>2, <1>3
  <2>2. Loaded' = UNION {Granted(loads'[i]) : i \in DOMAIN loads'}
    BY DEF Loaded, Granted, Typed
  <2>3. Loaded = UNION {Granted(loads[i]) : i \in DOMAIN loads}
    BY DEF Loaded
  <2>4. Len(loads) + 1 \in DOMAIN loads' /\ DOMAIN loads \subseteq DOMAIN loads'
    BY <1>1, <1>2, <1>3
  <2>5. QED
    BY <1>1, <1>2, <2>1, <2>2, <2>3, <2>4
<1>5. QED
  BY <1>1, <1>2, <1>4

LEMMA AccessStep ==
  ASSUME AccessInv, [ContextsNext]_ctxVars
  PROVE  AccessInv'
<1>1. ASSUME UNCHANGED <<gov, loads>>, dir' \in GovDirs  PROVE AccessInv'
  <2>1. Loaded' = Loaded
    BY <1>1 DEF Loaded, Granted, Typed
  <2>2. QED
    BY <1>1, <2>1 DEF AccessInv
<1>2. ASSUME NEW unreadable, Load(unreadable)  PROVE AccessInv'
  <2> DEFINE registry == LoadAll(dir, unreadable)  roles == Typed(registry, "access_policy")
  <2>1. /\ dir \in GovDirs /\ dir' = dir /\ loads' = Append(loads, registry)
        /\ gov'.policy = SyncAccessPolicy(gov.policy, roles)
    BY <1>2 DEF Load, SyncSnapshots, AccessInv
  <2>2. Readable(registry)
    BY <2>1, RegistryReadable
  <2> HIDE DEF registry
  <2>3. /\ IsSequence(loads') /\ Len(loads') = Len(loads) + 1 /\ Len(loads) \in Nat
        /\ \A i \in 1 .. Len(loads) : loads'[i] = loads[i]
        /\ loads'[Len(loads) + 1] = registry
        /\ Loaded' = Loaded \cup Granted(registry)
    BY <2>1, MoreLoaded DEF AccessInv
  <2>4. \A i \in 1 .. Len(loads') : Readable(loads'[i])
    BY <2>2, <2>3 DEF AccessInv
  <2>5. AllBacked(gov'.policy, Loaded')
    <3>1. AllBacked(gov.policy, Loaded)
      BY DEF AccessInv
    <3>2. roles # Nil => Policies(roles)
      BY <2>2 DEF Readable
    <3>3. AllBacked(SyncAccessPolicy(gov.policy, roles), Loaded \cup Granted(registry))
      BY <3>1, <3>2, SyncedPolicies
    <3>4. QED
      BY <2>1, <2>3, <3>3
  <2>6. QED
    BY <2>1, <2>3, <2>4, <2>5 DEF AccessInv
<1>3. CASE Edit
  BY <1>1, <1>3 DEF Edit
<1>4. CASE \E part \in DOMAIN gov : LoadFails(part)
  BY <1>1, <1>4 DEF LoadFails, AccessInv
<1>5. ASSUME UNCHANGED <<dir, gov, loads>>  PROVE AccessInv'
  BY <1>1, <1>5 DEF AccessInv
<1>6. /\ \A case, builder : StartBuild(case, builder) => UNCHANGED <<dir, gov, loads>>
      /\ \A field : LookupFails(field) => UNCHANGED <<dir, gov, loads>>
      /\ \A field, marking : ClassifyField(field, marking) => UNCHANGED <<dir, gov, loads>>
      /\ \A registry, readable : FinishBuild(registry, readable) => UNCHANGED <<dir, gov, loads>>
      /\ AbortBuild => UNCHANGED <<dir, gov, loads>>
      /\ \A case, name, planned, metrics, registry :
           BuildEnvelope(case, name, planned, metrics, registry) => UNCHANGED <<dir, gov, loads>>
  BY DEF StartBuild, LookupFails, ClassifyField, FinishBuild, AbortBuild, BuildEnvelope
<1>7. CASE GovNext
  BY <1>2, <1>3, <1>4, <1>7 DEF GovNext
<1>8. CASE UNCHANGED <<dir, gov, loads>>
  BY <1>5, <1>8
<1>9. QED
  BY <1>6, <1>7, <1>8 DEF ContextsNext, ctxVars

LEMMA AccessStart == ContextsInit => AccessInv
BY DEF ContextsInit, GovInit, AccessInv, EmptyTables, EmptyTable, AllBacked, Loaded,
   IsSequence, Range

\* Access is granted only by a policy that a committed load asked for,
\* to that role, unless two grants of it share a name; and what the last load
\* grants to a role, which is not called *, is granted, whatever happened to
\* the loads after it.
THEOREM AccessFollows == ContextsSpec => []AccessFollowsLoads
<1>1. ASSUME AccessInv  PROVE AccessFollowsLoads
  <2>1. \A g \in Loaded : IsPolicy(g)
    <3>1. ASSUME NEW i \in DOMAIN loads, NEW g \in Granted(loads[i])  PROVE IsPolicy(g)
      BY <1>1, GrantShape DEF AccessInv, Readable
    <3>2. QED
      BY <3>1 DEF Loaded
  <2>2. \A n \in DOMAIN gov.policy : Backed(gov.policy[n], n, Loaded)
    BY <1>1 DEF AccessInv, AllBacked
  <2>3. ASSUME NEW n \in DOMAIN gov.policy, NEW object, NEW action,
               CheckAccess(gov.policy, gov.policy[n].principal, object, action) # "denied"
        PROVE  \E g \in Loaded :
                 \/ /\ g.principal = gov.policy[n].principal /\ g.effect = "allow"
                    /\ Matches(g.resource, object) /\ Matches(g.action, action)
                 \/ g.principal = gov.policy[n].principal /\ Shared(g.name)
    <3>1. PICK m \in DOMAIN gov.policy :
            /\ gov.policy[m].principal = gov.policy[n].principal
            /\ gov.policy[m].effect = "allow"
            /\ Matches(gov.policy[m].resource, object)
            /\ Matches(gov.policy[m].action, action)
      BY <2>3 DEF CheckAccess
    <3>2. PICK g \in Loaded : /\ g.name = m /\ g.principal = gov.policy[m].principal
                              /\ g.effect = gov.policy[m].effect
      BY <2>2, <3>1 DEF Backed
    <3>3. PICK h \in Loaded : /\ h.name = m /\ h.resource = gov.policy[m].resource
                              /\ h.action = gov.policy[m].action
      BY <2>2, <3>1 DEF Backed
    <3>4. CASE g = h
      BY <3>1, <3>2, <3>3, <3>4
    <3>5. CASE g # h
      BY <3>1, <3>2, <3>3, <3>5 DEF Shared
    <3>6. QED
      BY <3>4, <3>5
  <2>4. ASSUME loads # << >>, NEW g \in Granted(Last(loads)), g.effect = "allow",
               g.principal # "*", ~ Shared(g.name)
        PROVE  CheckAccess(gov.policy, g.principal, g.resource, g.action) = "allowed"
    <3>1. g \in Loaded
      <4>1. DOMAIN loads = 1 .. Len(loads) /\ Len(loads) \in Nat
        BY <1>1, SequenceFacts DEF AccessInv
      <4>2. Len(loads) # 0
        <5>1. Len(loads) = 0 => loads = << >>
          BY <1>1, SequenceFacts DEF AccessInv
        <5>2. QED
          BY <2>4, <5>1
      <4>3. Last(loads) = loads[Len(loads)] /\ Len(loads) \in DOMAIN loads
        BY <4>1, <4>2 DEF Last
      <4>4. QED
        BY <2>4, <4>3 DEF Loaded
    <3>2. g.name \in DOMAIN gov.policy /\ Backed(gov.policy[g.name], g.name, Loaded)
      BY <1>1, <3>1 DEF AccessInv, AllBacked
    <3>3. \A h \in Loaded : h.name = g.name => h = g
      BY <2>4, <3>1 DEF Shared
    <3>4. /\ gov.policy[g.name].principal = g.principal /\ gov.policy[g.name].effect = "allow"
          /\ gov.policy[g.name].resource = g.resource /\ gov.policy[g.name].action = g.action
      BY <2>4, <3>2, <3>3 DEF Backed
    <3>5. \A n \in DOMAIN gov.policy :
            /\ gov.policy[n].conditions = FALSE
            /\ gov.policy[n].principal = g.principal => gov.policy[n].effect = "allow"
      BY <2>1, <2>2, <2>4 DEF Backed, IsPolicy
    <3>6. Matches(g.resource, g.resource) /\ Matches(g.action, g.action)
      BY DEF Matches
    <3>7. QED
      BY <3>2, <3>4, <3>5, <3>6 DEF CheckAccess
  <2>5. QED
    BY <2>3, <2>4 DEF AccessFollowsLoads
<1>2. QED
  BY <1>1, AccessStart, AccessStep, PTL DEF ContextsSpec

-----------------------------------------------------------------------------
(* What is hidden.                                                         *)

\* The rows of a field are the levels that loads have named.
AllNamed(seq, type, field) == UNION {NamedLevels(seq[i], type, field) : i \in DOMAIN seq}

IsName(field) == field # ""

LevelsInv ==
  /\ IsSequence(loads)
  /\ \A type, field : IsName(field) =>
       Levels(gov.classification, <<type, field>>) = AllNamed(loads, type, field)

BuildShape(b) ==
  b \in [builder : {"v1", "v2", "v3"}, object : {b.object}, trigger : {b.trigger},
         left : {b.left}, classes : {b.classes}, lost : {b.lost}, since : {b.since}]

\* A field has a class that does what the loads before the build say and,
\* where they say nothing, what the ontology says.
Classified(b, f) ==
  LET type == b.object[1]
  IN /\ f \in DOMAIN b.classes
     /\ (\E i \in DOMAIN b.since : NamedLevels(b.since[i], type, f) # {}) =>
          \E l \in Levels(gov.classification, <<type, f>>) : l \in Secret => b.classes[f] \in Secret
     /\ b.builder # "v1" /\ Levels(gov.classification, <<type, f>>) = {}
          /\ Sensitivity(type, f) > 2
        => b.classes[f] \in Secret

Prefix(s, t) == \A i \in DOMAIN s : i \in DOMAIN t /\ t[i] = s[i]

BuildInv ==
  build # Nil =>
    /\ BuildShape(build)
    /\ "" \notin Objects[build.object]
    /\ Prefix(build.since, loads)
    /\ \A f \in Objects[build.object] : f \in build.left \/ f \in build.lost \/ Classified(build, f)

HiddenInv == LevelsInv /\ BuildInv /\ HiddenStaysHidden

LEMMA LevelsOfRows ==
  ASSUME NEW rows, NEW registry, NEW type, NEW field, IsName(field)
  PROVE  Levels(SyncDataClassification(rows, Typed(registry, "data_classification")),
                <<type, field>>)
           = Levels(rows, <<type, field>>) \cup NamedLevels(registry, type, field)
<1> DEFINE entries == Typed(registry, "data_classification")
           path == <<type, field>>
           new == SyncDataClassification(rows, entries)
<1>1. CASE entries = Nil
  BY <1>1 DEF SyncDataClassification, NamedLevels
<1>2. CASE entries # Nil
  <2>1. \A r : r \in new <=>
          \/ r \in rows
          \/ \E c \in entries : r = <<<<c.asset, "">>, c.level>>
          \/ \E c \in entries : \E f \in DOMAIN c.fields : r = <<<<c.asset, f>>, c.fields[f]>>
    <3> DEFINE fields(c) == {<<<<c.asset, f>>, c.fields[f]>> : f \in DOMAIN c.fields}
               made(c) == {<<<<c.asset, "">>, c.level>>} \cup fields(c)
    <3>1. new = (UNION {made(c) : c \in entries}) \cup rows
      BY <1>2 DEF SyncDataClassification, Union
    <3>2. \A c, r : r \in fields(c) <=> \E f \in DOMAIN c.fields : r = <<<<c.asset, f>>, c.fields[f]>>
      OBVIOUS
    <3> HIDE DEF fields
    <3>3. \A c, r : r \in made(c) <=> r = <<<<c.asset, "">>, c.level>> \/ r \in fields(c)
      OBVIOUS
    <3> HIDE DEF made, new, entries
    <3>4. \A r : r \in new <=> r \in rows \/ \E c \in entries : r \in made(c)
      BY <3>1
    <3>5. QED
      <4> TAKE r
      <4>1. r \in new <=> r \in rows \/ \E c \in entries : r \in made(c)
        BY <3>4
      <4>2. \A c : r \in made(c) <=>
              \/ r = <<<<c.asset, "">>, c.level>>
              \/ \E f \in DOMAIN c.fields : r = <<<<c.asset, f>>, c.fields[f]>>
        BY <3>2, <3>3
      <4>3. QED
        BY ONLY <4>1, <4>2
  <2>2. \A l : l \in NamedLevels(registry, type, field) <=>
          \E c \in entries : c.asset = type /\ field \in DOMAIN c.fields /\ l = c.fields[field]
    BY <1>2 DEF NamedLevels
  <2> HIDE DEF new, entries
  <2>3. \A s, l : l \in Levels(s, path) <=> \E r \in s : r[1] = path /\ l = r[2]
    BY DEF Levels
  <2>4. ASSUME NEW l \in Levels(new, path)
        PROVE  l \in Levels(rows, path) \/ l \in NamedLevels(registry, type, field)
    <3>1. PICK r \in new : r[1] = path /\ l = r[2]
      BY <2>3
    <3>2. CASE r \in rows
      BY <2>3, <3>1, <3>2
    <3>3. CASE \E c \in entries : r = <<<<c.asset, "">>, c.level>>
      <4>1. PICK c \in entries : r = <<<<c.asset, "">>, c.level>>
        BY <3>3
      <4>2. r[1] = <<c.asset, "">>
        BY <4>1
      <4>3. <<c.asset, "">> = <<type, field>>
        BY <3>1, <4>2
      <4>4. QED
        BY <4>3 DEF IsName
    <3>4. CASE \E c \in entries : \E f \in DOMAIN c.fields : r = <<<<c.asset, f>>, c.fields[f]>>
      <4>1. PICK c \in entries : \E f \in DOMAIN c.fields : r = <<<<c.asset, f>>, c.fields[f]>>
        BY <3>4
      <4>2. PICK f \in DOMAIN c.fields : r = <<<<c.asset, f>>, c.fields[f]>>
        BY <4>1
      <4>3. r[1] = <<c.asset, f>> /\ r[2] = c.fields[f]
        BY <4>2
      <4>4. <<c.asset, f>> = <<type, field>>
        BY <3>1, <4>3
      <4>5. c.asset = type /\ f = field
        BY <4>4
      <4>6. QED
        BY <2>2, <3>1, <4>3, <4>5
    <3>5. QED
      BY <2>1, <3>2, <3>3, <3>4
  <2>5. ASSUME NEW l \in Levels(rows, path)  PROVE l \in Levels(new, path)
    <3>1. PICK r \in rows : r[1] = path /\ l = r[2]
      BY <2>3
    <3>2. r \in new
      BY <2>1
    <3>3. QED
      BY <2>3, <3>1, <3>2
  <2>6. ASSUME NEW l \in NamedLevels(registry, type, field)  PROVE l \in Levels(new, path)
    <3>1. PICK c \in entries : c.asset = type /\ field \in DOMAIN c.fields /\ l = c.fields[field]
      BY <2>2
    <3>2. <<<<c.asset, field>>, c.fields[field]>> \in new
      BY <2>1, <3>1
    <3>3. QED
      BY <2>3, <3>1, <3>2
  <2>7. QED
    BY <2>4, <2>5, <2>6 DEF new, entries
<1>3. QED
  BY <1>1, <1>2

\* Secret levels make secret classes, and so does the ontology.
LEMMA SecretClasses ==
  ASSUME NEW sensitivity \in Nat
  PROVE  /\ \A l \in Secret : /\ MapClassification(ReadAs(l)) \in Secret
                             /\ MapClassification(Unify(ReadAs(l), sensitivity)) \in Secret
         /\ sensitivity > 2 => MapClassification(Unify(DefaultMarking, sensitivity)) \in Secret
BY DEF Secret, MapClassification, ReadAs, ResolveLevel, Unify, DefaultMarking

LEMMA SensitivityType ==
  ASSUME NEW type, NEW field
  PROVE  Sensitivity(type, field) \in Nat
BY ContextsAssumption DEF ContextsAssumption, Sensitivity

LEMMA LevelsStep ==
  ASSUME LevelsInv, [ContextsNext]_ctxVars
  PROVE  /\ LevelsInv'
         /\ Prefix(loads, loads')
         /\ \A path : Levels(gov.classification, path) \subseteq Levels(gov'.classification, path)
<1>1. ASSUME UNCHANGED <<gov, loads>>
      PROVE  /\ LevelsInv'
             /\ Prefix(loads, loads')
             /\ \A path : Levels(gov.classification, path) \subseteq Levels(gov'.classification, path)
  <2>1. LevelsInv'
    BY <1>1 DEF LevelsInv
  <2>2. Prefix(loads, loads')
    BY <1>1 DEF Prefix
  <2>3. QED
    BY <1>1, <2>1, <2>2
<1>2. ASSUME NEW unreadable, Load(unreadable)
      PROVE  /\ LevelsInv'
             /\ Prefix(loads, loads')
             /\ \A path : Levels(gov.classification, path) \subseteq Levels(gov'.classification, path)
  <2> DEFINE registry == LoadAll(dir, unreadable)
             rows == gov.classification  new == gov'.classification
  <2>1. /\ loads' = Append(loads, registry)
        /\ new = SyncDataClassification(rows, Typed(registry, "data_classification"))
    BY <1>2 DEF Load, SyncSnapshots
  <2> HIDE DEF registry
  <2>2. /\ IsSequence(loads') /\ Len(loads') = Len(loads) + 1 /\ Len(loads) \in Nat
        /\ \A i \in 1 .. Len(loads) : loads'[i] = loads[i]
        /\ loads'[Len(loads) + 1] = registry
    BY <2>1, MoreLoaded DEF LevelsInv
  <2>3. DOMAIN loads = 1 .. Len(loads) /\ DOMAIN loads' = 1 .. Len(loads')
    BY <2>2, SequenceFacts DEF LevelsInv
  <2>4. Prefix(loads, loads')
    BY <2>2, <2>3 DEF Prefix
  <2>5. \A path : Levels(rows, path) \subseteq Levels(new, path)
    <3>1. rows \subseteq new
      BY <2>1 DEF SyncDataClassification
    <3>2. QED
      BY <3>1 DEF Levels
  <2>6. ASSUME NEW type, NEW field, IsName(field)
        PROVE  Levels(new, <<type, field>>) = AllNamed(loads', type, field)
    <3>1. Levels(new, <<type, field>>)
            = Levels(rows, <<type, field>>) \cup NamedLevels(registry, type, field)
      <4> HIDE DEF rows, new
      <4>1. IsName(field)
        BY <2>6
      <4>2. Levels(SyncDataClassification(rows, Typed(registry, "data_classification")),
                   <<type, field>>)
              = Levels(rows, <<type, field>>) \cup NamedLevels(registry, type, field)
        BY ONLY <4>1, LevelsOfRows
      <4>3. QED
        BY ONLY <2>1, <4>2
    <3>2. Levels(rows, <<type, field>>) = AllNamed(loads, type, field)
      BY <2>6 DEF LevelsInv
    <3>3. \A i \in DOMAIN loads' : i \in DOMAIN loads \/ i = Len(loads) + 1
      BY <2>2, <2>3
    <3>4. Len(loads) + 1 \in DOMAIN loads' /\ DOMAIN loads \subseteq DOMAIN loads'
      BY <2>2, <2>3
    <3>5. AllNamed(loads', type, field) = AllNamed(loads, type, field) \cup NamedLevels(registry, type, field)
      BY <2>2, <2>3, <3>3, <3>4 DEF AllNamed
    <3>6. QED
      BY <3>1, <3>2, <3>5
  <2>7. LevelsInv'
    BY <2>2, <2>6 DEF LevelsInv
  <2>8. QED
    BY <2>4, <2>5, <2>7
<1>3. CASE Edit
  BY <1>1, <1>3 DEF Edit
<1>4. CASE \E part \in DOMAIN gov : LoadFails(part)
  BY <1>1, <1>4 DEF LoadFails
<1>5. /\ \A case, builder : StartBuild(case, builder) => UNCHANGED <<gov, loads>>
      /\ \A field : LookupFails(field) => UNCHANGED <<gov, loads>>
      /\ \A field, marking : ClassifyField(field, marking) => UNCHANGED <<gov, loads>>
      /\ \A registry, readable : FinishBuild(registry, readable) => UNCHANGED <<gov, loads>>
      /\ AbortBuild => UNCHANGED <<gov, loads>>
      /\ \A case, name, planned, metrics, registry :
           BuildEnvelope(case, name, planned, metrics, registry) => UNCHANGED <<gov, loads>>
  BY DEF StartBuild, LookupFails, ClassifyField, FinishBuild, AbortBuild, BuildEnvelope
<1>6. CASE GovNext
  BY <1>2, <1>3, <1>4, <1>6 DEF GovNext
<1>7. CASE UNCHANGED <<gov, loads>>
  BY <1>1, <1>7
<1>8. QED
  BY <1>5, <1>6, <1>7 DEF ContextsNext, ctxVars

\* More loads only name more levels.
LEMMA HiddenStays ==
  ASSUME HiddenInv, LevelsInv', UNCHANGED <<build, context>>, Prefix(loads, loads'),
         \A path : Levels(gov.classification, path) \subseteq Levels(gov'.classification, path)
  PROVE  HiddenInv'
<1>1. BuildInv'
  <2>1. CASE build = Nil
    BY <2>1 DEF BuildInv
  <2>2. CASE build # Nil
    <3>1. /\ BuildShape(build) /\ "" \notin Objects[build.object] /\ Prefix(build.since, loads)
          /\ \A f \in Objects[build.object] :
               f \in build.left \/ f \in build.lost \/ Classified(build, f)
      BY <2>2 DEF HiddenInv, BuildInv
    <3>2. Prefix(build.since, loads')
      BY <3>1 DEF Prefix
    <3>3. ASSUME NEW f, Classified(build, f)  PROVE Classified(build, f)'
      <4> DEFINE type == build.object[1]
                 now == Levels(gov.classification, <<type, f>>)
                 next == Levels(gov'.classification, <<type, f>>)
      <4>1. now \subseteq next
        OBVIOUS
      <4>2. Sensitivity(type, f)' = Sensitivity(type, f)
        BY DEF Sensitivity
      <4>3. /\ f \in DOMAIN build.classes
            /\ (\E i \in DOMAIN build.since : NamedLevels(build.since[i], type, f) # {}) =>
                 \E l \in now : l \in Secret => build.classes[f] \in Secret
            /\ build.builder # "v1" /\ now = {} /\ Sensitivity(type, f) > 2
                 => build.classes[f] \in Secret
        BY <3>3 DEF Classified
      <4>4. build' = build
        OBVIOUS
      <4> HIDE DEF now, next, type
      <4>5. /\ f \in DOMAIN build.classes
            /\ (\E i \in DOMAIN build.since : NamedLevels(build.since[i], type, f) # {}) =>
                 \E l \in next : l \in Secret => build.classes[f] \in Secret
            /\ build.builder # "v1" /\ next = {} /\ Sensitivity(type, f) > 2
                 => build.classes[f] \in Secret
        BY <4>1, <4>3
      <4>6. /\ f \in DOMAIN build'.classes
            /\ (\E i \in DOMAIN build'.since : NamedLevels(build'.since[i], build'.object[1], f) # {}) =>
                 \E l \in Levels(gov'.classification, <<build'.object[1], f>>) :
                   l \in Secret => build'.classes[f] \in Secret
        BY <4>4, <4>5 DEF next, type
      <4>7. build'.builder # "v1" /\ Levels(gov'.classification, <<build'.object[1], f>>) = {}
              /\ Sensitivity(build'.object[1], f) > 2
            => build'.classes[f] \in Secret
        BY <4>4, <4>5 DEF next, type
      <4>8. QED
        BY <4>6, <4>7 DEF Classified, Sensitivity
    <3>4. QED
      BY <2>2, <3>1, <3>2, <3>3 DEF BuildInv, BuildShape
  <2>3. QED
    BY <2>1, <2>2
<1>2. HiddenStaysHidden'
  <2>1. \A type, f : KnownSecret(type, f)' => KnownSecret(type, f)
    BY DEF KnownSecret, Prefix
  <2>2. \A type, f : Unnamed(type, f)' => Unnamed(type, f)
    BY DEF Unnamed, Prefix
  <2> DEFINE Kept(f) ==
        LET type == context.object[1]
        IN /\ context.builder # "recipe" => ~ KnownSecret(type, f)
           /\ context.builder \in {"v2", "v3"} /\ Unnamed(type, f) => Sensitivity(type, f) <= 2
           /\ context.builder = "recipe" => Sensitivity(type, f) # 3
  <2>3. ASSUME context # Nil, NEW f \in context.shown \ context.lost  PROVE Kept(f)'
    <3>1. Kept(f)
      BY <2>3 DEF HiddenInv, HiddenStaysHidden
    <3>2. context' = context /\ Sensitivity(context.object[1], f)' = Sensitivity(context.object[1], f)
      BY DEF Sensitivity
    <3>3. /\ KnownSecret(context.object[1], f)' => KnownSecret(context.object[1], f)
          /\ Unnamed(context.object[1], f)' => Unnamed(context.object[1], f)
      BY DEF KnownSecret, Unnamed, Prefix
    <3>4. QED
      BY <3>1, <3>2, <3>3
  <2>4. QED
    BY <2>3 DEF HiddenStaysHidden
<1>3. QED
  BY <1>1, <1>2 DEF HiddenInv

\* The class of a field comes from one of its levels, or from the ontology.
LEMMA MarkingClass ==
  ASSUME NEW rows, NEW type, NEW field, NEW builder, NEW marking,
         marking \in (IF builder = "v1" THEN ClassMarkings(rows, type, field)
                     ELSE FieldMarkings(rows, type, field))
  PROVE  /\ Levels(rows, <<type, field>>) # {} =>
              \E l \in Levels(rows, <<type, field>>) :
                l \in Secret => MapClassification(marking) \in Secret
         /\ builder # "v1" /\ Levels(rows, <<type, field>>) = {} /\ Sensitivity(type, field) > 2
              => MapClassification(marking) \in Secret
<1> DEFINE levels == Levels(rows, <<type, field>>)
           s == Sensitivity(type, field)
<1>1. s \in Nat
  BY SensitivityType
<1>2. /\ levels = {} => ClassMarkings(rows, type, field) = {DefaultMarking}
      /\ levels # {} => ClassMarkings(rows, type, field) = {ReadAs(l) : l \in levels}
  BY DEF ClassMarkings
<1>3. FieldMarkings(rows, type, field) = {Unify(m, s) : m \in ClassMarkings(rows, type, field)}
  BY DEF FieldMarkings
<1> HIDE DEF levels, s
<1>4. ASSUME levels # {}
      PROVE  \E l \in levels : l \in Secret => MapClassification(marking) \in Secret
  <2>1. PICK l \in levels : marking = ReadAs(l) \/ marking = Unify(ReadAs(l), s)
    <3>1. CASE builder = "v1"
      BY <1>2, <1>4, <3>1
    <3>2. CASE builder # "v1"
      <4>1. PICK m \in ClassMarkings(rows, type, field) : marking = Unify(m, s)
        BY <1>3, <3>2
      <4>2. PICK l \in levels : m = ReadAs(l)
        BY <1>2, <1>4
      <4>3. QED
        BY <4>1, <4>2
    <3>3. QED
      BY <3>1, <3>2
  <2>2. l \in Secret => MapClassification(marking) \in Secret
    BY <1>1, <2>1, SecretClasses
  <2>3. QED
    BY <2>2
<1>5. ASSUME builder # "v1", levels = {}, s > 2
      PROVE  MapClassification(marking) \in Secret
  <2>1. marking = Unify(DefaultMarking, s)
    BY <1>2, <1>3, <1>5
  <2>2. QED
    BY <1>1, <1>5, <2>1, SecretClasses
<1>6. QED
  BY <1>4, <1>5 DEF levels, s

LEMMA StartStep ==
  ASSUME HiddenInv, NEW case \in ContextCases, NEW builder \in {"v1", "v2", "v3"},
         StartBuild(case, builder)
  PROVE  BuildInv'
<1>1. /\ build' = [builder |-> builder, object |-> case.object,
                   trigger |-> BuildTrigger(case.severity, case.alert),
                   left |-> Objects[case.object], classes |-> EmptyTable, lost |-> {},
                   since |-> loads]
      /\ loads' = loads
  BY DEF StartBuild
<1>2. BuildShape(build')
  BY <1>1 DEF BuildShape
<1>3. /\ build'.object = case.object /\ build'.left = Objects[case.object]
      /\ build'.since = loads
  BY <1>1
<1>4. "" \notin Objects[build'.object]
  BY <1>3, ContextsAssumption DEF ContextsAssumption
<1>5. Prefix(build'.since, loads')
  BY <1>1, <1>3 DEF Prefix
<1>6. QED
  BY <1>2, <1>3, <1>4, <1>5 DEF BuildInv, BuildShape

\* What the lookup of one field does to the build.
LEMMA FieldStep ==
  ASSUME HiddenInv, build # Nil, NEW field \in build.left, NEW classes, NEW lost,
         UNCHANGED <<gov, loads>>,
         build' = [build EXCEPT !.left = @ \ {field}, !.classes = classes, !.lost = lost],
         build.lost \subseteq lost,
         \A f \in DOMAIN build.classes : f # field => f \in DOMAIN classes /\ classes[f] = build.classes[f],
         field \in Objects[build.object] => field \in lost \/ Classified(build', field)
  PROVE  BuildInv'
<1>1. /\ BuildShape(build) /\ "" \notin Objects[build.object] /\ Prefix(build.since, loads)
      /\ \A f \in Objects[build.object] :
           f \in build.left \/ f \in build.lost \/ Classified(build, f)
  BY DEF HiddenInv, BuildInv
<1>2. /\ build'.builder = build.builder /\ build'.object = build.object
      /\ build'.since = build.since /\ build'.left = build.left \ {field}
      /\ build'.classes = classes /\ build'.lost = lost
  BY <1>1 DEF BuildShape
<1>3. BuildShape(build')
  BY <1>1 DEF BuildShape
<1>4. ASSUME NEW f, f # field, Classified(build, f)  PROVE Classified(build', f)
  <2>1. /\ f \in DOMAIN build.classes
        /\ (\E i \in DOMAIN build.since : NamedLevels(build.since[i], build.object[1], f) # {}) =>
             \E l \in Levels(gov.classification, <<build.object[1], f>>) :
               l \in Secret => build.classes[f] \in Secret
        /\ build.builder # "v1" /\ Levels(gov.classification, <<build.object[1], f>>) = {}
             /\ Sensitivity(build.object[1], f) > 2
           => build.classes[f] \in Secret
    BY <1>4 DEF Classified
  <2>2. f \in DOMAIN classes /\ classes[f] = build.classes[f]
    BY <1>4, <2>1
  <2>3. QED
    BY ONLY <1>2, <2>1, <2>2 DEF Classified
<1>5. \A f \in Objects[build'.object] : f \in build'.left \/ f \in build'.lost \/ Classified(build', f)
  <2> SUFFICES ASSUME NEW f \in Objects[build.object]
               PROVE  f \in build'.left \/ f \in build'.lost \/ Classified(build', f)
    BY <1>2
  <2>1. CASE f = field
    BY <1>2, <2>1
  <2>2. CASE f # field
    BY <1>1, <1>2, <1>4, <2>2
  <2>3. QED
    BY <2>1, <2>2
<1>6. QED
  <2>1. \A f : Classified(build', f) => Classified(build, f)'
    BY DEF Classified, Sensitivity
  <2>2. Prefix(build'.since, loads')
    BY <1>1, <1>2
  <2>3. "" \notin Objects[build'.object]
    BY <1>1, <1>2
  <2>4. QED
    BY <1>3, <1>5, <2>1, <2>2, <2>3 DEF BuildInv, BuildShape

LEMMA ClassifyStep ==
  ASSUME HiddenInv, build # Nil, NEW field \in build.left,
         NEW marking \in Markings(build, field), ClassifyField(field, marking)
  PROVE  BuildInv'
<1> DEFINE class == MapClassification(marking)
           type == build.object[1]
           levels == Levels(gov.classification, <<type, field>>)
           classes == Put(build.classes, field, class)
<1>1. /\ BuildShape(build) /\ "" \notin Objects[build.object] /\ Prefix(build.since, loads)
      /\ LevelsInv
  BY DEF HiddenInv, BuildInv
<1>2. build' = [build EXCEPT !.left = @ \ {field}, !.classes = classes, !.lost = build.lost]
  BY <1>1 DEF ClassifyField, BuildShape
<1>3. UNCHANGED <<gov, loads>>
  BY DEF ClassifyField
<1>4. /\ build'.classes = classes /\ build'.builder = build.builder
      /\ build'.object = build.object /\ build'.since = build.since
  BY <1>1, <1>2 DEF BuildShape
<1>5. field \in DOMAIN classes /\ classes[field] = class
  BY DEF Put
<1>6. \A f \in DOMAIN build.classes :
        f # field => f \in DOMAIN classes /\ classes[f] = build.classes[f]
  BY DEF Put
<1>7. ASSUME field \in Objects[build.object]  PROVE Classified(build', field)
  <2>1. IsName(field)
    BY <1>1, <1>7 DEF IsName
  <2>2. levels = AllNamed(loads, type, field)
    BY <1>1, <2>1 DEF LevelsInv
  <2>3. ASSUME NEW i \in DOMAIN build.since, NamedLevels(build.since[i], type, field) # {}
        PROVE  levels # {}
    <3>1. i \in DOMAIN loads /\ loads[i] = build.since[i]
      BY <1>1 DEF Prefix
    <3>2. NamedLevels(loads[i], type, field) \subseteq AllNamed(loads, type, field)
      BY <3>1 DEF AllNamed
    <3>3. QED
      BY <2>2, <2>3, <3>1, <3>2
  <2>4. marking \in (IF build.builder = "v1" THEN ClassMarkings(gov.classification, type, field)
                     ELSE FieldMarkings(gov.classification, type, field))
    BY DEF Markings
  <2>5. /\ levels # {} => \E l \in levels : l \in Secret => class \in Secret
        /\ build.builder # "v1" /\ levels = {} /\ Sensitivity(type, field) > 2 => class \in Secret
    BY <2>4, MarkingClass
  <2> HIDE DEF classes, class
  <2>6. QED
    BY <1>4, <1>5, <2>3, <2>5 DEF Classified
<1>8. build.lost \subseteq build.lost
  OBVIOUS
<1> HIDE DEF classes
<1>9. QED
  BY ONLY HiddenInv, build # Nil, field \in build.left,
          <1>2, <1>3, <1>6, <1>7, <1>8, FieldStep

LEMMA LookupStep ==
  ASSUME HiddenInv, build # Nil, NEW field \in build.left, LookupFails(field)
  PROVE  BuildInv'
<1> DEFINE classes == IF build.builder = "v1" THEN build.classes
                      ELSE Put(build.classes, field, "internal")
           lost == build.lost \cup {field}
<1>1. BuildShape(build)
  BY DEF HiddenInv, BuildInv
<1>2. build' = [build EXCEPT !.left = @ \ {field}, !.classes = classes, !.lost = lost]
  BY <1>1 DEF LookupFails, BuildShape
<1>3. UNCHANGED <<gov, loads>>
  BY DEF LookupFails
<1>4. \A f \in DOMAIN build.classes :
        f # field => f \in DOMAIN classes /\ classes[f] = build.classes[f]
  BY DEF Put
<1>5. build.lost \subseteq lost /\ field \in lost
  OBVIOUS
<1> HIDE DEF classes, lost
<1>6. QED
  BY <1>2, <1>3, <1>4, <1>5, FieldStep

\* HiddenStaysHidden of a context and of the loads until now.
Agreed(since, seq, type, f) ==
  /\ \E i \in DOMAIN since : NamedLevels(since[i], type, f) # {}
  /\ \A i \in DOMAIN seq : NamedLevels(seq[i], type, f) \subseteq Secret

ShownRightly(c, seq, f) ==
  /\ c.builder # "recipe" => ~ Agreed(c.since, seq, c.object[1], f)
  /\ c.builder \in {"v2", "v3"} /\ AllNamed(seq, c.object[1], f) = {}
       => Sensitivity(c.object[1], f) <= 2
  /\ c.builder = "recipe" => Sensitivity(c.object[1], f) # 3

LEMMA ShownHidden ==
  ASSUME \A f \in context'.shown \ context'.lost : ShownRightly(context', loads', f)
  PROVE  HiddenStaysHidden'
<1>1. \A type, f : Unnamed(type, f)' => AllNamed(loads', type, f) = {}
  BY DEF Unnamed, AllNamed
<1>2. \A type, f : KnownSecret(type, f)' => Agreed(context'.since, loads', type, f)
  BY DEF KnownSecret, Agreed
<1>3. SUFFICES ASSUME NEW f \in context'.shown \ context'.lost,
                      NEW type, type = context'.object[1]
               PROVE  /\ context'.builder # "recipe" => ~ KnownSecret(type, f)'
                      /\ context'.builder \in {"v2", "v3"} /\ Unnamed(type, f)'
                           => Sensitivity(type, f) <= 2
                      /\ context'.builder = "recipe" => Sensitivity(type, f) # 3
  BY DEF HiddenStaysHidden, Sensitivity
<1>4. ShownRightly(context', loads', f)
  BY <1>3
<1>5. QED
  BY <1>1, <1>2, <1>3, <1>4 DEF ShownRightly

\* What is shown has a class that does not hide it.
LEMMA FinishStep ==
  ASSUME HiddenInv, NEW registry, NEW readable, FinishBuild(registry, readable)
  PROVE  HiddenStaysHidden'
<1> DEFINE fields == Objects[build.object]
           hidden == RedactObjectContext(fields, build.classes, EmptyTable, "agent_readonly")
           type == build.object[1]
<1>1. /\ BuildShape(build) /\ "" \notin fields /\ Prefix(build.since, loads) /\ LevelsInv
      /\ \A f \in fields : f \in build.lost \/ Classified(build, f)
  BY DEF HiddenInv, BuildInv, FinishBuild
<1>2. /\ context'.builder = build.builder /\ context'.object = build.object
      /\ context'.shown = fields \ hidden /\ context'.lost = build.lost
      /\ context'.since = build.since
  BY DEF FinishBuild
<1>3. UNCHANGED <<gov, loads>>
  BY DEF FinishBuild
<1>4. build.builder \in {"v1", "v2", "v3"}
  BY <1>1 DEF BuildShape
<1>5. ASSUME NEW f \in fields \ hidden, f \notin build.lost
      PROVE  /\ ~ Agreed(build.since, loads, type, f)
             /\ build.builder # "v1" /\ AllNamed(loads, type, f) = {}
                  => Sensitivity(type, f) <= 2
  <2> DEFINE levels == Levels(gov.classification, <<type, f>>)
  <2>1. /\ f \in DOMAIN build.classes
        /\ (\E i \in DOMAIN build.since : NamedLevels(build.since[i], type, f) # {}) =>
             \E l \in levels : l \in Secret => build.classes[f] \in Secret
        /\ build.builder # "v1" /\ levels = {} /\ Sensitivity(type, f) > 2
             => build.classes[f] \in Secret
    BY <1>1, <1>5 DEF Classified
  <2>2. build.classes[f] \notin Secret
    BY <1>5, <2>1 DEF RedactObjectContext, CheckClassification, Secret
  <2>3. levels = AllNamed(loads, type, f)
    <3>1. IsName(f)
      BY <1>1 DEF IsName
    <3>2. QED
      BY <1>1, <3>1 DEF LevelsInv
  <2> HIDE DEF levels, type
  <2>4. ~ Agreed(build.since, loads, type, f)
    <3> SUFFICES ASSUME \E i \in DOMAIN build.since : NamedLevels(build.since[i], type, f) # {},
                        \A i \in DOMAIN loads : NamedLevels(loads[i], type, f) \subseteq Secret
                 PROVE  FALSE
      BY DEF Agreed
    <3>1. PICK l \in levels : l \in Secret => build.classes[f] \in Secret
      BY <2>1
    <3>2. l \in Secret
      BY <2>3 DEF AllNamed
    <3>3. QED
      BY <2>2, <3>1, <3>2
  <2>5. ASSUME build.builder # "v1", AllNamed(loads, type, f) = {}
        PROVE  Sensitivity(type, f) <= 2
    <3>1. ~ (Sensitivity(type, f) > 2)
      BY <2>1, <2>2, <2>3, <2>5
    <3>2. Sensitivity(type, f) \in Nat
      BY SensitivityType
    <3>3. QED
      BY <3>1, <3>2
  <2>6. QED
    BY <2>4, <2>5
<1> HIDE DEF fields, hidden, type
<1>6. type = context'.object[1]
  BY <1>2 DEF type
<1>7. ASSUME NEW f \in context'.shown \ context'.lost
      PROVE  ShownRightly(context', loads', f)
  <2>1. f \in fields \ hidden /\ f \notin build.lost
    BY <1>2, <1>7
  <2>2. /\ ~ Agreed(build.since, loads, type, f)
        /\ build.builder # "v1" /\ AllNamed(loads, type, f) = {} => Sensitivity(type, f) <= 2
    BY <1>5, <2>1
  <2>3. /\ context'.since = build.since /\ loads' = loads
        /\ context'.builder \in {"v1", "v2", "v3"}
        /\ context'.builder = build.builder
    BY <1>2, <1>3, <1>4
  <2>4. QED
    BY <1>6, <2>2, <2>3 DEF ShownRightly
<1>8. QED
  BY <1>7, ShownHidden

\* A recipe gives the properties of sensitivity 3 a class that its role does
\* not see.
LEMMA EnvelopeStep ==
  ASSUME NEW case, NEW name \in DOMAIN Recipes, NEW planned, NEW metrics, NEW registry,
         BuildEnvelope(case, name, planned, metrics, registry)
  PROVE  HiddenStaysHidden'
<1> DEFINE recipe == Recipes[name]
           type == case.object[1]
           root == IF planned THEN {} ELSE RootFields(recipe, case.object)
           fields == root \cup UNION {{"metric_" \o m \o "_value", "metric_" \o m \o "_baseline"}
                                       : m \in metrics}
           hidden == ApplyGovernance(recipe, type, fields)
<1>1. /\ context'.builder = "recipe" /\ context'.object = case.object
      /\ context'.shown = fields \ hidden
  BY DEF BuildEnvelope, RecipeEnvelope
<1>2. recipe.role \in {"viewer", "agent_readonly"}
  BY ContextsAssumption DEF ContextsAssumption
<1> HIDE DEF fields, recipe
<1>3. ASSUME NEW f \in fields, Sensitivity(type, f) = 3  PROVE f \in hidden
  <2> DEFINE classes == [g \in DOMAIN Properties[type] |-> RecipeClass(recipe, Sensitivity(type, g))]
  <2>1. f \in DOMAIN Properties[type]
    BY <1>3 DEF Sensitivity
  <2>2. f \in DOMAIN classes /\ classes[f] = "sensitive"
    BY <1>3, <2>1 DEF RecipeClass
  <2>3. CheckClassification("sensitive", recipe.role)
    BY <1>2 DEF CheckClassification
  <2>4. hidden = RedactObjectContext(fields, classes, EmptyTable, recipe.role)
    BY DEF ApplyGovernance
  <2> HIDE DEF classes, hidden
  <2>5. QED
    BY <2>2, <2>3, <2>4 DEF RedactObjectContext
<1> HIDE DEF hidden
<1>4. \A f \in context'.shown \ context'.lost : ShownRightly(context', loads', f)
  BY <1>1, <1>3 DEF ShownRightly
<1>5. QED
  BY <1>4, ShownHidden

LEMMA PickedBuilder ==
  ASSUME NEW version, NEW wired, NEW flag
  PROVE  PickBuilder(version, wired, flag) \in {"v1", "v2", "v3"}
BY DEF PickBuilder

\* While a build runs the context stays, and so does what it shows.
LEMMA BuildSteps ==
  ASSUME HiddenInv, UNCHANGED <<loads, context>>
  PROVE  HiddenStaysHidden'
BY DEF HiddenInv, HiddenStaysHidden, KnownSecret, Unnamed, Sensitivity

LEMMA HiddenStep ==
  ASSUME HiddenInv, [ContextsNext]_ctxVars
  PROVE  HiddenInv'
<1>1. /\ LevelsInv' /\ Prefix(loads, loads')
      /\ \A path : Levels(gov.classification, path) \subseteq Levels(gov'.classification, path)
  BY LevelsStep DEF HiddenInv
<1>2. CASE UNCHANGED <<build, context>>
  BY <1>1, <1>2, HiddenStays
<1>3. ASSUME NEW case \in ContextCases, NEW builder \in {"v1", "v2", "v3"},
             StartBuild(case, builder)
      PROVE  HiddenInv'
  <2>1. BuildInv'
    BY <1>3, StartStep
  <2>2. HiddenStaysHidden'
    BY <1>3, BuildSteps DEF StartBuild
  <2>3. QED
    BY <1>1, <2>1, <2>2 DEF HiddenInv
<1>4. ASSUME NEW field \in (IF build = Nil THEN {} ELSE build.left),
             NEW marking \in Markings(build, field), ClassifyField(field, marking)
      PROVE  HiddenInv'
  <2>1. build # Nil /\ field \in build.left
    BY <1>4
  <2>2. BuildInv'
    BY <1>4, <2>1, ClassifyStep
  <2>3. HiddenStaysHidden'
    BY <1>4, BuildSteps DEF ClassifyField
  <2>4. QED
    BY <1>1, <2>2, <2>3 DEF HiddenInv
<1>5. ASSUME NEW field \in (IF build = Nil THEN {} ELSE build.left), LookupFails(field)
      PROVE  HiddenInv'
  <2>1. build # Nil /\ field \in build.left
    BY <1>5
  <2>2. BuildInv'
    BY <1>5, <2>1, LookupStep
  <2>3. HiddenStaysHidden'
    BY <1>5, BuildSteps DEF LookupFails
  <2>4. QED
    BY <1>1, <2>2, <2>3 DEF HiddenInv
<1>6. ASSUME NEW registry, NEW readable, FinishBuild(registry, readable)
      PROVE  HiddenInv'
  <2>1. BuildInv'
    BY <1>6 DEF FinishBuild, BuildInv
  <2>2. HiddenStaysHidden'
    BY <1>6, FinishStep
  <2>3. QED
    BY <1>1, <2>1, <2>2 DEF HiddenInv
<1>7. CASE AbortBuild
  <2>1. BuildInv'
    BY <1>7 DEF AbortBuild, BuildInv
  <2>2. HiddenStaysHidden'
    BY <1>7, BuildSteps DEF AbortBuild
  <2>3. QED
    BY <1>1, <2>1, <2>2 DEF HiddenInv
<1>8. ASSUME NEW case, NEW name \in DOMAIN Recipes, NEW planned, NEW metrics, NEW registry,
             BuildEnvelope(case, name, planned, metrics, registry)
      PROVE  HiddenInv'
  <2>1. BuildInv'
    BY <1>8 DEF BuildEnvelope, BuildInv
  <2>2. HiddenStaysHidden'
    BY <1>8, EnvelopeStep
  <2>3. QED
    BY <1>1, <2>1, <2>2 DEF HiddenInv
<1>9. CASE GovNext /\ UNCHANGED buildVars
  BY <1>2, <1>9 DEF buildVars
<1>10. CASE UNCHANGED ctxVars
  BY <1>2, <1>10 DEF ctxVars
<1>11. \A asked, rule : MatchRecipes(asked, rule) \subseteq DOMAIN Recipes
  BY DEF MatchRecipes
<1>12. QED
  BY <1>3, <1>4, <1>5, <1>6, <1>7, <1>8, <1>9, <1>10, <1>11, PickedBuilder DEF ContextsNext

\* A field that the loaded configurations agree to keep from the agent is in
\* no context whose lookup of it succeeded, whatever loads come between the
\* lookups of a build.
THEOREM SecretsHidden == ContextsSpec => []HiddenStaysHidden
<1>1. ContextsInit => HiddenInv
  <2> SUFFICES ASSUME ContextsInit  PROVE HiddenInv
    OBVIOUS
  <2>1. loads = << >> /\ gov.classification = {} /\ build = Nil /\ context = Nil
    BY DEF ContextsInit, GovInit, EmptyTables
  <2>2. LevelsInv
    <3>1. IsSequence(loads) /\ DOMAIN loads = {}
      BY <2>1 DEF IsSequence, Range
    <3>2. QED
      BY <2>1, <3>1 DEF LevelsInv, Levels, AllNamed
  <2>3. QED
    BY <2>1, <2>2 DEF HiddenInv, BuildInv, HiddenStaysHidden
<1>2. HiddenInv => HiddenStaysHidden
  BY DEF HiddenInv
<1>3. QED
  BY <1>1, <1>2, HiddenStep, PTL DEF ContextsSpec

-----------------------------------------------------------------------------
(* Tables that grow.                                                       *)

\* The rows of one table are in the other.
Grown(table, later) ==
  \A k \in DOMAIN table : k \in DOMAIN later /\ later[k] = table[k]

Different(ids) == \A j, k \in DOMAIN ids : ids[j] = ids[k] => j = k

\* What an insertion makes of a table.
HasGot(next, table, ids, new) ==
  /\ Grown(table, next)
  /\ DOMAIN next = DOMAIN table \cup Range(ids)
  /\ \A k \in DOMAIN ids : ids[k] \notin DOMAIN table => next[ids[k]] = new[k]

LEMMA Inserted ==
  ASSUME NEW table, NEW ids, NEW new, Different(ids)
  PROVE  HasGot(InsertFor(table, ids, new), table, ids, new)
<1> DEFINE more == [id \in Range(ids) |->
                      new[CHOOSE k \in DOMAIN ids : ids[k] = id]]
<1>1. InsertFor(table, ids, new) = Over(table, more)
  BY DEF InsertFor
<1>2. \A k \in DOMAIN ids : ids[k] \in DOMAIN more /\ more[ids[k]] = new[k]
  <2>0. \A k \in DOMAIN ids : ids[k] \in Range(ids)
    BY DEF Range
  <2> TAKE k \in DOMAIN ids
  <2>1. (CHOOSE j \in DOMAIN ids : ids[j] = ids[k]) = k
    BY DEF Different
  <2>2. QED
    BY <2>0, <2>1
<1>3. DOMAIN more = Range(ids)
  OBVIOUS
<1> HIDE DEF more
<1>4. QED
  BY <1>1, <1>2, <1>3 DEF Over, Grown, HasGot

LEMMA OverGrows ==
  ASSUME NEW table, NEW others
  PROVE  /\ Grown(table, Over(table, others))
         /\ DOMAIN Over(table, others) = DOMAIN table \cup DOMAIN others
         /\ \A k \in DOMAIN others : k \notin DOMAIN table => Over(table, others)[k] = others[k]
BY DEF Over, Grown

-----------------------------------------------------------------------------
(* One event for each alert.                                               *)

AlertSeverities == {"high", "medium", "low"}

AlertsKeyed(found) ==
  \A id \in DOMAIN found : AlertID(found[id]) = id /\ found[id].severity \in AlertSeverities

RecsFollow(table, source) ==
  /\ DOMAIN table = {<<"rec", k>> : k \in DOMAIN source}
  /\ \A k \in DOMAIN source :
       /\ table[<<"rec", k>>].alert = k /\ table[<<"rec", k>>].risk = source[k].severity
       /\ table[<<"rec", k>>].owner = source[k].owner

TasksFollow(table, source) ==
  /\ DOMAIN table = {<<"task", k>> : k \in DOMAIN source}
  /\ \A k \in DOMAIN source :
       /\ table[<<"task", k>>].alert = k /\ table[<<"task", k>>].priority = source[k].severity
       /\ table[<<"task", k>>].owner = source[k].owner

EventsFollow(table, source) ==
  /\ DOMAIN table = {<<"outbox", <<"task", k>>>> : k \in DOMAIN source}
  /\ \A k \in DOMAIN source :
       /\ table[<<"outbox", <<"task", k>>>>].payload.alert = k
       /\ table[<<"outbox", <<"task", k>>>>].payload.priority = source[k].severity
       /\ table[<<"outbox", <<"task", k>>>>].payload.owner = source[k].owner

FollowInv ==
  /\ AlertsKeyed(alerts) /\ RecsFollow(recs, alerts)
  /\ TasksFollow(tasks, alerts) /\ EventsFollow(events, alerts)

LEMMA Recommended ==
  ASSUME NEW table, NEW source, NEW later,
         Grown(source, later), AlertsKeyed(later), RecsFollow(table, source)
  PROVE  RecsFollow(GenerateRecommendations(table, later), later)
<1> DEFINE ids == [k \in DOMAIN later |-> RecommendationID(k)]
           new == [k \in DOMAIN later |-> Recommendation(later[k])]
           next == InsertFor(table, ids, new)
<1>1. next = GenerateRecommendations(table, later)
  BY DEF GenerateRecommendations
<1>2. DOMAIN ids = DOMAIN later /\ \A k \in DOMAIN later : ids[k] = <<"rec", k>>
  BY DEF RecommendationID
<1>3. Different(ids)
  BY <1>2 DEF Different
<1>4. \A k \in DOMAIN later :
        new[k].alert = k /\ new[k].risk = later[k].severity /\ new[k].owner = later[k].owner
  BY DEF Recommendation, AlertsKeyed
<1> HIDE DEF ids, new
<1>h. HasGot(next, table, ids, new)
  BY <1>3, Inserted
<1>5. /\ Grown(table, next) /\ DOMAIN next = DOMAIN table \cup Range(ids)
      /\ \A k \in DOMAIN ids : ids[k] \notin DOMAIN table => next[ids[k]] = new[k]
  BY <1>h DEF HasGot
<1> HIDE DEF next
<1>6. DOMAIN next = {<<"rec", k>> : k \in DOMAIN later}
  <2>1. Range(ids) = {<<"rec", k>> : k \in DOMAIN later}
    BY ONLY <1>2 DEF Range
  <2>2. DOMAIN table = {<<"rec", k>> : k \in DOMAIN source}
    BY DEF RecsFollow
  <2>3. DOMAIN source \subseteq DOMAIN later
    BY DEF Grown
  <2>4. QED
    BY ONLY <1>5, <2>1, <2>2, <2>3
<1>7. ASSUME NEW k \in DOMAIN later
      PROVE  /\ next[<<"rec", k>>].alert = k /\ next[<<"rec", k>>].risk = later[k].severity
             /\ next[<<"rec", k>>].owner = later[k].owner
  <2>1. CASE <<"rec", k>> \in DOMAIN table
    <3>1. k \in DOMAIN source
      BY <2>1 DEF RecsFollow
    <3>2. later[k] = source[k] /\ next[<<"rec", k>>] = table[<<"rec", k>>]
      BY <1>5, <2>1, <3>1 DEF Grown
    <3>3. QED
      BY <3>1, <3>2 DEF RecsFollow
  <2>2. CASE <<"rec", k>> \notin DOMAIN table
    BY <1>2, <1>4, <1>5, <2>2
  <2>3. QED
    BY <2>1, <2>2
<1>8. QED
  BY <1>1, <1>6, <1>7 DEF RecsFollow

LEMMA TasksGenerated ==
  ASSUME NEW table, NEW source, NEW later, NEW from, Grown(source, later),
         AlertsKeyed(later), RecsFollow(from, later), TasksFollow(table, source)
  PROVE  TasksFollow(GenerateTasks(table, from), later)
<1> DEFINE ids == [k \in DOMAIN from |-> DeriveTaskID(k)]
           new == [k \in DOMAIN from |-> TaskRow(k, from[k])]
           next == InsertFor(table, ids, new)
<1>1. next = GenerateTasks(table, from)
  BY DEF GenerateTasks
<1>2. DOMAIN ids = DOMAIN from /\ \A k \in DOMAIN from : ids[k] = DeriveTaskID(k)
  OBVIOUS
<1>3. \A k \in DOMAIN later : <<"rec", k>> \in DOMAIN ids /\ ids[<<"rec", k>>] = <<"task", k>>
  BY <1>2 DEF DeriveTaskID, RecsFollow
<1>4. \A r \in DOMAIN ids : \E k \in DOMAIN later : r = <<"rec", k>>
  BY <1>2 DEF RecsFollow
<1>5. ASSUME NEW k \in DOMAIN later
      PROVE  /\ new[<<"rec", k>>].alert = k /\ new[<<"rec", k>>].priority = later[k].severity
             /\ new[<<"rec", k>>].owner = later[k].owner
  <2>1. later[k].severity \in AlertSeverities
    BY DEF AlertsKeyed
  <2>2. <<"rec", k>> \in DOMAIN from
    BY DEF RecsFollow
  <2>3. new[<<"rec", k>>] = TaskRow(<<"rec", k>>, from[<<"rec", k>>])
    BY <2>2
  <2>4. /\ from[<<"rec", k>>].alert = k /\ from[<<"rec", k>>].risk = later[k].severity
        /\ from[<<"rec", k>>].owner = later[k].owner
    BY DEF RecsFollow
  <2>5. DerivePriority(from[<<"rec", k>>].risk) = later[k].severity
    BY <2>1, <2>4 DEF DerivePriority, AlertSeverities
  <2>6. QED
    BY <2>3, <2>4, <2>5 DEF TaskRow
<1> HIDE DEF ids, new
<1>6. Different(ids)
  BY <1>3, <1>4 DEF Different
<1>h. HasGot(next, table, ids, new)
  BY <1>6, Inserted
<1>7. /\ Grown(table, next) /\ DOMAIN next = DOMAIN table \cup Range(ids)
      /\ \A k \in DOMAIN ids : ids[k] \notin DOMAIN table => next[ids[k]] = new[k]
  BY <1>h DEF HasGot
<1> HIDE DEF next
<1>8. \A r \in DOMAIN ids : \E k \in DOMAIN later : ids[r] = <<"task", k>>
  BY <1>3, <1>4
<1>8a. Range(ids) = {<<"task", k>> : k \in DOMAIN later}
  BY <1>3, <1>8 DEF Range
<1>9. DOMAIN next = {<<"task", k>> : k \in DOMAIN later}
  BY <1>7, <1>8a DEF TasksFollow, Grown
<1>10. ASSUME NEW k \in DOMAIN later
       PROVE  /\ next[<<"task", k>>].alert = k /\ next[<<"task", k>>].priority = later[k].severity
              /\ next[<<"task", k>>].owner = later[k].owner
  <2>1. CASE <<"task", k>> \in DOMAIN table
    <3>1. k \in DOMAIN source
      BY <2>1 DEF TasksFollow
    <3>2. later[k] = source[k] /\ next[<<"task", k>>] = table[<<"task", k>>]
      BY <1>7, <2>1, <3>1 DEF Grown
    <3>3. QED
      BY <3>1, <3>2 DEF TasksFollow
  <2>2. CASE <<"task", k>> \notin DOMAIN table
    <3>1. next[<<"task", k>>] = new[<<"rec", k>>]
      BY <1>3, <1>7, <2>2
    <3>2. QED
      BY <1>5, <3>1
  <2>3. QED
    BY <2>1, <2>2
<1>11. QED
  BY <1>1, <1>9, <1>10 DEF TasksFollow

LEMMA EventsCreated ==
  ASSUME NEW table, NEW source, NEW later, NEW from, Grown(source, later),
         TasksFollow(from, later), EventsFollow(table, source)
  PROVE  EventsFollow(CreateEvents(table, from), later)
<1> DEFINE ids == [k \in DOMAIN from |-> <<"outbox", k>>]
           new == [k \in DOMAIN from |-> BuildEvent(k, from[k])]
           next == InsertFor(table, ids, new)
<1>1. next = CreateEvents(table, from)
  BY DEF CreateEvents
<1>2. /\ DOMAIN ids = DOMAIN from
      /\ \A k \in DOMAIN from : ids[k] = <<"outbox", k>> /\ new[k].payload = from[k]
  BY DEF BuildEvent
<1> HIDE DEF ids, new
<1>3. Different(ids)
  BY <1>2 DEF Different
<1>h. HasGot(next, table, ids, new)
  BY <1>3, Inserted
<1>4. /\ Grown(table, next) /\ DOMAIN next = DOMAIN table \cup Range(ids)
      /\ \A k \in DOMAIN ids : ids[k] \notin DOMAIN table => next[ids[k]] = new[k]
  BY <1>h DEF HasGot
<1> HIDE DEF next
<1>5. \A k \in DOMAIN later : <<"task", k>> \in DOMAIN from
  BY DEF TasksFollow
<1>6. \A r \in DOMAIN from : \E k \in DOMAIN later : r = <<"task", k>>
  BY DEF TasksFollow
<1>7. Range(ids) = {<<"outbox", <<"task", k>>>> : k \in DOMAIN later}
  BY <1>2, <1>5, <1>6 DEF Range
<1>8. DOMAIN next = {<<"outbox", <<"task", k>>>> : k \in DOMAIN later}
  BY <1>4, <1>7 DEF EventsFollow, Grown
<1>9. ASSUME NEW k \in DOMAIN later
      PROVE  /\ next[<<"outbox", <<"task", k>>>>].payload.alert = k
             /\ next[<<"outbox", <<"task", k>>>>].payload.priority = later[k].severity
             /\ next[<<"outbox", <<"task", k>>>>].payload.owner = later[k].owner
  <2> DEFINE e == <<"outbox", <<"task", k>>>>
  <2>1. CASE e \in DOMAIN table
    <3>1. k \in DOMAIN source
      BY <2>1 DEF EventsFollow
    <3>2. later[k] = source[k] /\ next[e] = table[e]
      BY <1>4, <2>1, <3>1 DEF Grown
    <3>3. QED
      BY <3>1, <3>2 DEF EventsFollow
  <2>2. CASE e \notin DOMAIN table
    <3>1. <<"task", k>> \in DOMAIN ids /\ ids[<<"task", k>>] = e
      BY <1>2, <1>5
    <3>2. next[e] = new[<<"task", k>>]
      BY <1>4, <2>2, <3>1
    <3>3. next[e].payload = from[<<"task", k>>]
      BY <1>2, <1>5, <3>2
    <3>4. QED
      BY <3>3 DEF TasksFollow
  <2>3. QED
    BY <2>1, <2>2
<1>10. QED
  BY <1>1, <1>8, <1>9 DEF EventsFollow

-----------------------------------------------------------------------------
(* What the rules find.                                                    *)

LEMMA RuleTable ==
  \A id \in DOMAIN DefaultDimensionalRules :
    /\ DefaultDimensionalRules[id].severity \in AlertSeverities
    /\ DefaultDimensionalRules[id].type \in DimensionTypes
    /\ DefaultDimensionalRules[id].min \in Nat
BY DEF DefaultDimensionalRules, Rule, AlertSeverities, DimensionTypes

LEMMA GlobalTable ==
  ASSUME NEW data, NEW a \in EvaluateGlobalRules(data)
  PROVE  a.severity \in AlertSeverities /\ a.type = "global" /\ a.impact = 0
<1>1. \A r \in DOMAIN GlobalRules : GlobalRules[r].severity \in AlertSeverities
  BY DEF GlobalRules, AlertSeverities
<1>2. PICK r \in DOMAIN GlobalRules : \E day :
        a = [rule |-> r, day |-> day, type |-> "global", value |-> "global",
             severity |-> GlobalRules[r].severity, owner |-> GlobalRules[r].owner,
             sample |-> 0, impact |-> 0]
  BY DEF EvaluateGlobalRules
<1>3. QED
  BY <1>1, <1>2

\* The row of metric_dimension_daily that an alert comes from.
LEMMA DimensionalTable ==
  ASSUME NEW data, NEW rows, NEW a \in FiredAlerts(data, rows)
  PROVE  /\ a.severity \in AlertSeverities /\ a.type \in DimensionTypes
         /\ \E k \in DOMAIN rows :
              /\ a.day = k[1] /\ a.type = k[2] /\ a.value = k[3]
              /\ rows[k].sample >= DefaultDimensionalRules[a.rule].min
              /\ a.impact = SeverityWeights[a.severity] * rows[k].sample
         /\ a.rule \in DOMAIN DefaultDimensionalRules
<1>1. PICK id \in DOMAIN DefaultDimensionalRules : a \in ExecuteDimensionalRule(data, rows, id)
  BY DEF FiredAlerts
<1> DEFINE rule == DefaultDimensionalRules[id]
<1>2. PICK k \in DOMAIN rows :
        /\ k[2] = rule.type /\ rows[k].sample >= rule.min
        /\ a = [rule |-> id, day |-> k[1], type |-> k[2], value |-> k[3],
                severity |-> rule.severity, owner |-> rule.owner, sample |-> rows[k].sample,
                impact |-> SeverityWeights[rule.severity] * rows[k].sample]
  BY <1>1 DEF ExecuteDimensionalRule
<1>3. /\ a.rule = id /\ a.day = k[1] /\ a.type = k[2] /\ a.value = k[3]
      /\ a.severity = rule.severity
      /\ a.impact = SeverityWeights[rule.severity] * rows[k].sample
  BY <1>2
<1>4. rule.severity \in AlertSeverities /\ rule.type \in DimensionTypes
  BY RuleTable
<1> HIDE DEF rule
<1>5. rule = DefaultDimensionalRules[a.rule]
  BY <1>3 DEF rule
<1>6. QED
  BY <1>2, <1>3, <1>4, <1>5

\* What one run of the steps finds: the rules' alerts and some of the fired.
Finds(kept) ==
  /\ kept \subseteq FiredAlerts(orders, dims')
  /\ alerts' = InsertAlerts(alerts, EvaluateGlobalRules(orders) \cup kept)

LEMMA RunFinds ==
  ASSUME RunSteps
  PROVE  \E kept : Finds(kept)
BY DEF RunSteps, EvaluateDimensionRules, SuppressAlerts, kSubset, Finds

\* An alert of the table is an old one or one that was found.
OldOrFound(later, table, found) ==
  \A id \in DOMAIN later :
    \/ id \in DOMAIN table /\ later[id] = table[id]
    \/ later[id] \in found /\ AlertID(later[id]) = id

LEMMA AlertsGrow ==
  ASSUME NEW table, NEW found
  PROVE  /\ Grown(table, InsertAlerts(table, found))
         /\ OldOrFound(InsertAlerts(table, found), table, found)
<1> DEFINE new == [id \in {AlertID(a) : a \in found} |-> CHOOSE a \in found : AlertID(a) = id]
<1>1. ASSUME NEW id \in DOMAIN new  PROVE new[id] \in found /\ AlertID(new[id]) = id
  <2>1. \E a \in found : AlertID(a) = id
    OBVIOUS
  <2>2. QED
    BY <2>1
<1>2. InsertAlerts(table, found) = Over(table, new)
  BY DEF InsertAlerts
<1> HIDE DEF new
<1>3. QED
  BY <1>1, <1>2, OverGrows DEF Grown, Over, OldOrFound

LEMMA FollowStep ==
  ASSUME FollowInv, [AlertsNext]_alertVars
  PROVE  FollowInv'
<1>1. CASE RunSteps
  <2>1. PICK kept : Finds(kept)
    BY <1>1, RunFinds
  <2> DEFINE found == EvaluateGlobalRules(orders) \cup kept
  <2>2. \A a \in found : a.severity \in AlertSeverities
    BY <2>1, GlobalTable, DimensionalTable DEF Finds
  <2>3. alerts' = InsertAlerts(alerts, found)
    BY <2>1 DEF Finds
  <2> HIDE DEF found
  <2>4. Grown(alerts, alerts') /\ OldOrFound(alerts', alerts, found)
    BY <2>3, AlertsGrow
  <2>5. AlertsKeyed(alerts')
    BY <2>2, <2>4 DEF FollowInv, AlertsKeyed, OldOrFound
  <2>6. RecsFollow(recs', alerts')
    BY <1>1, <2>4, <2>5, Recommended DEF RunSteps, FollowInv
  <2>7. TasksFollow(tasks', alerts')
    BY <1>1, <2>4, <2>5, <2>6, TasksGenerated DEF RunSteps, FollowInv
  <2>8. EventsFollow(events', alerts')
    BY <1>1, <2>4, <2>7, EventsCreated DEF RunSteps, FollowInv
  <2>9. QED
    BY <2>5, <2>6, <2>7, <2>8 DEF FollowInv
<1>2. CASE UNCHANGED <<alerts, recs, tasks, events>>
  BY <1>2 DEF FollowInv
<1>3. \A file : IngestOrders(file) => UNCHANGED <<alerts, recs, tasks, events>>
  BY DEF IngestOrders
<1>4. QED
  BY <1>1, <1>2, <1>3 DEF AlertsNext, alertVars

\* Each alert has exactly one event, with its severity and its owner, after
\* any number of runs and whichever of the fired alerts are kept.
THEOREM EventsFollowed == AlertsSpec => []EventsFollowAlerts
<1>1. AlertsInit => FollowInv
  BY DEF AlertsInit, FollowInv, AlertsKeyed, RecsFollow, TasksFollow, EventsFollow, Empty
<1>2. ASSUME FollowInv  PROVE EventsFollowAlerts
  <2> DEFINE EventOf(k) == <<"outbox", <<"task", k>>>>
  <2>1. /\ \A e \in DOMAIN events : \E k \in DOMAIN alerts : e = EventOf(k)
        /\ \A k \in DOMAIN alerts : EventOf(k) \in DOMAIN events
    BY <1>2 DEF FollowInv, EventsFollow
  <2>2. \A k \in DOMAIN alerts :
          /\ events[EventOf(k)].payload.alert = k
          /\ events[EventOf(k)].payload.priority = alerts[k].severity
          /\ events[EventOf(k)].payload.owner = alerts[k].owner
    BY <1>2 DEF FollowInv, EventsFollow
  <2> HIDE DEF EventOf
  <2>3. QED
    BY <2>1, <2>2 DEF EventsFollowAlerts
<1>3. QED
  BY <1>1, <1>2, FollowStep, PTL DEF AlertsSpec

-----------------------------------------------------------------------------
(* Counting orders.                                                        *)

\* Tables of orders: finitely many, each a whole number of orders.
OrdersOK(data) ==
  /\ IsFiniteSet(DOMAIN data)
  /\ \A i \in DOMAIN data : "n" \in DOMAIN data[i] /\ data[i].n \in Nat

Members(rows) == UNION {{o.id} \X (1 .. o.n) : o \in rows}

LEMMA FiniteMembers ==
  ASSUME NEW rows, IsFiniteSet(rows), \A o \in rows : o.n \in Nat
  PROVE  IsFiniteSet(Members(rows))
<1> DEFINE of == [o \in rows |-> {o.id} \X (1 .. o.n)]
           sets == {{o.id} \X (1 .. o.n) : o \in rows}
<1>1. of \in Surjection(rows, sets)
  BY DEF Surjection
<1>2. IsFiniteSet(sets)
  BY <1>1, FS_Surjection
<1>3. \A s \in sets : IsFiniteSet(s)
  <2> SUFFICES ASSUME NEW o \in rows  PROVE IsFiniteSet({o.id} \X (1 .. o.n))
    OBVIOUS
  <2>1. IsFiniteSet({o.id}) /\ IsFiniteSet(1 .. o.n)
    <3>1. o.n \in Int
      OBVIOUS
    <3>2. IsFiniteSet(1 .. o.n)
      BY <3>1, FS_Interval
    <3>3. QED
      BY <3>2, FS_Singleton
  <2>2. QED
    BY <2>1, FS_Product
<1>4. IsFiniteSet(UNION sets)
  BY <1>2, <1>3, FS_UNION
<1>5. QED
  BY <1>4 DEF Members

LEMMA RowsOnDay ==
  ASSUME NEW data, OrdersOK(data), NEW day
  PROVE  IsFiniteSet(OnDay(data, day)) /\ \A o \in OnDay(data, day) : o.n \in Nat
<1> DEFINE ids == {j \in DOMAIN data : data[j].day = day}
           of == [i \in ids |-> Put(data[i], "id", i)]
<1>1. IsFiniteSet(ids)
  BY FS_Subset DEF OrdersOK
<1>2. OnDay(data, day) = {Put(data[i], "id", i) : i \in ids}
  BY DEF OnDay
<1>3. of \in Surjection(ids, OnDay(data, day))
  BY <1>2 DEF Surjection
<1>4. IsFiniteSet(OnDay(data, day))
  BY <1>1, <1>3, FS_Surjection
<1>5. \A i \in ids : Put(data[i], "id", i).n = data[i].n
  BY DEF Put, OrdersOK
<1>6. QED
  BY <1>2, <1>4, <1>5 DEF OrdersOK

LEMMA OrdersCounted ==
  ASSUME NEW data, OrdersOK(data), NEW day, NEW type, NEW value
  PROVE  /\ IsFiniteSet(Members(WithValue(data, day, type, value)))
         /\ CountOrders(WithValue(data, day, type, value)) \in Nat
<1> DEFINE rows == WithValue(data, day, type, value)
<1>1. rows \subseteq OnDay(data, day)
  BY DEF WithValue
<1>2. IsFiniteSet(rows) /\ \A o \in rows : o.n \in Nat
  BY <1>1, RowsOnDay, FS_Subset
<1> HIDE DEF rows
<1>3. IsFiniteSet(Members(rows))
  BY <1>2, FiniteMembers
<1>4. CountOrders(rows) = Cardinality(Members(rows))
  BY DEF CountOrders, Members
<1>5. QED
  BY <1>3, <1>4, FS_CardinalityType DEF rows

\* What more files say only adds orders.
LEMMA OrdersGrow ==
  ASSUME NEW data, NEW later, OrdersOK(data), OrdersOK(later), Grown(data, later),
         NEW day, NEW type, NEW value
  PROVE  CountOrders(WithValue(data, day, type, value))
           <= CountOrders(WithValue(later, day, type, value))
<1> DEFINE rows == WithValue(data, day, type, value)
           more == WithValue(later, day, type, value)
<1>1. OnDay(data, day) \subseteq OnDay(later, day)
  BY DEF OnDay, Grown
<1>2. rows \subseteq more
  BY <1>1 DEF WithValue
<1>3. IsFiniteSet(Members(more))
  BY OrdersCounted
<1> HIDE DEF rows, more
<1>4. Members(rows) \subseteq Members(more)
  BY <1>2 DEF Members
<1>5. Cardinality(Members(rows)) <= Cardinality(Members(more))
  BY <1>3, <1>4, FS_Subset
<1>6. QED
  BY <1>5 DEF CountOrders, Members, rows, more

\* A row of metric_dimension_daily has no larger sample than there are orders.
SamplesOK(data, rows) ==
  \A k \in DOMAIN rows :
    /\ rows[k].sample \in Nat
    /\ CountOrders(WithValue(data, k[1], k[2], k[3])) >= rows[k].sample

RestsOn(data, a) ==
  a.type # "global" =>
    /\ a.rule \in DOMAIN DefaultDimensionalRules
    /\ CountOrders(WithValue(data, a.day, a.type, a.value)) >= DefaultDimensionalRules[a.rule].min

RestInv ==
  /\ OrdersOK(orders)
  /\ SamplesOK(orders, dims)
  /\ \A id \in DOMAIN alerts : RestsOn(orders, alerts[id])

LEMMA SampleRows ==
  ASSUME NEW data, OrdersOK(data)
  PROVE  SamplesOK(data, MetricDimensionDaily(data))
<1> SUFFICES ASSUME NEW k \in DOMAIN MetricDimensionDaily(data)
             PROVE  /\ MetricDimensionDaily(data)[k].sample \in Nat
                    /\ CountOrders(WithValue(data, k[1], k[2], k[3]))
                         >= MetricDimensionDaily(data)[k].sample
  BY DEF SamplesOK
<1>1. MetricDimensionDaily(data)[k].sample = CountOrders(WithValue(data, k[1], k[2], k[3]))
  BY DEF MetricDimensionDaily, SampleSize
<1>2. CountOrders(WithValue(data, k[1], k[2], k[3])) \in Nat
  BY OrdersCounted
<1>3. QED
  BY <1>1, <1>2

LEMMA RestIngest ==
  ASSUME RestInv, NEW file \in Files, IngestOrders(file)
  PROVE  RestInv'
<1>1. orders' = Over(orders, file) /\ UNCHANGED <<dims, alerts>>
  BY DEF IngestOrders, IngestFile
<1>2. OrdersOK(file)
  BY AlertsAssumption DEF AlertsAssumption, OrdersOK
<1>3. /\ Grown(orders, orders')
      /\ DOMAIN orders' = DOMAIN orders \cup DOMAIN file
      /\ \A k \in DOMAIN file : k \notin DOMAIN orders => orders'[k] = file[k]
  BY <1>1 DEF Over, Grown
<1>4. OrdersOK(orders')
  <2>1. IsFiniteSet(DOMAIN orders')
    BY <1>2, <1>3, FS_Union DEF RestInv, OrdersOK
  <2>2. QED
    BY <1>2, <1>3, <2>1 DEF RestInv, OrdersOK, Grown
<1>5. \A day, type, value :
        /\ CountOrders(WithValue(orders, day, type, value))
             <= CountOrders(WithValue(orders', day, type, value))
        /\ CountOrders(WithValue(orders, day, type, value)) \in Nat
        /\ CountOrders(WithValue(orders', day, type, value)) \in Nat
  BY <1>3, <1>4, OrdersGrow, OrdersCounted DEF RestInv
<1>6. SamplesOK(orders', dims')
  <2> SUFFICES ASSUME NEW k \in DOMAIN dims
               PROVE  /\ dims[k].sample \in Nat
                      /\ CountOrders(WithValue(orders', k[1], k[2], k[3])) >= dims[k].sample
    BY <1>1 DEF SamplesOK
  <2>1. /\ dims[k].sample \in Nat
        /\ CountOrders(WithValue(orders, k[1], k[2], k[3])) >= dims[k].sample
    BY DEF RestInv, SamplesOK
  <2>2. QED
    BY <1>5, <2>1
<1>7. ASSUME NEW id \in DOMAIN alerts'  PROVE RestsOn(orders', alerts'[id])
  <2> DEFINE a == alerts[id]
  <2>1. alerts'[id] = a /\ RestsOn(orders, a)
    BY <1>1, <1>7 DEF RestInv
  <2> HIDE DEF a
  <2>2. ASSUME a.type # "global"
        PROVE  /\ a.rule \in DOMAIN DefaultDimensionalRules
               /\ CountOrders(WithValue(orders', a.day, a.type, a.value))
                    >= DefaultDimensionalRules[a.rule].min
    <3>1. /\ a.rule \in DOMAIN DefaultDimensionalRules
          /\ CountOrders(WithValue(orders, a.day, a.type, a.value))
               >= DefaultDimensionalRules[a.rule].min
      BY <2>1, <2>2 DEF RestsOn
    <3>2. DefaultDimensionalRules[a.rule].min \in Nat
      BY <3>1, RuleTable
    <3>3. QED
      BY <1>5, <3>1, <3>2
  <2>3. QED
    BY <2>1, <2>2 DEF RestsOn
<1>8. QED
  BY <1>4, <1>6, <1>7 DEF RestInv

LEMMA RestRun ==
  ASSUME RestInv, RunSteps
  PROVE  RestInv'
<1>1. orders' = orders /\ dims' = Over(MetricDimensionDaily(orders), dims)
  BY DEF RunSteps
<1>2. OrdersOK(orders)
  BY DEF RestInv
<1>3. SamplesOK(orders, MetricDimensionDaily(orders))
  BY <1>2, SampleRows
<1>4. SamplesOK(orders, dims')
  BY <1>1, <1>3 DEF SamplesOK, Over, RestInv
<1>5. PICK kept : Finds(kept)
  BY RunFinds
<1> DEFINE found == EvaluateGlobalRules(orders) \cup kept
<1>6. ASSUME NEW a \in found  PROVE RestsOn(orders, a)
  <2>1. CASE a \in EvaluateGlobalRules(orders)
    BY <2>1, GlobalTable DEF RestsOn
  <2>2. CASE a \in kept
    <3>1. a \in FiredAlerts(orders, dims')
      BY <1>5, <2>2 DEF Finds
    <3>2. a.rule \in DOMAIN DefaultDimensionalRules
      BY <3>1, DimensionalTable
    <3>3. PICK k \in DOMAIN dims' :
            /\ a.day = k[1] /\ a.type = k[2] /\ a.value = k[3]
            /\ dims'[k].sample >= DefaultDimensionalRules[a.rule].min
      BY <3>1, DimensionalTable
    <3>4. DefaultDimensionalRules[a.rule].min \in Nat
      BY <3>2, RuleTable
    <3>5. /\ dims'[k].sample \in Nat
          /\ CountOrders(WithValue(orders, k[1], k[2], k[3])) >= dims'[k].sample
      BY <1>4 DEF SamplesOK
    <3>6. CountOrders(WithValue(orders, k[1], k[2], k[3])) \in Nat
      BY <1>2, OrdersCounted
    <3>7. CountOrders(WithValue(orders, k[1], k[2], k[3])) >= DefaultDimensionalRules[a.rule].min
      BY <3>3, <3>4, <3>5, <3>6
    <3>8. QED
      BY <3>2, <3>3, <3>7 DEF RestsOn
  <2>3. QED
    BY <1>6, <2>1, <2>2
<1>7. alerts' = InsertAlerts(alerts, found)
  BY <1>5 DEF Finds
<1> HIDE DEF found
<1>8. OldOrFound(alerts', alerts, found)
  BY <1>7, AlertsGrow
<1>9. \A id \in DOMAIN alerts' : RestsOn(orders, alerts'[id])
  BY <1>6, <1>8 DEF OldOrFound, RestInv
<1>10. QED
  BY <1>1, <1>2, <1>4, <1>9 DEF RestInv

\* However many files and runs there were, an alert on a dimension rests on
\* as many different orders as its rule asks for.
THEOREM AlertsRest == AlertsSpec => []AlertsRestOnOrders
<1>1. AlertsInit => RestInv
  BY FS_EmptySet DEF AlertsInit, RestInv, OrdersOK, SamplesOK, Empty
<1>2. RestInv /\ [AlertsNext]_alertVars => RestInv'
  <2>1. CASE UNCHANGED alertVars
    BY <2>1 DEF RestInv, alertVars
  <2>2. QED
    BY <2>1, RestIngest, RestRun DEF AlertsNext
<1>3. RestInv => AlertsRestOnOrders
  BY DEF RestInv, RestsOn, AlertsRestOnOrders
<1>4. QED
  BY <1>1, <1>2, <1>3, PTL DEF AlertsSpec

-----------------------------------------------------------------------------
(* Runs over the same orders.                                              *)

LEMMA FiniteImage ==
  ASSUME NEW S, IsFiniteSet(S), NEW f, f = [x \in S |-> f[x]],
         NEW T, \A t \in T : \E x \in S : f[x] = t
  PROVE  IsFiniteSet(T)
<1> DEFINE image == {f[x] : x \in S}
<1>1. f \in Surjection(S, image)
  BY DEF Surjection
<1>2. IsFiniteSet(image)
  BY <1>1, FS_Surjection
<1>3. T \subseteq image
  OBVIOUS
<1>4. QED
  BY <1>2, <1>3, FS_Subset

LEMMA ThreeFinite ==
  ASSUME NEW a, NEW b, NEW c
  PROVE  IsFiniteSet({a, b, c})
<1>1. IsFiniteSet({a}) /\ IsFiniteSet({b}) /\ IsFiniteSet({c})
  BY FS_Singleton
<1>2. IsFiniteSet({a} \cup {b})
  BY <1>1, FS_Union
<1>3. IsFiniteSet(({a} \cup {b}) \cup {c})
  BY <1>1, <1>2, FS_Union
<1>4. ({a} \cup {b}) \cup {c} = {a, b, c}
  OBVIOUS
<1>5. QED
  BY <1>3, <1>4

LEMMA SixFinite ==
  ASSUME NEW a, NEW b, NEW c, NEW d, NEW e, NEW f
  PROVE  IsFiniteSet({a, b, c, d, e, f})
<1>1. IsFiniteSet({a, b, c}) /\ IsFiniteSet({d, e, f})
  BY ThreeFinite
<1>2. IsFiniteSet({a, b, c} \cup {d, e, f})
  BY <1>1, FS_Union
<1>3. {a, b, c} \cup {d, e, f} = {a, b, c, d, e, f}
  OBVIOUS
<1>4. QED
  BY <1>2, <1>3

LEMMA FiniteNames ==
  /\ IsFiniteSet(DimensionTypes) /\ IsFiniteSet(DimensionMetrics)
  /\ IsFiniteSet(DOMAIN DefaultDimensionalRules) /\ IsFiniteSet(DOMAIN GlobalRules)
<1>1. IsFiniteSet(DimensionTypes)
  BY ThreeFinite DEF DimensionTypes
<1>2. IsFiniteSet(DimensionMetrics)
  BY SixFinite DEF DimensionMetrics
<1>3. IsFiniteSet(DOMAIN DefaultDimensionalRules)
  <2>1. DOMAIN DefaultDimensionalRules =
          {"seller_late_delivery_spike", "seller_review_score_drop", "category_gmv_drop",
           "category_low_review_cluster", "region_cancel_rate_spike",
           "region_late_delivery_spike"}
    BY DEF DefaultDimensionalRules
  <2>2. IsFiniteSet({"seller_late_delivery_spike", "seller_review_score_drop", "category_gmv_drop",
                       "category_low_review_cluster", "region_cancel_rate_spike",
                       "region_late_delivery_spike"})
    BY SixFinite
  <2>3. QED
    BY ONLY <2>1, <2>2
<1>4. IsFiniteSet(DOMAIN GlobalRules)
  <2>1. DOMAIN GlobalRules = {"gmv_drop", "late_delivery_spike", "cancel_rate_spike"}
    BY DEF GlobalRules
  <2>2. IsFiniteSet({"gmv_drop", "late_delivery_spike", "cancel_rate_spike"})
    BY ThreeFinite
  <2>3. QED
    BY ONLY <2>1, <2>2
<1>5. QED
  BY <1>1, <1>2, <1>3, <1>4

LEMMA FiniteMetrics ==
  ASSUME NEW data, OrdersOK(data)
  PROVE  IsFiniteSet(DOMAIN MetricDimensionDaily(data))
<1> DEFINE pairs == (DOMAIN data) \X DimensionTypes
           places == pairs \X DimensionMetrics
           f == [p \in places |-> <<data[p[1][1]].day, p[1][2],
                                   Put(data[p[1][1]], "id", p[1][1])[p[1][2]], p[2]>>]
           keys == DOMAIN MetricDimensionDaily(data)
<1>1. IsFiniteSet(places)
  <2>1. IsFiniteSet(DOMAIN data) /\ IsFiniteSet(DimensionTypes) /\ IsFiniteSet(DimensionMetrics)
    BY FiniteNames DEF OrdersOK
  <2>2. IsFiniteSet(pairs)
    BY <2>1, FS_Product
  <2> HIDE DEF pairs
  <2>3. QED
    BY <2>1, <2>2, FS_Product
<1>2. ASSUME NEW k \in keys  PROVE \E p \in places : f[p] = k
  <2>1. PICK day \in Days(data), type \in DimensionTypes, m \in DimensionMetrics :
          \E value \in Values(data, day, type) : k = <<day, type, value, m>>
    <3> DEFINE groups == UNION {{<<day, type, value>> : value \in Values(data, day, type)}
                                 : day \in Days(data), type \in DimensionTypes}
    <3>1. PICK g \in groups, m \in DimensionMetrics : k = <<g[1], g[2], g[3], m>>
      BY DEF MetricDimensionDaily
    <3>2. PICK day \in Days(data), type \in DimensionTypes :
            g \in {<<day, type, value>> : value \in Values(data, day, type)}
      OBVIOUS
    <3>3. PICK value \in Values(data, day, type) : g = <<day, type, value>>
      BY <3>2
    <3>4. QED
      BY <3>1, <3>3
  <2>1a. PICK value \in Values(data, day, type) : k = <<day, type, value, m>>
    BY <2>1
  <2>2. PICK o \in OnDay(data, day) : value = o[type]
    BY DEF Values
  <2>3. PICK i \in DOMAIN data : data[i].day = day /\ o = Put(data[i], "id", i)
    BY DEF OnDay
  <2>4. <<<<i, type>>, m>> \in places
    <3>1. <<i, type>> \in pairs
      OBVIOUS
    <3> HIDE DEF pairs, f, keys
    <3>2. QED
      BY <3>1
  <2>5. f[<<<<i, type>>, m>>] = <<data[i].day, type, Put(data[i], "id", i)[type], m>>
    BY <2>4
  <2>6. QED
    BY <2>1a, <2>2, <2>3, <2>4, <2>5
<1>3. f = [p \in places |-> f[p]]
  OBVIOUS
<1> HIDE DEF f, places, keys
<1>4. IsFiniteSet(keys)
  BY <1>1, <1>2, <1>3, FiniteImage
<1>5. QED
  BY <1>4 DEF keys

LEMMA FiniteFired ==
  ASSUME NEW data, NEW rows, IsFiniteSet(DOMAIN rows)
  PROVE  IsFiniteSet(FiredAlerts(data, rows))
<1>1. ASSUME NEW id \in DOMAIN DefaultDimensionalRules
      PROVE  IsFiniteSet(ExecuteDimensionalRule(data, rows, id))
  <2> DEFINE rule == DefaultDimensionalRules[id]
             f == [k \in DOMAIN rows |->
                     [rule |-> id, day |-> k[1], type |-> k[2], value |-> k[3],
                      severity |-> rule.severity, owner |-> rule.owner,
                      sample |-> rows[k].sample,
                      impact |-> SeverityWeights[rule.severity] * rows[k].sample]]
  <2>1. \A a \in ExecuteDimensionalRule(data, rows, id) : \E k \in DOMAIN rows : f[k] = a
    BY DEF ExecuteDimensionalRule
  <2>2. f = [k \in DOMAIN rows |-> f[k]]
    OBVIOUS
  <2> HIDE DEF f
  <2>3. QED
    BY <2>1, <2>2, FiniteImage
<1> DEFINE sets == {ExecuteDimensionalRule(data, rows, id) : id \in DOMAIN DefaultDimensionalRules}
           g == [id \in DOMAIN DefaultDimensionalRules |-> ExecuteDimensionalRule(data, rows, id)]
<1>2. \A t \in sets : \E id \in DOMAIN DefaultDimensionalRules : g[id] = t
  OBVIOUS
<1>3. g = [id \in DOMAIN DefaultDimensionalRules |-> g[id]]
  OBVIOUS
<1>4. \A t \in sets : IsFiniteSet(t)
  BY <1>1
<1>5. FiredAlerts(data, rows) = UNION sets
  BY DEF FiredAlerts
<1> HIDE DEF sets, g
<1>6. IsFiniteSet(sets)
  BY <1>2, <1>3, FiniteImage, FiniteNames
<1>7. QED
  BY <1>4, <1>5, <1>6, FS_UNION

LEMMA FiniteGlobal ==
  ASSUME NEW data
  PROVE  IsFiniteSet(EvaluateGlobalRules(data))
<1> DEFINE latest == Max(Days(data))
           f == [r \in DOMAIN GlobalRules |->
                   [rule |-> r, day |-> latest, type |-> "global", value |-> "global",
                    severity |-> GlobalRules[r].severity, owner |-> GlobalRules[r].owner,
                    sample |-> 0, impact |-> 0]]
<1>1. \A a \in EvaluateGlobalRules(data) : \E r \in DOMAIN GlobalRules : f[r] = a
  BY DEF EvaluateGlobalRules
<1>2. f = [r \in DOMAIN GlobalRules |-> f[r]]
  OBVIOUS
<1> HIDE DEF f
<1>3. QED
  BY <1>1, <1>2, FiniteImage, FiniteNames

RankOf(a) == <<a.severity, a.impact>>

At(found, r) == {a \in found : RankOf(a) = r}

Ranked(found) == \A a \in found : a.severity \in AlertSeverities /\ a.impact \in Nat

\* Before orders the ranks: of two alerts one is before the other, or their
\* ranks are equal.
LEMMA RanksOrdered ==
  ASSUME NEW found, Ranked(found), NEW a \in found, NEW b \in found
  PROVE  /\ Before(a, b) \/ Before(b, a) \/ RankOf(a) = RankOf(b)
         /\ Before(a, b) => RankOf(a) # RankOf(b)
BY DEF Ranked, Before, RankOf, AlertSeverities, SeverityOrder

LEMMA SameRankBefore ==
  ASSUME NEW a, NEW b, NEW c, RankOf(b) = RankOf(c)
  PROVE  Before(a, b) = Before(a, c) /\ Before(b, a) = Before(c, a)
<1>1. b.severity = c.severity /\ b.impact = c.impact
  BY DEF RankOf
<1>2. QED
  BY <1>1 DEF Before

\* The best alerts of a finite set: none has more of a rank than another.
LEMMA NoMoreOfRank ==
  ASSUME NEW fired, IsFiniteSet(fired), Ranked(fired),
         NEW one \in SuppressAlerts(fired), NEW other \in SuppressAlerts(fired), NEW r
  PROVE  Cardinality(At(other, r)) <= Cardinality(At(one, r))
<1>1. /\ one \subseteq fired /\ other \subseteq fired
      /\ Cardinality(one) = Cardinality(other)
      /\ \A a \in one, b \in fired \ one : ~ Before(b, a)
      /\ \A a \in other, b \in fired \ other : ~ Before(b, a)
  BY DEF SuppressAlerts, kSubset
<1>2. At(one, r) \subseteq one /\ At(other, r) \subseteq other
  BY DEF At
<1>3. IsFiniteSet(one) /\ IsFiniteSet(other)
  BY <1>1, FS_Subset
<1>4. IsFiniteSet(At(one, r)) /\ IsFiniteSet(At(other, r))
  BY <1>2, <1>3, FS_Subset
<1>5. CASE At(other, r) \subseteq At(one, r)
  BY <1>4, <1>5, FS_Subset
<1>6. CASE ~ (At(other, r) \subseteq At(one, r))
  <2>1. PICK b \in other : RankOf(b) = r /\ b \notin one
    BY <1>6 DEF At
  <2> DEFINE better == {a \in fired : Before(a, b)}
  <2>2. IsFiniteSet(better)
    BY FS_Subset
  <2>3. one \subseteq better \cup At(one, r)
    <3> SUFFICES ASSUME NEW a \in one  PROVE Before(a, b) \/ RankOf(a) = r
      BY <1>1 DEF At
    <3>1. ~ Before(b, a)
      BY <1>1, <2>1
    <3>2. QED
      BY <1>1, <2>1, <3>1, RanksOrdered
  <2>4. better \subseteq other
    BY <1>1, <2>1
  <2>5. better \cap At(other, r) = {}
    <3> SUFFICES ASSUME NEW a \in fired, Before(a, b), RankOf(a) = r  PROVE FALSE
      BY DEF At
    <3>1. RankOf(a) # RankOf(b)
      BY <1>1, <2>1, RanksOrdered
    <3>2. QED
      BY <2>1, <3>1
  <2> HIDE DEF better
  <2>6. Cardinality(better \cup At(other, r)) = Cardinality(better) + Cardinality(At(other, r))
    <3>1. /\ IsFiniteSet(better \cup At(other, r))
          /\ Cardinality(better \cup At(other, r))
               = Cardinality(better) + Cardinality(At(other, r)) - Cardinality(better \cap At(other, r))
      BY <1>4, <2>2, FS_Union
    <3>2. Cardinality(better \cap At(other, r)) = 0
      BY <2>5, FS_EmptySet
    <3>3. Cardinality(better) \in Nat /\ Cardinality(At(other, r)) \in Nat
      BY <1>4, <2>2, FS_CardinalityType
    <3>4. QED
      BY <3>1, <3>2, <3>3
  <2>7. Cardinality(better \cup At(other, r)) <= Cardinality(other)
    <3>1. better \cup At(other, r) \subseteq other
      BY <1>2, <2>4
    <3>2. QED
      BY <1>3, <3>1, FS_Subset
  <2>8. Cardinality(one) <= Cardinality(better) + Cardinality(At(one, r))
    <3>1. /\ IsFiniteSet(better \cup At(one, r))
          /\ Cardinality(better \cup At(one, r))
               = Cardinality(better) + Cardinality(At(one, r)) - Cardinality(better \cap At(one, r))
      BY <1>4, <2>2, FS_Union
    <3>2. Cardinality(one) <= Cardinality(better \cup At(one, r))
      BY <2>3, <3>1, FS_Subset
    <3>3. IsFiniteSet(better \cap At(one, r))
      BY <2>2, FS_Intersection
    <3>4. /\ Cardinality(better \cap At(one, r)) \in Nat /\ Cardinality(better) \in Nat
          /\ Cardinality(At(one, r)) \in Nat /\ Cardinality(one) \in Nat
      BY <1>3, <1>4, <2>2, <3>3, FS_CardinalityType
    <3>5. QED
      BY <3>1, <3>2, <3>4
  <2>9. /\ Cardinality(better) \in Nat /\ Cardinality(At(one, r)) \in Nat
        /\ Cardinality(At(other, r)) \in Nat
    BY <1>4, <2>2, FS_CardinalityType
  <2>10. Cardinality(one) = Cardinality(other) /\ Cardinality(one) \in Nat
    BY <1>1, <1>3, FS_CardinalityType
  <2>11. Cardinality(better) + Cardinality(At(other, r)) <= Cardinality(other)
    BY <2>6, <2>7
  <2>12. QED
    BY <2>8, <2>9, <2>10, <2>11
<1>7. QED
  BY <1>5, <1>6

LEMMA FiredRanked ==
  ASSUME NEW data, NEW rows, SamplesOK(data, rows)
  PROVE  Ranked(FiredAlerts(data, rows))
<1> SUFFICES ASSUME NEW a \in FiredAlerts(data, rows)
             PROVE  a.severity \in AlertSeverities /\ a.impact \in Nat
  BY DEF Ranked
<1>1. PICK k \in DOMAIN rows : a.impact = SeverityWeights[a.severity] * rows[k].sample
  BY DimensionalTable
<1>2. a.severity \in AlertSeverities
  BY DimensionalTable
<1>3. SeverityWeights[a.severity] \in {1, 2, 3}
  BY <1>2 DEF AlertSeverities, SeverityWeights
<1>4. rows[k].sample \in Nat
  BY DEF SamplesOK
<1>5. QED
  BY <1>1, <1>2, <1>3, <1>4

\* Adding the same alerts of another kind leaves the ranks equal.
LEMMA SameRanks ==
  ASSUME NEW data, NEW rows, OrdersOK(data), SamplesOK(data, rows), IsFiniteSet(DOMAIN rows),
         NEW one \in EvaluateDimensionRules(data, rows),
         NEW other \in EvaluateDimensionRules(data, rows)
  PROVE  Ranks(EvaluateGlobalRules(data) \cup one) = Ranks(EvaluateGlobalRules(data) \cup other)
<1> DEFINE fired == FiredAlerts(data, rows)
           global == EvaluateGlobalRules(data)
<1>1. IsFiniteSet(fired) /\ Ranked(fired) /\ IsFiniteSet(global)
  BY FiniteFired, FiredRanked, FiniteGlobal
<1>2. one \in SuppressAlerts(fired) /\ other \in SuppressAlerts(fired)
  BY DEF EvaluateDimensionRules
<1>3. one \subseteq fired /\ other \subseteq fired
  BY <1>2 DEF SuppressAlerts, kSubset
<1>4. global \cap fired = {}
  <2> SUFFICES ASSUME NEW a \in global, a \in fired  PROVE FALSE
    OBVIOUS
  <2>1. a.type = "global"
    BY GlobalTable
  <2>2. a.type \in DimensionTypes
    BY DimensionalTable
  <2>3. QED
    BY <2>1, <2>2 DEF DimensionTypes
<1> HIDE DEF fired, global
<1>5. ASSUME NEW kept, kept \subseteq fired, NEW r
      PROVE  /\ IsFiniteSet(At(global \cup kept, r))
             /\ Cardinality(At(global \cup kept, r)) = Cardinality(At(global, r)) + Cardinality(At(kept, r))
             /\ Cardinality(At(global, r)) \in Nat
             /\ Cardinality(At(kept, r)) \in Nat
  <2>1. At(global \cup kept, r) = At(global, r) \cup At(kept, r)
    BY DEF At
  <2>2. IsFiniteSet(kept)
    BY <1>1, <1>5, FS_Subset
  <2>3. IsFiniteSet(At(global, r)) /\ IsFiniteSet(At(kept, r))
    <3>1. At(global, r) \subseteq global /\ At(kept, r) \subseteq kept
      BY DEF At
    <3>2. QED
      BY <1>1, <2>2, <3>1, FS_Subset
  <2>4. At(global, r) \cap At(kept, r) = {}
    BY <1>4, <1>5 DEF At
  <2>5. /\ IsFiniteSet(At(global, r) \cup At(kept, r))
        /\ Cardinality(At(global, r) \cup At(kept, r))
             = Cardinality(At(global, r)) + Cardinality(At(kept, r))
                 - Cardinality(At(global, r) \cap At(kept, r))
    BY <2>3, FS_Union
  <2>6. Cardinality(At(global, r) \cap At(kept, r)) = 0
    BY <2>4, FS_EmptySet
  <2>7. Cardinality(At(global, r)) \in Nat /\ Cardinality(At(kept, r)) \in Nat
    BY <2>3, FS_CardinalityType
  <2>8. Cardinality(At(global, r) \cup At(kept, r))
          = Cardinality(At(global, r)) + Cardinality(At(kept, r))
    BY ONLY <2>5, <2>6, <2>7
  <2>9. QED
    BY ONLY <2>1, <2>5, <2>7, <2>8
<1>6. ASSUME NEW r
      PROVE  Cardinality(At(global \cup one, r)) = Cardinality(At(global \cup other, r))
  <2>1. /\ Cardinality(At(one, r)) <= Cardinality(At(other, r))
        /\ Cardinality(At(other, r)) <= Cardinality(At(one, r))
    BY <1>1, <1>2, NoMoreOfRank
  <2>2. Cardinality(At(one, r)) = Cardinality(At(other, r))
    <3>1. Cardinality(At(one, r)) \in Nat /\ Cardinality(At(other, r)) \in Nat
      BY <1>3, <1>5
    <3>2. QED
      BY ONLY <2>1, <3>1
  <2>3. QED
    BY <1>3, <1>5, <2>2
<1>7. \A r : At(global \cup one, r) = {} <=> At(global \cup other, r) = {}
  BY <1>3, <1>5, <1>6, FS_EmptySet
<1>8. ASSUME NEW found  PROVE Ranks(found) = [r \in {RankOf(a) : a \in found} |-> Cardinality(At(found, r))]
  BY DEF Ranks, RankOf, At
<1>9. {RankOf(a) : a \in global \cup one} = {RankOf(a) : a \in global \cup other}
  BY <1>7 DEF At
<1>10. QED
  BY <1>6, <1>8, <1>9 DEF global

\* What a run has kept was found from the orders and the rows as they are.
Chosen(data, rows, found) ==
  \E kept \in EvaluateDimensionRules(data, rows) : found = EvaluateGlobalRules(data) \cup kept

Settled(data, rows) ==
  \A k \in DOMAIN MetricDimensionDaily(data) :
    k \in DOMAIN rows /\ rows[k] = MetricDimensionDaily(data)[k]

RerunInv ==
  /\ RestInv
  /\ IsFiniteSet(DOMAIN dims)
  /\ dims = [k \in DOMAIN dims |-> dims[k]]
  /\ last \in [file : {last.file}, kept : {last.kept}]
  /\ last.kept # {} => Settled(orders, dims) /\ Chosen(orders, dims, last.kept)

LEMMA RerunStep ==
  ASSUME RerunInv, [AlertsNext]_alertVars
  PROVE  RerunInv' /\ [RerunAgrees]_alertVars
<1>1. CASE UNCHANGED alertVars
  <2>1. RerunInv'
    BY <1>1 DEF RerunInv, RestInv, alertVars
  <2>2. QED
    BY <1>1, <2>1
<1>2. ASSUME NEW file \in Files, IngestOrders(file)  PROVE RerunInv' /\ [RerunAgrees]_alertVars
  <2>1. RestInv'
    BY <1>2, RestIngest DEF RerunInv
  <2>2. last' = [file |-> file, kept |-> {}] /\ dims' = dims
    BY <1>2 DEF IngestOrders
  <2>3. last'.kept = {}
    BY <2>2
  <2>4. QED
    BY <2>1, <2>2, <2>3 DEF RerunInv, RerunAgrees
<1>3. CASE RunSteps
  <2>1. RestInv'
    BY <1>3, RestRun DEF RerunInv
  <2>2. orders' = orders /\ dims' = Over(MetricDimensionDaily(orders), dims)
    BY <1>3 DEF RunSteps
  <2>3. IsFiniteSet(DOMAIN dims')
    <3>1. DOMAIN dims' = DOMAIN MetricDimensionDaily(orders) \cup DOMAIN dims
      BY <2>2 DEF Over
    <3>2. IsFiniteSet(DOMAIN MetricDimensionDaily(orders))
      BY FiniteMetrics DEF RerunInv, RestInv
    <3>3. IsFiniteSet(DOMAIN dims)
      BY DEF RerunInv
    <3>4. IsFiniteSet(DOMAIN MetricDimensionDaily(orders) \cup DOMAIN dims)
      BY <3>2, <3>3, FS_Union
    <3>5. QED
      BY ONLY <3>1, <3>4
  <2>4. dims' = [k \in DOMAIN dims' |-> dims'[k]]
    BY <2>2 DEF Over
  <2>5. Settled(orders', dims')
    BY <2>2 DEF Settled, Over
  <2>6. PICK found : /\ Chosen(orders, dims', found)
                     /\ last' = [last EXCEPT !.kept = found]
    BY <1>3 DEF RunSteps, Chosen
  <2>7. last'.kept = found /\ last' \in [file : {last'.file}, kept : {last'.kept}]
    BY <2>6 DEF RerunInv
  <2>8. RerunInv'
    BY <2>1, <2>2, <2>3, <2>4, <2>5, <2>6, <2>7 DEF RerunInv
  <2>9. RerunAgrees
    <3> SUFFICES ASSUME last.kept # {}  PROVE Ranks(last'.kept) = Ranks(last.kept)
      BY DEF RerunAgrees
    <3>1. Settled(orders, dims) /\ Chosen(orders, dims, last.kept)
      BY DEF RerunInv
    <3>2. dims' = dims
      BY <2>2, <3>1 DEF Settled, Over, RerunInv
    <3>3. Chosen(orders, dims, found)
      BY <2>6, <3>2
    <3>4. PICK one \in EvaluateDimensionRules(orders, dims) :
            last.kept = EvaluateGlobalRules(orders) \cup one
      BY <3>1 DEF Chosen
    <3>5. PICK other \in EvaluateDimensionRules(orders, dims) :
            found = EvaluateGlobalRules(orders) \cup other
      BY <3>3 DEF Chosen
    <3>6. OrdersOK(orders) /\ SamplesOK(orders, dims) /\ IsFiniteSet(DOMAIN dims)
      BY DEF RerunInv, RestInv
    <3>7. Ranks(EvaluateGlobalRules(orders) \cup one) = Ranks(EvaluateGlobalRules(orders) \cup other)
      BY <3>6, SameRanks
    <3>8. QED
      BY <2>7, <3>4, <3>5, <3>7
  <2>10. QED
    BY <2>8, <2>9
<1>4. QED
  BY <1>1, <1>2, <1>3 DEF AlertsNext

\* A run over the orders of the run before keeps alerts of the same ranks,
\* as many of each, whichever of several equal ones it keeps.
THEOREM RerunsGiveTheSame == AlertsSpec => RerunsAgree
<1>1. AlertsInit => RerunInv
  BY FS_EmptySet DEF AlertsInit, RerunInv, RestInv, OrdersOK, SamplesOK, Empty
<1>2. QED
  BY <1>1, RerunStep, PTL DEF AlertsSpec, RerunsAgree

-----------------------------------------------------------------------------
(* What the variables hold.                                                *)

Row == [id : STRING, fields : SUBSET STRING, rev : Nat, by : Syncs \cup {Nil}, again : BOOLEAN]

SyncShape(s) ==
  s \in [pc : {s.pc}, kind : {s.kind}, status : {s.status}, todo : {s.todo}, table : {s.table},
         at : {s.at}, try : {s.try}, lost : BOOLEAN, queue : {s.queue}, fresh : {s.fresh},
         lists : {s.lists}, pulled : {s.pulled}, report : {s.report}]

\* Tables whose file can be synchronised.
Filed(f, t) == t \in DOMAIN f /\ f[t] # Nil

RemoteOK(r) ==
  /\ r = [t \in DOMAIN r |-> r[t]]
  /\ \A t \in DOMAIN r : r[t] \in Seq(Row)
  /\ \A t \in DOMAIN TableIds : HasId(t) => t \in DOMAIN r

-----------------------------------------------------------------------------
(* The inductive invariant.  f, r and s stand for files, remote and the    *)
(* record of the call p.                                                   *)

\* The record has a key, and a row has the same one.
SameKey(t, row, record) == Key(t, record) # Nil /\ Key(t, row) = Key(t, record)

\* A complete list did not have the record.
Unlisted(r, t, list, record) ==
  list.cut \/ \A i \in DOMAIN r[t] : i <= list.upto => ~ SameKey(t, r[t][i], record)

\* Where a call is, and what it takes with it.
Placed(f, r, s) ==
  /\ SyncShape(s)
  /\ s.pc = "idle" => s.lists = << >>
  /\ s.pc \in {"next", "list", "upsert"} => s.kind \in {"sync", "import"}
  /\ s.pc \in {"list", "upsert"} => s.table \in s.todo /\ HasId(s.table)
  /\ s.pc = "list" => s.at \in Nat
  /\ s.pc = "list" /\ s.kind # "import" => Filed(f, s.table)
  /\ \A t \in DOMAIN s.lists : t \in DOMAIN r /\ s.lists[t].upto \in 0 .. Len(r[t])

\* The records that are to be created were not in the list.
Fresh(f, r, s) ==
  s.pc = "upsert" =>
    /\ Filed(f, s.table)
    /\ s.table \in DOMAIN s.lists
    /\ s.fresh \subseteq DOMAIN f[s.table]
    /\ s.queue \subseteq DOMAIN f[s.table]
    /\ \A k \in s.fresh : Unlisted(r, s.table, s.lists[s.table], f[s.table][k])

\* A row comes from a record that is done, or from one of the chunk whose
\* answer was lost.
From(f, t, s, row) ==
  \E k \in DOMAIN f[t] : /\ f[t][k].id = row.id
                         /\ k \in s.fresh => s.lost /\ k \in NextChunk(s.fresh)

\* The rows a call has made.
Made(f, r, p, s) ==
  \A t \in DOMAIN r : \A j \in DOMAIN r[t] : r[t][j].by = p =>
    /\ t \in DOMAIN s.lists
    /\ r[t][j].id # Nil
    /\ Unlisted(r, t, s.lists[t], r[t][j])
    /\ t \in s.todo => s.pc = "upsert" /\ s.table = t /\ From(f, t, s, r[t][j])

\* Two rows a call has made of one key.
Pairs(f, r, p) ==
  \A t \in DOMAIN r : \A i, j \in DOMAIN r[t] :
    i < j /\ r[t][i].by = p /\ r[t][j].by = p /\ r[t][i].id = r[t][j].id
      => r[t][j].again \/ Twice(f[t], r[t][j].id)

CallOK(f, r, p, s) == Placed(f, r, s) /\ Fresh(f, r, s) /\ Made(f, r, p, s) /\ Pairs(f, r, p)

FeishuInv ==
  /\ files \in CsvFiles
  /\ RemoteOK(remote)
  /\ syncs = [p \in Syncs |-> syncs[p]]
  /\ \A p \in Syncs : CallOK(files, remote, p, syncs[p])

-----------------------------------------------------------------------------
\* A step that makes no row, as far as the rows are concerned.
SameRow(a, b) == a.id = b.id /\ a.fields = b.fields /\ a.by = b.by /\ a.again = b.again

SameRows(r, q) ==
  /\ DOMAIN q = DOMAIN r
  /\ \A t \in DOMAIN r : Len(q[t]) = Len(r[t]) /\ \A i \in DOMAIN r[t] : SameRow(r[t][i], q[t][i])

\* One table gets rows of one call.
Grows(r, q, u, p) ==
  /\ DOMAIN q = DOMAIN r
  /\ \A t \in DOMAIN r : /\ t # u => q[t] = r[t]
                         /\ Len(r[t]) <= Len(q[t])
                         /\ \A i \in DOMAIN r[t] : q[t][i] = r[t][i]
                         /\ \A i \in DOMAIN q[t] \ DOMAIN r[t] : q[t][i].by = p

\* A call's invariant does not depend on what others do to the rows.
LEMMA SameRowsKeep ==
  ASSUME NEW f, NEW r, RemoteOK(r), NEW q, RemoteOK(q), SameRows(r, q), NEW p, NEW s,
         CallOK(f, r, p, s)
  PROVE  CallOK(f, q, p, s)
<1>1. \A t \in DOMAIN r : DOMAIN q[t] = DOMAIN r[t] /\ DOMAIN r[t] = 1 .. Len(r[t])
  <2> TAKE t \in DOMAIN r
  <2>1. r[t] \in Seq(Row) /\ q[t] \in Seq(Row) /\ Len(q[t]) = Len(r[t])
    BY DEF RemoteOK, SameRows
  <2>2. QED
    BY <2>1
<1>2. \A t \in DOMAIN r : \A i \in DOMAIN r[t] : \A record :
        SameKey(t, q[t][i], record) <=> SameKey(t, r[t][i], record)
  BY DEF SameRows, SameRow, SameKey, Key
<1>3. \A t \in DOMAIN r : \A i \in DOMAIN r[t] : \A row :
        SameKey(t, row, q[t][i]) <=> SameKey(t, row, r[t][i])
  BY DEF SameRows, SameRow, SameKey, Key
<1>4. \A t \in DOMAIN r : \A list, record :
        Unlisted(r, t, list, record) => Unlisted(q, t, list, record)
  BY <1>1, <1>2 DEF Unlisted
<1>5. Placed(f, q, s)
  BY DEF CallOK, Placed, SameRows
<1>6. Fresh(f, q, s)
  BY <1>4 DEF CallOK, Placed, Fresh
<1>7. Made(f, q, p, s)
  <2> SUFFICES ASSUME NEW t \in DOMAIN q, NEW j \in DOMAIN q[t], q[t][j].by = p
               PROVE  /\ t \in DOMAIN s.lists
                      /\ q[t][j].id # Nil
                      /\ Unlisted(q, t, s.lists[t], q[t][j])
                      /\ t \in s.todo => s.pc = "upsert" /\ s.table = t /\ From(f, t, s, q[t][j])
    BY DEF Made
  <2>1. t \in DOMAIN r /\ j \in DOMAIN r[t] /\ SameRow(r[t][j], q[t][j])
    BY <1>1 DEF SameRows
  <2>2. r[t][j].by = p /\ r[t][j].id = q[t][j].id
    BY <2>1 DEF SameRow
  <2>3. /\ t \in DOMAIN s.lists
        /\ r[t][j].id # Nil
        /\ Unlisted(r, t, s.lists[t], r[t][j])
        /\ t \in s.todo => s.pc = "upsert" /\ s.table = t /\ From(f, t, s, r[t][j])
    BY <2>1, <2>2 DEF CallOK, Made
  <2>4. Unlisted(q, t, s.lists[t], q[t][j])
    BY <1>1, <1>2, <1>3, <2>1, <2>3 DEF Unlisted
  <2>5. QED
    BY <2>2, <2>3, <2>4 DEF From
<1>8. Pairs(f, q, p)
  BY <1>1 DEF CallOK, Pairs, SameRows, SameRow
<1>9. QED
  BY <1>5, <1>6, <1>7, <1>8 DEF CallOK

LEMMA OthersKeep ==
  ASSUME NEW f, NEW r, RemoteOK(r), NEW q, RemoteOK(q), NEW u, NEW o, Grows(r, q, u, o),
         NEW p, o # p, NEW s, CallOK(f, r, p, s)
  PROVE  CallOK(f, q, p, s)
<1>1. \A t \in DOMAIN r : /\ DOMAIN r[t] = 1 .. Len(r[t]) /\ DOMAIN q[t] = 1 .. Len(q[t])
                          /\ Len(r[t]) \in Nat /\ Len(q[t]) \in Nat
                          /\ Len(r[t]) <= Len(q[t])
  <2> TAKE t \in DOMAIN r
  <2>1. r[t] \in Seq(Row) /\ q[t] \in Seq(Row) /\ Len(r[t]) <= Len(q[t])
    BY DEF RemoteOK, Grows
  <2>2. QED
    BY <2>1
<1>2. \A t \in DOMAIN r : \A j \in DOMAIN q[t] : q[t][j].by = p =>
        j \in DOMAIN r[t] /\ q[t][j] = r[t][j]
  BY DEF Grows
<1>3. \A t \in DOMAIN s.lists : /\ t \in DOMAIN r /\ s.lists[t].upto \in 0 .. Len(r[t])
  BY DEF CallOK, Placed
<1>4. \A t \in DOMAIN s.lists : \A record :
        Unlisted(r, t, s.lists[t], record) => Unlisted(q, t, s.lists[t], record)
  <2> SUFFICES ASSUME NEW t \in DOMAIN s.lists, NEW record, Unlisted(r, t, s.lists[t], record),
                      ~ s.lists[t].cut, NEW i \in DOMAIN q[t], i <= s.lists[t].upto
               PROVE  ~ SameKey(t, q[t][i], record)
    BY DEF Unlisted
  <2>1. t \in DOMAIN r /\ i \in DOMAIN r[t]
    BY <1>1, <1>3 DEF Grows
  <2>2. q[t][i] = r[t][i]
    BY <2>1 DEF Grows
  <2>3. QED
    BY <2>1, <2>2 DEF Unlisted
<1>5. Placed(f, q, s)
  <2>1. \A t \in DOMAIN s.lists : t \in DOMAIN q /\ s.lists[t].upto \in 0 .. Len(q[t])
    BY <1>1, <1>3 DEF Grows
  <2>2. QED
    BY <2>1 DEF CallOK, Placed
<1>6. Fresh(f, q, s)
  BY <1>4 DEF CallOK, Placed, Fresh
<1>7. DOMAIN q = DOMAIN r /\ Made(f, r, p, s) /\ Pairs(f, r, p)
  BY DEF CallOK, Grows
<1>8. Made(f, q, p, s)
  <2> SUFFICES ASSUME NEW t \in DOMAIN q, NEW j \in DOMAIN q[t], q[t][j].by = p
               PROVE  /\ t \in DOMAIN s.lists
                      /\ q[t][j].id # Nil
                      /\ Unlisted(q, t, s.lists[t], q[t][j])
                      /\ t \in s.todo => s.pc = "upsert" /\ s.table = t /\ From(f, t, s, q[t][j])
    BY DEF Made
  <2>1. t \in DOMAIN r /\ j \in DOMAIN r[t] /\ q[t][j] = r[t][j]
    BY ONLY <1>2, <1>7, t \in DOMAIN q, j \in DOMAIN q[t], q[t][j].by = p
  <2>2. /\ t \in DOMAIN s.lists
        /\ r[t][j].id # Nil
        /\ Unlisted(r, t, s.lists[t], r[t][j])
        /\ t \in s.todo => s.pc = "upsert" /\ s.table = t /\ From(f, t, s, r[t][j])
    BY ONLY <1>7, <2>1, q[t][j].by = p DEF Made
  <2>3. Unlisted(q, t, s.lists[t], r[t][j])
    BY ONLY <1>4, <2>2
  <2>4. QED
    BY ONLY <2>1, <2>2, <2>3
<1>9. Pairs(f, q, p)
  <2> SUFFICES ASSUME NEW t \in DOMAIN q, NEW i \in DOMAIN q[t], NEW j \in DOMAIN q[t],
                      i < j, q[t][i].by = p, q[t][j].by = p, q[t][i].id = q[t][j].id
               PROVE  q[t][j].again \/ Twice(f[t], q[t][j].id)
    BY DEF Pairs
  <2>1. t \in DOMAIN r /\ i \in DOMAIN r[t] /\ j \in DOMAIN r[t]
        /\ q[t][i] = r[t][i] /\ q[t][j] = r[t][j]
    BY ONLY <1>2, <1>7, t \in DOMAIN q, i \in DOMAIN q[t], j \in DOMAIN q[t],
            q[t][i].by = p, q[t][j].by = p
  <2>2. r[t][j].again \/ Twice(f[t], r[t][j].id)
    BY ONLY <1>7, <2>1, i < j, q[t][i].by = p, q[t][j].by = p, q[t][i].id = q[t][j].id DEF Pairs
  <2>3. QED
    BY ONLY <2>1, <2>2
<1>10. QED
  BY ONLY <1>5, <1>6, <1>8, <1>9 DEF CallOK

-----------------------------------------------------------------------------
(* What a call does to its own record, while the rows stay.                *)

\* Of a step of p only the record of p and the rows matter.
Changes(p) ==
  /\ syncs' = [q \in Syncs |-> syncs'[q]]
  /\ \A q \in Syncs \ {p} : syncs'[q] = syncs[q]

LEMMA Moves ==
  ASSUME FeishuInv, NEW p \in Syncs, Changes(p), UNCHANGED files, RemoteOK(remote'),
         \A q \in Syncs \ {p} : CallOK(files, remote', q, syncs[q]),
         CallOK(files, remote', p, syncs'[p])
  PROVE  FeishuInv'
<1>1. \A q \in Syncs : CallOK(files, remote', q, syncs'[q])
  BY DEF Changes
<1>2. (\A q \in Syncs : CallOK(files, remote, q, syncs[q]))'
  BY <1>1
<1>3. QED
  BY <1>2 DEF Changes, FeishuInv

LEMMA QuietStep ==
  ASSUME FeishuInv, NEW p \in Syncs, Changes(p), UNCHANGED <<files, remote>>,
         CallOK(files, remote, p, syncs'[p])
  PROVE  FeishuInv'
BY Moves DEF FeishuInv

\* A call that has not begun has made nothing.
LEMMA Begins ==
  ASSUME NEW f, NEW r, NEW p, NEW s, CallOK(f, r, p, s), s.pc = "idle",
         NEW z, SyncShape(z), z.lists = << >>, z.pc \in {"next", "done"},
         z.kind \in {"sync", "import"} \/ z.pc = "done"
  PROVE  CallOK(f, r, p, z)
<1>1. DOMAIN s.lists = {} /\ DOMAIN z.lists = {}
  BY DEF CallOK, Placed
<1>2. \A t \in DOMAIN r : \A j \in DOMAIN r[t] : r[t][j].by # p
  BY <1>1 DEF CallOK, Made
<1>3. Placed(f, r, z) /\ Fresh(f, r, z) /\ Made(f, r, p, z) /\ Pairs(f, r, p)
  BY <1>1, <1>2 DEF Placed, Fresh, Made, Pairs
<1>4. QED
  BY <1>3 DEF CallOK

\* The tables that are done stay so.
LEMMA MovesOn ==
  ASSUME NEW f, NEW r, NEW p, NEW s, CallOK(f, r, p, s),
         NEW z, SyncShape(z), z.lists = s.lists, z.todo \subseteq s.todo,
         z.pc \in {"next", "list", "done"},
         z.pc # "done" => z.kind \in {"sync", "import"},
         z.pc = "list" => /\ z.table \in z.todo /\ HasId(z.table) /\ z.at \in Nat
                          /\ z.kind # "import" => Filed(f, z.table),
         s.pc = "upsert" => s.table \notin z.todo
  PROVE  CallOK(f, r, p, z)
<1>1. Placed(f, r, z)
  BY DEF CallOK, Placed
<1>2. Fresh(f, r, z)
  BY DEF Fresh
<1>3. Made(f, r, p, z)
  BY DEF CallOK, Made
<1>4. QED
  BY <1>1, <1>2, <1>3 DEF CallOK

\* The list is complete.
LEMMA Splits ==
  ASSUME NEW f, NEW r, NEW p, NEW s, CallOK(f, r, p, s), s.pc = "list", Filed(f, s.table),
         NEW z, SyncShape(z), z.pc = "upsert", z.table = s.table, z.todo = s.todo,
         z.kind = s.kind, s.table \in DOMAIN r,
         NEW list, z.lists = Put(s.lists, s.table, list), list.upto \in 0 .. Len(r[s.table]),
         z.fresh \subseteq DOMAIN f[s.table], z.queue \subseteq DOMAIN f[s.table],
         \A k \in z.fresh : Unlisted(r, s.table, list, f[s.table][k])
  PROVE  CallOK(f, r, p, z)
<1>1. \A t \in DOMAIN s.lists : t # s.table => t \in DOMAIN z.lists /\ z.lists[t] = s.lists[t]
  BY DEF Put
<1>2. s.table \in DOMAIN z.lists /\ z.lists[s.table] = list
  BY DEF Put
<1>3. \A t \in DOMAIN z.lists : t \in DOMAIN s.lists \/ t = s.table
  BY DEF Put
<1>4. \A j \in DOMAIN r[s.table] : r[s.table][j].by # p
  BY DEF CallOK, Made, Placed
<1>5. Placed(f, r, z)
  BY <1>1, <1>2, <1>3 DEF CallOK, Placed
<1>6. Fresh(f, r, z)
  BY <1>2 DEF Fresh
<1>7. Made(f, r, p, z)
  BY <1>1, <1>4 DEF CallOK, Made
<1>8. QED
  BY <1>5, <1>6, <1>7 DEF CallOK

\* Another attempt, or the next record: what is left and whether an answer
\* was lost stay.
LEMMA Continues ==
  ASSUME NEW f, NEW r, NEW p, NEW s, CallOK(f, r, p, s),
         NEW z, SyncShape(z), z.pc = s.pc, z.kind = s.kind, z.todo = s.todo, z.table = s.table,
         z.lists = s.lists, z.fresh = s.fresh, z.lost = s.lost,
         z.queue \subseteq s.queue, s.pc = "list" => z.at \in Nat
  PROVE  CallOK(f, r, p, z)
<1>1. Placed(f, r, z) /\ Fresh(f, r, z)
  BY DEF CallOK, Placed, Fresh
<1>2. Made(f, r, p, z)
  BY DEF CallOK, Made, From
<1>3. QED
  BY <1>1, <1>2 DEF CallOK

\* What the files have.
LEMMA FileRecords ==
  ASSUME NEW f \in CsvFiles, NEW t, Filed(f, t)
  PROVE  /\ f[t] \in Seq(FileRecord)
         /\ DOMAIN f[t] = 1 .. Len(f[t]) /\ Len(f[t]) \in Nat
         /\ \A k \in DOMAIN f[t] : f[t][k] \in FileRecord /\ f[t][k].id # Nil
<1>1. f[t] \in Seq(FileRecord) /\ \A k \in DOMAIN f[t] : f[t][k].id # Nil
  BY FeishuAssumption DEF FeishuAssumption, Filed
<1> DEFINE records == f[t]
<1> HIDE DEF records
<1>2. records \in Seq(FileRecord) => /\ DOMAIN records = 1 .. Len(records) /\ Len(records) \in Nat
                                     /\ \A k \in DOMAIN records : records[k] \in FileRecord
  OBVIOUS
<1>3. QED
  BY <1>1, <1>2 DEF records

\* The last of some places.
LEMMA LastExists ==
  ASSUME NEW n \in Nat, NEW S, S \subseteq 1 .. n, S # {}
  PROVE  \E i \in S : \A k \in S : k <= i
<1> DEFINE back == {n - i : i \in S}
<1>0. \A i \in S : i \in Int /\ i <= n
  OBVIOUS
<1>1. back \subseteq Nat /\ back # {}
  <2>1. \A i \in S : n - i \in Nat
    BY <1>0
  <2>2. QED
    BY <2>1
<1>2. PICK e \in back : \A b \in back : ~ (<<b, e>> \in OpToRel(<, Nat))
  BY <1>1, NatLessThanWellFounded, WFMin
<1>3. \A b \in back : ~ (b < e)
  <2> TAKE b \in back
  <2>1. <<b, e>> \in Nat \X Nat
    BY <1>1
  <2>2. b < e => <<b, e>> \in OpToRel(<, Nat)
    BY <2>1, Zenon DEF OpToRel
  <2>3. QED
    BY <1>2, <2>2, Zenon
<1>4. PICK i \in S : e = n - i
  OBVIOUS
<1>5. \A k \in S : ~ (n - k < n - i)
  BY <1>3, <1>4
<1>6. \A k \in S : k <= i
  BY <1>0, <1>5
<1>7. QED
  BY <1>6

\* A record without a match is not among the listed rows.
LEMMA NoMatch ==
  ASSUME NEW t, NEW record, NEW seen \in Nat, Match(t, record, seen) = 0,
         NEW i \in 1 .. seen
  PROVE  ~ SameKey(t, remote[t][i], record)
<1> DEFINE same == {k \in 1 .. seen : /\ Key(t, record) # Nil
                                      /\ Key(t, remote[t][k]) = Key(t, record)}
<1>1. Match(t, record, seen) =
        IF same = {} THEN 0 ELSE CHOOSE k \in same : \A m \in same : m <= k
  BY DEF Match
<1>2. same \subseteq 1 .. seen
  OBVIOUS
<1>3. i \in same <=> SameKey(t, remote[t][i], record)
  BY DEF SameKey
<1> HIDE DEF same
<1>4. SUFFICES ASSUME same # {} PROVE FALSE
  BY <1>3
<1>5. \E k \in same : \A m \in same : m <= k
  BY <1>2, <1>4, LastExists
<1> DEFINE final == CHOOSE k \in same : \A m \in same : m <= k
<1>6. final \in same
  BY <1>5
<1>7. final = 0
  BY <1>1, <1>4
<1> HIDE DEF final
<1>8. QED
  BY <1>2, <1>6, <1>7

-----------------------------------------------------------------------------
(* Each action.                                                            *)

LEMMA TableReported ==
  ASSUME FeishuInv, NEW p \in Syncs, NEW t, NEW result,
         syncs' = ReportedTable(p, t, result)
  PROVE  /\ Changes(p)
         /\ SyncShape(syncs'[p])
         /\ syncs'[p].pc = "next" /\ syncs'[p].todo = syncs[p].todo \ {t}
         /\ syncs'[p].kind = syncs[p].kind /\ syncs'[p].lists = syncs[p].lists
<1>1. syncs = [q \in Syncs |-> syncs[q]] /\ SyncShape(syncs[p])
  BY DEF FeishuInv, CallOK, Placed
<1>2. syncs' = [syncs EXCEPT ![p] = syncs'[p]] /\ syncs'[p] =
        [syncs[p] EXCEPT !.todo = @ \ {t}, !.pc = "next", !.table = Nil, !.try = 1,
                         !.report = Put(@, t, result)]
  BY <1>1 DEF ReportedTable
<1>3. Changes(p)
  BY <1>1, <1>2 DEF Changes
<1>4. QED
  BY <1>1, <1>2, <1>3 DEF SyncShape

LEMMA StartKeeps ==
  ASSUME FeishuInv, NEW p \in Syncs, Start(p)
  PROVE  FeishuInv'
<1>1. CallOK(files, remote, p, syncs[p]) /\ syncs[p].pc = "idle" /\ SyncShape(syncs[p])
  BY DEF FeishuInv, CallOK, Placed, Start
<1>2. UNCHANGED <<files, remote>>
  BY DEF Start, StartCall, ExportTables, ApiFeishu
<1>3. PICK q \in FeishuRequests : StartCall(p, q) \/ ExportTables(p, q) \/ ApiFeishu(p, q)
  BY DEF Start
<1>4. \A kind, status, report :
        syncs' = Answered(p, kind, status, report) =>
          /\ Changes(p) /\ SyncShape(syncs'[p])
          /\ syncs'[p].lists = << >> /\ syncs'[p].pc = "done"
  <2> TAKE kind, status, report
  <2> DEFINE rec == [NoSync EXCEPT !.pc = "done", !.kind = kind, !.status = status,
                                   !.report = report]
  <2>1. SyncShape(rec) /\ rec.lists = << >> /\ rec.pc = "done"
    BY DEF NoSync, SyncShape
  <2>2. Answered(p, kind, status, report) = [syncs EXCEPT ![p] = rec]
    BY DEF Answered
  <2> HIDE DEF rec
  <2>3. QED
    BY <2>1, <2>2 DEF FeishuInv, Changes
<1>5. CASE \E kind, status, report : syncs' = Answered(p, kind, status, report)
  BY <1>1, <1>2, <1>4, <1>5, Begins, QuietStep
<1>6. CASE \E names : /\ q.kind \in {"sync", "import"}
                      /\ syncs' = [syncs EXCEPT ![p].pc = "next", ![p].kind = q.kind,
                                                ![p].todo = names]
  <2>1. PICK names : syncs' = [syncs EXCEPT ![p].pc = "next", ![p].kind = q.kind,
                                            ![p].todo = names]
    BY <1>6
  <2>2. /\ Changes(p) /\ SyncShape(syncs'[p])
        /\ syncs'[p].lists = syncs[p].lists /\ syncs'[p].pc = "next"
        /\ syncs'[p].kind = q.kind
    BY <1>1, <2>1 DEF FeishuInv, SyncShape, Changes
  <2>3. syncs'[p].lists = << >>
    BY <1>1, <2>2 DEF CallOK, Placed
  <2>4. CallOK(files, remote, p, syncs'[p])
    BY <1>1, <1>6, <2>2, <2>3, Begins
  <2>5. QED
    BY <1>2, <2>2, <2>4, QuietStep
<1>7. QED
  BY <1>3, <1>5, <1>6 DEF StartCall, ExportTables, ApiFeishu

LEMMA NextTableKeeps ==
  ASSUME FeishuInv, NEW p \in Syncs, NextTable(p)
  PROVE  FeishuInv'
<1>1. /\ CallOK(files, remote, p, syncs[p]) /\ syncs[p].pc = "next" /\ SyncShape(syncs[p])
      /\ syncs[p].kind \in {"sync", "import"}
  BY DEF FeishuInv, CallOK, Placed, NextTable
<1>2. UNCHANGED <<files, remote>>
  BY DEF NextTable
<1>3. PICK t \in syncs[p].todo :
        \/ \E result : syncs' = ReportedTable(p, t, result)
        \/ /\ syncs' = [syncs EXCEPT ![p].pc = "list", ![p].table = t, ![p].at = 0]
           /\ HasId(t)
           /\ syncs[p].kind # "import" => Filed(files, t)
  <2>1. PICK t \in syncs[p].todo :
          syncs' =
            CASE syncs[p].kind = "sync" /\ ~HasId(t) -> ReportedTable(p, t, "skipped")
              [] syncs[p].kind = "sync" /\ HasId(t)
                   /\ (t \notin DOMAIN files \/ files[t] = Nil) ->
                   ReportedTable(p, t, "failed")
              [] syncs[p].kind = "sync" /\ HasId(t) /\ ReadRows(t) = << >> ->
                   ReportedTable(p, t, "skipped")
              [] syncs[p].kind = "import" /\ (t \notin PullTables \/ ~HasId(t)) ->
                   ReportedTable(p, t, "imported")
              [] OTHER -> [syncs EXCEPT ![p].pc = "list", ![p].table = t, ![p].at = 0]
    BY DEF NextTable
  <2> DEFINE Listed == [syncs EXCEPT ![p].pc = "list", ![p].table = t, ![p].at = 0]
  <2>2. syncs' =
          CASE syncs[p].kind = "sync" /\ ~HasId(t) -> ReportedTable(p, t, "skipped")
            [] syncs[p].kind = "sync" /\ HasId(t)
                 /\ (t \notin DOMAIN files \/ files[t] = Nil) ->
                 ReportedTable(p, t, "failed")
            [] syncs[p].kind = "sync" /\ HasId(t) /\ ReadRows(t) = << >> ->
                 ReportedTable(p, t, "skipped")
            [] syncs[p].kind = "import" /\ (t \notin PullTables \/ ~HasId(t)) ->
                 ReportedTable(p, t, "imported")
            [] OTHER -> Listed
    BY <2>1
  <2>3. \/ \E result : syncs' = ReportedTable(p, t, result)
        \/ syncs' = Listed /\ HasId(t) /\ (syncs[p].kind # "import" => Filed(files, t))
    <3> HIDE DEF Listed
    <3> QED
      BY <1>1, <2>2 DEF Filed
  <2>4. QED
    BY <2>3
<1>4. CASE \E result : syncs' = ReportedTable(p, t, result)
  <2>1. PICK result : syncs' = ReportedTable(p, t, result)
    BY <1>4
  <2>2. /\ Changes(p) /\ SyncShape(syncs'[p])
        /\ syncs'[p].pc = "next" /\ syncs'[p].todo = syncs[p].todo \ {t}
        /\ syncs'[p].kind = syncs[p].kind /\ syncs'[p].lists = syncs[p].lists
    BY <2>1, TableReported
  <2>3. CallOK(files, remote, p, syncs'[p])
    BY <1>1, <2>2, MovesOn
  <2>4. QED
    BY <1>2, <2>2, <2>3, QuietStep
<1>5. CASE /\ syncs' = [syncs EXCEPT ![p].pc = "list", ![p].table = t, ![p].at = 0]
           /\ HasId(t)
           /\ syncs[p].kind # "import" => Filed(files, t)
  <2> DEFINE z == syncs'[p]
  <2>1. /\ Changes(p) /\ SyncShape(syncs'[p]) /\ syncs'[p].kind = syncs[p].kind
        /\ syncs'[p].pc = "list" /\ syncs'[p].todo = syncs[p].todo
        /\ syncs'[p].table = t /\ syncs'[p].at = 0 /\ syncs'[p].lists = syncs[p].lists
    BY <1>1, <1>5 DEF FeishuInv, SyncShape, Changes
  <2>2. /\ z.table \in z.todo /\ HasId(z.table) /\ z.at \in Nat
        /\ z.kind # "import" => Filed(files, z.table)
    BY <1>5, <2>1
  <2>3. CallOK(files, remote, p, z)
    <3> HIDE DEF z
    <3> QED
      BY <1>1, <2>1, <2>2, MovesOn DEF z
  <2>4. QED
    BY <1>2, <2>1, <2>3, QuietStep
<1>6. QED
  BY <1>3, <1>4, <1>5

LEMMA EndTableKeeps ==
  ASSUME FeishuInv, NEW p \in Syncs, EndTable(p)
  PROVE  FeishuInv'
<1>1. /\ CallOK(files, remote, p, syncs[p]) /\ syncs[p].pc = "upsert" /\ UNCHANGED <<files, remote>>
      /\ syncs[p].kind \in {"sync", "import"}
  BY DEF FeishuInv, CallOK, Placed, EndTable
<1>2. syncs' = ReportedTable(p, syncs[p].table, "synced")
  BY DEF EndTable
<1>3. /\ Changes(p) /\ SyncShape(syncs'[p])
      /\ syncs'[p].pc = "next" /\ syncs'[p].todo = syncs[p].todo \ {syncs[p].table}
      /\ syncs'[p].kind = syncs[p].kind /\ syncs'[p].lists = syncs[p].lists
  BY <1>2, TableReported
<1>4. CallOK(files, remote, p, syncs'[p])
  BY <1>1, <1>3, MovesOn
<1>5. QED
  BY <1>1, <1>3, <1>4, QuietStep

LEMMA FinishKeeps ==
  ASSUME FeishuInv, NEW p \in Syncs, Finish(p)
  PROVE  FeishuInv'
<1>1. CallOK(files, remote, p, syncs[p]) /\ syncs[p].pc = "next" /\ UNCHANGED <<files, remote>>
  BY DEF FeishuInv, Finish
<1>2. SyncShape(syncs[p])
  BY <1>1 DEF CallOK, Placed
<1>3. /\ Changes(p) /\ SyncShape(syncs'[p]) /\ syncs'[p].pc = "done"
      /\ syncs'[p].todo = syncs[p].todo /\ syncs'[p].lists = syncs[p].lists
  BY <1>2 DEF FeishuInv, Finish, SyncShape, Changes
<1>4. CallOK(files, remote, p, syncs'[p])
  BY <1>1, <1>3, MovesOn
<1>5. QED
  BY <1>1, <1>3, <1>4, QuietStep

LEMMA ListPageKeeps ==
  ASSUME FeishuInv, NEW p \in Syncs, ListPage(p)
  PROVE  FeishuInv'
<1> DEFINE s == syncs[p]  t == s.table  n == Len(remote[t])
           end == IF s.at + RecordsPerPage < n THEN s.at + RecordsPerPage ELSE n
<1>1. /\ CallOK(files, remote, p, s) /\ s.pc = "list" /\ UNCHANGED <<files, remote>>
      /\ SyncShape(s) /\ s.at \in Nat /\ s.kind \in {"sync", "import"}
      /\ t \in s.todo /\ HasId(t) /\ (s.kind # "import" => Filed(files, t))
  BY DEF FeishuInv, CallOK, Placed, ListPage
<1>2. t \in DOMAIN remote /\ remote[t] \in Seq(Row) /\ n \in Nat
  BY <1>1 DEF FeishuInv, RemoteOK, HasId
<1>3. end \in Nat
  BY <1>1, <1>2, FeishuAssumption DEF FeishuAssumption
<1>4. \/ syncs' = [syncs EXCEPT ![p].try = @ + 1]
      \/ \E result : syncs' = ReportedTable(p, t, result)
      \/ syncs' = EndList(p, s.at, s.at < n)
      \/ syncs' = [syncs EXCEPT ![p].at = end, ![p].try = 1]
      \/ syncs' = EndList(p, end, end < n)
  <2> DEFINE again == [syncs EXCEPT ![p].try = @ + 1]
             nextPage == [syncs EXCEPT ![p].at = end, ![p].try = 1]
  <2>1. \E a \in Attempt, tokenless \in BOOLEAN : \E verdict \in TryVerdicts(a, s.try) :
          syncs' =
            CASE verdict = "retry" -> again
              [] verdict = "error" ->
                   ReportedTable(p, t, IF s.kind = "sync" THEN "failed" ELSE "imported")
              [] verdict = "empty" -> EndList(p, s.at, s.at < n)
              [] OTHER -> IF end < n /\ ~tokenless THEN nextPage ELSE EndList(p, end, end < n)
    BY DEF ListPage
  <2> HIDE DEF again, nextPage, end
  <2>2. \/ syncs' = again
        \/ \E result : syncs' = ReportedTable(p, t, result)
        \/ syncs' = EndList(p, s.at, s.at < n)
        \/ syncs' = nextPage
        \/ syncs' = EndList(p, end, end < n)
    BY <2>1
  <2>3. QED
    BY <2>2 DEF again, nextPage
<1> HIDE DEF end
<1>5. CASE \/ syncs' = [syncs EXCEPT ![p].try = @ + 1]
           \/ syncs' = [syncs EXCEPT ![p].at = end, ![p].try = 1]
  <2> DEFINE z == syncs'[p]
  <2>1. /\ Changes(p) /\ SyncShape(z) /\ z.pc = s.pc /\ z.kind = s.kind /\ z.todo = s.todo
        /\ z.table = s.table /\ z.lists = s.lists /\ z.fresh = s.fresh /\ z.lost = s.lost
        /\ z.queue = s.queue /\ z.at \in {s.at, end}
    BY <1>1, <1>5 DEF FeishuInv, SyncShape, Changes
  <2>2. CallOK(files, remote, p, z)
    <3> HIDE DEF z, s
    <3> QED
      BY <1>1, <1>3, <2>1, Continues
  <2>3. QED
    BY <1>1, <2>1, <2>2, QuietStep
<1>6. ASSUME NEW result, syncs' = ReportedTable(p, t, result)  PROVE FeishuInv'
  <2>1. /\ Changes(p) /\ SyncShape(syncs'[p])
        /\ syncs'[p].pc = "next" /\ syncs'[p].todo = s.todo \ {t}
        /\ syncs'[p].kind = s.kind /\ syncs'[p].lists = s.lists
    BY <1>6, TableReported
  <2>2. CallOK(files, remote, p, syncs'[p])
    BY <1>1, <2>1, MovesOn
  <2>3. QED
    BY <1>1, <2>1, <2>2, QuietStep
<1>7. ASSUME NEW seen \in Nat, syncs' = EndList(p, seen, seen < n)  PROVE FeishuInv'
  <2>1. CASE s.kind = "import"
    <3> DEFINE done == ReportedTable(p, t, "imported")[p]  z == syncs'[p]
    <3>1. syncs' = [ReportedTable(p, t, "imported")
                      EXCEPT ![p].pulled = Put(@, t, SubSeq(remote[t], 1, seen))]
      BY <1>7, <2>1 DEF EndList
    <3>2. /\ SyncShape(z) /\ Changes(p)
          /\ z.pc = "next" /\ z.todo = s.todo \ {t}
          /\ z.kind = s.kind /\ z.lists = s.lists
      BY <1>1, <3>1 DEF FeishuInv, ReportedTable, SyncShape, Changes
    <3>3. CallOK(files, remote, p, z)
      <4> HIDE DEF z, s
      <4> QED
        BY <1>1, <3>2, MovesOn
    <3>4. QED
      BY <1>1, <3>2, <3>3, QuietStep
  <2>2. CASE s.kind # "import"
    <3> DEFINE known == {i \in DOMAIN files[t] : Match(t, files[t][i], seen) # 0}
               list == [seen |-> seen, upto |-> n, cut |-> seen < n]
               z == syncs'[p]
    <3>1. syncs' = [syncs EXCEPT ![p].pc = "upsert", ![p].try = 1,
                      ![p].lists = Put(@, t, list), ![p].queue = known,
                      ![p].fresh = DOMAIN files[t] \ known]
      BY <1>7, <2>2 DEF EndList
    <3>2. \A k \in DOMAIN files[t] \ known : Unlisted(remote, t, list, files[t][k])
      <4> SUFFICES ASSUME NEW k \in DOMAIN files[t] \ known, ~ (seen < n),
                          NEW i \in DOMAIN remote[t]
                   PROVE  ~ SameKey(t, remote[t][i], files[t][k])
        BY DEF Unlisted
      <4>1. Match(t, files[t][k], seen) = 0
        OBVIOUS
      <4>2. i \in 1 .. seen
        BY <1>2
      <4>3. QED
        BY <4>1, <4>2, NoMatch
    <3> HIDE DEF known
    <3>3. /\ SyncShape(z) /\ Changes(p)
          /\ z.pc = "upsert" /\ z.kind = s.kind /\ z.todo = s.todo /\ z.table = t
          /\ z.lists = Put(s.lists, t, list) /\ z.lost = s.lost
          /\ z.queue = known /\ z.fresh = DOMAIN files[t] \ known
      <4> HIDE DEF list
      <4> QED
        BY <1>1, <3>1 DEF FeishuInv, SyncShape, Changes
    <3>4. list.upto \in 0 .. n
      BY <1>2
    <3>5. known \subseteq DOMAIN files[t]
      BY DEF known
    <3>6. CallOK(files, remote, p, z)
      <4> HIDE DEF z, s, list
      <4> QED
        BY <1>1, <1>2, <2>2, <3>2, <3>3, <3>4, <3>5, Splits
    <3>7. QED
      BY <1>1, <3>3, <3>6, QuietStep
  <2>3. QED
    BY <2>1, <2>2
<1>8. QED
  BY <1>1, <1>3, <1>4, <1>5, <1>6, <1>7

LEMMA UpdateRecordKeeps ==
  ASSUME FeishuInv, NEW p \in Syncs, UpdateRecord(p)
  PROVE  FeishuInv'
<1> DEFINE s == syncs[p]  t == s.table
<1>1. /\ CallOK(files, remote, p, s) /\ s.pc = "upsert" /\ UNCHANGED files
      /\ SyncShape(s) /\ HasId(t) /\ Filed(files, t) /\ s.queue \subseteq DOMAIN files[t]
  BY DEF FeishuInv, CallOK, Placed, Fresh, UpdateRecord
<1>2. PICK first \in s.queue :
        /\ remote' \in {remote, Updated(p, files[t][first])}
        /\ syncs' \in {[syncs EXCEPT ![p].try = @ + 1],
                       [syncs EXCEPT ![p].try = 1, ![p].queue = @ \ {first}]}
  BY DEF UpdateRecord
<1>3. /\ Changes(p) /\ SyncShape(syncs'[p]) /\ syncs'[p].pc = s.pc /\ syncs'[p].kind = s.kind
      /\ syncs'[p].todo = s.todo /\ syncs'[p].table = t /\ syncs'[p].lists = s.lists
      /\ syncs'[p].fresh = s.fresh /\ syncs'[p].lost = s.lost
      /\ syncs'[p].queue \subseteq s.queue
  BY <1>1, <1>2 DEF FeishuInv, SyncShape, Changes
<1>4. RemoteOK(remote') /\ SameRows(remote, remote')
  <2>0. RemoteOK(remote)
    BY DEF FeishuInv
  <2>1. CASE remote' = remote
    BY <2>0, <2>1 DEF SameRows, SameRow
  <2>2. CASE remote' = Updated(p, files[t][first])
    <3> DEFINE m == Match(t, files[t][first], s.lists[t].seen)
               rev == files[t][first].rev
    <3>1. remote' = [remote EXCEPT ![t][m].rev = rev]
      BY <2>2 DEF Updated
    <3>2. files \in CsvFiles /\ files[t] \in Seq(FileRecord) /\ rev \in Nat
      BY <1>1, FileRecords DEF FeishuInv, FileRecord
    <3>3. t \in DOMAIN remote /\ remote[t] \in Seq(Row)
      BY <1>1 DEF FeishuInv, RemoteOK, HasId
    <3> HIDE DEF t, m, rev
    <3>4. \A row \in Row : [row EXCEPT !.rev = rev] \in Row /\ SameRow(row, [row EXCEPT !.rev = rev])
      BY <3>2 DEF Row, SameRow
    <3>5. /\ DOMAIN remote' = DOMAIN remote
          /\ \A u \in DOMAIN remote : u # t => remote'[u] = remote[u]
          /\ remote'[t] = [remote[t] EXCEPT ![m].rev = rev]
      BY <2>0, <3>1, <3>3 DEF RemoteOK
    <3>6. /\ remote'[t] \in Seq(Row) /\ Len(remote'[t]) = Len(remote[t])
          /\ \A i \in DOMAIN remote[t] : SameRow(remote[t][i], remote'[t][i])
      <4>1. CASE m \in DOMAIN remote[t]
        <5>1. /\ remote[t][m] \in Row
              /\ remote'[t] = [remote[t] EXCEPT ![m] = [remote[t][m] EXCEPT !.rev = rev]]
          BY <3>3, <3>5, <4>1
        <5> DEFINE row == [remote[t][m] EXCEPT !.rev = rev]
        <5>2. row \in Row /\ SameRow(remote[t][m], row)
          BY <3>4, <5>1
        <5> HIDE DEF row
        <5>3. remote'[t] = [remote[t] EXCEPT ![m] = row]
          BY <5>1 DEF row
        <5>4. QED
          BY <3>3, <4>1, <5>2, <5>3 DEF SameRow
      <4>2. CASE m \notin DOMAIN remote[t]
        <5>1. remote'[t] = remote[t]
          BY <3>3, <3>5, <4>2
        <5>2. QED
          BY <3>3, <5>1 DEF SameRow
      <4>3. QED
        BY <4>1, <4>2
    <3>7. remote' = [u \in DOMAIN remote' |-> remote'[u]]
      BY <2>0, <3>1 DEF RemoteOK
    <3>8. \A row : SameRow(row, row)
      BY DEF SameRow
    <3>9. SameRows(remote, remote')
      BY ONLY <3>5, <3>6, <3>8 DEF SameRows
    <3>10. \A u \in DOMAIN remote' : remote'[u] \in Seq(Row)
      BY ONLY <2>0, <3>5, <3>6 DEF RemoteOK
    <3>11. \A u \in DOMAIN TableIds : HasId(u) => u \in DOMAIN remote'
      BY ONLY <2>0, <3>5 DEF RemoteOK
    <3>12. QED
      BY ONLY <3>7, <3>9, <3>10, <3>11 DEF RemoteOK
  <2>3. QED
    BY <1>2, <2>1, <2>2
<1>5. \A q \in Syncs : CallOK(files, remote', q, syncs[q])
  BY <1>4, SameRowsKeep DEF FeishuInv
<1>6. CallOK(files, remote', p, syncs'[p])
  <2> DEFINE z == syncs'[p]
  <2>1. CallOK(files, remote', p, s)
    BY <1>5
  <2> HIDE DEF z, s
  <2>2. QED
    BY <1>1, <1>3, <2>1, Continues
<1>7. QED
  BY <1>1, <1>3, <1>4, <1>5, <1>6, Moves
\* One table has got the rows new of p's records: of a chunk, all of which is
\* done, unless it is sent again.
GrowsBy(r, q, t, new) ==
  /\ q = [u \in DOMAIN q |-> q[u]] /\ DOMAIN q = DOMAIN r
  /\ q[t] = r[t] \o new
  /\ \A u \in DOMAIN r : u # t => q[u] = r[u]

RowsOf(new, order, records, chunk, p, lost) ==
  /\ \A i \in DOMAIN new :
       /\ order[i] \in chunk
       /\ new[i].id = records[order[i]].id /\ new[i].fields = records[order[i]].fields
       /\ new[i].by = p /\ new[i].again = lost
  /\ \A i, k \in DOMAIN new : i < k => order[i] < order[k]

Settles(s, z) ==
  /\ z.fresh \subseteq s.fresh
  /\ \A k \in NextChunk(s.fresh) : k \in z.fresh => z.lost /\ k \in NextChunk(z.fresh)

\* The rows of a chunk are rows of its records, in the order of the file.
LEMMA ChunkRows ==
  ASSUME NEW records \in Seq(FileRecord), NEW fresh, fresh \subseteq DOMAIN records,
         NEW p \in Syncs, syncs[p].lost \in BOOLEAN, NEW order \in InFileOrder(NextChunk(fresh))
  PROVE  /\ NewRows(p, records, order) \in Seq(Row)
         /\ RowsOf(NewRows(p, records, order), order, records, NextChunk(fresh), p, syncs[p].lost)
<1> DEFINE chunk == NextChunk(fresh)  n == Cardinality(chunk)  new == NewRows(p, records, order)
<1>1. chunk \subseteq DOMAIN records
  BY DEF NextChunk
<1>2. n \in Nat
  <2>1. IsFiniteSet(1 .. Len(records))
    BY FS_Interval
  <2>2. IsFiniteSet(chunk)
    BY <1>1, <2>1, FS_Subset
  <2> HIDE DEF chunk
  <2>3. QED
    BY <2>2, FS_CardinalityType
<1>3. /\ order \in [1 .. n -> chunk]
      /\ \A i, k \in DOMAIN order : i < k => order[i] < order[k]
  BY DEF InFileOrder, SetToSeqs
<1> HIDE DEF n, chunk
<1>4. \A i \in 1 .. n : order[i] \in DOMAIN records /\ records[order[i]] \in FileRecord
  BY <1>1, <1>3
<1>5. \A i \in 1 .. n :
        [id |-> records[order[i]].id, fields |-> records[order[i]].fields,
         rev |-> records[order[i]].rev, by |-> p, again |-> syncs[p].lost] \in Row
  BY <1>4 DEF FileRecord, Row
<1>6. new = [i \in 1 .. n |->
               [id |-> records[order[i]].id, fields |-> records[order[i]].fields,
                rev |-> records[order[i]].rev, by |-> p, again |-> syncs[p].lost]]
  BY <1>3 DEF NewRows
<1>7. new \in [1 .. n -> Row]
  BY <1>5, <1>6
<1> HIDE DEF new
<1>8. new \in Seq(Row)
  BY <1>2, <1>7
<1>9. DOMAIN new = 1 .. n /\ DOMAIN order = 1 .. n
  BY <1>3, <1>6
<1>10. \A i \in DOMAIN new :
         /\ order[i] \in chunk
         /\ new[i].id = records[order[i]].id /\ new[i].fields = records[order[i]].fields
         /\ new[i].by = p /\ new[i].again = syncs[p].lost
  BY <1>3, <1>6, <1>9
<1>11. QED
  BY <1>3, <1>8, <1>9, <1>10 DEF new, chunk, RowsOf

\* What a sequence is after rows have been added.
LEMMA Appended ==
  ASSUME NEW old \in Seq(Row), NEW new \in Seq(Row), NEW all, all = old \o new
  PROVE  /\ all \in Seq(Row) /\ Len(all) = Len(old) + Len(new)
         /\ Len(old) \in Nat /\ Len(new) \in Nat
         /\ DOMAIN old = 1 .. Len(old) /\ DOMAIN new = 1 .. Len(new)
         /\ DOMAIN all = 1 .. Len(all)
         /\ \A i \in DOMAIN old : i \in DOMAIN all /\ all[i] = old[i]
         /\ \A i \in DOMAIN all \ DOMAIN old :
              i - Len(old) \in DOMAIN new /\ all[i] = new[i - Len(old)]
OBVIOUS

LEMMA RowsAdded ==
  ASSUME NEW f, NEW r, RemoteOK(r), NEW p \in Syncs, NEW s, CallOK(f, r, p, s),
         s.pc = "upsert", NEW t, t = s.table, t \in DOMAIN r,
         NEW records, records = f[t], DOMAIN records \subseteq Int,
         \A k \in DOMAIN records : records[k].id # Nil,
         NEW new \in Seq(Row), NEW order, RowsOf(new, order, records, NextChunk(s.fresh), p, s.lost),
         NEW q, GrowsBy(r, q, t, new),
         NEW z, SyncShape(z), z.pc = "upsert", z.kind = s.kind, z.todo = s.todo,
         z.table = s.table, z.lists = s.lists, z.queue \subseteq s.queue, Settles(s, z)
  PROVE  /\ RemoteOK(q) /\ Grows(r, q, t, p)
         /\ CallOK(f, q, p, z)
<1> DEFINE old == r[t]  all == q[t]  n == Len(old)
<1>1. /\ HasId(t) /\ Filed(f, t) /\ t \in DOMAIN s.lists /\ t \in s.todo
      /\ s.fresh \subseteq DOMAIN records /\ s.queue \subseteq DOMAIN records
      /\ SyncShape(s) /\ s.lost \in BOOLEAN /\ s.kind \in {"sync", "import"}
      /\ \A k \in s.fresh : Unlisted(r, t, s.lists[t], records[k])
  BY DEF CallOK, Placed, Fresh, SyncShape
<1>2. \A u \in DOMAIN r : r[u] \in Seq(Row) /\ Len(r[u]) \in Nat
  BY DEF RemoteOK
<1>3. DOMAIN q = DOMAIN r /\ all = old \o new /\ \A u \in DOMAIN r : u # t => q[u] = r[u]
  BY DEF GrowsBy
<1>4. old \in Seq(Row)
  BY <1>2
<1>5. NextChunk(s.fresh) \subseteq s.fresh
  BY DEF NextChunk
<1> HIDE DEF old, all
<1>6. /\ all \in Seq(Row) /\ Len(all) = n + Len(new) /\ n \in Nat /\ Len(new) \in Nat
      /\ DOMAIN old = 1 .. n /\ DOMAIN new = 1 .. Len(new) /\ DOMAIN all = 1 .. Len(all)
      /\ \A i \in DOMAIN old : i \in DOMAIN all /\ all[i] = old[i]
      /\ \A i \in DOMAIN all \ DOMAIN old : i - n \in DOMAIN new /\ all[i] = new[i - n]
  BY <1>3, <1>4, Appended
<1>7. \A u \in DOMAIN r : /\ Len(r[u]) <= Len(q[u]) /\ Len(q[u]) \in Nat
                          /\ \A i \in DOMAIN r[u] : i \in DOMAIN q[u] /\ q[u][i] = r[u][i]
  <2> TAKE u \in DOMAIN r
  <2>1. CASE u = t
    BY <1>6, <2>1 DEF old, all
  <2>2. CASE u # t
    BY <1>2, <1>3, <2>2
  <2>3. QED
    BY <2>1, <2>2
<1>8. RemoteOK(q)
  <2>1. \A u \in DOMAIN q : q[u] \in Seq(Row)
    BY <1>2, <1>3, <1>6 DEF all
  <2>2. QED
    BY <1>3, <2>1 DEF RemoteOK, GrowsBy
<1>9. Grows(r, q, t, p)
  <2>1. \A u \in DOMAIN r : \A i \in DOMAIN q[u] \ DOMAIN r[u] : q[u][i].by = p
    <3> SUFFICES ASSUME NEW u \in DOMAIN r, NEW i \in DOMAIN q[u] \ DOMAIN r[u]
                 PROVE  q[u][i].by = p
      OBVIOUS
    <3>1. u = t
      BY <1>3
    <3>2. i - n \in DOMAIN new /\ all[i] = new[i - n]
      BY <1>6, <3>1 DEF old, all
    <3>3. QED
      BY <3>1, <3>2 DEF RowsOf, all
  <2>2. QED
    BY <1>3, <1>7, <2>1 DEF Grows
<1>10. \A u \in DOMAIN s.lists : \A record :
         Unlisted(r, u, s.lists[u], record) => Unlisted(q, u, s.lists[u], record)
  <2> SUFFICES ASSUME NEW u \in DOMAIN s.lists, NEW record,
                      Unlisted(r, u, s.lists[u], record),
                      ~ s.lists[u].cut, NEW i \in DOMAIN q[u], i <= s.lists[u].upto
               PROVE  ~ SameKey(u, q[u][i], record)
    BY DEF Unlisted
  <2>1. u \in DOMAIN r /\ s.lists[u].upto \in 0 .. Len(r[u])
    BY DEF CallOK, Placed
  <2>2. DOMAIN r[u] = 1 .. Len(r[u]) /\ DOMAIN q[u] = 1 .. Len(q[u])
    BY <1>3, <1>8, <2>1 DEF RemoteOK
  <2>3. i \in DOMAIN r[u]
    BY <1>2, <1>7, <2>1, <2>2
  <2>4. q[u][i] = r[u][i]
    BY <1>7, <2>1, <2>3
  <2>5. QED
    BY <2>3, <2>4 DEF Unlisted
<1>11. Placed(f, q, z)
  <2>1. \A u \in DOMAIN s.lists : u \in DOMAIN q /\ s.lists[u].upto \in 0 .. Len(q[u])
    <3> TAKE u \in DOMAIN s.lists
    <3>1. u \in DOMAIN r /\ s.lists[u].upto \in 0 .. Len(r[u])
      BY DEF CallOK, Placed
    <3>2. QED
      BY <1>2, <1>3, <1>7, <3>1
  <2>2. QED
    BY <1>1, <2>1 DEF Placed
<1>12. Fresh(f, q, z)
  BY <1>1, <1>10 DEF Fresh, Settles
<1>13. \A k \in NextChunk(s.fresh) : \A row :
         row.id = records[k].id => From(f, t, z, row)
  BY <1>1, <1>5 DEF From, Settles
<1>14. \A row : From(f, t, s, row) => From(f, t, z, row)
  BY DEF From, Settles
<1>15. Made(f, q, p, z)
  <2> SUFFICES ASSUME NEW u \in DOMAIN q, NEW j \in DOMAIN q[u], q[u][j].by = p
               PROVE  /\ u \in DOMAIN z.lists
                      /\ q[u][j].id # Nil
                      /\ Unlisted(q, u, z.lists[u], q[u][j])
                      /\ u \in z.todo => z.pc = "upsert" /\ z.table = u /\ From(f, u, z, q[u][j])
    BY DEF Made
  <2>1. CASE u \in DOMAIN r /\ j \in DOMAIN r[u] /\ q[u][j] = r[u][j]
    <3>1. /\ u \in DOMAIN s.lists
          /\ r[u][j].id # Nil
          /\ Unlisted(r, u, s.lists[u], r[u][j])
          /\ u \in s.todo => s.table = u /\ From(f, u, s, r[u][j])
      BY <2>1 DEF CallOK, Made
    <3>2. QED
      BY <1>10, <1>14, <2>1, <3>1
  <2>2. CASE u = t /\ j \notin DOMAIN old
    <3>1. j - n \in DOMAIN new /\ all[j] = new[j - n]
      BY <1>6, <2>2 DEF all
    <3> DEFINE k == order[j - n]
    <3>2. /\ k \in NextChunk(s.fresh) /\ k \in s.fresh /\ k \in DOMAIN records
          /\ all[j].id = records[k].id /\ all[j].fields = records[k].fields
      BY <1>1, <1>5, <3>1 DEF RowsOf
    <3> HIDE DEF k
    <3>3. Unlisted(q, t, s.lists[t], records[k])
      BY <1>1, <1>10, <3>2
    <3>4. \A row : SameKey(t, row, all[j]) <=> SameKey(t, row, records[k])
      BY <3>2 DEF SameKey, Key
    <3>5. Unlisted(q, t, s.lists[t], all[j])
      BY <3>3, <3>4 DEF Unlisted
    <3>6. From(f, t, z, all[j])
      BY <1>13, <3>2
    <3>7. QED
      BY <1>1, <2>2, <3>2, <3>5, <3>6 DEF all
  <2>3. CASE u # t
    BY <1>3, <2>1, <2>3
  <2>4. CASE u = t /\ j \in DOMAIN old
    BY <1>6, <2>1, <2>4 DEF old, all
  <2>5. QED
    BY <2>2, <2>3, <2>4
<1>16. ASSUME NEW u \in DOMAIN q, NEW i \in DOMAIN q[u], NEW j \in DOMAIN q[u],
              i < j, q[u][i].by = p, q[u][j].by = p, q[u][i].id = q[u][j].id
       PROVE  q[u][j].again \/ Twice(f[u], q[u][j].id)
  <2>0. \A v \in DOMAIN r : \A a, b \in DOMAIN r[v] :
          a < b /\ r[v][a].by = p /\ r[v][b].by = p /\ r[v][a].id = r[v][b].id
            => r[v][b].again \/ Twice(f[v], r[v][b].id)
    BY DEF CallOK, Pairs
  <2>1. CASE u # t
    BY <1>3, <1>16, <2>0, <2>1
  <2>2. CASE u = t /\ j \in DOMAIN old
    <3>1. i \in DOMAIN old
      BY <1>6, <1>16, <2>2 DEF all
    <3>2. /\ old[i].by = p /\ old[j].by = p /\ old[i].id = old[j].id
          /\ q[u][j] = old[j]
      BY <1>6, <1>16, <2>2, <3>1 DEF all
    <3>3. old[j].again \/ Twice(f[t], old[j].id)
      BY <1>16, <2>0, <2>2, <3>1, <3>2 DEF old
    <3>4. QED
      BY <2>2, <3>2, <3>3
  <2>3. CASE u = t /\ j \notin DOMAIN old
    <3>1. j - n \in DOMAIN new /\ all[j] = new[j - n]
      BY <1>6, <1>16, <2>3 DEF all
    <3> DEFINE k == order[j - n]
    <3>2. /\ k \in s.fresh /\ k \in DOMAIN records /\ all[j].id = records[k].id
          /\ all[j].again = s.lost
      BY <1>1, <1>5, <3>1 DEF RowsOf
    <3>3. CASE i \in DOMAIN old
      <4>1. old[i].by = p /\ old[i].id = all[j].id
        BY <1>6, <1>16, <2>3, <3>3 DEF all
      <4>2. From(f, t, s, old[i])
        BY <1>1, <3>3, <4>1 DEF CallOK, Made, old
      <4>3. PICK m \in DOMAIN records : records[m].id = old[i].id /\ (m \in s.fresh => s.lost)
        BY <4>2 DEF From
      <4>4. CASE s.lost
        BY <2>3, <3>2, <4>4 DEF all
      <4>5. CASE ~ s.lost
        <5> HIDE DEF k
        <5>1. m # k
          BY <3>2, <4>3, <4>5
        <5>2. m < k \/ k < m
          BY <3>2, <5>1
        <5>3. Twice(records, all[j].id)
          BY <3>2, <4>1, <4>3, <5>2 DEF Twice
        <5>4. QED
          BY <2>3, <5>3 DEF all
      <4>6. QED
        BY <4>4, <4>5
    <3>4. CASE i \notin DOMAIN old
      <4>1. i - n \in DOMAIN new /\ all[i] = new[i - n]
        BY <1>6, <1>16, <2>3, <3>4 DEF all
      <4>2. i - n < j - n
        BY <1>6, <1>16, <2>3 DEF all
      <4>3. order[i - n] < k /\ order[i - n] \in DOMAIN records
        BY <1>1, <1>5, <3>1, <4>1, <4>2 DEF RowsOf
      <4>4. records[order[i - n]].id = all[j].id
        BY <1>16, <2>3, <4>1 DEF all, RowsOf
      <4> HIDE DEF k
      <4>5. Twice(records, all[j].id)
        BY <3>2, <4>3, <4>4 DEF Twice
      <4>6. QED
        BY <2>3, <4>5 DEF all
    <3>5. QED
      BY <3>3, <3>4
  <2>4. QED
    BY <2>1, <2>2, <2>3
<1>17. Pairs(f, q, p)
  BY ONLY <1>16 DEF Pairs
<1>18. QED
  BY <1>8, <1>9, <1>11, <1>12, <1>15, <1>17 DEF CallOK

LEMMA CreateChunkKeeps ==
  ASSUME FeishuInv, NEW p \in Syncs, CreateChunk(p)
  PROVE  FeishuInv'
<1> DEFINE s == syncs[p]  t == s.table  chunk == NextChunk(s.fresh)  z == syncs'[p]
<1>1. /\ CallOK(files, remote, p, s) /\ s.pc = "upsert" /\ s.queue = {} /\ UNCHANGED files
      /\ SyncShape(s) /\ s.lost \in BOOLEAN /\ HasId(t) /\ Filed(files, t)
      /\ s.fresh \subseteq DOMAIN files[t] /\ t \in s.todo
  BY DEF FeishuInv, CallOK, Placed, Fresh, CreateChunk, SyncShape
<1>2. PICK a \in Attempt, order \in InFileOrder(chunk) :
        /\ remote' = IF a.done
                     THEN [remote EXCEPT ![t] = @ \o NewRows(p, files[t], order)]
                     ELSE remote
        /\ \/ syncs' = [syncs EXCEPT ![p].try = @ + 1, ![p].lost = @ \/ a.done]
           \/ syncs' = [syncs EXCEPT ![p].try = 1, ![p].lost = FALSE, ![p].fresh = @ \ chunk]
  BY DEF CreateChunk
<1>3. a.done \in BOOLEAN
  <2>1. CASE a = [done |-> TRUE, answer |-> "data"]
    BY <2>1
  <2>2. CASE a = [done |-> FALSE, answer |-> "refused"]
    BY <2>2
  <2>3. CASE a = [done |-> FALSE, answer |-> "limit"]
    BY <2>3
  <2>4. CASE a \in [done : BOOLEAN, answer : {"none", "empty"}]
    BY <2>4
  <2>5. QED
    BY <2>1, <2>2, <2>3, <2>4, Zenon DEF Attempt
<1>4. t \in DOMAIN remote /\ RemoteOK(remote) /\ files \in CsvFiles
  BY <1>1 DEF FeishuInv, RemoteOK, HasId
<1>5. /\ Changes(p) /\ SyncShape(z) /\ z.pc = "upsert" /\ z.kind = s.kind
      /\ z.todo = s.todo /\ z.table = t /\ z.lists = s.lists /\ z.queue = s.queue
      /\ \/ z.fresh = s.fresh /\ z.lost = (s.lost \/ a.done)
         \/ z.fresh = s.fresh \ chunk /\ z.lost = FALSE
  <2> HIDE DEF chunk
  <2>1. CASE syncs' = [syncs EXCEPT ![p].try = @ + 1, ![p].lost = @ \/ a.done]
    BY <1>1, <1>3, <2>1 DEF FeishuInv, SyncShape, Changes
  <2>2. CASE syncs' = [syncs EXCEPT ![p].try = 1, ![p].lost = FALSE, ![p].fresh = @ \ chunk]
    BY <1>1, <2>2 DEF FeishuInv, SyncShape, Changes
  <2>3. QED
    BY <1>2, <2>1, <2>2
<1>6. \A k \in chunk : k \in z.fresh => k \in NextChunk(z.fresh) /\ z.lost = (s.lost \/ a.done)
  BY <1>5
<1>7. z.fresh \subseteq s.fresh
  BY <1>5
<1> HIDE DEF z, chunk
<1>8. CASE a.done
  <2> DEFINE new == NewRows(p, files[t], order)
  <2>1. /\ files[t] \in Seq(FileRecord) /\ DOMAIN files[t] \subseteq Int
        /\ \A k \in DOMAIN files[t] : files[t][k].id # Nil
    BY <1>1, <1>4, FileRecords
  <2>2. /\ new \in Seq(Row)
        /\ RowsOf(new, order, files[t], chunk, p, s.lost)
    BY <1>1, <1>2, <2>1, ChunkRows DEF chunk
  <2> HIDE DEF new
  <2>3. GrowsBy(remote, remote', t, new)
    BY <1>2, <1>4, <1>8 DEF new, RemoteOK, GrowsBy
  <2>4. Settles(s, z)
    BY <1>6, <1>7, <1>8 DEF chunk, Settles
  <2>5. z.queue \subseteq s.queue
    BY <1>5
  <2>6. /\ RemoteOK(remote') /\ Grows(remote, remote', t, p)
        /\ CallOK(files, remote', p, z)
    <3> DEFINE records == files[t]
    <3>1. DOMAIN records \subseteq Int /\ \A k \in DOMAIN records : records[k].id # Nil
      BY <2>1
    <3>2. /\ CallOK(files, remote, p, s) /\ s.pc = "upsert" /\ t = s.table
          /\ t \in DOMAIN remote /\ RemoteOK(remote) /\ records = files[t]
          /\ SyncShape(z) /\ z.pc = "upsert" /\ z.kind = s.kind /\ z.todo = s.todo
          /\ z.table = s.table /\ z.lists = s.lists
      BY <1>1, <1>4, <1>5
    <3>3. RowsOf(new, order, records, NextChunk(s.fresh), p, s.lost)
      BY <2>2 DEF chunk
    <3> HIDE DEF s, t, records
    <3> QED
      BY <2>2, <2>3, <2>4, <2>5, <3>1, <3>2, <3>3, RowsAdded
  <2>7. \A q \in Syncs \ {p} : CallOK(files, remote', q, syncs[q])
    BY <1>4, <2>6, OthersKeep DEF FeishuInv
  <2>8. QED
    BY <1>1, <1>5, <2>6, <2>7, Moves DEF z
<1>9. CASE ~ a.done
  <2>1. remote' = remote
    BY <1>2, <1>9
  <2>2. \A k \in chunk : k \in z.fresh => k \in NextChunk(z.fresh) /\ z.lost = s.lost
    BY <1>1, <1>6, <1>9
  <2>3. Placed(files, remote, z) /\ Fresh(files, remote, z)
    BY <1>1, <1>5, <1>7 DEF CallOK, Placed, Fresh
  <2>4. \A row : From(files, t, s, row) => From(files, t, z, row)
    BY <1>7, <2>2 DEF From, chunk
  <2>5. Made(files, remote, p, z)
    BY <1>1, <1>5, <2>4 DEF CallOK, Made
  <2>6. CallOK(files, remote, p, z)
    BY <1>1, <2>3, <2>5 DEF CallOK
  <2>7. QED
    BY <1>1, <1>5, <2>1, <2>6, QuietStep DEF z
<1>10. QED
  BY <1>3, <1>8, <1>9

-----------------------------------------------------------------------------

LEMMA FeishuStep ==
  ASSUME FeishuInv, [FeishuNext]_feishuVars
  PROVE  FeishuInv'
<1>1. CASE FeishuNext
  BY <1>1, StartKeeps, NextTableKeeps, ListPageKeeps, UpdateRecordKeeps, CreateChunkKeeps,
     EndTableKeeps, FinishKeeps DEF FeishuNext
<1>2. CASE UNCHANGED feishuVars
  BY <1>2 DEF feishuVars, FeishuInv
<1>3. QED
  BY <1>1, <1>2

LEMMA FeishuStart == FeishuInit => FeishuInv
<1> SUFFICES ASSUME FeishuInit PROVE FeishuInv
  OBVIOUS
<1>1. RemoteOK(remote) /\ \A t \in DOMAIN remote : \A i \in DOMAIN remote[t] : remote[t][i].by = Nil
  <2>1. /\ \A t \in DOMAIN remote : remote[t] \in Seq(OldRow)
        /\ \A t \in DOMAIN TableIds : HasId(t) => t \in DOMAIN remote
        /\ remote = [t \in DOMAIN remote |-> remote[t]]
    BY FeishuAssumption DEF FeishuInit, FeishuAssumption
  <2>2. OldRow \subseteq Row /\ \A row \in OldRow : row.by = Nil
    BY DEF OldRow, Row
  <2>3. \A rows : rows \in Seq(OldRow) =>
          rows \in Seq(Row) /\ \A i \in DOMAIN rows : rows[i].by = Nil
    BY <2>2
  <2>4. QED
    BY <2>1, <2>3 DEF RemoteOK
<1>2. ASSUME NEW p \in Syncs  PROVE CallOK(files, remote, p, syncs[p])
  <2>1. syncs[p] = NoSync /\ SyncShape(NoSync) /\ NoSync.pc = "idle" /\ NoSync.lists = << >>
    BY DEF FeishuInit, NoSync, SyncShape
  <2>2. p # Nil
    BY FeishuAssumption DEF FeishuAssumption
  <2>3. \A t \in DOMAIN remote : \A i \in DOMAIN remote[t] : remote[t][i].by # p
    BY <1>1, <2>2
  <2>4. DOMAIN NoSync.lists = {}
    BY <2>1
  <2>5. Placed(files, remote, syncs[p]) /\ Fresh(files, remote, syncs[p])
    BY <2>1, <2>4 DEF Placed, Fresh
  <2>6. Made(files, remote, p, syncs[p]) /\ Pairs(files, remote, p)
    BY <2>3 DEF Made, Pairs
  <2>7. QED
    BY <2>5, <2>6 DEF CallOK
<1>3. QED
  BY <1>1, <1>2 DEF FeishuInit, FeishuInv

\* The keys of rows that are to be known by one.
LEMMA RowKey ==
  ASSUME NEW t \in DefaultTableNames, NEW row, HasKey(t, row)
  PROVE  Key(t, row) = row.id
BY DEF DefaultTableNames, HasKey, PrimaryKeys, Key, GetPrimaryKey

LEMMA FeishuInvExplains == FeishuInv => DuplicatesAreExplained
<1> SUFFICES ASSUME FeishuInv, NEW t \in DOMAIN remote \cap DefaultTableNames,
                    NEW i \in DOMAIN remote[t], NEW j \in DOMAIN remote[t],
                    i < j, remote[t][i].id = remote[t][j].id,
                    HasKey(t, remote[t][i]), HasKey(t, remote[t][j]), remote[t][j].by # Nil
             PROVE  LET first == remote[t][i]  second == remote[t][j]
                    IN \/ first.by = second.by /\ (second.again \/ Twice(files[t], second.id))
                       \/ first.by # second.by /\ LET list == syncs[second.by].lists[t]
                                                  IN list.cut \/ i > list.upto
  BY DEF DuplicatesAreExplained
<1> DEFINE first == remote[t][i]  second == remote[t][j]  p == second.by
<1>1. remote[t] \in Seq(Row)
  BY DEF FeishuInv, RemoteOK
<1>2. DOMAIN remote[t] \subseteq Int /\ second \in Row
  BY <1>1
<1>3. p \in Syncs
  BY <1>2 DEF Row
<1>4. CallOK(files, remote, p, syncs[p])
  BY <1>3 DEF FeishuInv
<1>5. CASE first.by = p
  BY <1>4, <1>5 DEF CallOK, Pairs
<1>6. CASE first.by # p
  <2> DEFINE list == syncs[p].lists[t]
  <2>1. second.id # Nil /\ Unlisted(remote, t, list, second) /\ t \in DOMAIN syncs[p].lists
    BY <1>4 DEF CallOK, Made
  <2>2. SameKey(t, first, second)
    BY <2>1, RowKey DEF SameKey
  <2>3. list.cut \/ ~ (i <= list.upto)
    BY <2>1, <2>2 DEF Unlisted
  <2>4. list.upto \in Int /\ i \in Int
    BY <1>2, <1>4, <2>1 DEF CallOK, Placed
  <2>5. list.cut \/ i > list.upto
    BY <2>3, <2>4
  <2>6. QED
    BY <1>6, <2>5
<1>7. QED
  BY <1>5, <1>6

\* Two rows of one key are there only for a reason: the service hid that it
\* had made the first, or the file or another call had it first.
THEOREM DuplicatesExplained == FeishuSpec => []DuplicatesAreExplained
<1>1. FeishuInit => FeishuInv
  BY FeishuStart
<1>2. FeishuInv /\ [FeishuNext]_feishuVars => FeishuInv'
  BY FeishuStep
<1>3. FeishuInv => DuplicatesAreExplained
  BY FeishuInvExplains
<1>4. QED
  BY <1>1, <1>2, <1>3, PTL DEF FeishuSpec

=============================================================================
