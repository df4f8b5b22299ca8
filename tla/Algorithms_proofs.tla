------------------------- MODULE Algorithms_proofs -------------------------
(***************************************************************************)
(* Proofs about the parts that run on their own: the annotations of any    *)
(* object, the choice of models out of any document, the hiding of any     *)
(* Secrets, and the graph of owners, for every set of resources.           *)
(***************************************************************************)
EXTENDS MCAlgorithms, FiniteSetTheorems, SequenceTheorems, TLAPS

-----------------------------------------------------------------------------
(* Annotations                                                              *)

\* Types returns supported hook types only (NewHookType, Type.HookType).
LEMMA TypesAreSupported == ASSUME NEW a PROVE Types(a) \subseteq HookTypes
<1>1. Supported(a.hook, HookTypes) \subseteq HookTypes
  BY DEF Supported
<1>2. Translated(a.helm, HelmHookTypes) \subseteq HookTypes
  <2>1. \A t \in DOMAIN HelmHookTypes : HelmHookTypes[t] \in HookTypes
    BY DEF HelmHookTypes, HookTypes
  <2> QED BY <2>1 DEF Translated, Supported
<1> QED BY <1>1, <1>2 DEF Types

\* No object is left out of a sync for want of a phase but those that ask to be
\* skipped and hooks of an unknown type: hook.Skip and ignore.Ignore, by which
\* the callers tell such objects, agree with syncPhases on all others.
THEOREM PhasesAreTold ==
    ASSUME NEW a PROVE SyncPhases(a) = {} <=> Skip(a) \/ Ignore(a)
<1>1. CASE Skip(a)
  BY <1>1 DEF SyncPhases
<1>2. CASE ~Skip(a) /\ IsHook(a)
  <2>1. SyncPhases(a) = Types(a) \ {"Skip"}
    BY <1>2 DEF SyncPhases
  <2>2. Types(a) \ {"Skip"} = {} <=> Types(a) = {}
    BY <1>2 DEF Skip
  <2> QED BY <1>2, <2>1, <2>2 DEF Ignore
<1>3. CASE ~Skip(a) /\ ~IsHook(a)
  BY <1>3 DEF SyncPhases, Ignore
<1> QED BY <1>1, <1>2, <1>3

\* A supported type of Argo CD's annotation decides alone: Helm's annotation
\* changes neither whether an object is a hook nor its phases.
THEOREM ArgoDecides ==
    ASSUME NEW a, NEW b,
           a.hook = b.hook, Supported(a.hook, HookTypes) # {}
    PROVE  IsHook(a) = IsHook(b) /\ SyncPhases(a) = SyncPhases(b)
<1>1. Types(a) = Types(b)
  BY DEF Types
<1>2. a.hook # Absent
  BY DEF Supported, GetAnnotationCSVs
<1>3. Skip(a) = Skip(b)
  BY <1>1 DEF Skip
<1>4. IsHook(a) = IsHook(b)
  BY <1>2, <1>3 DEF IsHook
<1> QED BY <1>1, <1>3, <1>4 DEF SyncPhases

\* Hooks, and only hooks, are cleaned up by some rule: a policy that is not
\* supported, of either tool, leaves a hook with the default one
\* (hook.DeletePolicies, syncTask.hasHookDeletePolicy).
THEOREM SomePolicy ==
    ASSUME NEW a
    PROVE  IsHook(a) <=> \E p \in HookDeletePolicies : HasHookDeletePolicy(a, p)
<1>1. \A p \in DOMAIN HelmDeletePolicies : HelmDeletePolicies[p] \in HookDeletePolicies
  BY DEF HelmDeletePolicies, HookDeletePolicies
<1>2. Translated(a.helmPolicy, HelmDeletePolicies) \subseteq HookDeletePolicies
  BY <1>1 DEF Translated, Supported
<1>3. "BeforeHookCreation" \in HookDeletePolicies
  BY DEF HookDeletePolicies
<1>4. DeletePolicies(a) # {} /\ DeletePolicies(a) \subseteq HookDeletePolicies
  BY <1>2, <1>3 DEF DeletePolicies, Supported
<1> QED BY <1>4 DEF HasHookDeletePolicy

-----------------------------------------------------------------------------
(* UniqueModels                                                             *)

\* The gvks that were seen are those of the models that are kept.
Known ==
    /\ at \in Nat \ {0}
    /\ models \subseteq 1..(at - 1)
    /\ gvks = UNION {KindsOf(document[m]) : m \in models}

Inv == Known /\ NoSharedKind /\ FirstStays

\* A model clashes with what was seen exactly if it has a gvk with a kind of it.
LEMMA ProcessedIsShared ==
    ASSUME NEW s
    PROVE  Processed(s) = {} <=> KindsOf(s) \cap gvks = {}
BY DEF Processed, KindsOf

\* One more model keeps the invariant.
LEMMA ProcessKeeps == Inv /\ [Process]_vars => Inv'
<1> SUFFICES ASSUME Inv, [Process]_vars PROVE Inv'
    OBVIOUS
<1> USE DEF Inv, Known
<1>1. CASE UNCHANGED vars
    <2>1. document' = document /\ at' = at /\ models' = models /\ gvks' = gvks
        BY <1>1 DEF vars
    <2>2. \A m, n : Shared(m, n)' = Shared(m, n)
        BY <2>1 DEF Shared, KindsOf
    <2>3. NoSharedKind' /\ FirstStays'
        BY <2>1, <2>2 DEF NoSharedKind, FirstStays
    <2> QED BY <2>1, <2>3
<1>2. CASE Process
    <2> DEFINE s == document[at]
    <2>1. document' = document /\ at' = at + 1 /\ at \in Nat \ {0} /\ at' - 1 = at
        BY <1>2 DEF Process
    <2>2. \A m, n : Shared(m, n)' = Shared(m, n)
        BY <2>1 DEF Shared, KindsOf
    <2>3. CASE Processed(s) = {}
        <3>1. models' = models \cup {at} /\ gvks' = gvks \cup KindsOf(s)
            BY <1>2, <2>3 DEF Process
        <3>2. KindsOf(s) \cap gvks = {}
            BY <2>3, ProcessedIsShared
        <3>3. \A m \in models : Shared(m, at) = {} /\ Shared(at, m) = {}
            BY <3>2 DEF Shared
        <3>4. NoSharedKind'
            BY <3>1, <3>3, <2>2 DEF NoSharedKind
        <3>5. FirstStays'
            <4> SUFFICES ASSUME NEW m \in 1..(at' - 1), m \notin models'
                         PROVE  \E n \in models' : n < m /\ Shared(m, n)' # {}
                BY DEF FirstStays
            <4>1. m \in 1..(at - 1) /\ m \notin models
                BY <2>1, <3>1
            <4> QED BY <4>1, <3>1, <2>2 DEF FirstStays
        <3>6. gvks' = UNION {KindsOf(document[m]) : m \in models'}
            BY <3>1
        <3> QED BY <2>1, <3>1, <3>4, <3>5, <3>6
    <2>4. CASE Processed(s) # {}
        <3>1. models' = models /\ gvks' = gvks
            BY <1>2, <2>4 DEF Process
        <3>2. PICK n \in models : KindsOf(s) \cap KindsOf(document[n]) # {}
            BY <2>4, ProcessedIsShared
        <3>3. n < at /\ Shared(at, n) # {}
            BY <3>2, <2>1 DEF Shared
        <3>4. FirstStays'
            <4> SUFFICES ASSUME NEW m \in 1..(at' - 1), m \notin models'
                         PROVE  \E k \in models' : k < m /\ Shared(m, k)' # {}
                BY DEF FirstStays
            <4>1. CASE m = at
                BY <4>1, <3>1, <3>3, <2>2
            <4>2. CASE m # at
                <5>1. m \in 1..(at - 1)
                    BY <4>2, <2>1
                <5> QED BY <5>1, <3>1, <2>2 DEF FirstStays
            <4> QED BY <4>1, <4>2
        <3>5. NoSharedKind'
            BY <3>1, <2>2 DEF NoSharedKind
        <3> QED BY <2>1, <3>1, <3>4, <3>5
    <2> QED BY <2>3, <2>4
<1> QED BY <1>1, <1>2

\* The invariant holds in every state.
LEMMA InvHolds == Spec => []Inv
<1>1. NewUniqueModels => Inv
    BY DEF NewUniqueModels, Inv, Known, NoSharedKind, FirstStays
<1> QED BY <1>1, ProcessKeeps, PTL DEF Spec

\* No two models of the result share a gvk, so that the parser accepts it,
\* whatever the document of the cluster.
THEOREM NoKindTwice == Spec => []NoSharedKind
BY InvHolds, PTL DEF Inv

\* A model is left out only for a model with an earlier name that stays.
THEOREM FirstOneStays == Spec => []FirstStays
BY InvHolds, PTL DEF Inv

-----------------------------------------------------------------------------
(* Steps of a part                                                          *)

SecretStep ==
    \/ S!Collect \/ S!Restore
    \/ \E k \in SecretKeys : S!HideData(k)
    \/ \E a \in SecretNotes : S!HideAnnotation(a)

\* A behaviour is of one part; steps of the others leave its variables alone.
LEMMA SecretSteps ==
    ASSUME [Next]_allVars
    PROVE  /\ part' = part
           /\ part = "secret" => SecretStep \/ UNCHANGED SecretVars
<1>1. CASE UNCHANGED allVars
  BY <1>1 DEF allVars
<1>2. CASE Next
  BY <1>2 DEF Next, OfPlan, OfGraph, OfSecret, OfModels, SecretStep
<1> QED
  BY <1>1, <1>2

-----------------------------------------------------------------------------
(* HideSecret: signs                                                        *)

\* The first of some objects.
LEMMA FirstObject ==
    ASSUME NEW T \in SUBSET S!Objs, T # {}
    PROVE  \E m \in T : \A h \in T : m <= h
<1>1. S!Objs = 1..3
  BY DEF S!Objs
<1>2. CASE 1 \in T
  BY <1>1, <1>2
<1>3. CASE 1 \notin T /\ 2 \in T
  BY <1>1, <1>3
<1>4. CASE 1 \notin T /\ 2 \notin T
  <2>1. \A h \in T : h = 3
    BY <1>1, <1>4
  <2>2. 3 \in T
    BY <2>1
  <2> QED
    BY <2>1, <2>2
<1> QED
  BY <1>2, <1>3, <1>4

\* The values of some objects are no more than the objects.
LEMMA FewValues ==
    ASSUME NEW T \in SUBSET S!Objs, NEW v
    PROVE  LET V == {v[j] : j \in T}
           IN  IsFiniteSet(V) /\ Cardinality(V) \in 0..3
<1> DEFINE V == {v[j] : j \in T}
           f == [j \in T |-> v[j]]
<1>1. IsFiniteSet(S!Objs) /\ Cardinality(S!Objs) = 3
  <2> DEFINE n == 3
  <2>1. S!Objs = 1..n /\ n \in Int /\ n >= 1
    BY DEF S!Objs
  <2> HIDE DEF n
  <2>2. IsFiniteSet(1..n) /\ Cardinality(1..n) = n
    BY <2>1, FS_Interval
  <2> QED
    BY <2>1, <2>2 DEF n
<1>2. IsFiniteSet(T) /\ Cardinality(T) <= 3
  BY <1>1, FS_Subset
<1>3. f \in Surjection(T, V)
  BY DEF Surjection
<1>4. IsFiniteSet(V) /\ Cardinality(V) <= Cardinality(T)
  BY <1>2, <1>3, FS_Surjection
<1>5. Cardinality(V) \in Nat /\ Cardinality(T) \in Nat
  BY <1>2, <1>4, FS_CardinalityType
<1> QED
  BY <1>2, <1>4, <1>5

\* The copy of an operator of a standard module that HideSecret brings is the
\* operator itself.
LEMMA SameCardinality == \A X : S!Cardinality(X) = Cardinality(X)
BY DEF S!Cardinality, Cardinality

\* The values that are met up to some object, and how many they are.
Seen(v, f) == {v[h] : h \in {g \in DOMAIN v : g <= f}}

\* The first object with the value of x.
IsFirst(v, f, x) == /\ v[f] = v[x]
                    /\ \A h \in DOMAIN v : v[h] = v[x] => f <= h

\* An object's value is met by then, among at most three values.
LEMMA SeenIsSmall ==
    ASSUME NEW T \in SUBSET S!Objs, NEW v, DOMAIN v = T, NEW f \in T
    PROVE  /\ IsFiniteSet(Seen(v, f)) /\ Cardinality(Seen(v, f)) \in 1..3
           /\ v[f] \in Seen(v, f)
<1> DEFINE U == {g \in DOMAIN v : g <= f}
<1>1. f \in U /\ U \in SUBSET S!Objs
  <2>1. f \in S!Objs
    OBVIOUS
  <2>2. f <= f
    BY <2>1 DEF S!Objs
  <2> QED
    BY <2>2
<1>2. Seen(v, f) = {v[h] : h \in U}
  BY DEF Seen
<1> HIDE DEF U
<1>3. v[f] \in Seen(v, f)
  BY <1>1, <1>2
<1>4. IsFiniteSet(Seen(v, f)) /\ Cardinality(Seen(v, f)) \in 0..3
  BY <1>1, <1>2, FewValues
<1>5. Cardinality(Seen(v, f)) # 0
  BY <1>3, <1>4, FS_EmptySet
<1> QED
  BY <1>3, <1>4, <1>5

\* More values are met up to the first object of a later value.
LEMMA LaterSeesMore ==
    ASSUME NEW T \in SUBSET S!Objs, NEW v, DOMAIN v = T,
           NEW f \in T, NEW g \in T, IsFirst(v, g, g), f < g
    PROVE  Cardinality(Seen(v, f)) # Cardinality(Seen(v, g))
<1>1. \A h \in T : h \in Int
  BY DEF S!Objs
<1>2. Seen(v, f) \subseteq Seen(v, g)
  <2>1. \A h \in DOMAIN v : h <= f => h <= g
    BY <1>1
  <2> QED
    BY <2>1 DEF Seen
<1>3. v[g] \notin Seen(v, f)
  <2>1. \A h \in DOMAIN v : v[h] = v[g] => ~(h <= f)
    BY <1>1 DEF IsFirst
  <2> QED
    BY <2>1 DEF Seen
<1>4. v[g] \in Seen(v, g) /\ IsFiniteSet(Seen(v, g))
  BY SeenIsSmall
<1> QED
  BY <1>2, <1>3, <1>4, FS_Subset

\* Equal values have equal signs and different values different ones.
LEMMA SignsTell ==
    ASSUME NEW T \in SUBSET S!Objs, NEW v, DOMAIN v = T, NEW i \in T, NEW j \in T
    PROVE  /\ S!Sign(v, i) \in S!SignSet
           /\ (S!Sign(v, i) = S!Sign(v, j)) <=> (v[i] = v[j])
<1> DEFINE Holder(x) == CHOOSE f \in DOMAIN v : IsFirst(v, f, x)
<1>1. ASSUME NEW x \in T
      PROVE  Holder(x) \in T /\ IsFirst(v, Holder(x), x) /\ IsFirst(v, Holder(x), Holder(x))
  <2>1. PICK f \in {h \in T : v[h] = v[x]} : \A h \in {g \in T : v[g] = v[x]} : f <= h
    BY FirstObject
  <2>2. f \in T /\ IsFirst(v, f, x)
    BY <2>1 DEF IsFirst
  <2>3. Holder(x) \in T /\ IsFirst(v, Holder(x), x)
    BY <2>2
  <2> HIDE DEF Holder
  <2> QED
    BY <2>3 DEF IsFirst
<1>2. ASSUME NEW x \in T
      PROVE  S!Sign(v, x) = <<"sign", Cardinality(Seen(v, Holder(x)))>>
  BY SameCardinality DEF S!Sign, Seen, IsFirst
<1>3. ASSUME v[i] = v[j]
      PROVE  Holder(i) = Holder(j)
  BY <1>3 DEF IsFirst
<1> HIDE DEF Holder
<1>4. S!Sign(v, i) \in S!SignSet
  BY <1>1, <1>2, SeenIsSmall DEF S!SignSet, S!Objs
<1>5. ASSUME v[i] # v[j]
      PROVE  Cardinality(Seen(v, Holder(i))) # Cardinality(Seen(v, Holder(j)))
  <2>1. Holder(i) # Holder(j)
    BY <1>1, <1>5 DEF IsFirst
  <2>2. Holder(i) \in Int /\ Holder(j) \in Int
    <3>1. \A h \in T : h \in Int
      BY DEF S!Objs
    <3> QED
      BY <1>1, <3>1
  <2>3. Holder(i) < Holder(j) \/ Holder(j) < Holder(i)
    BY <2>1, <2>2
  <2> QED
    BY <1>1, <2>3, LaterSeesMore
<1> QED
  BY <1>2, <1>3, <1>4, <1>5

-----------------------------------------------------------------------------
(* HideSecret: the invariant                                                *)

Given == {i \in S!Objs : given[i] # None}

SecretTypes ==
    /\ given \in [S!Objs -> Secrets \cup {None}]
    /\ objs \in [S!Objs -> S!Holdings \cup {None}]
    /\ \A i \in S!Objs : objs[i] = None <=> given[i] = None
    /\ normalized \in {{}, {1}, {1, 2}, S!Objs}
    /\ keys \subseteq SecretKeys
    /\ normalized # S!Objs => annotations = hidden

\* An object is as it was until it is normalized; its data is then what it
\* said, until the key is hidden, and told apart as before ever after.
DataInv ==
    /\ \A i \in Given \ normalized : objs[i] = given[i]
    /\ \A i \in Given \cap normalized, k \in SecretKeys :
          normalized # S!Objs \/ k \in keys => objs[i].data[k] = S!Said(i, k)
    /\ \A i, j \in Given \cap normalized, k \in SecretKeys :
          (objs[i].data[k] = objs[j].data[k]) <=> (S!Said(i, k) = S!Said(j, k))

\* So are the annotations, without the normalization.
NotesInv ==
    /\ \A i \in Given, a \in SecretNotes :
          a \in annotations => objs[i].annotations[a] = given[i].annotations[a]
    /\ \A i, j \in Given, a \in SecretNotes :
          (objs[i].annotations[a] = objs[j].annotations[a])
             <=> (given[i].annotations[a] = given[j].annotations[a])

SecretInv == part = "secret" => SecretTypes /\ DataInv /\ NotesInv

\* What a Secret may be is what an object may hold.
LEMMA SecretsHold ==
    ASSUME NEW s \in Secrets
    PROVE  /\ s \in [data : S!Data, stringData : S!StringData, annotations : S!Notes]
           /\ s \in S!Holdings
           /\ s # None
<1>1. s \in [data : S!Data, stringData : S!StringData, annotations : S!Notes]
  BY SecretConstants DEF S!HideSecretAssumption
<1>2. s \in S!Holdings
  <2>1. s.data \in [SecretKeys -> {S!Encode(v) : v \in Values} \cup {Null, Absent} \cup S!SignSet]
    BY <1>1 DEF S!Data
  <2>2. s.annotations \in [SecretNotes -> {S!Plain(v) : v \in Values} \cup {Absent} \cup S!SignSet]
    BY <1>1 DEF S!Notes
  <2> QED
    BY <1>1, <2>1, <2>2 DEF S!Holdings
<1> QED
  BY <1>1, <1>2, SecretConstants DEF S!HideSecretAssumption

\* A normalized object has the data it said and the annotations it had.
LEMMA NormalizeSays ==
    ASSUME NEW i \in S!Objs, given[i] \in Secrets
    PROVE  LET n == S!NormalizeSecret(given[i])
           IN  /\ n \in S!Holdings
               /\ \A k \in SecretKeys : n.data[k] = S!Said(i, k)
               /\ n.annotations = given[i].annotations
<1> DEFINE s == given[i]
           n == S!NormalizeSecret(s)
           enc == {S!Encode(v) : v \in Values}
<1>1. s \in [data : S!Data, stringData : S!StringData, annotations : S!Notes]
      /\ s \in S!Holdings /\ s # None
  BY SecretsHold
<1>2. n = [data |-> [k \in SecretKeys |-> S!Said(i, k)],
           stringData |-> [k \in SecretKeys |-> Absent],
           annotations |-> s.annotations]
  <2> DEFINE said == [k \in SecretKeys |-> IF s.stringData[k] # Absent THEN S!Encode(s.stringData[k])
                                           ELSE IF s.data[k] = Null THEN S!Encode(S!Empty)
                                           ELSE s.data[k]]
             none == [k \in SecretKeys |-> Absent]
  <2>1. said = [k \in SecretKeys |-> S!Said(i, k)]
    BY <1>1 DEF S!Said
  <2>2. n = [[s EXCEPT !.data = said] EXCEPT !.stringData = none]
    BY DEF S!NormalizeSecret
  <2> HIDE DEF said, none, n
  <2>3. n = [data |-> said, stringData |-> none, annotations |-> s.annotations]
    BY <1>1, <2>2
  <2> QED
    BY <2>1, <2>3 DEF none
<1>3. \A k \in SecretKeys : S!Said(i, k) \in enc \cup {Null, Absent}
  <2>1. S!Encode(S!Empty) \in enc
    BY SecretConstants DEF S!HideSecretAssumption
  <2>2. ASSUME NEW k \in SecretKeys
        PROVE  s.data[k] \in enc \cup {Null, Absent} /\ s.stringData[k] \in Values \cup {Absent}
    <3>1. s.data \in [SecretKeys -> enc \cup {Null, Absent}]
          /\ s.stringData \in [SecretKeys -> Values \cup {Absent}]
      BY <1>1 DEF S!Data, S!StringData
    <3> QED
      BY <3>1
  <2> QED
    BY <2>1, <2>2 DEF S!Said
<1>4. n.data \in [SecretKeys -> enc \cup {Null, Absent} \cup S!SignSet]
      /\ n.stringData \in S!StringData
      /\ n.annotations \in [SecretNotes -> {S!Plain(v) : v \in Values} \cup {Absent} \cup S!SignSet]
  <2>1. s.annotations \in [SecretNotes -> {S!Plain(v) : v \in Values} \cup {Absent} \cup S!SignSet]
    BY <1>1 DEF S!Holdings
  <2> QED
    BY <1>2, <1>3, <2>1 DEF S!StringData
<1>5. n \in S!Holdings
  BY <1>2, <1>4 DEF S!Holdings
<1> QED
  BY <1>2, <1>5

\* The objects are normalized in their order.
LEMMA NextIs ==
    ASSUME normalized \in {{}, {1}, {1, 2}, S!Objs}, normalized # S!Objs
    PROVE  /\ S!Next3 \in S!Objs \ normalized
           /\ normalized \cup {S!Next3} \in {{}, {1}, {1, 2}, S!Objs}
<1>1. S!Next3 = Cardinality(normalized) + 1
  BY SameCardinality DEF S!Next3
<1>2. CASE normalized = {}
  BY <1>1, <1>2, FS_EmptySet DEF S!Objs
<1>3. CASE normalized = {1}
  <2>1. Cardinality({1}) = 1
    BY FS_Singleton
  <2> QED
    BY <1>1, <1>3, <2>1 DEF S!Objs
<1>4. CASE normalized = {1, 2}
  <2>1. Cardinality({1}) = 1 /\ IsFiniteSet({1}) /\ {1} \cup {2} = {1, 2}
    BY FS_Singleton
  <2>2. Cardinality({1, 2}) = 2
    BY <2>1, FS_AddElement
  <2> QED
    BY <1>1, <1>4, <2>2 DEF S!Objs
<1> QED
  BY <1>2, <1>3, <1>4

SecretGood == SecretTypes /\ DataInv /\ NotesInv

\* An object that was given is one of the secrets, and holds what it may.
LEMMA GivenAre ==
    ASSUME SecretTypes, NEW i \in Given
    PROVE  i \in S!Objs /\ given[i] \in Secrets /\ objs[i] \in S!Holdings /\ objs[i] # None
BY DEF SecretTypes, Given

\* Normalizing the next object keeps the invariant.
LEMMA CollectKeeps ==
    ASSUME SecretGood, S!Collect
    PROVE  SecretGood'
<1> DEFINE n == S!Next3
<1>1. /\ SecretTypes /\ DataInv /\ NotesInv
      /\ normalized # S!Objs /\ normalized' = normalized \cup {n}
      /\ UNCHANGED <<given, hidden, annotations>>
  BY DEF SecretGood, S!Collect
<1>2. n \in S!Objs \ normalized /\ normalized' \in {{}, {1}, {1, 2}, S!Objs}
  BY <1>1, NextIs DEF SecretTypes
<1>3. \A i, k : S!Said(i, k)' = S!Said(i, k)
  BY <1>1 DEF S!Said
<1>4. Given' = Given
  BY <1>1 DEF Given
<1>5. /\ objs' \in [S!Objs -> S!Holdings \cup {None}]
      /\ keys' \subseteq SecretKeys
      /\ \A i \in S!Objs : i # n => objs'[i] = objs[i]
      /\ objs'[n] = None <=> given[n] = None
      /\ n \in Given => /\ \A k \in SecretKeys : objs'[n].data[k] = S!Said(n, k)
                        /\ objs'[n].annotations = given[n].annotations
  <2>1. CASE objs[n] = None
    <3>1. UNCHANGED <<objs, keys>> /\ given[n] = None
      BY <1>1, <1>2, <2>1 DEF S!Collect, SecretTypes
    <3> QED
      BY <1>1, <2>1, <3>1 DEF SecretTypes, Given
  <2>2. CASE objs[n] # None
    <3>1. given[n] \in Secrets /\ n \in Given /\ objs[n] = given[n]
      BY <1>1, <1>2, <2>2 DEF SecretTypes, Given, DataInv
    <3>2. /\ objs' = [objs EXCEPT ![n] = S!NormalizeSecret(objs[n])]
          /\ keys' = keys \cup {k \in SecretKeys : objs'[n].data[k] # Absent}
      BY <2>2 DEF S!Collect
    <3> DEFINE good == S!NormalizeSecret(given[n])
    <3>3. /\ good \in S!Holdings
          /\ \A k \in SecretKeys : good.data[k] = S!Said(n, k)
          /\ good.annotations = given[n].annotations
      BY <1>2, <3>1, NormalizeSays
    <3>4. objs' = [objs EXCEPT ![n] = good]
      BY <3>1, <3>2
    <3> HIDE DEF good
    <3>5. good # None
      BY <3>3, SecretConstants DEF S!HideSecretAssumption
    <3> HIDE DEF n
    <3>6. n \in S!Objs /\ objs \in [S!Objs -> S!Holdings \cup {None}] /\ keys \subseteq SecretKeys
      BY <1>1, <1>2 DEF SecretTypes
    <3>7. objs'[n] = good /\ \A i \in S!Objs : i # n => objs'[i] = objs[i]
      BY <3>4, <3>6
    <3>8. objs' \in [S!Objs -> S!Holdings \cup {None}]
      BY <3>3, <3>4, <3>6
    <3>9. objs'[n] # None /\ given[n] # None
      BY <3>1, <3>5, <3>7, SecretsHold
    <3> QED
      BY <3>2, <3>3, <3>6, <3>7, <3>8, <3>9
  <2> QED
    BY <2>1, <2>2
<1> HIDE DEF n
<1>6. SecretTypes'
  BY <1>1, <1>2, <1>5 DEF SecretTypes
<1>7. \A i \in Given \cap normalized', k \in SecretKeys : objs'[i].data[k] = S!Said(i, k)
  BY <1>1, <1>2, <1>5 DEF DataInv, Given
<1>8. \A i \in Given \ normalized' : objs'[i] = given[i]
  BY <1>1, <1>5 DEF DataInv, Given
<1>9. DataInv'
  BY <1>1, <1>3, <1>4, <1>7, <1>8 DEF DataInv
<1>10. \A i \in Given : objs'[i].annotations = objs[i].annotations
  BY <1>1, <1>2, <1>5 DEF DataInv, Given
<1>11. NotesInv'
  BY <1>1, <1>4, <1>10 DEF NotesInv
<1> QED
  BY <1>6, <1>9, <1>11 DEF SecretGood

\* Where some values of a column are told apart by their signs and the others
\* are absent, the differences are those of the column.
LEMMA ColumnKept ==
    ASSUME NEW T \in SUBSET S!Objs, NEW v, DOMAIN v = T,
           NEW old, NEW new, NEW i, NEW j,
           \A h \in {i, j} : IF h \in T THEN old[h] = v[h] /\ old[h] # Absent /\ new[h] = S!Sign(v, h)
                                        ELSE old[h] = Absent /\ new[h] = Absent
    PROVE  (new[i] = new[j]) <=> (old[i] = old[j])
<1>1. Absent \notin S!SignSet
  BY SecretConstants DEF S!HideSecretAssumption
<1>2. CASE i \in T /\ j \in T
  <2>1. (S!Sign(v, i) = S!Sign(v, j)) <=> (v[i] = v[j])
    BY <1>2, SignsTell
  <2> QED
    BY <1>2, <2>1
<1>3. CASE i \in T /\ j \notin T
  <2>1. S!Sign(v, i) \in S!SignSet
    BY <1>3, SignsTell
  <2> QED
    BY <1>1, <1>3, <2>1
<1>4. CASE i \notin T /\ j \in T
  <2>1. S!Sign(v, j) \in S!SignSet
    BY <1>4, SignsTell
  <2> QED
    BY <1>1, <1>4, <2>1
<1> QED
  BY <1>2, <1>3, <1>4

\* Hiding a key of data keeps the invariant.
LEMMA HideDataKeeps ==
    ASSUME SecretGood, NEW k \in SecretKeys, S!HideData(k)
    PROVE  SecretGood'
<1> DEFINE T == {i \in S!Objs : objs[i] # None /\ objs[i].data[k] # Absent}
           v == [i \in T |-> objs[i].data[k]]
<1>1. /\ SecretTypes /\ DataInv /\ NotesInv
      /\ normalized = S!Objs /\ k \in keys /\ keys' = keys \ {k}
      /\ UNCHANGED <<given, hidden, normalized, annotations>>
  BY DEF SecretGood, S!HideData
<1>2. objs' = [i \in S!Objs |-> IF i \in T THEN [objs[i] EXCEPT !.data[k] = S!Sign(v, i)]
                                ELSE objs[i]]
  BY DEF S!HideData, S!Signs
<1>3. \A i, h : S!Said(i, h)' = S!Said(i, h)
  BY <1>1 DEF S!Said
<1>4. Given' = Given /\ \A i \in S!Objs : i \in Given <=> objs[i] # None
  BY <1>1 DEF Given, SecretTypes
<1>5. T \in SUBSET S!Objs /\ DOMAIN v = T /\ (\A i \in T : i \in Given /\ v[i] = objs[i].data[k])
      /\ \A i \in Given : i \notin T => objs[i].data[k] = Absent
  BY <1>4, GivenAre, <1>1
<1>6. ASSUME NEW i \in T
      PROVE  /\ objs'[i] \in S!Holdings /\ objs'[i] # None
             /\ objs'[i].data[k] = S!Sign(v, i)
             /\ \A h \in SecretKeys : h # k => objs'[i].data[h] = objs[i].data[h]
             /\ objs'[i].annotations = objs[i].annotations
  <2> DEFINE sign == S!Sign(v, i)
  <2>1. sign \in S!SignSet
    BY <1>5, SignsTell
  <2>2. objs[i] \in S!Holdings
    BY <1>1, <1>5, GivenAre
  <2>3. objs'[i] = [objs[i] EXCEPT !.data[k] = sign]
    BY <1>2, <1>5
  <2> HIDE DEF sign, v, T
  <2>4. objs'[i] \in S!Holdings /\ objs'[i].data[k] = sign
        /\ (\A h \in SecretKeys : h # k => objs'[i].data[h] = objs[i].data[h])
        /\ objs'[i].annotations = objs[i].annotations
    BY <2>1, <2>2, <2>3 DEF S!Holdings
  <2>5. objs'[i] # None
    BY <2>4, SecretConstants DEF S!HideSecretAssumption
  <2> QED
    BY <2>4, <2>5 DEF sign
<1>7. \A i \in S!Objs : i \notin T => objs'[i] = objs[i]
  BY <1>2
<1>8. objs' \in [S!Objs -> S!Holdings \cup {None}]
  <2>1. \A i \in S!Objs : objs'[i] \in S!Holdings \cup {None}
    BY <1>1, <1>6, <1>7 DEF SecretTypes
  <2> QED
    BY <1>2, <2>1
<1> HIDE DEF T, v
<1>9. SecretTypes'
  BY <1>1, <1>4, <1>5, <1>6, <1>7, <1>8 DEF SecretTypes
<1>10. \A i \in Given : /\ objs'[i].annotations = objs[i].annotations
                        /\ \A h \in SecretKeys : h # k => objs'[i].data[h] = objs[i].data[h]
  BY <1>6, <1>7 DEF Given
<1>11. \A i \in Given : objs[i].data[k] = S!Said(i, k)
  BY <1>1 DEF DataInv, Given
<1>12. ASSUME NEW i \in Given, NEW j \in Given
       PROVE  (objs'[i].data[k] = objs'[j].data[k]) <=> (S!Said(i, k) = S!Said(j, k))
  <2> DEFINE old == [h \in Given |-> objs[h].data[k]]
             new == [h \in Given |-> objs'[h].data[k]]
  <2>1. \A h \in {i, j} : IF h \in T THEN old[h] = v[h] /\ old[h] # Absent /\ new[h] = S!Sign(v, h)
                                     ELSE old[h] = Absent /\ new[h] = Absent
    BY <1>5, <1>6, <1>7, <1>11 DEF T, Given
  <2>2. old[i] = S!Said(i, k) /\ old[j] = S!Said(j, k)
        /\ new[i] = objs'[i].data[k] /\ new[j] = objs'[j].data[k]
    BY <1>11
  <2> HIDE DEF old, new
  <2>3. (new[i] = new[j]) <=> (old[i] = old[j])
    BY <1>5, <2>1, ColumnKept
  <2> QED
    BY <2>2, <2>3
<1>13. DataInv'
  BY <1>1, <1>3, <1>4, <1>10, <1>12 DEF DataInv, Given
<1>14. NotesInv'
  BY <1>1, <1>4, <1>10 DEF NotesInv
<1> QED
  BY <1>9, <1>13, <1>14 DEF SecretGood

\* So does hiding an annotation.
LEMMA HideAnnotationKeeps ==
    ASSUME SecretGood, NEW a \in SecretNotes, S!HideAnnotation(a)
    PROVE  SecretGood'
<1> DEFINE T == {i \in S!Objs : objs[i] # None /\ objs[i].annotations[a] # Absent}
           v == [i \in T |-> objs[i].annotations[a]]
<1>1. /\ SecretTypes /\ DataInv /\ NotesInv
      /\ normalized = S!Objs /\ a \in annotations /\ annotations' = annotations \ {a}
      /\ UNCHANGED <<given, hidden, normalized, keys>>
  BY DEF SecretGood, S!HideAnnotation
<1>2. objs' = [i \in S!Objs |-> IF i \in T THEN [objs[i] EXCEPT !.annotations[a] = S!Sign(v, i)]
                                ELSE objs[i]]
  BY DEF S!HideAnnotation, S!Signs
<1>3. \A i, h : S!Said(i, h)' = S!Said(i, h)
  BY <1>1 DEF S!Said
<1>4. Given' = Given /\ \A i \in S!Objs : i \in Given <=> objs[i] # None
  BY <1>1 DEF Given, SecretTypes
<1>5. T \in SUBSET S!Objs /\ DOMAIN v = T
      /\ (\A i \in T : i \in Given /\ v[i] = objs[i].annotations[a])
      /\ \A i \in Given : i \notin T => objs[i].annotations[a] = Absent
  BY <1>4, GivenAre, <1>1
<1>6. ASSUME NEW i \in T
      PROVE  /\ objs'[i] \in S!Holdings /\ objs'[i] # None
             /\ objs'[i].annotations[a] = S!Sign(v, i)
             /\ \A h \in SecretNotes : h # a => objs'[i].annotations[h] = objs[i].annotations[h]
             /\ objs'[i].data = objs[i].data
  <2> DEFINE sign == S!Sign(v, i)
  <2>1. sign \in S!SignSet
    BY <1>5, SignsTell
  <2>2. objs[i] \in S!Holdings
    BY <1>1, <1>5, GivenAre
  <2>3. objs'[i] = [objs[i] EXCEPT !.annotations[a] = sign]
    BY <1>2, <1>5
  <2> HIDE DEF sign, v, T
  <2>4. objs'[i] \in S!Holdings /\ objs'[i].annotations[a] = sign
        /\ (\A h \in SecretNotes : h # a => objs'[i].annotations[h] = objs[i].annotations[h])
        /\ objs'[i].data = objs[i].data
    BY <2>1, <2>2, <2>3 DEF S!Holdings
  <2>5. objs'[i] # None
    BY <2>4, SecretConstants DEF S!HideSecretAssumption
  <2> QED
    BY <2>4, <2>5 DEF sign
<1>7. \A i \in S!Objs : i \notin T => objs'[i] = objs[i]
  BY <1>2
<1>8. objs' \in [S!Objs -> S!Holdings \cup {None}]
  <2>1. \A i \in S!Objs : objs'[i] \in S!Holdings \cup {None}
    BY <1>1, <1>6, <1>7 DEF SecretTypes
  <2> QED
    BY <1>2, <2>1
<1> HIDE DEF T, v
<1>9. SecretTypes'
  BY <1>1, <1>4, <1>5, <1>6, <1>7, <1>8 DEF SecretTypes
<1>10. \A i \in Given : /\ objs'[i].data = objs[i].data
                        /\ \A h \in SecretNotes : h # a => objs'[i].annotations[h] = objs[i].annotations[h]
  BY <1>6, <1>7 DEF Given
<1>11. \A i \in Given : objs[i].annotations[a] = given[i].annotations[a]
  BY <1>1 DEF NotesInv
<1>12. ASSUME NEW i \in Given, NEW j \in Given
       PROVE  (objs'[i].annotations[a] = objs'[j].annotations[a])
                <=> (given[i].annotations[a] = given[j].annotations[a])
  <2> DEFINE old == [h \in Given |-> objs[h].annotations[a]]
             new == [h \in Given |-> objs'[h].annotations[a]]
  <2>1. \A h \in {i, j} : IF h \in T THEN old[h] = v[h] /\ old[h] # Absent /\ new[h] = S!Sign(v, h)
                                     ELSE old[h] = Absent /\ new[h] = Absent
    BY <1>5, <1>6, <1>7, <1>11 DEF T, Given
  <2>2. old[i] = given[i].annotations[a] /\ old[j] = given[j].annotations[a]
        /\ new[i] = objs'[i].annotations[a] /\ new[j] = objs'[j].annotations[a]
    BY <1>11
  <2> HIDE DEF old, new
  <2>3. (new[i] = new[j]) <=> (old[i] = old[j])
    BY <1>5, <2>1, ColumnKept
  <2> QED
    BY <2>2, <2>3
<1>13. DataInv'
  BY <1>1, <1>3, <1>4, <1>10 DEF DataInv, Given
<1>14. NotesInv'
  BY <1>1, <1>4, <1>10, <1>12 DEF NotesInv
<1> QED
  BY <1>9, <1>13, <1>14 DEF SecretGood

\* A behaviour starts with the objects as they came.
LEMMA SecretStarts == Init => SecretInv
<1> SUFFICES ASSUME Init, part = "secret"
             PROVE  SecretTypes /\ DataInv /\ NotesInv
  BY DEF SecretInv
<1>1. S!Init
  BY DEF Init
<1>2. given \in [S!Objs -> Secrets \cup {None}] /\ objs = given /\ normalized = {} /\ keys = {}
      /\ annotations = hidden
  BY <1>1 DEF S!Init
<1>3. objs \in [S!Objs -> S!Holdings \cup {None}]
  BY <1>2, SecretsHold
<1>4. SecretTypes
  BY <1>2, <1>3 DEF SecretTypes
<1>5. DataInv /\ NotesInv
  BY <1>2 DEF DataInv, NotesInv, Given
<1> QED
  BY <1>4, <1>5

\* Every step keeps the invariant.
LEMMA SecretKeeps == SecretInv /\ [Next]_allVars => SecretInv'
<1> SUFFICES ASSUME SecretInv, [Next]_allVars, part' = "secret"
             PROVE  SecretGood'
  BY DEF SecretInv, SecretGood
<1>1. part = "secret" /\ SecretGood
  BY SecretSteps DEF SecretInv, SecretGood
<1>2. SecretStep \/ UNCHANGED SecretVars
  BY <1>1, SecretSteps
<1>3. CASE UNCHANGED SecretVars
  BY <1>1, <1>3 DEF SecretVars, SecretGood, SecretTypes, DataInv, NotesInv, Given, S!Said
<1>4. CASE S!Restore
  <2>1. UNCHANGED <<given, objs, hidden, normalized, keys, annotations>>
    BY <1>4 DEF S!Restore
  <2> QED
    BY <1>1, <2>1 DEF SecretGood, SecretTypes, DataInv, NotesInv, Given, S!Said
<1> QED
  BY <1>1, <1>2, <1>3, <1>4, CollectKeeps, HideDataKeeps, HideAnnotationKeeps DEF SecretStep

\* Hidden values differ where the values did, for any secrets, keys and
\* annotations, and in whatever order the keys are taken (HideSecretData).
THEOREM SecretsCorrect == PartSpec => []DifferencesKept
<1>1. SecretInv => DifferencesKept
  <2> SUFFICES ASSUME SecretInv, part = "secret", S!Done
               PROVE  S!DifferencesKept
    BY DEF DifferencesKept, S!DifferencesKept
  <2>1. SecretTypes /\ DataInv /\ NotesInv /\ normalized = S!Objs
    BY DEF SecretInv, S!Done, S!Hidden
  <2> QED
    BY <2>1 DEF S!DifferencesKept, DataInv, NotesInv, Given
<1> QED
  BY <1>1, SecretStarts, SecretKeeps, PTL DEF PartSpec

-----------------------------------------------------------------------------
(* Hierarchy: the walk                                                      *)

\* A resource that is being visited, and its children still to be looked at.
Frame == [key : GraphKeys, todo : SUBSET GraphKeys]

Kids(k) == G!Children(resources, k)
CalledKeys == {k \in GraphKeys : called[k] > 0}

\* A set that has all that the walk has to reach.
Closed(ks) ==
    walk.first \subseteq ks /\ \A p \in ks \cap walk.accept : Kids(p) \subseteq ks

WalkTypes ==
    /\ walk \in [on : BOOLEAN, first : SUBSET GraphKeys, roots : SUBSET GraphKeys,
                 accept : SUBSET GraphKeys, stack : Seq(Frame)]
    /\ visited \in [GraphKeys -> 0..2] /\ called \in [GraphKeys -> Nat]
    /\ ~walk.on => walk.accept = {}

\* What is accepted was called if it was visited, and once; nothing else is
\* visited.
Marks ==
    \A k \in GraphKeys : IF k \in walk.accept THEN called[k] = IF visited[k] = 0 THEN 0 ELSE 1
                                              ELSE visited[k] = 0

\* The stack has each resource that is being visited, once.
StackInv ==
    /\ \A i \in 1..Len(walk.stack) : visited[walk.stack[i].key] = 1
    /\ \A k \in GraphKeys : visited[k] = 1 => \E i \in 1..Len(walk.stack) : walk.stack[i].key = k
    /\ \A i, j \in 1..Len(walk.stack) : walk.stack[i].key = walk.stack[j].key => i = j

\* The children of what was visited were called, or are on the stack.
KidsInv ==
    /\ \A k \in GraphKeys : visited[k] = 2 => Kids(k) \subseteq CalledKeys
    /\ \A i \in 1..Len(walk.stack) :
          /\ Kids(walk.stack[i].key) \subseteq CalledKeys \cup walk.stack[i].todo
          /\ walk.stack[i].todo \subseteq Kids(walk.stack[i].key)

\* So were the roots, or they are left; and only what every closed set has.
ReachInv ==
    /\ walk.first \ walk.roots \subseteq CalledKeys /\ walk.roots \subseteq walk.first
    /\ \A ks \in SUBSET GraphKeys : Closed(ks) => CalledKeys \subseteq ks

WalkGood == WalkTypes /\ (walk.on => Marks /\ StackInv /\ KidsInv /\ ReachInv)

WalkInv == part = "graph" => WalkGood

\* A stack without its top.
LEMMA PoppedStack ==
    ASSUME NEW R, NEW s \in Seq(R), s # <<>>
    PROVE  LET p == SubSeq(s, 1, Len(s) - 1)
           IN  /\ Len(s) \in Nat \ {0} /\ s[Len(s)] \in R
               /\ p \in Seq(R) /\ Len(p) = Len(s) - 1
               /\ \A i \in 1..(Len(s) - 1) : p[i] = s[i]
<1> DEFINE n == Len(s) - 1
<1>1. Len(s) \in Nat \ {0} /\ s[Len(s)] \in R /\ n \in Nat
      /\ \A i \in 1..n : s[i] \in R
  OBVIOUS
<1> HIDE DEF n
<1>2. /\ SubSeq(s, 1, n) \in Seq(R)
      /\ Len(SubSeq(s, 1, n)) = IF 1 <= n THEN n - 1 + 1 ELSE 0
      /\ \A i \in 1..(n - 1 + 1) : SubSeq(s, 1, n)[i] = s[1 + i - 1]
  BY <1>1, SubSeqProperties
<1>3. Len(SubSeq(s, 1, n)) = n
  BY <1>1, <1>2
<1>4. \A i \in 1..n : SubSeq(s, 1, n)[i] = s[i]
  BY <1>1, <1>2
<1> QED
  BY <1>1, <1>2, <1>3, <1>4 DEF n

\* A stack, and what is left of it when its top gives up a child.
GivesUp(s, r, c) ==
    /\ Len(s) \in Nat \ {0} /\ s[Len(s)] \in Frame
    /\ r \in Seq(Frame) /\ Len(r) = Len(s)
    /\ \A i \in 1..Len(s) : r[i].key = s[i].key
    /\ \A i \in 1..Len(s) : i # Len(s) => r[i].todo = s[i].todo
    /\ r[Len(s)].todo = s[Len(s)].todo \ {c}

\* WalkChild's stack is that.
LEMMA TopGivesUp ==
    ASSUME NEW s \in Seq(Frame), s # <<>>, NEW c,
           NEW r, r = Append(SubSeq(s, 1, Len(s) - 1), [s[Len(s)] EXCEPT !.todo = @ \ {c}])
    PROVE  GivesUp(s, r, c)
<1> DEFINE n == Len(s)
           t == [s[n] EXCEPT !.todo = @ \ {c}]
           p == SubSeq(s, 1, n - 1)
<1>1. n \in Nat \ {0} /\ s[n] \in Frame
  OBVIOUS
<1>2. t \in Frame /\ t.key = s[n].key /\ t.todo = s[n].todo \ {c}
  BY <1>1 DEF Frame
<1>3. p \in Seq(Frame) /\ Len(p) = n - 1 /\ \A i \in 1..(n - 1) : p[i] = s[i]
  BY PoppedStack
<1> HIDE DEF p, t
<1>4. r = Append(p, t)
  BY DEF p, t
<1>5. r \in Seq(Frame) /\ Len(r) = n /\ r[n] = t /\ \A i \in 1..(n - 1) : r[i] = s[i]
  BY <1>1, <1>2, <1>3, <1>4
<1> HIDE DEF n
<1>6. \A i \in 1..n : i = n \/ i \in 1..(n - 1)
  BY <1>1
<1> QED
  BY <1>1, <1>2, <1>5, <1>6 DEF n, GivesUp

\* When a walk is under way, a call of the action with a key that a closed set
\* has keeps the marks of the others.
LEMMA CallGrows ==
    ASSUME WalkTypes, NEW k \in GraphKeys, called' = [called EXCEPT ![k] = @ + 1]
    PROVE  /\ called' \in [GraphKeys -> Nat] /\ called'[k] = called[k] + 1
           /\ \A h \in GraphKeys : h # k => called'[h] = called[h]
           /\ CalledKeys' = CalledKeys \cup {k}
<1>1. called \in [GraphKeys -> Nat]
  BY DEF WalkTypes
<1>2. called' \in [GraphKeys -> Nat] /\ called'[k] = called[k] + 1
      /\ \A h \in GraphKeys : h # k => called'[h] = called[h]
  BY <1>1
<1>3. \A h \in GraphKeys : called'[h] > 0 <=> called[h] > 0 \/ h = k
  BY <1>1, <1>2
<1> QED
  BY <1>2, <1>3 DEF CalledKeys

\* A walk starts with nothing visited.
LEMMA WalkStartKeeps ==
    ASSUME WalkGood, G!WalkStart
    PROVE  WalkGood'
<1>1. PICK first \in SUBSET GraphKeys, accept \in SUBSET GraphKeys :
         walk' = [on |-> TRUE, first |-> first, roots |-> first, accept |-> accept, stack |-> <<>>]
  <2>1. PICK first \in SUBSET {k \in GraphKeys : G!Cached(k)},
             accept \in {GraphKeys} \cup {GraphKeys \ {k} : k \in Refused} :
           walk' = [on |-> TRUE, first |-> first, roots |-> first, accept |-> accept, stack |-> <<>>]
    BY DEF G!WalkStart
  <2>2. first \in SUBSET GraphKeys /\ accept \in SUBSET GraphKeys
    OBVIOUS
  <2> QED
    BY <2>1, <2>2
<1>2. visited' = [k \in GraphKeys |-> 0] /\ called' = [k \in GraphKeys |-> 0]
  BY DEF G!WalkStart
<1>3. Len(walk'.stack) = 0 /\ walk'.on /\ walk'.roots = walk'.first /\ walk'.stack = <<>>
  BY <1>1
<1>4. WalkTypes'
  BY <1>1, <1>2 DEF WalkTypes
<1>5. CalledKeys' = {}
  BY <1>2 DEF CalledKeys
<1>6. Marks' /\ StackInv' /\ KidsInv' /\ ReachInv'
  BY <1>2, <1>3, <1>5 DEF Marks, StackInv, KidsInv, ReachInv
<1> QED
  BY <1>4, <1>6 DEF WalkGood

\* What the steps of a walk leave alone.
LEMMA WalkLeaves ==
    ASSUME resources' = resources, walk'.first = walk.first, walk'.accept = walk.accept
    PROVE  /\ \A k : Kids(k)' = Kids(k)
           /\ \A ks : Closed(ks)' <=> Closed(ks)
<1>1. \A k : Kids(k)' = Kids(k)
  BY DEF Kids, G!Children
<1> QED
  BY <1>1 DEF Closed

\* Dealing with a key that was given keeps the invariant.
LEMMA WalkRootKeeps ==
    ASSUME WalkGood, NEW k \in GraphKeys, G!WalkRoot(k)
    PROVE  WalkGood'
<1>1. /\ WalkTypes /\ Marks /\ StackInv /\ KidsInv /\ ReachInv
      /\ walk.on /\ walk.stack = <<>> /\ k \in walk.roots /\ resources' = resources
  BY DEF WalkGood, G!WalkRoot
<1>2. Len(walk.stack) = 0 /\ visited[k] # 1
  BY <1>1 DEF StackInv
<1>3. \A ks \in SUBSET GraphKeys : Closed(ks) => k \in ks
  BY <1>1 DEF ReachInv, Closed
<1>4. CASE walk' = [walk EXCEPT !.roots = @ \ {k}] /\ visited' = visited
           /\ (\/ visited[k] = 2 /\ called' = called
               \/ k \notin walk.accept /\ called' = [called EXCEPT ![k] = @ + 1])
  <2>1. /\ walk'.on /\ walk'.first = walk.first /\ walk'.accept = walk.accept
        /\ walk'.roots = walk.roots \ {k} /\ walk'.stack = <<>> /\ Len(walk'.stack) = 0
    BY <1>1, <1>2, <1>4 DEF WalkTypes
  <2>2. /\ called' \in [GraphKeys -> Nat] /\ CalledKeys' = CalledKeys \cup {k}
        /\ \A h \in walk.accept : called'[h] = called[h]
    <3>1. CASE visited[k] = 2 /\ called' = called
      <4>1. called[k] > 0
        BY <1>1, <3>1 DEF Marks
      <4> QED
        BY <1>1, <3>1, <4>1 DEF CalledKeys, WalkTypes
    <3>2. CASE k \notin walk.accept /\ called' = [called EXCEPT ![k] = @ + 1]
      BY <1>1, <3>2, CallGrows DEF WalkTypes
    <3> QED
      BY <1>4, <3>1, <3>2
  <2>3. WalkTypes'
    BY <1>1, <1>4, <2>1, <2>2 DEF WalkTypes
  <2>4. Marks'
    BY <1>1, <1>4, <2>1, <2>2 DEF Marks
  <2>5. StackInv' /\ KidsInv'
    BY <1>1, <1>2, <1>4, <2>1, <2>2, WalkLeaves DEF StackInv, KidsInv
  <2>6. ReachInv'
    BY <1>1, <1>3, <2>1, <2>2, WalkLeaves DEF ReachInv
  <2> QED
    BY <2>3, <2>4, <2>5, <2>6 DEF WalkGood
<1>5. CASE /\ k \in walk.accept /\ visited[k] # 2 /\ called' = [called EXCEPT ![k] = @ + 1]
           /\ visited' = [visited EXCEPT ![k] = 1]
           /\ walk' = [walk EXCEPT !.roots = @ \ {k},
                                   !.stack = Append(@, [key |-> k, todo |-> Kids(k)])]
  <2> DEFINE frame == [key |-> k, todo |-> Kids(k)]
  <2>1. frame \in Frame
    BY DEF Frame, Kids, G!Children
  <2>2. /\ walk'.on /\ walk'.first = walk.first /\ walk'.accept = walk.accept
        /\ walk'.roots = walk.roots \ {k} /\ walk'.stack = <<frame>> /\ Len(walk'.stack) = 1
        /\ walk'.stack[1] = frame
        /\ walk' \in [on : BOOLEAN, first : SUBSET GraphKeys, roots : SUBSET GraphKeys,
                      accept : SUBSET GraphKeys, stack : Seq(Frame)]
    <3>1. /\ walk \in [on : BOOLEAN, first : SUBSET GraphKeys, roots : SUBSET GraphKeys,
                       accept : SUBSET GraphKeys, stack : Seq(Frame)]
          /\ walk.stack = <<>>
          /\ walk' = [walk EXCEPT !.roots = @ \ {k}, !.stack = Append(@, frame)]
      BY <1>1, <1>5 DEF WalkTypes
    <3> HIDE DEF frame
    <3>2. Append(walk.stack, frame) = <<frame>> /\ <<frame>> \in Seq(Frame)
          /\ Len(<<frame>>) = 1 /\ <<frame>>[1] = frame
      BY <2>1, <3>1
    <3>3. walk' = [walk EXCEPT !.roots = @ \ {k}, !.stack = <<frame>>]
      BY <3>1, <3>2
    <3> QED
      BY <1>1, <3>1, <3>2, <3>3
  <2>3. /\ called' \in [GraphKeys -> Nat] /\ called'[k] = called[k] + 1
        /\ \A h \in GraphKeys : h # k => called'[h] = called[h]
        /\ CalledKeys' = CalledKeys \cup {k}
    BY <1>1, <1>5, CallGrows
  <2>4. /\ visited' \in [GraphKeys -> 0..2] /\ visited'[k] = 1
        /\ \A h \in GraphKeys : h # k => visited'[h] = visited[h]
    BY <1>1, <1>5 DEF WalkTypes
  <2>5. WalkTypes'
    BY <2>2, <2>3, <2>4 DEF WalkTypes
  <2>6. visited[k] = 0 /\ called[k] = 0
    <3>1. visited[k] \in 0..2
      BY <1>1 DEF WalkTypes
    <3> QED
      BY <1>1, <1>2, <1>5, <3>1 DEF Marks
  <2>7. Marks'
    BY <1>1, <1>5, <2>2, <2>3, <2>4, <2>6 DEF Marks
  <2> HIDE DEF frame
  <2>8. frame.key = k /\ frame.todo = Kids(k)
    BY DEF frame
  <2>9. StackInv'
    BY <1>1, <1>2, <2>2, <2>4, <2>8 DEF StackInv
  <2>10. KidsInv'
    BY <1>1, <2>2, <2>3, <2>4, <2>8, WalkLeaves DEF KidsInv
  <2>11. ReachInv'
    BY <1>1, <1>3, <2>2, <2>3, WalkLeaves DEF ReachInv
  <2> QED
    BY <2>5, <2>7, <2>9, <2>10, <2>11 DEF WalkGood
<1> QED
  BY <1>4, <1>5 DEF G!WalkRoot, G!Leave, G!Enter, G!Call, Kids

\* A child that is called was reached, whatever else was.
LEMMA ChildReached ==
    ASSUME WalkTypes, Marks, StackInv, KidsInv, ReachInv,
           walk.stack # <<>>, NEW c \in walk.stack[Len(walk.stack)].todo
    PROVE  c \in GraphKeys /\ \A ks \in SUBSET GraphKeys : Closed(ks) => c \in ks
<1> DEFINE n == Len(walk.stack)
           p == walk.stack[n].key
<1>1. n \in 1..Len(walk.stack) /\ walk.stack[n] \in Frame
  <2>1. walk.stack \in Seq(Frame)
    BY DEF WalkTypes
  <2> QED
    BY <2>1
<1>2. p \in GraphKeys /\ visited[p] = 1 /\ c \in Kids(p) /\ c \in GraphKeys
  BY <1>1 DEF Frame, StackInv, KidsInv
<1>3. p \in walk.accept /\ p \in CalledKeys
  BY <1>2 DEF Marks, CalledKeys
<1> QED
  BY <1>2, <1>3 DEF ReachInv, Closed

\* Looking at a child keeps the invariant.
LEMMA WalkChildKeeps ==
    ASSUME WalkGood, NEW c \in GraphKeys, G!WalkChild(c)
    PROVE  WalkGood'
<1> DEFINE s == walk.stack
           n == Len(s)
           frame == [key |-> c, todo |-> Kids(c)]
<1>1. /\ WalkTypes /\ Marks /\ StackInv /\ KidsInv /\ ReachInv
      /\ walk.on /\ s # <<>> /\ c \in s[n].todo /\ resources' = resources
  BY DEF WalkGood, G!WalkChild, G!Top
<1>2. s \in Seq(Frame)
  BY <1>1 DEF WalkTypes
<1>rest. PICK rest : rest = Append(SubSeq(s, 1, n - 1), [s[n] EXCEPT !.todo = @ \ {c}])
  OBVIOUS
<1>3. /\ n \in Nat \ {0} /\ rest \in Seq(Frame) /\ Len(rest) = n
      /\ \A i \in 1..n : rest[i].key = s[i].key
      /\ \A i \in 1..n : i # n => rest[i].todo = s[i].todo
      /\ rest[n].todo = s[n].todo \ {c}
  <2>1. GivesUp(s, rest, c)
    BY <1>1, <1>2, <1>rest, TopGivesUp
  <2> QED
    BY <2>1 DEF GivesUp
<1>4. \A ks \in SUBSET GraphKeys : Closed(ks) => c \in ks
  BY <1>1, ChildReached
<1>5. \/ visited[c] # 0 /\ walk' = [walk EXCEPT !.stack = rest] /\ UNCHANGED <<visited, called>>
      \/ /\ visited[c] = 0 /\ c \notin walk.accept /\ walk' = [walk EXCEPT !.stack = rest]
         /\ called' = [called EXCEPT ![c] = @ + 1] /\ visited' = visited
      \/ /\ visited[c] = 0 /\ c \in walk.accept /\ called' = [called EXCEPT ![c] = @ + 1]
         /\ visited' = [visited EXCEPT ![c] = 1]
         /\ walk' = [walk EXCEPT !.stack = Append(rest, frame)]
  BY <1>rest DEF G!WalkChild, G!Top, G!Popped, G!Call, Kids
<1>6. CASE /\ walk' = [walk EXCEPT !.stack = rest] /\ visited' = visited
           /\ (\/ visited[c] # 0 /\ called' = called
               \/ c \notin walk.accept /\ called' = [called EXCEPT ![c] = @ + 1])
  <2>1. /\ walk'.on /\ walk'.first = walk.first /\ walk'.accept = walk.accept
        /\ walk'.roots = walk.roots /\ walk'.stack = rest
    BY <1>1, <1>6 DEF WalkTypes
  <2>2. /\ called' \in [GraphKeys -> Nat] /\ CalledKeys' = CalledKeys \cup {c}
        /\ \A h \in walk.accept : called'[h] = called[h]
    <3>1. CASE visited[c] # 0 /\ called' = called
      <4>1. called[c] > 0
        BY <1>1, <3>1 DEF Marks
      <4> QED
        BY <1>1, <3>1, <4>1 DEF CalledKeys, WalkTypes
    <3>2. CASE c \notin walk.accept /\ called' = [called EXCEPT ![c] = @ + 1]
      BY <1>1, <3>2, CallGrows DEF WalkTypes
    <3> QED
      BY <1>6, <3>1, <3>2
  <2>3. WalkTypes'
    BY <1>1, <1>3, <1>6, <2>1, <2>2 DEF WalkTypes
  <2>4. Marks'
    BY <1>1, <1>6, <2>1, <2>2 DEF Marks
  <2>5. StackInv'
    BY <1>1, <1>3, <1>6, <2>1 DEF StackInv
  <2>6. KidsInv'
    <3>1. \A i \in 1..n : s[i].todo \subseteq rest[i].todo \cup {c} /\ rest[i].todo \subseteq s[i].todo
      BY <1>3
    <3>2. \A k : Kids(k)' = Kids(k)
      BY <1>1, <2>1, WalkLeaves
    <3>3. \A i \in 1..n : /\ Kids(rest[i].key) \subseteq CalledKeys' \cup rest[i].todo
                          /\ rest[i].todo \subseteq Kids(rest[i].key)
      BY <1>1, <1>3, <2>2, <3>1 DEF KidsInv
    <3>4. \A k \in GraphKeys : visited'[k] = 2 => Kids(k) \subseteq CalledKeys'
      BY <1>1, <1>6, <2>2 DEF KidsInv
    <3> QED
      BY <1>3, <2>1, <3>2, <3>3, <3>4 DEF KidsInv
  <2>7. ReachInv'
    BY <1>1, <1>4, <2>1, <2>2, WalkLeaves DEF ReachInv
  <2> QED
    BY <2>3, <2>4, <2>5, <2>6, <2>7 DEF WalkGood
<1>7. CASE /\ visited[c] = 0 /\ c \in walk.accept /\ called' = [called EXCEPT ![c] = @ + 1]
           /\ visited' = [visited EXCEPT ![c] = 1]
           /\ walk' = [walk EXCEPT !.stack = Append(rest, frame)]
  <2> DEFINE t == Append(rest, frame)
  <2>1. frame \in Frame /\ frame.key = c /\ frame.todo = Kids(c)
    BY DEF Frame, Kids, G!Children
  <2> HIDE DEF frame
  <2>2. /\ t \in Seq(Frame) /\ Len(t) = n + 1 /\ t[n + 1] = frame
        /\ \A i \in 1..n : t[i] = rest[i]
    BY <1>3, <2>1
  <2> HIDE DEF t
  <2>3. /\ walk'.on /\ walk'.first = walk.first /\ walk'.accept = walk.accept
        /\ walk'.roots = walk.roots /\ walk'.stack = t
        /\ walk' \in [on : BOOLEAN, first : SUBSET GraphKeys, roots : SUBSET GraphKeys,
                      accept : SUBSET GraphKeys, stack : Seq(Frame)]
    BY <1>1, <1>7, <2>2 DEF WalkTypes, t
  <2>4. /\ called' \in [GraphKeys -> Nat] /\ called'[c] = called[c] + 1
        /\ \A h \in GraphKeys : h # c => called'[h] = called[h]
        /\ CalledKeys' = CalledKeys \cup {c}
    BY <1>1, <1>7, CallGrows
  <2>5. /\ visited' \in [GraphKeys -> 0..2] /\ visited'[c] = 1
        /\ \A h \in GraphKeys : h # c => visited'[h] = visited[h]
    BY <1>1, <1>7 DEF WalkTypes
  <2>6. WalkTypes'
    BY <2>3, <2>4, <2>5 DEF WalkTypes
  <2>7. Marks'
    BY <1>1, <1>7, <2>3, <2>4, <2>5 DEF Marks
  <2>8. \A i \in 1..(n + 1) : i = n + 1 \/ i \in 1..n
    BY <1>3
  <2>9. \A i \in 1..n : t[i].key = s[i].key /\ s[i].key # c /\ s[i].key \in GraphKeys
    <3>1. \A i \in 1..n : s[i] \in Frame /\ t[i] = rest[i]
      BY <1>2, <2>2
    <3>2. \A i \in 1..n : s[i].key \in GraphKeys /\ t[i].key = s[i].key
      BY <1>3, <3>1 DEF Frame
    <3>3. \A i \in 1..n : visited[s[i].key] = 1
      BY <1>1 DEF StackInv
    <3> QED
      BY <1>7, <3>2, <3>3
  <2>10. t[n + 1].key = c /\ n + 1 \in 1..(n + 1) /\ n + 1 \notin 1..n /\ 1..n \subseteq 1..(n + 1)
    BY <1>3, <2>1, <2>2
  <2>11. StackInv'
    <3>1. \A i \in 1..(n + 1) : visited'[t[i].key] = 1
      BY <1>1, <2>5, <2>8, <2>9, <2>10 DEF StackInv
    <3>2. \A k \in GraphKeys : visited'[k] = 1 => \E i \in 1..(n + 1) : t[i].key = k
      BY <1>1, <2>5, <2>9, <2>10 DEF StackInv
    <3>3. \A i, j \in 1..(n + 1) : t[i].key = t[j].key => i = j
      BY <1>1, <2>8, <2>9, <2>10 DEF StackInv
    <3> QED
      BY <2>2, <2>3, <3>1, <3>2, <3>3 DEF StackInv
  <2>12. KidsInv'
    <3>1. \A i \in 1..n : s[i].todo \subseteq t[i].todo \cup {c} /\ t[i].todo \subseteq s[i].todo
      BY <1>3, <2>2
    <3>2. \A k : Kids(k)' = Kids(k)
      BY <1>1, <2>3, WalkLeaves
    <3>3. \A i \in 1..(n + 1) : /\ Kids(t[i].key) \subseteq CalledKeys' \cup t[i].todo
                                /\ t[i].todo \subseteq Kids(t[i].key)
      <4>1. \A i \in 1..n : /\ Kids(s[i].key) \subseteq CalledKeys \cup s[i].todo
                            /\ s[i].todo \subseteq Kids(s[i].key)
        BY <1>1 DEF KidsInv
      <4>2. \A i \in 1..n : /\ Kids(t[i].key) \subseteq CalledKeys' \cup t[i].todo
                            /\ t[i].todo \subseteq Kids(t[i].key)
        BY <2>4, <2>9, <3>1, <4>1
      <4>3. t[n + 1].key = c /\ t[n + 1].todo = Kids(c)
        BY <2>1, <2>2
      <4> QED
        BY <2>8, <4>2, <4>3
    <3>4. \A k \in GraphKeys : visited'[k] = 2 => Kids(k) \subseteq CalledKeys'
      BY <1>1, <2>4, <2>5 DEF KidsInv
    <3> QED
      BY <2>2, <2>3, <3>2, <3>3, <3>4 DEF KidsInv
  <2>13. ReachInv'
    BY <1>1, <1>4, <2>3, <2>4, WalkLeaves DEF ReachInv
  <2> QED
    BY <2>6, <2>7, <2>11, <2>12, <2>13 DEF WalkGood
<1> QED
  BY <1>5, <1>6, <1>7

\* So does the return from a resource whose children are all done.
LEMMA WalkReturnKeeps ==
    ASSUME WalkGood, G!WalkReturn
    PROVE  WalkGood'
<1> DEFINE s == walk.stack
           n == Len(s)
           p == SubSeq(s, 1, n - 1)
           k == s[n].key
<1>1. /\ WalkTypes /\ Marks /\ StackInv /\ KidsInv /\ ReachInv
      /\ walk.on /\ s # <<>> /\ s[n].todo = {} /\ resources' = resources /\ called' = called
      /\ visited' = [visited EXCEPT ![k] = 2] /\ walk' = [walk EXCEPT !.stack = p]
  BY DEF WalkGood, G!WalkReturn, G!Top, G!Popped
<1>2. s \in Seq(Frame)
  BY <1>1 DEF WalkTypes
<1>3. /\ n \in Nat \ {0} /\ s[n] \in Frame /\ p \in Seq(Frame) /\ Len(p) = n - 1
      /\ \A i \in 1..(n - 1) : p[i] = s[i]
  BY <1>1, <1>2, PoppedStack
<1> HIDE DEF p
<1>4. /\ walk'.on /\ walk'.first = walk.first /\ walk'.accept = walk.accept
      /\ walk'.roots = walk.roots /\ walk'.stack = p
      /\ walk' \in [on : BOOLEAN, first : SUBSET GraphKeys, roots : SUBSET GraphKeys,
                    accept : SUBSET GraphKeys, stack : Seq(Frame)]
  BY <1>1, <1>3 DEF WalkTypes
<1>5. n \in 1..n /\ (\A i \in 1..n : i = n \/ i \in 1..(n - 1)) /\ 1..(n - 1) \subseteq 1..n
      /\ n \notin 1..(n - 1)
  BY <1>3
<1>6. k \in GraphKeys /\ visited[k] = 1 /\ k \in walk.accept /\ Kids(k) \subseteq CalledKeys
  BY <1>1, <1>3, <1>5 DEF Frame, StackInv, Marks, KidsInv
<1>7. /\ visited' \in [GraphKeys -> 0..2] /\ visited'[k] = 2
      /\ \A h \in GraphKeys : h # k => visited'[h] = visited[h]
  BY <1>1, <1>6 DEF WalkTypes
<1>8. CalledKeys' = CalledKeys /\ \A h : Kids(h)' = Kids(h)
  BY <1>1, <1>4, WalkLeaves DEF CalledKeys
<1> HIDE DEF k
<1>9. \A i \in 1..(n - 1) : p[i].key = s[i].key /\ s[i].key # k /\ s[i].key \in GraphKeys
                            /\ p[i].todo = s[i].todo
  <2>1. \A i \in 1..(n - 1) : i \in 1..n /\ i # n /\ s[i] \in Frame /\ p[i] = s[i]
    BY <1>2, <1>3, <1>5
  <2>2. \A i, j \in 1..n : s[i].key = s[j].key => i = j
    BY <1>1 DEF StackInv
  <2> QED
    BY <1>5, <2>1, <2>2 DEF Frame, k
<1>10. WalkTypes'
  BY <1>1, <1>4, <1>7 DEF WalkTypes
<1>11. Marks'
  BY <1>1, <1>4, <1>6, <1>7 DEF Marks
<1>12. StackInv'
  <2>1. \A i \in 1..(n - 1) : visited'[p[i].key] = 1
    BY <1>1, <1>5, <1>7, <1>9 DEF StackInv
  <2>2. \A h \in GraphKeys : visited'[h] = 1 => \E i \in 1..(n - 1) : p[i].key = h
    BY <1>1, <1>5, <1>7, <1>9 DEF StackInv, k
  <2>3. \A i, j \in 1..(n - 1) : p[i].key = p[j].key => i = j
    BY <1>1, <1>5, <1>9 DEF StackInv
  <2> QED
    BY <1>3, <1>4, <2>1, <2>2, <2>3 DEF StackInv
<1>13. KidsInv'
  <2>1. \A h \in GraphKeys : visited'[h] = 2 => Kids(h) \subseteq CalledKeys
    BY <1>1, <1>6, <1>7 DEF KidsInv
  <2>2. \A i \in 1..(n - 1) : /\ Kids(p[i].key) \subseteq CalledKeys \cup p[i].todo
                              /\ p[i].todo \subseteq Kids(p[i].key)
    BY <1>1, <1>5, <1>9 DEF KidsInv
  <2> QED
    BY <1>3, <1>4, <1>8, <2>1, <2>2 DEF KidsInv
<1>14. ReachInv'
  BY <1>1, <1>4, <1>8, WalkLeaves DEF ReachInv
<1> QED
  BY <1>10, <1>11, <1>12, <1>13, <1>14 DEF WalkGood

-----------------------------------------------------------------------------
(* Hierarchy: the steps of a behaviour                                      *)

WalkStep ==
    \/ G!WalkStart \/ G!WalkReturn \/ G!WalkEnd
    \/ \E k \in GraphKeys : G!WalkRoot(k) \/ G!WalkChild(k)

\* The steps that leave the walk alone are taken when none is under way.
CacheStep ==
    \E k \in GraphKeys : \/ G!Create(k) \/ G!Modify(k) \/ G!Delete(k)
                         \/ G!Process(k) \/ G!Relist(k)

\* A behaviour is of one part; steps of the others leave its variables alone.
LEMMA GraphSteps ==
    ASSUME [Next]_allVars, part = "graph"
    PROVE  \/ WalkStep \/ CacheStep \/ UNCHANGED <<GraphOnly, Both>>
<1>1. CASE UNCHANGED allVars
  BY <1>1 DEF allVars
<1>2. CASE Next
  <2>1. \/ \E k \in GraphKeys :
             \/ OfGraph(G!Create(k)) \/ OfGraph(G!Modify(k)) \/ OfGraph(G!Delete(k))
             \/ OfGraph(G!Process(k)) \/ OfGraph(G!Relist(k))
             \/ OfGraph(G!WalkRoot(k)) \/ OfGraph(G!WalkChild(k))
        \/ OfGraph(G!WalkStart) \/ OfGraph(G!WalkReturn) \/ OfGraph(G!WalkEnd)
    BY <1>2 DEF Next, OfPlan, OfSecret, OfModels
  <2> QED
    BY <2>1 DEF OfGraph, WalkStep, CacheStep
<1> QED
  BY <1>1, <1>2

\* Every step keeps the invariant of the walk.
LEMMA WalkKeeps == WalkInv /\ [Next]_allVars => WalkInv'
<1> SUFFICES ASSUME WalkInv, [Next]_allVars, part' = "graph"
             PROVE  WalkGood'
  BY DEF WalkInv
<1>1. part = "graph" /\ WalkGood
  BY SecretSteps DEF WalkInv
<1>2. CASE UNCHANGED <<GraphOnly, Both>>
  BY <1>1, <1>2 DEF GraphOnly, Both, WalkGood, WalkTypes, Marks, StackInv, KidsInv, ReachInv,
                    Kids, G!Children, CalledKeys, Closed
<1>3. CASE CacheStep
  <2>1. ~walk.on /\ UNCHANGED <<walk, visited, called>>
    BY <1>3 DEF CacheStep, G!Create, G!Modify, G!Delete, G!Process, G!Relist, G!unlessServer,
                G!unlessCache
  <2> QED
    BY <1>1, <2>1 DEF WalkGood, WalkTypes
<1>4. CASE G!WalkEnd
  <2>1. walk' = G!NoWalk /\ visited' = [k \in GraphKeys |-> 0] /\ called' = [k \in GraphKeys |-> 0]
    BY <1>4 DEF G!WalkEnd
  <2> QED
    BY <2>1 DEF WalkGood, WalkTypes, G!NoWalk
<1> QED
  BY <1>1, <1>2, <1>3, <1>4, GraphSteps, WalkStartKeeps, WalkRootKeeps, WalkChildKeeps,
     WalkReturnKeeps DEF WalkStep

\* A walk that is done has called its action with all it has to reach.
LEMMA DoneReaches ==
    ASSUME WalkGood, G!Done
    PROVE  CalledKeys = G!Reached
<1>1. /\ WalkTypes /\ Marks /\ StackInv /\ KidsInv /\ ReachInv
      /\ walk.roots = {} /\ walk.stack = <<>> /\ Len(walk.stack) = 0
  BY DEF WalkGood, G!Done
<1>2. CalledKeys \in SUBSET GraphKeys /\ walk.accept \subseteq GraphKeys
  BY <1>1 DEF CalledKeys, WalkTypes
<1>3. Closed(CalledKeys)
  <2>1. ASSUME NEW p \in CalledKeys \cap walk.accept
        PROVE  Kids(p) \subseteq CalledKeys
    <3>1. visited[p] \in 0..2 /\ visited[p] # 1 /\ visited[p] # 0
      BY <1>1, <1>2 DEF WalkTypes, StackInv, Marks, CalledKeys
    <3>2. visited[p] = 2
      BY <3>1
    <3> QED
      BY <1>1, <1>2, <3>2 DEF KidsInv
  <2> QED
    BY <1>1, <2>1 DEF Closed, ReachInv
<1>4. G!Reached = {k \in GraphKeys : \A ks \in {h \in SUBSET GraphKeys : Closed(h)} : k \in ks}
  BY DEF G!Reached, Closed, Kids
<1> QED
  BY <1>1, <1>2, <1>3, <1>4 DEF ReachInv

\* A walk calls its action with the resources it was given and, of each one the
\* action accepts, the children, and with each accepted one once, for any graph
\* of owners and in whatever order it takes them (IterateHierarchyV2).
THEOREM WalksCorrect == PartSpec => []WalkIsExact
<1>1. WalkInv => WalkIsExact
  <2> SUFFICES ASSUME part = "graph", WalkGood
               PROVE  G!WalkIsExact
    BY DEF WalkInv, WalkIsExact
  <2>1. G!CalledOnce
    BY DEF WalkGood, Marks, WalkTypes, G!CalledOnce
  <2>2. G!WalkIsComplete
    BY DoneReaches DEF G!WalkIsComplete, CalledKeys
  <2> QED
    BY <2>1, <2>2 DEF G!WalkIsExact
<1>2. Init => WalkInv
  <2> SUFFICES ASSUME Init, part = "graph"
               PROVE  WalkGood
    BY DEF WalkInv
  <2>1. G!Init
    BY DEF Init
  <2>2. /\ walk = G!NoWalk /\ visited = [k \in GraphKeys |-> 0]
        /\ called = [k \in GraphKeys |-> 0]
    BY <2>1 DEF G!Init
  <2> QED
    BY <2>2 DEF WalkGood, WalkTypes, G!NoWalk
<1> QED
  BY <1>1, <1>2, WalkKeeps, PTL DEF PartSpec
-----------------------------------------------------------------------------
(* Hierarchy: the events                                                    *)

\* Objects and resources of a key: the UIDs tell the keys apart.
UidsOf(k) == {k} \X (1..MaxLives)
OwnRefs == {r \in G!Refs : r.uid \in UidsOf(r.key)}
ObjectsOf(k) == {o \in G!Object : o.uid \in UidsOf(k) /\ o.owners \subseteq OwnRefs}
ResourcesOf(k) == {r \in G!Resource : r.uid \in UidsOf(k) /\ r.declared \subseteq OwnRefs}
EventsOf(k) == [type : {"Added", "Modified", "Deleted"}, obj : ObjectsOf(k)]

\* The same incarnation, and what does not change in its life.
SameLife(x, y) == x.uid = y.uid /\ x.claims = y.claims

\* A key's object, the events still to come and what is cached of it after w
\* changes: the events lead from the one to the other.  A modification is one
\* of what was there before; a version is one of one object.
Feed(k, w, obj, q, res) ==
    /\ obj # None => obj \in ObjectsOf(k) /\ obj.version <= w
    /\ res # None => res \in ResourcesOf(k) /\ res.version <= w
    /\ q \in Seq(EventsOf(k)) /\ \A i \in 1..Len(q) : q[i].obj.version <= w
    /\ q = <<>> => /\ obj = None <=> res = None
                   /\ obj # None => SameLife(res, obj) /\ (k \notin Ignored => res.declared = obj.owners)
    /\ q # <<>> => IF q[Len(q)].type = "Deleted" THEN obj = None ELSE obj = q[Len(q)].obj
    /\ \A i \in 1..Len(q) : q[i].type = "Modified" =>
          IF i = 1 THEN res # None /\ SameLife(res, q[1].obj)
          ELSE q[i - 1].type # "Deleted" /\ SameLife(q[i - 1].obj, q[i].obj)
    /\ obj # None => \A i \in 1..Len(q) : q[i].obj.version = obj.version => q[i].obj = obj
    /\ obj # None /\ res # None /\ res.version = obj.version =>
          SameLife(res, obj) /\ res.declared = obj.owners

FeedInv ==
    /\ writes \in 0..MaxWrites /\ lives \in [GraphKeys -> 0..MaxLives]
    /\ server = [k \in GraphKeys |-> server[k]]
    /\ events = [k \in GraphKeys |-> events[k]]
    /\ \A k \in GraphKeys : Feed(k, writes, server[k], events[k], resources[k])

-----------------------------------------------------------------------------
(* Hierarchy: the references                                                *)

HasUid(refs, u) == \E r \in refs : r.uid = u

\* A StatefulSet and a claim: the templates decide.
Inferred(p, c) ==
    resources[p] # None /\ resources[c] # None =>
        (HasUid(resources[c].refs, resources[p].uid) <=> c \in resources[p].claims)

\* The references of a cached resource: the declared ones, but for those of a
\* claim to StatefulSets, or the one by name.
RefsOf(c, res) ==
    IF c \in DOMAIN Named
    THEN /\ res.declared # {} => res.refs = res.declared
         /\ res.declared = {} => \E r \in G!Refs : /\ res.refs = {r} /\ r.key = Named[c]
                                                   /\ r.uid \in UidsOf(Named[c]) \cup {G!NoUid}
    ELSE /\ res.refs \subseteq OwnRefs
         /\ \A p \in GraphKeys : ~(p \in StatefulSets /\ c \in Claims) =>
               \A u \in UidsOf(p) : HasUid(res.refs, u) <=> HasUid(res.declared, u)

RefsInv ==
    /\ resources = [k \in GraphKeys |-> resources[k]]
    /\ \A c \in GraphKeys : resources[c] # None => RefsOf(c, resources[c])
    /\ \A p \in StatefulSets, c \in Claims : Inferred(p, c)

GraphInv == part = "graph" => FeedInv /\ RefsInv

-----------------------------------------------------------------------------
(* Hierarchy: what the events do                                            *)

\* The parts of a sequence that an event is added to, or taken from.
LEMMA PushedEvent ==
    ASSUME NEW R, NEW q \in Seq(R), NEW e \in R
    PROVE  /\ Append(q, e) \in Seq(R) /\ Len(Append(q, e)) = Len(q) + 1 /\ Append(q, e) # <<>>
           /\ Append(q, e)[Len(q) + 1] = e /\ \A i \in 1..Len(q) : Append(q, e)[i] = q[i]
           /\ Len(q) \in Nat
OBVIOUS

\* The first event and the others.
LEMMA PoppedEvent ==
    ASSUME NEW R, NEW q \in Seq(R), q # <<>>
    PROVE  /\ Head(q) = q[1] /\ Head(q) \in R /\ Tail(q) \in Seq(R) /\ Len(q) \in Nat \ {0}
           /\ Len(Tail(q)) = Len(q) - 1 /\ \A i \in 1..(Len(q) - 1) : Tail(q)[i] = q[i + 1]
<1>1. Len(q) \in Nat \ {0} /\ Head(q) = q[1]
  OBVIOUS
<1>2. Head(q) \in R /\ Tail(q) \in Seq(R) /\ Len(Tail(q)) = Len(q) - 1
  OBVIOUS
<1>3. \A i \in 1..(Len(q) - 1) : Tail(q)[i] = q[i + 1]
  OBVIOUS
<1> QED
  BY <1>1, <1>2, <1>3

\* A change in the API server pushes an event that says what is there now, with
\* a version that was not there before.
LEMMA FeedPush ==
    ASSUME NEW k, NEW w \in Nat, NEW obj, NEW q, NEW res, Feed(k, w, obj, q, res),
           NEW e \in EventsOf(k), NEW now,
           IF e.type = "Deleted" THEN now = None /\ e.obj.version <= w + 1
                                 ELSE now = e.obj /\ now # None /\ e.obj.version = w + 1,
           e.type = "Modified" => obj # None /\ SameLife(obj, e.obj)
    PROVE  Feed(k, w + 1, now, Append(q, e), res)
<1> DEFINE n == Len(q)
<1>1. q \in Seq(EventsOf(k))
  BY DEF Feed
<1>r. PICK r : r = Append(q, e)
  OBVIOUS
<1>2. /\ r \in Seq(EventsOf(k)) /\ Len(r) = n + 1 /\ r # <<>> /\ n \in Nat
      /\ r[n + 1] = e /\ \A i \in 1..n : r[i] = q[i]
  BY <1>1, <1>r, PushedEvent
<1>3. \A i \in 1..(n + 1) : i = n + 1 \/ (i \in 1..n /\ i # n + 1)
  BY <1>2
<1>4. \A x \in ObjectsOf(k) : x.version \in Nat
  BY DEF ObjectsOf, G!Object
<1>5. \A i \in 1..n : q[i].obj.version <= w /\ q[i].obj \in ObjectsOf(k) /\ q[i].obj.version \in Nat
  <2>1. \A i \in 1..n : q[i] \in EventsOf(k)
    BY <1>1
  <2> QED
    BY <1>4, <2>1 DEF Feed, EventsOf
<1>6. e.obj \in ObjectsOf(k) /\ e.obj.version \in Nat /\ e.obj.version <= w + 1
  <2>1. e.obj \in ObjectsOf(k)
    BY DEF EventsOf
  <2> QED
    BY <1>4, <2>1
<1>7. now # None => now \in ObjectsOf(k) /\ now.version = w + 1
  BY <1>6
<1>8. res # None => res \in ResourcesOf(k) /\ res.version \in Nat /\ res.version <= w
  BY DEF Feed, ResourcesOf, G!Resource
<1>9. \A i \in 1..(n + 1) : r[i].obj.version <= w + 1
  BY <1>2, <1>3, <1>5, <1>6
<1>10. \A i \in 1..(n + 1) : r[i].type = "Modified" =>
          IF i = 1 THEN res # None /\ SameLife(res, r[1].obj)
          ELSE r[i - 1].type # "Deleted" /\ SameLife(r[i - 1].obj, r[i].obj)
  <2> SUFFICES ASSUME NEW i \in 1..(n + 1), r[i].type = "Modified"
               PROVE  IF i = 1 THEN res # None /\ SameLife(res, r[1].obj)
                      ELSE r[i - 1].type # "Deleted" /\ SameLife(r[i - 1].obj, r[i].obj)
    OBVIOUS
  <2>1. CASE i \in 1..n
    <3>1. i # 1 => i - 1 \in 1..n
      BY <1>2, <2>1
    <3> QED
      BY <1>2, <2>1, <3>1 DEF Feed
  <2>2. CASE i = n + 1 /\ q # <<>>
    <3>1. n \in 1..n /\ i # 1 /\ i - 1 = n
      BY <1>1, <1>2, <2>2
    <3>2. q[n].type # "Deleted" /\ obj = q[n].obj
      BY <1>2, <2>2 DEF Feed
    <3> QED
      BY <1>2, <2>2, <3>1, <3>2
  <2>3. CASE i = n + 1 /\ q = <<>>
    <3>1. i = 1 /\ r[1] = e
      BY <1>2, <2>3
    <3>2. res # None /\ SameLife(res, obj) /\ SameLife(obj, e.obj)
      BY <2>3, <3>1 DEF Feed
    <3> QED
      BY <3>1, <3>2 DEF SameLife
  <2> QED
    BY <1>3, <2>1, <2>2, <2>3
<1>11. now # None => \A i \in 1..(n + 1) : r[i].obj.version = now.version => r[i].obj = now
  BY <1>2, <1>3, <1>5, <1>7
<1>12. now # None /\ res # None => res.version # now.version
  BY <1>7, <1>8
<1>13. res # None => res.version <= w + 1
  BY <1>8
<1>14. now # None => now \in ObjectsOf(k) /\ now.version <= w + 1
  BY <1>7
<1>15. IF r[n + 1].type = "Deleted" THEN now = None ELSE now = r[n + 1].obj
  BY <1>2
<1> HIDE DEF n
<1>16. Feed(k, w + 1, now, r, res)
  BY <1>2, <1>8, <1>9, <1>10, <1>11, <1>12, <1>13, <1>14, <1>15 DEF Feed
<1> QED
  BY <1>r, <1>16

\* What is cached goes on to what the first event says.
LEMMA FeedPop ==
    ASSUME NEW k, NEW w \in Nat, NEW obj, NEW q, NEW res, Feed(k, w, obj, q, res), q # <<>>,
           NEW now,
           LET e == Head(q)
           IN  CASE e.type = "Deleted" -> now = None
                 [] e.type = "Modified" /\ k \in Ignored -> now = res
                 [] OTHER -> /\ now \in ResourcesOf(k) /\ now # None /\ SameLife(now, e.obj)
                             /\ now.version = e.obj.version /\ now.declared = e.obj.owners
    PROVE  Feed(k, w, obj, Tail(q), now)
<1> DEFINE n == Len(q)
<1>1. q \in Seq(EventsOf(k))
  BY DEF Feed
<1>r. PICK r, e : r = Tail(q) /\ e = q[1]
  OBVIOUS
<1>2. /\ Head(q) = e /\ e \in EventsOf(k) /\ r \in Seq(EventsOf(k)) /\ n \in Nat \ {0}
      /\ Len(r) = n - 1 /\ \A i \in 1..(n - 1) : r[i] = q[i + 1]
  BY <1>1, <1>r, PoppedEvent
<1>3. /\ 1 \in 1..n /\ q[1] = e
      /\ \A i \in 1..(n - 1) : i + 1 \in 1..n /\ i + 1 # 1 /\ (i + 1) - 1 = i /\ i \in 1..n
  BY <1>r, <1>2
<1>4. CASE e.type = "Deleted"
  <2>1. now = None
    BY <1>2, <1>4
  <2>2. r # <<>> => n - 1 # 0 /\ n - 1 \in 1..(n - 1) /\ (n - 1) + 1 = n
    BY <1>2
  <2>3. r = <<>> => n = 1
    BY <1>2
  <2>4. \A i \in 1..(n - 1) : r[i].type = "Modified" =>
           i # 1 /\ r[i - 1].type # "Deleted" /\ SameLife(r[i - 1].obj, r[i].obj)
    <3> SUFFICES ASSUME NEW i \in 1..(n - 1), r[i].type = "Modified"
                 PROVE  i # 1 /\ r[i - 1].type # "Deleted" /\ SameLife(r[i - 1].obj, r[i].obj)
      OBVIOUS
    <3>1. q[i].type # "Deleted" /\ SameLife(q[i].obj, q[i + 1].obj)
      BY <1>2, <1>3 DEF Feed
    <3>2. i # 1
      BY <1>3, <1>4, <3>1
    <3>3. i - 1 \in 1..(n - 1) /\ r[i - 1] = q[(i - 1) + 1] /\ (i - 1) + 1 = i
      BY <1>2, <3>2
    <3> QED
      BY <1>2, <3>1, <3>2, <3>3
  <2>5. r # <<>> => IF r[n - 1].type = "Deleted" THEN obj = None ELSE obj = r[n - 1].obj
    BY <1>2, <2>2 DEF Feed
  <2>6. r = <<>> => obj = None
    BY <1>3, <1>4, <2>3 DEF Feed
  <2>7. obj # None => \A i \in 1..(n - 1) : r[i].obj.version = obj.version => r[i].obj = obj
    BY <1>2, <1>3 DEF Feed
  <2>8. \A i \in 1..(n - 1) : r[i].obj.version <= w
    BY <1>2, <1>3 DEF Feed
  <2>9. obj # None => obj \in ObjectsOf(k) /\ obj.version <= w
    BY DEF Feed
  <2> HIDE DEF n
  <2>10. Feed(k, w, obj, r, now)
    BY <1>2, <2>1, <2>4, <2>5, <2>6, <2>7, <2>8, <2>9 DEF Feed
  <2> QED
    BY <1>r, <2>10
<1>5. CASE e.type # "Deleted"
  <2>1. /\ now # None /\ now \in ResourcesOf(k) /\ now.version <= w /\ SameLife(now, e.obj)
        /\ k \notin Ignored => now.declared = e.obj.owners
        /\ obj # None /\ now.version = obj.version => SameLife(now, obj) /\ now.declared = obj.owners
    <3>1. CASE e.type = "Modified" /\ k \in Ignored
      <4>1. now = res
        BY <1>2, <1>5, <3>1
      <4> QED
        BY <1>2, <1>3, <3>1, <4>1 DEF Feed
    <3>2. CASE ~(e.type = "Modified" /\ k \in Ignored)
      <4>1. /\ now \in ResourcesOf(k) /\ now # None /\ SameLife(now, e.obj)
            /\ now.version = e.obj.version /\ now.declared = e.obj.owners
        BY <1>2, <1>5, <3>2
      <4>2. e.obj.version <= w
        BY <1>3 DEF Feed
      <4>3. obj # None /\ e.obj.version = obj.version => e.obj = obj
        BY <1>3 DEF Feed
      <4> QED
        BY <4>1, <4>2, <4>3
    <3> QED
      BY <3>1, <3>2
  <2>2. r # <<>> => n - 1 # 0 /\ n - 1 \in 1..(n - 1) /\ (n - 1) + 1 = n
    BY <1>2
  <2>3. r = <<>> => n = 1
    BY <1>2
  <2>4. \A i \in 1..(n - 1) : r[i].type = "Modified" =>
           IF i = 1 THEN SameLife(now, r[1].obj)
           ELSE r[i - 1].type # "Deleted" /\ SameLife(r[i - 1].obj, r[i].obj)
    <3> SUFFICES ASSUME NEW i \in 1..(n - 1), r[i].type = "Modified"
                 PROVE  IF i = 1 THEN SameLife(now, r[1].obj)
                        ELSE r[i - 1].type # "Deleted" /\ SameLife(r[i - 1].obj, r[i].obj)
      OBVIOUS
    <3>1. q[i].type # "Deleted" /\ SameLife(q[i].obj, q[i + 1].obj) /\ r[i] = q[i + 1]
      BY <1>2, <1>3 DEF Feed
    <3>2. CASE i = 1
      <4>1. SameLife(now, e.obj) /\ SameLife(e.obj, r[1].obj)
        BY <1>3, <2>1, <3>1, <3>2
      <4> QED
        BY <3>2, <4>1 DEF SameLife
    <3>3. CASE i # 1
      <4>1. i - 1 \in 1..(n - 1) /\ r[i - 1] = q[(i - 1) + 1] /\ (i - 1) + 1 = i
        BY <1>2, <3>3
      <4> QED
        BY <3>1, <3>3, <4>1
    <3> QED
      BY <3>2, <3>3
  <2>5. r # <<>> => IF r[n - 1].type = "Deleted" THEN obj = None ELSE obj = r[n - 1].obj
    BY <1>2, <2>2 DEF Feed
  <2>6. r = <<>> => obj = e.obj
    BY <1>3, <1>5, <2>3 DEF Feed
  <2>7. obj # None => \A i \in 1..(n - 1) : r[i].obj.version = obj.version => r[i].obj = obj
    BY <1>2, <1>3 DEF Feed
  <2>8. \A i \in 1..(n - 1) : r[i].obj.version <= w
    BY <1>2, <1>3 DEF Feed
  <2>9. obj # None => obj \in ObjectsOf(k) /\ obj.version <= w
    BY DEF Feed
  <2>10. e.obj # None
    BY <1>2, GraphConstants DEF EventsOf, ObjectsOf, G!HierarchyAssumption
  <2> HIDE DEF n
  <2>11. Feed(k, w, obj, r, now)
    BY <1>2, <2>1, <2>4, <2>5, <2>6, <2>7, <2>8, <2>9, <2>10 DEF Feed
  <2> QED
    BY <1>r, <2>11
<1> QED
  BY <1>4, <1>5

\* What is cached but the references.
SameButRefs(x, y) ==
    /\ x = None <=> y = None
    /\ x # None => /\ SameLife(x, y) /\ x.version = y.version /\ x.declared = y.declared

\* The references do not matter to the events.
LEMMA FeedStays ==
    ASSUME NEW k, NEW w, NEW v, w <= v, w \in Nat, v \in Nat, NEW obj, NEW q, NEW res,
           NEW now, Feed(k, w, obj, q, res),
           SameButRefs(res, now), now # None => now \in ResourcesOf(k)
    PROVE  Feed(k, v, obj, q, now)
<1>1. q \in Seq(EventsOf(k)) /\ \A i \in 1..Len(q) : q[i] \in EventsOf(k)
  BY DEF Feed
<1>2. obj # None => obj.version \in Nat
  BY DEF Feed, ObjectsOf, G!Object
<1>3. res # None => res.version \in Nat
  BY DEF Feed, ResourcesOf, G!Resource
<1>4. \A i \in 1..Len(q) : q[i].obj.version \in Nat
  BY <1>1 DEF EventsOf, ObjectsOf, G!Object
<1>5. \A i \in 1..Len(q) : q[i].obj.version <= v
  BY <1>4 DEF Feed
<1>6. obj # None => obj.version <= v
  BY <1>2 DEF Feed
<1>7. now # None => now.version <= v
  BY <1>3 DEF Feed, SameButRefs
<1> QED
  BY <1>5, <1>6, <1>7 DEF Feed, SameButRefs, SameLife

-----------------------------------------------------------------------------
(* Hierarchy: what the cache does with the references                       *)

CacheTypes == \A k \in GraphKeys : resources[k] # None => resources[k] \in ResourcesOf(k)

\* UIDs of different keys differ, and none is the empty one.
LEMMA UidsDiffer ==
    ASSUME NEW p, NEW c, NEW u \in UidsOf(p)
    PROVE  /\ u \in UidsOf(c) => c = p
           /\ u # G!NoUid
<1>1. u = <<u[1], u[2]>> /\ u[1] = p
  BY DEF UidsOf
<1> QED
  BY <1>1 DEF UidsOf, G!NoUid

\* A resource whose references were changed, to those of it and one more.
LEMMA ChangedRefs ==
    ASSUME NEW c, NEW res \in ResourcesOf(c), NEW refs \in SUBSET G!Refs
    PROVE  LET new == [res EXCEPT !.refs = refs]
           IN  /\ new \in ResourcesOf(c) /\ new # None /\ new.refs = refs
               /\ SameButRefs(res, new)
<1> DEFINE new == [res EXCEPT !.refs = refs]
<1>1. res \in G!Resource
  BY DEF ResourcesOf
<1>2. /\ new \in G!Resource /\ new.refs = refs /\ new.uid = res.uid /\ new.claims = res.claims
      /\ new.version = res.version /\ new.declared = res.declared
  BY <1>1 DEF G!Resource
<1> HIDE DEF new
<1>3. new \in ResourcesOf(c)
  BY <1>2 DEF ResourcesOf
<1>4. new # None /\ res # None
  BY <1>1, <1>2, GraphConstants DEF G!HierarchyAssumption
<1> QED
  BY <1>2, <1>3, <1>4 DEF SameButRefs, SameLife, new

\* A reference is what a resource of its key is owned by.
LEMMA OwnerRefs ==
    ASSUME NEW p \in GraphKeys, NEW res \in ResourcesOf(p)
    PROVE  /\ G!ToOwnerRef(p, res) \in OwnRefs /\ G!ToOwnerRef(p, res) \in G!Refs
           /\ G!ToOwnerRef(p, res).uid = res.uid /\ res.uid \in UidsOf(p)
<1>1. res.uid \in UidsOf(p) /\ res.uid \in G!Uids
  BY DEF ResourcesOf, G!Resource
<1> QED
  BY <1>1 DEF G!ToOwnerRef, OwnRefs, G!Refs

\* setOwnerRef has the reference or not, and leaves the others.
LEMMA SetOwnerRefSets ==
    ASSUME NEW c, NEW res \in ResourcesOf(c), NEW ref \in G!Refs, NEW add \in BOOLEAN
    PROVE  LET new == G!SetOwnerRef(res, ref, add)
           IN  /\ new \in ResourcesOf(c) /\ SameButRefs(res, new)
               /\ new.refs \subseteq res.refs \cup {ref}
               /\ HasUid(new.refs, ref.uid) <=> add
               /\ \A u : u # ref.uid => (HasUid(new.refs, u) <=> HasUid(res.refs, u))
<1> DEFINE new == G!SetOwnerRef(res, ref, add)
<1>1. res.refs \in SUBSET G!Refs /\ res # None
  BY GraphConstants DEF ResourcesOf, G!Resource, G!HierarchyAssumption
<1>2. CASE add = HasUid(res.refs, ref.uid)
  <2>1. new = res
    BY <1>2 DEF G!SetOwnerRef, HasUid
  <2> QED
    BY <1>2, <2>1 DEF SameButRefs, SameLife
<1>3. CASE add # HasUid(res.refs, ref.uid) /\ add
  <2> DEFINE refs == res.refs \cup {ref}
  <2>1. new = [res EXCEPT !.refs = refs]
    BY <1>3 DEF G!SetOwnerRef, HasUid
  <2>2. refs \in SUBSET G!Refs
    BY <1>1
  <2> HIDE DEF refs, new
  <2>3. new \in ResourcesOf(c) /\ new.refs = refs /\ SameButRefs(res, new)
    BY <2>1, <2>2, ChangedRefs
  <2> QED
    BY <1>3, <2>3 DEF HasUid, refs, new
<1>4. CASE add # HasUid(res.refs, ref.uid) /\ ~add
  <2> DEFINE refs == {r \in res.refs : r.uid # ref.uid}
  <2>1. new = [res EXCEPT !.refs = refs]
    BY <1>4 DEF G!SetOwnerRef, HasUid
  <2>2. refs \in SUBSET G!Refs
    BY <1>1
  <2> HIDE DEF refs, new
  <2>3. new \in ResourcesOf(c) /\ new.refs = refs /\ SameButRefs(res, new)
    BY <2>1, <2>2, ChangedRefs
  <2> QED
    BY <1>4, <2>3 DEF HasUid, refs, new
<1> QED
  BY <1>2, <1>3, <1>4

\* A resource that is cached has what its object says, and is declared to be
\* owned, or named to be.
LEMMA NewResourceIs ==
    ASSUME NEW k \in GraphKeys, NEW obj \in ObjectsOf(k)
    PROVE  LET new == G!NewResource(k, obj)
           IN  /\ new \in ResourcesOf(k) /\ RefsOf(k, new)
               /\ SameLife(new, obj) /\ new.version = obj.version /\ new.declared = obj.owners
<1> DEFINE named == {[key |-> Named[k], uid |-> G!NoUid]}
           refs == IF k \in DOMAIN Named /\ obj.owners = {} THEN named ELSE obj.owners
           new == G!NewResource(k, obj)
<1>1. obj \in G!Object /\ obj.uid \in UidsOf(k) /\ obj.owners \subseteq OwnRefs
  BY DEF ObjectsOf
<1>2. k \in DOMAIN Named => named \subseteq G!Refs
  BY GraphConstants DEF G!HierarchyAssumption, G!Refs
<1>3. refs \subseteq G!Refs
  BY <1>1, <1>2 DEF OwnRefs
<1>4. new = [uid |-> obj.uid, version |-> obj.version, claims |-> obj.claims,
             declared |-> obj.owners, refs |-> refs]
  BY DEF G!NewResource
<1> HIDE DEF refs, new
<1>5. new \in G!Resource
  BY <1>1, <1>3, <1>4 DEF G!Object, G!Resource
<1>6. new.declared = obj.owners /\ new.refs = refs /\ new.uid = obj.uid
      /\ new.claims = obj.claims /\ new.version = obj.version
  BY <1>4
<1>7. CASE k \in DOMAIN Named
  <2>1. obj.owners = {} => /\ [key |-> Named[k], uid |-> G!NoUid] \in G!Refs
                           /\ refs = {[key |-> Named[k], uid |-> G!NoUid]}
    BY <1>2, <1>7 DEF refs
  <2>2. obj.owners # {} => refs = obj.owners
    BY DEF refs
  <2> QED
    BY <1>1, <1>5, <1>6, <1>7, <2>1, <2>2 DEF RefsOf, ResourcesOf, SameLife, new
<1>8. CASE k \notin DOMAIN Named
  BY <1>1, <1>5, <1>6, <1>8 DEF RefsOf, ResourcesOf, SameLife, refs, new
<1> QED
  BY <1>7, <1>8

\* The references of a new claim to the cached StatefulSets are by their
\* templates.
LEMMA WithInferredIs ==
    ASSUME CacheTypes, NEW k \in GraphKeys, NEW res \in ResourcesOf(k), RefsOf(k, res)
    PROVE  LET new == G!WithInferred(k, res)
           IN  /\ new \in ResourcesOf(k) /\ new # None /\ SameButRefs(res, new) /\ RefsOf(k, new)
               /\ k \in Claims => \A p \in StatefulSets : resources[p] # None =>
                    (HasUid(new.refs, resources[p].uid) <=> k \in resources[p].claims)
<1> DEFINE inferring == IF k \in Claims THEN {p \in StatefulSets : resources[p] # None} ELSE {}
           owners == {p \in inferring : k \in resources[p].claims}
           added == {p \in owners : \A r \in res.refs : r.uid # resources[p].uid}
           kept == {r \in res.refs : \A p \in inferring \ owners : r.uid # resources[p].uid}
           gained == {G!ToOwnerRef(p, resources[p]) : p \in added}
           new == G!WithInferred(k, res)
<1>1. new = [res EXCEPT !.refs = kept \cup gained]
  BY DEF G!WithInferred, G!Cached
<1>2. StatefulSets \subseteq GraphKeys /\ Claims \cap DOMAIN Named = {}
  BY GraphConstants DEF G!HierarchyAssumption
<1>3. \A p \in inferring : /\ p \in StatefulSets /\ p \in GraphKeys
                           /\ G!ToOwnerRef(p, resources[p]) \in OwnRefs
                           /\ G!ToOwnerRef(p, resources[p]) \in G!Refs
                           /\ G!ToOwnerRef(p, resources[p]).uid = resources[p].uid
                           /\ resources[p].uid \in UidsOf(p)
  BY <1>2, OwnerRefs DEF CacheTypes
<1>4. res.refs \subseteq G!Refs /\ res # None
  BY GraphConstants DEF ResourcesOf, G!Resource, G!HierarchyAssumption
<1>5. kept \cup gained \in SUBSET G!Refs
  BY <1>3, <1>4
<1>6. /\ new \in ResourcesOf(k) /\ new # None /\ new.refs = kept \cup gained
      /\ SameButRefs(res, new)
  <2> HIDE DEF kept, gained, new
  <2> QED
    BY <1>1, <1>5, ChangedRefs
<1>7. CASE k \notin Claims
  <2>1. new.refs = res.refs
    BY <1>6, <1>7
  <2>2. new.declared = res.declared
    BY <1>4, <1>6 DEF SameButRefs
  <2>3. RefsOf(k, new)
    BY <2>1, <2>2 DEF RefsOf
  <2> QED
    BY <1>6, <1>7, <2>3
<1>8. CASE k \in Claims
  <2>1. k \notin DOMAIN Named /\ res.refs \subseteq OwnRefs
    BY <1>2, <1>8 DEF RefsOf
  <2>2. \A p \in StatefulSets : resources[p] # None => p \in inferring
    BY <1>8
  <2>3. ASSUME NEW p \in inferring
        PROVE  HasUid(kept \cup gained, resources[p].uid) <=> p \in owners
    <3>1. CASE p \in owners
      <4>1. CASE \E r \in res.refs : r.uid = resources[p].uid
        <5>1. PICK r \in res.refs : r.uid = resources[p].uid
          BY <4>1
        <5>2. \A h \in inferring : h # p => resources[h].uid # resources[p].uid
          BY <1>3, UidsDiffer
        <5>3. r \in kept
          BY <3>1, <5>1, <5>2
        <5> QED
          BY <3>1, <5>1, <5>3 DEF HasUid
      <4>2. CASE \A r \in res.refs : r.uid # resources[p].uid
        <5>1. G!ToOwnerRef(p, resources[p]) \in gained
          BY <3>1, <4>2
        <5> QED
          BY <1>3, <3>1, <5>1 DEF HasUid
      <4> QED
        BY <4>1, <4>2
    <3>2. CASE p \notin owners
      <4>1. \A r \in kept : r.uid # resources[p].uid
        BY <3>2
      <4>2. \A h \in added : h # p /\ h \in inferring
        BY <3>2
      <4>3. \A r \in gained : r.uid # resources[p].uid
        <5>1. \A h \in added : resources[h].uid # resources[p].uid
          BY <1>3, <4>2, UidsDiffer
        <5> QED
          BY <1>3, <4>2, <5>1
      <4> QED
        BY <3>2, <4>1, <4>3 DEF HasUid
    <3> QED
      BY <3>1, <3>2
  <2>4. ASSUME NEW p \in GraphKeys, p \notin StatefulSets, NEW u \in UidsOf(p)
        PROVE  HasUid(kept \cup gained, u) <=> HasUid(res.refs, u)
    <3>1. \A h \in inferring : resources[h].uid # u
      BY <1>3, <2>4, UidsDiffer
    <3>2. \A r \in gained : r.uid # u
      BY <1>3, <3>1
    <3>3. \A r \in res.refs : r.uid = u => r \in kept
      BY <3>1
    <3> QED
      BY <3>2, <3>3 DEF HasUid
  <2>5. kept \cup gained \subseteq OwnRefs
    BY <1>3, <2>1
  <2>6. new.declared = res.declared
    BY <1>4, <1>6 DEF SameButRefs
  <2> HIDE DEF kept, gained, new
  <2>7. RefsOf(k, new)
    BY <1>6, <1>8, <2>1, <2>4, <2>5, <2>6 DEF RefsOf
  <2>8. \A p \in StatefulSets : resources[p] # None =>
           (HasUid(new.refs, resources[p].uid) <=> k \in resources[p].claims)
    BY <1>6, <2>2, <2>3
  <2> QED
    BY <1>6, <2>7, <2>8 DEF new
<1> QED
  BY <1>7, <1>8

\* A claim whose StatefulSet came or went has a reference to it, or none, and
\* those to the others that it had.
LEMMA ClaimFollows ==
    ASSUME CacheTypes, RefsInv, NEW k \in StatefulSets, NEW c \in Claims, resources[c] # None,
           NEW ref \in OwnRefs, ref.uid \in UidsOf(k), NEW add \in BOOLEAN
    PROVE  LET new == G!SetOwnerRef(resources[c], ref, add)
           IN  /\ new \in ResourcesOf(c) /\ new # None /\ SameButRefs(resources[c], new)
               /\ RefsOf(c, new) /\ (HasUid(new.refs, ref.uid) <=> add)
               /\ \A p \in StatefulSets \ {k} : resources[p] # None =>
                     (HasUid(new.refs, resources[p].uid) <=> c \in resources[p].claims)
<1> DEFINE new == G!SetOwnerRef(resources[c], ref, add)
<1>1. /\ StatefulSets \subseteq GraphKeys /\ Claims \subseteq GraphKeys /\ c \notin DOMAIN Named
      /\ c \in GraphKeys /\ ref \in G!Refs /\ resources[c] \in ResourcesOf(c)
  BY GraphConstants DEF G!HierarchyAssumption, CacheTypes, OwnRefs
<1>2. /\ new \in ResourcesOf(c) /\ SameButRefs(resources[c], new)
      /\ new.refs \subseteq resources[c].refs \cup {ref}
      /\ (HasUid(new.refs, ref.uid) <=> add)
      /\ \A u : u # ref.uid => (HasUid(new.refs, u) <=> HasUid(resources[c].refs, u))
  BY <1>1, SetOwnerRefSets
<1> HIDE DEF new
<1>3. new # None /\ new.declared = resources[c].declared
  BY <1>2 DEF SameButRefs
<1>4. RefsOf(c, resources[c])
  BY <1>1 DEF RefsInv
<1>5. \A p : p # k => \A u \in UidsOf(p) : u # ref.uid
  BY UidsDiffer
<1>6. RefsOf(c, new)
  <2>1. new.refs \subseteq OwnRefs
    BY <1>1, <1>2, <1>4 DEF RefsOf
  <2>2. ASSUME NEW p \in GraphKeys, p \notin StatefulSets, NEW u \in UidsOf(p)
        PROVE  HasUid(new.refs, u) <=> HasUid(new.declared, u)
    <3>1. u # ref.uid
      BY <1>5, <2>2
    <3> QED
      BY <1>1, <1>2, <1>3, <1>4, <2>2, <3>1 DEF RefsOf
  <2> QED
    BY <1>1, <2>1, <2>2 DEF RefsOf
<1>7. ASSUME NEW p \in StatefulSets \ {k}, resources[p] # None
      PROVE  HasUid(new.refs, resources[p].uid) <=> c \in resources[p].claims
  <2>1. resources[p].uid \in UidsOf(p)
    BY <1>1, <1>7 DEF CacheTypes, ResourcesOf
  <2>2. Inferred(p, c)
    BY DEF RefsInv
  <2> QED
    BY <1>2, <1>5, <1>7, <2>1, <2>2 DEF Inferred
<1> QED
  BY <1>2, <1>3, <1>6, <1>7 DEF new

\* What the cache is after an object of a key came.
Came(k, obj) ==
    /\ resources'[k] # None /\ SameLife(resources'[k], obj)
    /\ resources'[k].version = obj.version /\ resources'[k].declared = obj.owners
    /\ \A c \in GraphKeys \ {k} : SameButRefs(resources[c], resources'[c])

\* setNode puts the object there and keeps the references right.
LEMMA SetNodeKeeps ==
    ASSUME CacheTypes, RefsInv, NEW k \in GraphKeys, NEW obj \in ObjectsOf(k),
           resources' = G!SetNode(k, G!NewResource(k, obj))
    PROVE  CacheTypes' /\ RefsInv' /\ Came(k, obj)
<1> DEFINE new == G!NewResource(k, obj)
           w == G!WithInferred(k, new)
           ref == G!ToOwnerRef(k, new)
           follows(c) == k \in StatefulSets /\ c \in Claims /\ resources[c] # None
           followed(c) == G!SetOwnerRef(resources[c], ref, c \in new.claims)
<1>1. StatefulSets \cap Claims = {} /\ StatefulSets \subseteq GraphKeys /\ Claims \subseteq GraphKeys
  BY GraphConstants DEF G!HierarchyAssumption
<1>2. resources' = [c \in GraphKeys |-> IF c = k THEN w
                                        ELSE IF follows(c) THEN followed(c) ELSE resources[c]]
  BY DEF G!SetNode, G!Cached
<1>3. /\ new \in ResourcesOf(k) /\ RefsOf(k, new)
      /\ SameLife(new, obj) /\ new.version = obj.version /\ new.declared = obj.owners
  BY NewResourceIs
<1> HIDE DEF new
<1>4. /\ w \in ResourcesOf(k) /\ w # None /\ SameButRefs(new, w) /\ RefsOf(k, w)
      /\ k \in Claims => \A p \in StatefulSets : resources[p] # None =>
            (HasUid(w.refs, resources[p].uid) <=> k \in resources[p].claims)
  BY <1>3, WithInferredIs
<1>5. ref \in OwnRefs /\ ref.uid = new.uid /\ new.uid \in UidsOf(k)
  BY <1>3, OwnerRefs
<1> HIDE DEF w, ref
<1>6. ASSUME NEW c \in GraphKeys, follows(c)
      PROVE  /\ followed(c) \in ResourcesOf(c) /\ followed(c) # None
             /\ SameButRefs(resources[c], followed(c)) /\ RefsOf(c, followed(c))
             /\ HasUid(followed(c).refs, ref.uid) <=> c \in new.claims
             /\ \A p \in StatefulSets \ {k} : resources[p] # None =>
                   (HasUid(followed(c).refs, resources[p].uid) <=> c \in resources[p].claims)
  <2>1. (c \in new.claims) \in BOOLEAN /\ ref.uid \in UidsOf(k)
    BY <1>5
  <2> QED
    BY <1>5, <1>6, <2>1, ClaimFollows
<1> HIDE DEF followed
<1>7. resources'[k] = w /\ \A c \in GraphKeys \ {k} :
         resources'[c] = IF follows(c) THEN followed(c) ELSE resources[c]
  BY <1>2
<1>8. w.uid = new.uid /\ w.claims = new.claims
  BY <1>4 DEF SameButRefs, SameLife
<1>9. Came(k, obj)
  <2>1. \A c \in GraphKeys \ {k} : SameButRefs(resources[c], resources'[c])
    BY <1>6, <1>7 DEF SameButRefs, SameLife
  <2>2. new # None
    BY <1>4 DEF SameButRefs
  <2>3. w.version = new.version /\ w.declared = new.declared
    BY <1>4, <2>2 DEF SameButRefs
  <2> QED
    BY <1>3, <1>4, <1>7, <1>8, <2>1, <2>3 DEF Came, SameLife
<1>10. CacheTypes'
  BY <1>4, <1>6, <1>7 DEF CacheTypes
<1>11. \A c \in GraphKeys : resources'[c] # None => RefsOf(c, resources'[c])
  BY <1>4, <1>6, <1>7 DEF RefsInv
<1>12. ASSUME NEW p \in StatefulSets, NEW c \in Claims,
              resources'[p] # None, resources'[c] # None
       PROVE  HasUid(resources'[c].refs, resources'[p].uid) <=> c \in resources'[p].claims
  <2>1. p \in GraphKeys /\ c \in GraphKeys /\ p \notin Claims /\ c \notin StatefulSets /\ p # c
    BY <1>1
  <2>2. CASE c = k
    <3>1. resources'[p] = resources[p] /\ resources'[c] = w
      BY <1>7, <2>1, <2>2
    <3> QED
      BY <1>4, <1>12, <2>2, <3>1
  <2>3. CASE p = k
    <3>1. resources'[p] = w /\ follows(c) /\ resources'[c] = followed(c)
      BY <1>7, <1>12, <2>1, <2>3
    <3> QED
      BY <1>5, <1>6, <1>8, <2>1, <3>1
  <2>4. CASE p # k /\ c # k
    <3>1. resources'[p] = resources[p]
      BY <1>7, <2>1, <2>4
    <3>2. CASE follows(c)
      BY <1>6, <1>7, <1>12, <2>1, <2>4, <3>1, <3>2
    <3>3. CASE ~follows(c)
      <4>1. resources'[c] = resources[c]
        BY <1>7, <2>1, <2>4, <3>3
      <4>2. Inferred(p, c)
        BY DEF RefsInv
      <4> QED
        BY <1>12, <3>1, <4>1, <4>2 DEF Inferred
    <3> QED
      BY <3>2, <3>3
  <2> QED
    BY <2>2, <2>3, <2>4
<1>13. RefsInv'
  <2>1. resources' = [c \in GraphKeys |-> resources'[c]]
    BY <1>2
  <2>2. \A p \in StatefulSets, c \in Claims : Inferred(p, c)'
    BY <1>12 DEF Inferred
  <2> QED
    BY <1>11, <2>1, <2>2 DEF RefsInv
<1> QED
  BY <1>9, <1>10, <1>13

\* onNodeRemoved takes the resource away and the references to it.
LEMMA NodeRemovedKeeps ==
    ASSUME CacheTypes, RefsInv, NEW k \in GraphKeys, resources[k] # None,
           resources' = G!NodeRemoved(k)
    PROVE  /\ CacheTypes' /\ RefsInv' /\ resources'[k] = None
           /\ \A c \in GraphKeys \ {k} : SameButRefs(resources[c], resources'[c])
<1> DEFINE ref == G!ToOwnerRef(k, resources[k])
           follows(c) == k \in StatefulSets /\ c \in Claims \cap resources[k].claims
                         /\ resources[c] # None
           followed(c) == G!SetOwnerRef(resources[c], ref, FALSE)
<1>1. StatefulSets \cap Claims = {} /\ StatefulSets \subseteq GraphKeys /\ Claims \subseteq GraphKeys
  BY GraphConstants DEF G!HierarchyAssumption
<1>2. resources' = [c \in GraphKeys |-> IF c = k THEN None
                                        ELSE IF follows(c) THEN followed(c) ELSE resources[c]]
  BY DEF G!NodeRemoved, G!Cached
<1>3. ref \in OwnRefs /\ ref.uid \in UidsOf(k)
  BY OwnerRefs DEF CacheTypes
<1> HIDE DEF ref
<1>4. ASSUME NEW c \in GraphKeys, follows(c)
      PROVE  /\ followed(c) \in ResourcesOf(c) /\ followed(c) # None
             /\ SameButRefs(resources[c], followed(c)) /\ RefsOf(c, followed(c))
             /\ \A p \in StatefulSets \ {k} : resources[p] # None =>
                   (HasUid(followed(c).refs, resources[p].uid) <=> c \in resources[p].claims)
  <2>1. FALSE \in BOOLEAN /\ c \in Claims
    BY <1>4
  <2> QED
    BY <1>3, <1>4, <2>1, ClaimFollows
<1> HIDE DEF followed
<1>5. resources'[k] = None /\ \A c \in GraphKeys \ {k} :
         resources'[c] = IF follows(c) THEN followed(c) ELSE resources[c]
  BY <1>2
<1>6. \A c \in GraphKeys \ {k} : SameButRefs(resources[c], resources'[c])
  BY <1>4, <1>5 DEF SameButRefs, SameLife
<1>7. CacheTypes'
  BY <1>4, <1>5 DEF CacheTypes
<1>8. \A c \in GraphKeys : resources'[c] # None => RefsOf(c, resources'[c])
  BY <1>4, <1>5 DEF RefsInv
<1>9. ASSUME NEW p \in StatefulSets, NEW c \in Claims,
             resources'[p] # None, resources'[c] # None
      PROVE  HasUid(resources'[c].refs, resources'[p].uid) <=> c \in resources'[p].claims
  <2>1. p \in GraphKeys /\ c \in GraphKeys /\ p \notin Claims /\ p # k /\ c # k
    BY <1>1, <1>5, <1>9
  <2>2. resources'[p] = resources[p]
    BY <1>5, <2>1
  <2>3. CASE follows(c)
    BY <1>4, <1>5, <1>9, <2>1, <2>2, <2>3
  <2>4. CASE ~follows(c)
    <3>1. resources'[c] = resources[c]
      BY <1>5, <2>1, <2>4
    <3>2. Inferred(p, c)
      BY DEF RefsInv
    <3> QED
      BY <1>9, <2>2, <3>1, <3>2 DEF Inferred
  <2> QED
    BY <2>3, <2>4
<1>10. RefsInv'
  <2>1. resources' = [c \in GraphKeys |-> resources'[c]]
    BY <1>2
  <2>2. \A p \in StatefulSets, c \in Claims : Inferred(p, c)'
    BY <1>9 DEF Inferred
  <2> QED
    BY <1>8, <2>1, <2>2 DEF RefsInv
<1> QED
  BY <1>5, <1>6, <1>7, <1>10

\* buildGraph completes what names its owner, if that is cached, and leaves the
\* other references.
LEMMA BackfilledIs ==
    ASSUME CacheTypes, RefsInv, NEW c \in GraphKeys, resources[c] # None
    PROVE  LET new == G!Backfilled[c]
           IN  /\ new \in ResourcesOf(c) /\ new # None /\ SameButRefs(resources[c], new)
               /\ RefsOf(c, new)
               /\ c \notin DOMAIN Named \/ new.declared # {} => new.refs = resources[c].refs
               /\ c \in DOMAIN Named /\ new.declared = {} =>
                     \E r \in G!Refs : /\ new.refs = {r} /\ r.uid \in UidsOf(Named[c]) \cup {G!NoUid}
                                       /\ r.uid = G!NoUid => resources[Named[c]] = None
<1> DEFINE res == resources[c]
           complete(r) == IF r.uid = G!NoUid /\ resources[r.key] # None
                          THEN [r EXCEPT !.uid = resources[r.key].uid] ELSE r
           refs == {complete(r) : r \in res.refs}
           new == G!Backfilled[c]
<1>1. new = [res EXCEPT !.refs = refs]
  BY DEF G!Backfilled, G!Cached
<1>2. /\ res \in ResourcesOf(c) /\ res.refs \subseteq G!Refs /\ RefsOf(c, res)
      /\ res.declared \subseteq OwnRefs
  BY DEF CacheTypes, RefsInv, ResourcesOf, G!Resource
<1>3. \A r \in OwnRefs : complete(r) = r
  BY UidsDiffer DEF OwnRefs
<1>4. ASSUME NEW r \in G!Refs
      PROVE  /\ complete(r) \in G!Refs /\ complete(r).key = r.key
             /\ r.uid # G!NoUid => complete(r) = r
             /\ r.uid = G!NoUid /\ resources[r.key] # None =>
                   complete(r).uid \in UidsOf(r.key)
             /\ r.uid = G!NoUid /\ resources[r.key] = None => complete(r) = r
  <2>1. CASE r.uid = G!NoUid /\ resources[r.key] # None
    <3>1. resources[r.key].uid \in G!Uids /\ resources[r.key].uid \in UidsOf(r.key)
      BY <2>1 DEF CacheTypes, ResourcesOf, G!Resource, G!Refs
    <3>2. complete(r) = [r EXCEPT !.uid = resources[r.key].uid]
      BY <2>1
    <3> QED
      BY <2>1, <3>1, <3>2 DEF G!Refs
  <2>2. CASE ~(r.uid = G!NoUid /\ resources[r.key] # None)
    <3>1. complete(r) = r
      BY <2>2
    <3> QED
      BY <2>2, <3>1
  <2> QED
    BY <2>1, <2>2
<1> HIDE DEF complete
<1>5. refs \in SUBSET G!Refs
  BY <1>2, <1>4
<1>6. /\ new \in ResourcesOf(c) /\ new # None /\ new.refs = refs /\ SameButRefs(res, new)
  <2> HIDE DEF refs, new
  <2> QED
    BY <1>1, <1>2, <1>5, ChangedRefs
<1>7. new.declared = res.declared
  BY <1>6 DEF SameButRefs
<1>8. CASE res.refs \subseteq OwnRefs /\ (c \notin DOMAIN Named \/ res.declared # {})
  <2>1. refs = res.refs
    BY <1>3, <1>8
  <2>2. RefsOf(c, new)
    BY <1>2, <1>6, <1>7, <2>1 DEF RefsOf
  <2> QED
    BY <1>6, <1>7, <1>8, <2>1, <2>2
<1>9. CASE c \in DOMAIN Named /\ res.declared = {}
  <2>1. PICK r \in G!Refs : /\ res.refs = {r} /\ r.key = Named[c]
                            /\ r.uid \in UidsOf(Named[c]) \cup {G!NoUid}
    BY <1>2, <1>9 DEF RefsOf
  <2>2. new.refs = {complete(r)}
    BY <1>6, <2>1
  <2>3. /\ complete(r) \in G!Refs /\ complete(r).key = Named[c]
        /\ complete(r).uid \in UidsOf(Named[c]) \cup {G!NoUid}
        /\ complete(r).uid = G!NoUid => resources[Named[c]] = None
    <3>1. CASE r.uid = G!NoUid /\ resources[r.key] # None
      BY <1>4, <2>1, <3>1, UidsDiffer
    <3>2. CASE ~(r.uid = G!NoUid /\ resources[r.key] # None)
      BY <1>4, <2>1, <3>2
    <3> QED
      BY <3>1, <3>2
  <2>4. RefsOf(c, new)
    BY <1>7, <1>9, <2>2, <2>3 DEF RefsOf
  <2> QED
    BY <1>6, <1>7, <1>9, <2>2, <2>3, <2>4
<1>10. c \notin DOMAIN Named \/ res.declared # {} => res.refs \subseteq OwnRefs
  BY <1>2 DEF RefsOf
<1> QED
  BY <1>8, <1>9, <1>10

\* So it keeps the references right.
LEMMA BackfilledKeeps ==
    ASSUME CacheTypes, RefsInv, resources' = G!Backfilled
    PROVE  /\ CacheTypes' /\ RefsInv'
           /\ \A c \in GraphKeys : SameButRefs(resources[c], resources'[c])
<1>1. StatefulSets \subseteq GraphKeys /\ Claims \subseteq GraphKeys /\ Claims \cap DOMAIN Named = {}
  BY GraphConstants DEF G!HierarchyAssumption
<1>2. \A c \in GraphKeys : resources[c] = None => resources'[c] = None
  BY DEF G!Backfilled, G!Cached
<1>3. \A c \in GraphKeys : resources[c] # None =>
         /\ resources'[c] \in ResourcesOf(c) /\ resources'[c] # None
         /\ SameButRefs(resources[c], resources'[c]) /\ RefsOf(c, resources'[c])
         /\ c \notin DOMAIN Named => resources'[c].refs = resources[c].refs
  BY BackfilledIs
<1>4. \A c \in GraphKeys : SameButRefs(resources[c], resources'[c])
  BY <1>2, <1>3 DEF SameButRefs
<1>5. CacheTypes'
  BY <1>2, <1>3 DEF CacheTypes
<1>6. \A c \in GraphKeys : resources'[c] # None => RefsOf(c, resources'[c])
  BY <1>2, <1>3
<1>7. ASSUME NEW p \in StatefulSets, NEW c \in Claims,
             resources'[p] # None, resources'[c] # None
      PROVE  HasUid(resources'[c].refs, resources'[p].uid) <=> c \in resources'[p].claims
  <2>1. p \in GraphKeys /\ c \in GraphKeys /\ c \notin DOMAIN Named
        /\ resources[p] # None /\ resources[c] # None
    BY <1>1, <1>2, <1>7
  <2>2. resources'[c].refs = resources[c].refs /\ resources'[p].uid = resources[p].uid
        /\ resources'[p].claims = resources[p].claims
    BY <1>3, <2>1 DEF SameButRefs, SameLife
  <2>3. Inferred(p, c)
    BY DEF RefsInv
  <2> QED
    BY <2>1, <2>2, <2>3 DEF Inferred
<1>8. RefsInv'
  <2>1. resources' = [c \in GraphKeys |-> resources'[c]]
    BY DEF G!Backfilled
  <2>2. \A p \in StatefulSets, c \in Claims : Inferred(p, c)'
    BY <1>7 DEF Inferred
  <2> QED
    BY <1>6, <2>1, <2>2 DEF RefsInv
<1> QED
  BY <1>4, <1>5, <1>8

-----------------------------------------------------------------------------
(* Hierarchy: the steps on the graph                                        *)

\* What is cached is what the events make of it.
LEMMA FeedTypes == FeedInv => CacheTypes
BY DEF FeedInv, Feed, CacheTypes

\* A change in the API server is told by an event.
LEMMA WriteKeeps ==
    ASSUME FeedInv, NEW k \in GraphKeys, NEW e \in EventsOf(k), NEW now,
           IF e.type = "Deleted" THEN now = None /\ e.obj.version <= writes + 1
                                 ELSE now = e.obj /\ now # None /\ e.obj.version = writes + 1,
           e.type = "Modified" => server[k] # None /\ SameLife(server[k], e.obj),
           writes < MaxWrites, writes' = writes + 1, lives' \in [GraphKeys -> 0..MaxLives],
           server' = [server EXCEPT ![k] = now],
           events' = [events EXCEPT ![k] = Append(@, e)], resources' = resources
    PROVE  FeedInv'
<1>1. /\ writes \in Nat /\ writes' \in 0..MaxWrites /\ writes + 1 \in Nat
      /\ server = [h \in GraphKeys |-> server[h]] /\ events = [h \in GraphKeys |-> events[h]]
      /\ \A h \in GraphKeys : Feed(h, writes, server[h], events[h], resources[h])
  BY GraphConstants DEF FeedInv, G!HierarchyAssumption
<1>2. /\ server'[k] = now /\ events'[k] = Append(events[k], e)
      /\ \A h \in GraphKeys \ {k} : server'[h] = server[h] /\ events'[h] = events[h]
      /\ server' = [h \in GraphKeys |-> server'[h]] /\ events' = [h \in GraphKeys |-> events'[h]]
  BY <1>1
<1>3. Feed(k, writes + 1, now, Append(events[k], e), resources[k])
  BY <1>1, FeedPush
<1>4. ASSUME NEW h \in GraphKeys \ {k}
      PROVE  Feed(h, writes + 1, server[h], events[h], resources[h])
  <2>1. Feed(h, writes, server[h], events[h], resources[h])
    BY <1>1
  <2>2. SameButRefs(resources[h], resources[h])
    BY DEF SameButRefs, SameLife
  <2>3. resources[h] # None => resources[h] \in ResourcesOf(h)
    BY <2>1 DEF Feed
  <2>4. writes <= writes + 1
    BY <1>1
  <2> QED
    BY <1>1, <2>1, <2>2, <2>3, <2>4, FeedStays
<1>5. \A h \in GraphKeys : Feed(h, writes', server'[h], events'[h], resources'[h])
  BY <1>2, <1>3, <1>4
<1> QED
  BY <1>1, <1>2, <1>5 DEF FeedInv

\* What may be declared are references to what exists.
LEMMA DeclarableIs ==
    ASSUME FeedInv, NEW k \in GraphKeys
    PROVE  G!Declarable(k) \subseteq OwnRefs
<1>1. ASSUME NEW o \in GraphKeys, server[o] # None
      PROVE  [key |-> o, uid |-> server[o].uid] \in OwnRefs
  <2>1. server[o] \in ObjectsOf(o)
    BY <1>1 DEF FeedInv, Feed
  <2>2. server[o].uid \in UidsOf(o) /\ server[o].uid \in G!Uids
    BY <2>1 DEF ObjectsOf, G!Object
  <2> QED
    BY <2>2 DEF OwnRefs, G!Refs
<1> QED
  BY <1>1 DEF G!Declarable, G!Live

\* Creating an object keeps the invariant of the events.
LEMMA CreateKeeps ==
    ASSUME FeedInv, NEW k \in GraphKeys, G!Create(k)
    PROVE  FeedInv'
<1>1. PICK owners \in SUBSET G!Declarable(k), claims \in G!Templates(k) :
         LET obj == [uid |-> <<k, lives'[k]>>, version |-> writes', owners |-> owners, claims |-> claims]
         IN  /\ server' = [server EXCEPT ![k] = obj]
             /\ events' = [events EXCEPT ![k] = Append(@, [type |-> "Added", obj |-> obj])]
  BY DEF G!Create, G!Push
<1> DEFINE obj == [uid |-> <<k, lives'[k]>>, version |-> writes', owners |-> owners, claims |-> claims]
           e == [type |-> "Added", obj |-> obj]
<1>2. /\ lives[k] < MaxLives /\ writes < MaxWrites /\ lives' = [lives EXCEPT ![k] = @ + 1]
      /\ writes' = writes + 1 /\ resources' = resources
  BY DEF G!Create, G!unlessServer
<1>3. /\ writes \in Nat /\ MaxWrites \in Nat /\ MaxLives \in Nat /\ lives \in [GraphKeys -> 0..MaxLives]
  BY GraphConstants DEF FeedInv, G!HierarchyAssumption
<1>4. lives' \in [GraphKeys -> 0..MaxLives] /\ lives'[k] \in 1..MaxLives
  BY <1>2, <1>3
<1>5. writes' \in 1..MaxWrites
  BY <1>2, <1>3
<1>6. owners \subseteq OwnRefs /\ owners \subseteq G!Refs /\ claims \subseteq Claims
  BY DeclarableIs DEF G!Templates, OwnRefs
<1>7. <<k, lives'[k]>> \in UidsOf(k) /\ <<k, lives'[k]>> \in G!Uids
  BY <1>4 DEF UidsOf, G!Uids
<1>8. obj \in ObjectsOf(k)
  BY <1>5, <1>6, <1>7 DEF ObjectsOf, G!Object
<1>9. obj.version = writes + 1
  BY <1>2
<1> HIDE DEF obj
<1>10. e \in EventsOf(k) /\ e.type = "Added" /\ e.obj = obj
  BY <1>8 DEF EventsOf
<1>11. obj # None
  BY <1>8, GraphConstants DEF ObjectsOf, G!HierarchyAssumption
<1>12. /\ server' = [server EXCEPT ![k] = obj] /\ events' = [events EXCEPT ![k] = Append(@, e)]
  BY <1>1 DEF obj
<1> HIDE DEF e
<1> QED
  BY <1>2, <1>4, <1>9, <1>10, <1>11, <1>12, WriteKeeps

\* So does changing its owners.
LEMMA ModifyKeeps ==
    ASSUME FeedInv, NEW k \in GraphKeys, G!Modify(k)
    PROVE  FeedInv'
<1>1. PICK owners \in SUBSET G!Declarable(k) :
         LET obj == [server[k] EXCEPT !.version = writes', !.owners = owners]
         IN  /\ server' = [server EXCEPT ![k] = obj]
             /\ events' = [events EXCEPT ![k] = Append(@, [type |-> "Modified", obj |-> obj])]
  BY DEF G!Modify, G!Push
<1> DEFINE obj == [server[k] EXCEPT !.version = writes', !.owners = owners]
           e == [type |-> "Modified", obj |-> obj]
<1>2. /\ server[k] # None /\ writes < MaxWrites /\ writes' = writes + 1
      /\ resources' = resources /\ lives' = lives
  BY DEF G!Modify, G!unlessServer, G!Live
<1>3. /\ writes \in Nat /\ MaxWrites \in Nat /\ lives \in [GraphKeys -> 0..MaxLives]
      /\ server[k] \in ObjectsOf(k)
  BY <1>2, GraphConstants DEF FeedInv, Feed, G!HierarchyAssumption
<1>4. writes' \in 1..MaxWrites
  BY <1>2, <1>3
<1>5. owners \subseteq OwnRefs /\ owners \subseteq G!Refs
  BY DeclarableIs DEF OwnRefs
<1>6. /\ obj \in G!Object /\ obj.uid = server[k].uid /\ obj.claims = server[k].claims
      /\ obj.owners = owners /\ obj.version = writes'
  BY <1>3, <1>4, <1>5 DEF ObjectsOf, G!Object
<1> HIDE DEF obj
<1>7. obj \in ObjectsOf(k)
  BY <1>3, <1>5, <1>6 DEF ObjectsOf
<1>8. e \in EventsOf(k) /\ e.type = "Modified" /\ e.obj = obj
  BY <1>7 DEF EventsOf
<1>9. obj # None
  BY <1>7, GraphConstants DEF ObjectsOf, G!HierarchyAssumption
<1>10. /\ server' = [server EXCEPT ![k] = obj] /\ events' = [events EXCEPT ![k] = Append(@, e)]
  BY <1>1 DEF obj
<1>11. SameLife(server[k], obj)
  BY <1>6 DEF SameLife
<1> HIDE DEF e
<1> QED
  BY <1>2, <1>3, <1>6, <1>8, <1>9, <1>10, <1>11, WriteKeeps

\* So does deleting it.
LEMMA DeleteKeeps ==
    ASSUME FeedInv, NEW k \in GraphKeys, G!Delete(k)
    PROVE  FeedInv'
<1> DEFINE e == [type |-> "Deleted", obj |-> server[k]]
<1>1. /\ server[k] # None /\ writes < MaxWrites /\ writes' = writes + 1
      /\ resources' = resources /\ lives' = lives /\ server' = [server EXCEPT ![k] = None]
      /\ events' = [events EXCEPT ![k] = Append(@, e)]
  BY DEF G!Delete, G!unlessServer, G!Live, G!Push
<1>2. /\ writes \in Nat /\ lives \in [GraphKeys -> 0..MaxLives]
      /\ server[k] \in ObjectsOf(k) /\ server[k].version <= writes
  BY <1>1, GraphConstants DEF FeedInv, Feed, G!HierarchyAssumption
<1>3. server[k].version \in Nat
  BY <1>2 DEF ObjectsOf, G!Object
<1>4. e \in EventsOf(k) /\ e.type = "Deleted" /\ e.obj = server[k]
  BY <1>2 DEF EventsOf
<1>5. e.obj.version <= writes + 1
  BY <1>2, <1>3, <1>4
<1> HIDE DEF e
<1> QED
  BY <1>1, <1>2, <1>4, <1>5, WriteKeeps

\* What is delivered of a key leaves the others as they are.
LEMMA DeliveryKeeps ==
    ASSUME FeedInv, CacheTypes', NEW k \in GraphKeys, NEW q, events' = [events EXCEPT ![k] = q],
           Feed(k, writes, server[k], q, resources'[k]), UNCHANGED <<server, lives, writes>>,
           \A c \in GraphKeys \ {k} : SameButRefs(resources[c], resources'[c])
    PROVE  FeedInv'
<1>1. /\ writes \in Nat /\ writes <= writes /\ events = [h \in GraphKeys |-> events[h]]
      /\ \A h \in GraphKeys : Feed(h, writes, server[h], events[h], resources[h])
  BY GraphConstants DEF FeedInv, G!HierarchyAssumption
<1>2. /\ events'[k] = q /\ \A h \in GraphKeys \ {k} : events'[h] = events[h]
      /\ events' = [h \in GraphKeys |-> events'[h]]
  BY <1>1
<1>3. ASSUME NEW h \in GraphKeys \ {k}
      PROVE  Feed(h, writes, server[h], events[h], resources'[h])
  <2>1. Feed(h, writes, server[h], events[h], resources[h])
        /\ SameButRefs(resources[h], resources'[h])
    BY <1>1
  <2>2. resources'[h] # None => resources'[h] \in ResourcesOf(h)
    BY DEF CacheTypes
  <2> QED
    BY <1>1, <2>1, <2>2, FeedStays
<1>4. \A h \in GraphKeys : Feed(h, writes', server'[h], events'[h], resources'[h])
  BY <1>2, <1>3
<1> QED
  BY <1>2, <1>4 DEF FeedInv

\* What setNode makes of an event or a listed object.
LEMMA CameResource ==
    ASSUME CacheTypes', NEW k \in GraphKeys, NEW obj, Came(k, obj)
    PROVE  /\ resources'[k] \in ResourcesOf(k) /\ resources'[k] # None
           /\ SameLife(resources'[k], obj) /\ resources'[k].version = obj.version
           /\ resources'[k].declared = obj.owners
BY DEF Came, CacheTypes

\* processEvent keeps both invariants.
LEMMA EventKeeps ==
    ASSUME FeedInv, RefsInv, NEW k \in GraphKeys, G!Process(k)
    PROVE  FeedInv' /\ RefsInv'
<1>1. PICK e, q : e = Head(events[k]) /\ q = events[k]
  OBVIOUS
<1>2. /\ q # <<>> /\ events' = [events EXCEPT ![k] = Tail(q)] /\ UNCHANGED <<server, lives, writes>>
      /\ resources' = CASE e.type = "Deleted" -> IF resources[k] # None THEN G!NodeRemoved(k) ELSE resources
                        [] e.type = "Modified" /\ k \in Ignored -> resources
                        [] OTHER -> G!SetNode(k, G!NewResource(k, e.obj))
  BY <1>1 DEF G!Process, G!unlessCache, G!Cached
<1>3. CacheTypes /\ Feed(k, writes, server[k], q, resources[k]) /\ writes \in Nat
  BY <1>1, FeedTypes, GraphConstants DEF FeedInv, G!HierarchyAssumption
<1>4. e \in EventsOf(k) /\ e.obj \in ObjectsOf(k)
  <2>1. q \in Seq(EventsOf(k))
    BY <1>3 DEF Feed
  <2>2. e \in EventsOf(k)
    BY <1>1, <1>2, <2>1, PoppedEvent
  <2> QED
    BY <2>2 DEF EventsOf
<1>5. \A c : SameButRefs(resources[c], resources[c])
  BY DEF SameButRefs, SameLife
<1>6. SUFFICES /\ CacheTypes' /\ RefsInv'
               /\ CASE e.type = "Deleted" -> resources'[k] = None
                    [] e.type = "Modified" /\ k \in Ignored -> resources'[k] = resources[k]
                    [] OTHER -> /\ resources'[k] \in ResourcesOf(k) /\ resources'[k] # None
                                /\ SameLife(resources'[k], e.obj) /\ resources'[k].version = e.obj.version
                                /\ resources'[k].declared = e.obj.owners
               /\ \A c \in GraphKeys \ {k} : SameButRefs(resources[c], resources'[c])
  <2>1. Feed(k, writes, server[k], Tail(q), resources'[k])
    BY <1>1, <1>2, <1>3, <1>6, FeedPop
  <2> QED
    BY <1>2, <1>6, <2>1, DeliveryKeeps
<1>7. CASE e.type = "Deleted" /\ resources[k] # None
  <2>1. resources' = G!NodeRemoved(k)
    BY <1>2, <1>7
  <2> QED
    BY <1>3, <1>7, <2>1, NodeRemovedKeeps
<1>8. CASE \/ e.type = "Deleted" /\ resources[k] = None
           \/ e.type = "Modified" /\ k \in Ignored
  <2>1. resources' = resources
    BY <1>2, <1>8
  <2>2. CacheTypes' /\ RefsInv'
    BY <1>3, <2>1 DEF CacheTypes, RefsInv, Inferred
  <2> QED
    BY <1>5, <1>8, <2>1, <2>2
<1>9. CASE e.type # "Deleted" /\ ~(e.type = "Modified" /\ k \in Ignored)
  <2>1. resources' = G!SetNode(k, G!NewResource(k, e.obj))
    BY <1>2, <1>9
  <2>2. CacheTypes' /\ RefsInv' /\ Came(k, e.obj)
    BY <1>3, <1>4, <2>1, SetNodeKeeps
  <2>3. \A c \in GraphKeys \ {k} : SameButRefs(resources[c], resources'[c])
    BY <2>2 DEF Came
  <2> QED
    BY <1>9, <2>2, <2>3, CameResource
<1> QED
  BY <1>7, <1>8, <1>9

\* What is cached of a key whose events are done with.
LEMMA FeedDone ==
    ASSUME NEW k \in GraphKeys, NEW w, NEW obj, NEW res,
           obj # None => obj \in ObjectsOf(k) /\ obj.version <= w,
           res # None => /\ res \in ResourcesOf(k)
                         /\ res.version = obj.version /\ SameLife(res, obj)
                         /\ res.declared = obj.owners,
           obj = None <=> res = None
    PROVE  Feed(k, w, obj, <<>>, res)
<1>1. <<>> \in Seq(EventsOf(k)) /\ \A i \in 1..Len(<<>>) : FALSE
  OBVIOUS
<1> QED
  BY <1>1 DEF Feed

\* So does replaceResourceCache.
LEMMA RelistKeeps ==
    ASSUME FeedInv, RefsInv, NEW k \in GraphKeys, G!Relist(k)
    PROVE  FeedInv' /\ RefsInv'
<1>1. /\ events' = [events EXCEPT ![k] = <<>>] /\ UNCHANGED <<server, lives, writes>>
      /\ resources' =
            IF server[k] = None THEN IF resources[k] # None THEN G!NodeRemoved(k) ELSE resources
            ELSE IF resources[k] # None /\ resources[k].version = server[k].version THEN resources
            ELSE G!SetNode(k, G!NewResource(k, server[k]))
  BY DEF G!Relist, G!unlessCache, G!Cached, G!Live
<1>2. CacheTypes /\ Feed(k, writes, server[k], events[k], resources[k])
  BY FeedTypes DEF FeedInv
<1>3. server[k] # None => server[k] \in ObjectsOf(k) /\ server[k].version <= writes
  BY <1>2 DEF Feed
<1>4. \A c : SameButRefs(resources[c], resources[c])
  BY DEF SameButRefs, SameLife
<1>5. SUFFICES /\ CacheTypes' /\ RefsInv'
               /\ server[k] = None <=> resources'[k] = None
               /\ server[k] # None => /\ resources'[k].version = server[k].version
                                      /\ SameLife(resources'[k], server[k])
                                      /\ resources'[k].declared = server[k].owners
               /\ \A c \in GraphKeys \ {k} : SameButRefs(resources[c], resources'[c])
  <2>1. resources'[k] # None => resources'[k] \in ResourcesOf(k)
    BY <1>5 DEF CacheTypes
  <2>2. Feed(k, writes, server[k], <<>>, resources'[k])
    BY <1>3, <1>5, <2>1, FeedDone
  <2> QED
    BY <1>1, <1>5, <2>2, DeliveryKeeps
<1>6. CASE server[k] = None /\ resources[k] # None
  <2>1. resources' = G!NodeRemoved(k)
    BY <1>1, <1>6
  <2> QED
    BY <1>2, <1>6, <2>1, NodeRemovedKeeps
<1>7. CASE \/ server[k] = None /\ resources[k] = None
           \/ server[k] # None /\ resources[k] # None /\ resources[k].version = server[k].version
  <2>1. resources' = resources
    BY <1>1, <1>7
  <2>2. CacheTypes' /\ RefsInv'
    BY <1>2, <2>1 DEF CacheTypes, RefsInv, Inferred
  <2>3. server[k] # None => SameLife(resources[k], server[k]) /\ resources[k].declared = server[k].owners
    BY <1>2, <1>7 DEF Feed
  <2> QED
    BY <1>4, <1>7, <2>1, <2>2, <2>3
<1>8. CASE /\ server[k] # None
           /\ ~(resources[k] # None /\ resources[k].version = server[k].version)
  <2>1. resources' = G!SetNode(k, G!NewResource(k, server[k]))
    BY <1>1, <1>8
  <2>2. CacheTypes' /\ RefsInv' /\ Came(k, server[k])
    BY <1>2, <1>3, <1>8, <2>1, SetNodeKeeps
  <2>3. \A c \in GraphKeys \ {k} : SameButRefs(resources[c], resources'[c])
    BY <2>2 DEF Came
  <2> QED
    BY <1>8, <2>2, <2>3, CameResource
<1> QED
  BY <1>6, <1>7, <1>8

\* So does the start of a walk, which completes references.
LEMMA StartKeeps ==
    ASSUME FeedInv, RefsInv, G!WalkStart
    PROVE  FeedInv' /\ RefsInv'
<1>1. resources' = G!Backfilled /\ UNCHANGED <<server, lives, writes, events>>
  BY DEF G!WalkStart, G!unlessWalk
<1>2. CacheTypes
  BY FeedTypes
<1>3. CacheTypes' /\ RefsInv' /\ \A c \in GraphKeys : SameButRefs(resources[c], resources'[c])
  BY <1>1, <1>2, BackfilledKeeps
<1>4. writes \in Nat /\ writes <= writes
  BY GraphConstants DEF FeedInv, G!HierarchyAssumption
<1>5. ASSUME NEW h \in GraphKeys
      PROVE  Feed(h, writes, server[h], events[h], resources'[h])
  <2>1. Feed(h, writes, server[h], events[h], resources[h])
    BY DEF FeedInv
  <2>2. SameButRefs(resources[h], resources'[h])
        /\ (resources'[h] # None => resources'[h] \in ResourcesOf(h))
    BY <1>3 DEF CacheTypes
  <2> QED
    BY <1>4, <2>1, <2>2, FeedStays
<1> QED
  BY <1>1, <1>3, <1>5 DEF FeedInv

\* Every step keeps both invariants.
LEMMA GraphKeeps == GraphInv /\ [Next]_allVars => GraphInv'
<1> SUFFICES ASSUME GraphInv, [Next]_allVars, part' = "graph"
             PROVE  FeedInv' /\ RefsInv'
  BY DEF GraphInv
<1>1. part = "graph" /\ FeedInv /\ RefsInv
  BY SecretSteps DEF GraphInv
<1>2. CASE UNCHANGED <<server, resources, lives, writes, events>>
  BY <1>1, <1>2 DEF FeedInv, RefsInv, Inferred
<1>3. CASE UNCHANGED <<GraphOnly, Both>>
  BY <1>2, <1>3 DEF GraphOnly, Both
<1>4. CASE \/ G!WalkReturn \/ G!WalkEnd
           \/ \E k \in GraphKeys : G!WalkRoot(k) \/ G!WalkChild(k)
  BY <1>2, <1>4 DEF G!WalkReturn, G!WalkEnd, G!WalkRoot, G!WalkChild, G!unlessWalk
<1>5. CASE G!WalkStart
  BY <1>1, <1>5, StartKeeps
<1>6. CASE \E k \in GraphKeys : G!Create(k) \/ G!Modify(k) \/ G!Delete(k)
  <2>1. FeedInv'
    BY <1>1, <1>6, CreateKeeps, ModifyKeeps, DeleteKeeps
  <2>2. resources' = resources
    BY <1>6 DEF G!Create, G!Modify, G!Delete, G!unlessServer
  <2> QED
    BY <1>1, <2>1, <2>2 DEF RefsInv, Inferred
<1>7. CASE \E k \in GraphKeys : G!Process(k) \/ G!Relist(k)
  BY <1>1, <1>7, EventKeeps, RelistKeeps
<1> QED
  BY <1>1, <1>3, <1>4, <1>5, <1>6, <1>7, GraphSteps DEF WalkStep, CacheStep

\* There is nothing to know at first.
LEMMA GraphStarts == Init => GraphInv
<1> SUFFICES ASSUME Init, part = "graph"
             PROVE  FeedInv /\ RefsInv
  BY DEF GraphInv
<1>1. G!Init
  BY DEF Init
<1>2. /\ server = [k \in GraphKeys |-> None] /\ lives = [k \in GraphKeys |-> 0] /\ writes = 0
      /\ events = [k \in GraphKeys |-> <<>>] /\ resources = [k \in GraphKeys |-> None]
  BY <1>1 DEF G!Init
<1>3. 0 \in 0..MaxWrites /\ 0 \in 0..MaxLives
  BY GraphConstants DEF G!HierarchyAssumption
<1>4. \A k \in GraphKeys : Feed(k, writes, server[k], events[k], resources[k])
  BY <1>2, FeedDone
<1>5. FeedInv
  BY <1>2, <1>3, <1>4 DEF FeedInv
<1>6. StatefulSets \subseteq GraphKeys
  BY GraphConstants DEF G!HierarchyAssumption
<1>7. RefsInv
  BY <1>2, <1>6 DEF RefsInv, Inferred
<1> QED
  BY <1>5, <1>7

-----------------------------------------------------------------------------
(* Hierarchy: the graph when the events are done with                       *)

\* What is cached is then what there is, but for the owners of what is skipped.
LEMMA QuietCache ==
    ASSUME FeedInv, \A k \in GraphKeys : events[k] = <<>>, NEW k \in GraphKeys
    PROVE  /\ server[k] = None <=> resources[k] = None
           /\ server[k] # None => /\ server[k] \in ObjectsOf(k) /\ SameLife(resources[k], server[k])
                                  /\ k \notin Ignored => resources[k].declared = server[k].owners
<1>1. Feed(k, writes, server[k], <<>>, resources[k])
  BY DEF FeedInv
<1> QED
  BY <1>1 DEF Feed

\* The children of a resource that the completed references name are those that
\* the objects name.
LEMMA QuietChildren ==
    ASSUME FeedInv, RefsInv, \A k \in GraphKeys : events[k] = <<>>,
           NEW c \in GraphKeys, resources[c] # None, NEW p \in GraphKeys,
           c \in DOMAIN Named => \A r \in G!Backfilled[c].refs : r.uid = G!NoUid \/ G!Known(r.uid),
           c \in Ignored => resources[c].declared = server[c].owners
    PROVE  c \in G!Children(G!Backfilled, p) <=> G!Owns(p, c)
<1> DEFINE B == G!Backfilled
<1>1. CacheTypes /\ \A k \in GraphKeys : B[k] = None <=> resources[k] = None
  <2>1. CacheTypes
    BY FeedTypes
  <2>2. \A k \in GraphKeys : resources[k] = None => B[k] = None
    BY DEF G!Backfilled, G!Cached
  <2> HIDE DEF B
  <2>3. \A k \in GraphKeys : resources[k] # None => B[k] # None
    BY <2>1, BackfilledIs DEF B
  <2> QED
    BY <2>1, <2>2, <2>3
<1>2. \A k \in GraphKeys : resources[k] # None => B[k].uid = resources[k].uid
  BY <1>1, BackfilledIs DEF SameButRefs, SameLife
<1>3. c \in G!Children(B, p) <=> resources[p] # None /\ HasUid(B[c].refs, resources[p].uid)
  <2>1. c \in G!Children(B, p) <=> B[p] # None /\ B[c] # None /\ HasUid(B[c].refs, B[p].uid)
    BY DEF G!Children, HasUid
  <2> HIDE DEF B
  <2> QED
    BY <1>1, <1>2, <2>1
<1>4. /\ server[c] # None /\ resources[c].declared = server[c].owners
      /\ server[p] = None <=> resources[p] = None
      /\ server[p] # None => /\ server[p].uid = resources[p].uid /\ server[p].claims = resources[p].claims
                             /\ server[p].uid \in UidsOf(p)
  BY QuietCache DEF SameLife, ObjectsOf
<1>5. G!Owns(p, c) <=>
         /\ resources[p] # None
         /\ IF p \in StatefulSets /\ c \in Claims THEN c \in resources[p].claims
            ELSE \/ HasUid(resources[c].declared, resources[p].uid)
                 \/ c \in DOMAIN Named /\ resources[c].declared = {} /\ Named[c] = p
  BY <1>4 DEF G!Owns, G!Live, HasUid
<1> HIDE DEF B
<1>6. SUFFICES ASSUME resources[p] # None
               PROVE  HasUid(B[c].refs, resources[p].uid) <=>
                         IF p \in StatefulSets /\ c \in Claims THEN c \in resources[p].claims
                         ELSE \/ HasUid(resources[c].declared, resources[p].uid)
                              \/ c \in DOMAIN Named /\ resources[c].declared = {} /\ Named[c] = p
  BY <1>3, <1>5 DEF B
<1>7. /\ SameButRefs(resources[c], B[c])
      /\ c \notin DOMAIN Named \/ B[c].declared # {} => B[c].refs = resources[c].refs
      /\ c \in DOMAIN Named /\ B[c].declared = {} =>
            \E r \in G!Refs : /\ B[c].refs = {r} /\ r.uid \in UidsOf(Named[c]) \cup {G!NoUid}
                              /\ r.uid = G!NoUid => resources[Named[c]] = None
  BY <1>1, BackfilledIs DEF B
<1>8. B[c].declared = resources[c].declared
  BY <1>7 DEF SameButRefs
<1>9. RefsOf(c, resources[c])
  BY DEF RefsInv
<1>10. /\ resources[p].uid \in UidsOf(p) /\ Claims \cap DOMAIN Named = {}
       /\ \A k \in DOMAIN Named : Named[k] \in GraphKeys
  BY <1>4, <1>6, GraphConstants DEF G!HierarchyAssumption
<1>11. CASE c \notin DOMAIN Named
  <2>1. B[c].refs = resources[c].refs
    BY <1>7, <1>11
  <2>2. CASE p \in StatefulSets /\ c \in Claims
    <3>1. Inferred(p, c)
      BY <2>2 DEF RefsInv
    <3> QED
      BY <1>6, <2>1, <2>2, <3>1 DEF Inferred
  <2>3. CASE ~(p \in StatefulSets /\ c \in Claims)
    BY <1>9, <1>10, <1>11, <2>1, <2>3 DEF RefsOf
  <2> QED
    BY <2>2, <2>3
<1>12. CASE c \in DOMAIN Named /\ resources[c].declared # {}
  <2>1. B[c].refs = resources[c].declared
    BY <1>7, <1>8, <1>9, <1>12 DEF RefsOf
  <2> QED
    BY <1>10, <1>12, <2>1
<1>13. CASE c \in DOMAIN Named /\ resources[c].declared = {}
  <2>1. PICK r \in G!Refs : /\ B[c].refs = {r} /\ r.uid \in UidsOf(Named[c]) \cup {G!NoUid}
                            /\ r.uid = G!NoUid => resources[Named[c]] = None
    BY <1>7, <1>8, <1>13
  <2>2. r.uid = G!NoUid \/ G!Known(r.uid)
    BY <1>13, <2>1 DEF B
  <2>3. c \notin Claims /\ ~HasUid(resources[c].declared, resources[p].uid)
    BY <1>10, <1>13 DEF HasUid
  <2>4. HasUid(B[c].refs, resources[p].uid) <=> r.uid = resources[p].uid
    BY <2>1 DEF HasUid
  <2>5. r.uid = resources[p].uid <=> Named[c] = p
    <3>1. CASE r.uid = G!NoUid
      <4>1. resources[p].uid # G!NoUid
        BY <1>10, UidsDiffer
      <4>2. Named[c] # p
        BY <1>6, <2>1, <3>1
      <4> QED
        BY <3>1, <4>1, <4>2
    <3>2. CASE r.uid # G!NoUid
      <4>1. PICK h \in GraphKeys : server[h] # None /\ server[h].uid = r.uid
        BY <2>2, <3>2 DEF G!Known, G!Live
      <4>2. r.uid \in UidsOf(Named[c]) /\ r.uid \in UidsOf(h)
        BY <2>1, <3>2, <4>1, QuietCache DEF ObjectsOf
      <4>3. h = Named[c]
        BY <4>2, UidsDiffer
      <4>4. Named[c] = p => r.uid = resources[p].uid
        BY <1>4, <4>1, <4>3
      <4>5. r.uid = resources[p].uid => Named[c] = p
        BY <1>10, <4>2, UidsDiffer
      <4> QED
        BY <4>4, <4>5
    <3> QED
      BY <3>1, <3>2
  <2> QED
    BY <1>13, <2>3, <2>4, <2>5
<1> QED
  BY <1>11, <1>12, <1>13

\* Once the events are processed the graph of the cache is that of the server,
\* for any owners, kinds and number of changes, and in whatever order the events
\* and lists of the kinds came (resolveResourceReferences, onNodeUpdated).
THEOREM GraphCorrect == PartSpec => []GraphIsTrue
<1>1. GraphInv => GraphIsTrue
  <2> SUFFICES ASSUME part = "graph", FeedInv, RefsInv
               PROVE  G!GraphIsTrue
    BY DEF GraphInv, GraphIsTrue
  <2> QED
    BY QuietChildren DEF G!GraphIsTrue, G!Cached
<1> QED
  BY <1>1, GraphStarts, GraphKeeps, PTL DEF PartSpec
=============================================================================
