-------------------------------- MODULE Plan --------------------------------
(***************************************************************************)
(* How the manifests of git and the objects of the cluster become the      *)
(* ordered tasks of an operation: GetManagedLiveObjs of the cluster cache, *)
(* Reconcile, getSyncTasks and syncTasks.Sort.                             *)
(*                                                                         *)
(* SyncContext starts from tasks with a phase, a wave and a live object;   *)
(* this module is where they come from.  Meanwhile the cache may learn of  *)
(* a kind, or be invalidated, between the reading of the live objects and  *)
(* the question whether a kind is namespaced.                              *)
(***************************************************************************)
EXTENDS Integers, Sequences, FiniteSets, SequencesExt

CONSTANTS
    Manifests,      \* what git may hold
    Objects,        \* what the cluster may hold, as the cache stores it
    Namespaced,     \* [kinds -> BOOLEAN]: the truth about scopes
    Rank,           \* [kinds -> Nat]: kindOrder
    NameRank,       \* [names -> Nat]: the order of names
    LateKinds,      \* kinds the cache may not have discovered yet
    AppNamespace,   \* the namespace of the operation
    Options,        \* [skipHooks, pruneLast, createNs, namespaced, selected,
                    \*  denied, skipMissing]
    MaxScenario,    \* bound on the manifests and objects of one scenario
    None

GroupKinds == DOMAIN Namespaced

Phases == <<"PreSync", "Sync", "PostSync", "SyncFail">>
syncPhaseOrder == [p \in {"PreSync", "Sync", "PostSync", "SyncFail"} |->
                      CHOOSE i \in 1..4 : Phases[i] = p]

Key(o) == [gk |-> o.gk, ns |-> o.ns, name |-> o.name]

\* The key a manifest has in the cluster.
TrueKey(m) == [gk |-> m.gk, name |-> m.name,
               ns |-> IF ~Namespaced[m.gk] THEN ""
                      ELSE IF m.ns = "" THEN AppNamespace ELSE m.ns]

\* What the constants have to be.
PlanAssumption ==
    /\ Rank \in [GroupKinds -> Nat] /\ \A k \in GroupKinds : Namespaced[k] \in BOOLEAN
    /\ \A m \in Manifests : m.gk \in GroupKinds
    /\ \A o \in Objects : o.gk \in GroupKinds /\ Key(o) = TrueKey(o)
    /\ LateKinds \subseteq GroupKinds

VARIABLES
    git,        \* the manifests: targetObjs as the engine gets them
    server,     \* the objects of the cluster
    opts,       \* the options of the operation
    known,      \* kinds in apisMeta and namespacedResources of the cache
    cached,     \* the objects in c.resources
    stage,      \* how far the plan is
    live,       \* [keys -> objects]: liveObjByKey, consumed by Reconcile
    matched,    \* the pairs [target, live] of the reconciliation
    resources,  \* sc.resources: [keys -> pairs]
    tasks,      \* the tasks, a set until they are sorted
    order,      \* the tasks in order
    successful  \* what getSyncTasks says

vars == <<git, server, opts, known, cached, stage, live, matched, resources,
          tasks, order, successful>>

scenario == <<git, server, opts>>
cacheVars == <<known, cached>>

-----------------------------------------------------------------------------
(* The scenario                                                             *)

IsCrd(m) == m.gk = "CustomResourceDefinition"
IsNamespace(m) == m.gk = "Namespace"
IsHook(m) == m.hook

\* A kind is served when its definition is in the cluster, or it needs none.
NeedsCrd(gk) == \E m \in Manifests : IsCrd(m) /\ m.crd = gk
ServedBy(objects, gk) == NeedsCrd(gk) => \E o \in objects : IsCrd(o) /\ o.crd = gk

\* One manifest for each object of the cluster, and objects of served kinds
\* in namespaces that exist or need not be looked at.
GitOf == {s \in UNION {kSubset(n, Manifests) : n \in 0..MaxScenario} :
            \A m, n \in s : TrueKey(m) = TrueKey(n) => m = n}
ServerOf == {s \in UNION {kSubset(n, Objects) : n \in 0..MaxScenario} :
               \A o \in s : ServedBy(s, o.gk) /\ (\A p \in s : Key(o) = Key(p) => o = p)}

\* In namespaced mode the cache lists one namespace only.
Visible == {o \in server : opts.namespaced => o.ns = AppNamespace}

Init ==
    /\ git \in GitOf /\ server \in ServerOf /\ opts \in Options
    /\ Cardinality(git) + Cardinality(server) <= MaxScenario
    /\ known \in {{k \in GroupKinds : ServedBy(server, k)},
                  {k \in GroupKinds \ LateKinds : ServedBy(server, k)}}
    /\ cached = {o \in Visible : o.gk \in known}
    /\ stage = "start" /\ live = <<>> /\ matched = {} /\ resources = <<>>
    /\ tasks = {} /\ order = <<>> /\ successful = TRUE

-----------------------------------------------------------------------------
(* The cache meanwhile                                                      *)

unlessCache == <<scenario, stage, live, matched, resources, tasks, order, successful>>

\* startMissingWatches: the kinds of the server and their objects.
Discover ==
    /\ stage \in {"start", "read", "unique"}
    /\ known' = {k \in GroupKinds : ServedBy(server, k)}
    /\ cached' = Visible
    /\ UNCHANGED unlessCache

\* Invalidate drops what is known of the kinds and keeps the objects.
Invalidate ==
    /\ stage \in {"start", "read", "unique"}
    /\ known' = {}
    /\ UNCHANGED <<cached, unlessCache>>

-----------------------------------------------------------------------------
(* GetManagedLiveObjs                                                       *)

\* In namespaced mode every manifest must be in the cache's namespace; a
\* manifest without one is cluster level.
OutOfReach(m) == opts.namespaced /\ m.ns # AppNamespace

\* kubectl.GetResource: the namespace counts only for a namespaced kind.
Fetched(m) == {o \in server : /\ o.gk = m.gk /\ o.name = m.name
                              /\ Namespaced[m.gk] => o.ns = m.ns}

ManagedObjs == {o \in cached : o.managed /\ ~o.owned}

\* What the look for a manifest by its key as written finds.
ObjectFor(m) ==
    IF \E o \in cached : Key(o) = Key(m) THEN {o \in cached : Key(o) = Key(m)}
    ELSE IF m.gk \notin known THEN Fetched(m)
    ELSE {}

LiveByKey(manifests) ==
    LET found == {m \in manifests : ObjectFor(m) # {}}
    IN [k \in {Key(o) : o \in ManagedObjs} \cup {Key(m) : m \in found} |->
          IF \E o \in ManagedObjs : Key(o) = k
          THEN CHOOSE o \in ManagedObjs : Key(o) = k
          ELSE CHOOSE o \in ObjectFor(CHOOSE m \in found : Key(m) = k) : TRUE]

GetManagedLiveObjs ==
    /\ stage = "start"
    /\ \A m \in git : ~OutOfReach(m)
    /\ stage' = "read"
    /\ live' = LiveByKey(git)
    /\ UNCHANGED <<scenario, cacheVars, matched, resources, tasks, order, successful>>

\* A manifest out of reach, or an API error of a GetResource, ends it all.
GetManagedLiveObjsFails ==
    /\ stage = "start"
    /\ \E m \in git : OutOfReach(m) \/ m.gk \notin known
    /\ stage' = "failed" /\ successful' = FALSE
    /\ UNCHANGED <<scenario, cacheVars, live, matched, resources, tasks, order>>

-----------------------------------------------------------------------------
(* Reconcile                                                                *)

\* splitHooks; a hook without a type is ignored.
Hooks == {m \in git : IsHook(m) /\ m.phases # {}}
Targets == {m \in git : ~IsHook(m)}

\* Which entries dedupLiveResources removes from those with one UID: all that
\* are not in git, or, the map being ranged over at random, all but one.
IsDropped(dropped, same) ==
    LET strangers == {k \in same : Key(live[k]) \notin {Key(m) : m \in Targets}}
    IN IF Cardinality(same) = 1 THEN dropped = {}
       ELSE IF strangers # same THEN dropped = strangers
       ELSE Cardinality(dropped) = Cardinality(same) - 1

DedupLiveResources ==
    /\ stage = "read"
    /\ stage' = "unique"
    /\ \E dropped \in SUBSET DOMAIN live :
          /\ \A u \in {live[k].uid : k \in DOMAIN live} :
                LET same == {k \in DOMAIN live : live[k].uid = u}
                IN IsDropped(dropped \cap same, same)
          /\ LET gone == {Key(live[k]) : k \in dropped}
             IN live' = [k \in DOMAIN live \ gone |-> live[k]]
    /\ UNCHANGED <<scenario, cacheVars, matched, resources, tasks, order, successful>>

\* keysToCheck, in order: both keys when the scope is unknown.
FaultyKeysToCheck(m) ==
    LET at(ns) == [gk |-> m.gk, ns |-> ns, name |-> m.name]
    IN IF m.gk \in known /\ Namespaced[m.gk]
       THEN <<at(IF m.ns = "" THEN AppNamespace ELSE m.ns)>>
       ELSE <<at("")>>

KeysToCheck(m) ==
    LET at(ns) == [gk |-> m.gk, ns |-> ns, name |-> m.name]
        inside == at(IF m.ns = "" THEN AppNamespace ELSE m.ns)
    IN IF m.gk \notin known THEN <<inside, at("")>>
       ELSE IF Namespaced[m.gk] THEN <<inside>> ELSE <<at("")>>

\* The key of the live object of m, if any.
MatchOf(m) ==
    LET hits == {i \in DOMAIN KeysToCheck(m) : KeysToCheck(m)[i] \in DOMAIN live}
    IN IF hits = {} THEN None ELSE KeysToCheck(m)[Min(hits)]

Match ==
    /\ stage = "unique"
    /\ stage' = "matched"
    /\ LET taken == {MatchOf(m) : m \in Targets}
           rest == DOMAIN live \ taken
       IN /\ matched' =
               {[target |-> m, live |-> IF MatchOf(m) = None THEN None ELSE live[MatchOf(m)]] :
                   m \in Targets}
               \cup {[target |-> None, live |-> live[k]] : k \in rest}
          /\ live' = [k \in rest |-> live[k]]
    /\ UNCHANGED <<scenario, cacheVars, resources, tasks, order, successful>>

\* groupResources
GroupResources ==
    /\ stage = "matched"
    /\ stage' = "grouped"
    /\ LET keyOf(p) == Key(IF p.live # None THEN p.live ELSE p.target)
       IN resources' = [k \in {keyOf(p) : p \in matched} |->
                          CHOOSE p \in matched : keyOf(p) = k]
    /\ UNCHANGED <<scenario, cacheVars, live, matched, tasks, order, successful>>

-----------------------------------------------------------------------------
(* getSyncTasks                                                             *)

Obj(t) == IF t.target # None THEN t.target ELSE t.live
IsPrune(t) == t.target = None

Task(target, liveObj, phase) ==
    [target |-> target, live |-> liveObj, phase |-> phase,
     wave |-> (IF target # None THEN target ELSE liveObj).wave]

\* containsResource filters, and hooks found alive are no resources to sync.
ResourceTasks ==
    UNION {{Task(resources[k].target, resources[k].live, p) :
              p \in LET o == Obj(resources[k])
                    IN IF k.gk \in opts.selected /\ ~o.hook THEN o.phases ELSE {}} :
           k \in DOMAIN resources}

HookTasks == IF opts.skipHooks THEN {}
             ELSE UNION {{Task(m, None, p) : p \in m.phases} : m \in Hooks}

\* Every target gets a namespace, even if its kind has none.
FaultyWithNamespace(t) == t

WithNamespace(t) ==
    IF ~IsPrune(t) /\ t.target.ns = "" THEN [t EXCEPT !.target.ns = AppNamespace] ELSE t

AppNs == [gk |-> "Namespace", ns |-> "", name |-> AppNamespace, hook |-> FALSE,
          phases |-> {"Sync"}, wave |-> 0, crd |-> ""]

\* autoCreateNamespace: the hooks it means to look at too are never copied
\* into its list.  appendFailedNsTask appends a task without a live object.
AutoCreateNamespace ==
    LET declared == \E k \in DOMAIN resources :
                        LET m == resources[k].target
                        IN m # None /\ IsNamespace(m) /\ m.name = AppNamespace
        existing == {o \in server : IsNamespace(o) /\ o.name = AppNamespace}
    IN IF declared \/ opts.createNs \in {"off", "unmodified"} THEN {}
       ELSE IF opts.createNs = "error" \/ existing = {} THEN {Task(AppNs, None, "PreSync")}
       ELSE {Task(AppNs, o, "PreSync") : o \in existing}

\* sc.liveObj: the first of the resources that fits; sc.resources is a map, so
\* any of them may be the first.
Fits(m) == {k \in DOMAIN resources : k.gk = m.gk /\ k.name = m.name /\ k.ns \in {"", m.ns}}

LiveObj(m, preferred) ==
    LET found == {resources[k].live : k \in Fits(m)}
    IN IF found = {} THEN None
       ELSE IF preferred /\ found # {None} THEN CHOOSE o \in found : o # None
       ELSE IF None \in found THEN None ELSE CHOOSE o \in found : TRUE

WithLive(t, preferred) ==
    IF IsPrune(t) \/ t.live # None THEN t
    ELSE [t EXCEPT !.live = LiveObj(t.target, preferred)]

ListTasks ==
    /\ stage = "grouped"
    /\ stage' = "listed"
    /\ \E preferred \in BOOLEAN :
          tasks' = {WithLive(t, preferred) :
                      t \in {WithNamespace(u) : u \in ResourceTasks \cup HookTasks}
                           \cup AutoCreateNamespace}
    /\ UNCHANGED <<scenario, cacheVars, live, matched, resources, order, successful>>

\* hasCRDOfGroupKind looks at all targets and hooks, selected or not.
HasCrdOf(gk) ==
    \/ \E m \in Hooks : IsCrd(m) /\ m.crd = gk
    \/ \E k \in DOMAIN resources :
          LET m == resources[k].target IN m # None /\ IsCrd(m) /\ m.crd = gk

Allowed(t) ==
    IF ServedBy(server, Obj(t).gk) THEN Obj(t).gk \notin opts.denied
    ELSE HasCrdOf(Obj(t).gk) \/ (opts.skipMissing /\ ~IsPrune(t))

\* The waves of the prune tasks are reversed by a symmetric swap.
PruneWaves == {t.wave : t \in {u \in tasks : IsPrune(u)}}

Mirror(w) == CHOOSE v \in PruneWaves :
                Cardinality({x \in PruneWaves : x > v}) = Cardinality({x \in PruneWaves : x < w})

WithMirror(t) == IF IsPrune(t) THEN [t EXCEPT !.wave = Mirror(t.wave)] ELSE t

IsPruneLast(t) == IsPrune(t) /\ (opts.pruneLast \/ t.live.pruneLast)

SyncPhaseLastWave(mirrored) ==
    1 + Max({0} \cup {t.wave : t \in {u \in mirrored : u.phase = "Sync"}})

SetWaves ==
    /\ stage = "listed"
    /\ stage' = "waved"
    /\ successful' = \A t \in tasks : Allowed(t)
    /\ LET mirrored == {WithMirror(t) : t \in tasks}
           last == SyncPhaseLastWave(mirrored)
       IN tasks' = {IF IsPruneLast(t) THEN [t EXCEPT !.wave = last] ELSE t : t \in mirrored}
    /\ UNCHANGED <<scenario, cacheVars, live, matched, resources, order>>

-----------------------------------------------------------------------------
(* syncTasks.Sort                                                           *)

Lexicographic(a, b) ==
    \E i \in DOMAIN a : a[i] < b[i] /\ \A j \in 1..(i - 1) : a[j] = b[j]

\* kindOrder knows no groups; the last resort is the name.
Less(a, b) == Lexicographic(
    <<syncPhaseOrder[a.phase], a.wave, Rank[Obj(a).gk], NameRank[Obj(a).name]>>,
    <<syncPhaseOrder[b.phase], b.wave, Rank[Obj(b).gk], NameRank[Obj(b).name]>>)

\* sort.Sort is not stable: tied tasks come in either order.
Sorted(set, reversed) ==
    LET any == IF reversed THEN Reverse(SetToSeq(set)) ELSE SetToSeq(set)
        at(t) == CHOOSE i \in DOMAIN any : any[i] = t
    IN SortSeq(any, LAMBDA a, b : Less(a, b) \/ (~Less(b, a) /\ at(a) < at(b)))

\* The two passes: namespaces and what is in them, definitions and resources.
Provides(pass, m) == IF pass = "namespaces" THEN IF IsNamespace(m) THEN m.name ELSE None
                     ELSE IF IsCrd(m) THEN m.crd ELSE None
Needs(pass, m) == IF pass = "namespaces" THEN IF m.ns = "" THEN None ELSE m.ns
                  ELSE m.gk

\* Inserts the task at i, with the phase and wave of the one at index, there.
FaultyMoveUp(acc, i, index) ==
    LET t == [acc.seq[i] EXCEPT !.wave = acc.seq[index].wave, !.phase = acc.seq[index].phase]
    IN [acc EXCEPT !.seq = InsertAt(RemoveAt(acc.seq, i), index, t)]

MoveUp(acc, i, index) ==
    LET t == [acc.seq[i] EXCEPT !.wave = acc.seq[index].wave, !.phase = acc.seq[index].phase]
    IN [seq |-> InsertAt(RemoveAt(acc.seq, i), index, t),
        first |-> [k \in DOMAIN acc.first |->
                     IF acc.first[k] >= index THEN acc.first[k] + 1 ELSE acc.first[k]]]

\* adjustDeps: one pass over the tasks that remembers where each dependency is
\* first referred to, and moves a dependency found later in front of that.
AdjustDeps(seq, pass) ==
    LET step(acc, i) ==
          LET t == acc.seq[i] IN
          IF IsPrune(t) THEN acc
          ELSE LET dep == Provides(pass, t.target)
                   ref == Needs(pass, t.target)
               IN IF dep # None
                  THEN IF dep \in DOMAIN acc.first THEN MoveUp(acc, i, acc.first[dep]) ELSE acc
                  ELSE IF ref # None /\ ref \notin DOMAIN acc.first
                       THEN [acc EXCEPT !.first = ref :> i @@ acc.first]
                       ELSE acc
    IN FoldLeftDomain(step, [seq |-> seq, first |-> <<>>], seq).seq

Sort ==
    /\ stage = "waved"
    /\ stage' = "planned"
    /\ \E reversed \in BOOLEAN :
          order' = AdjustDeps(AdjustDeps(Sorted(tasks, reversed), "namespaces"), "definitions")
    /\ UNCHANGED <<scenario, cacheVars, live, matched, resources, tasks, successful>>

Next ==
    \/ Discover \/ Invalidate
    \/ GetManagedLiveObjs \/ GetManagedLiveObjsFails
    \/ DedupLiveResources \/ Match \/ GroupResources
    \/ ListTasks \/ SetWaves \/ Sort

Spec == Init /\ [][Next]_vars

-----------------------------------------------------------------------------
(* Properties                                                               *)

Pairs == {[target |-> t, live |-> l] : t \in Manifests \cup {None}, l \in Objects \cup {None}}

\* The type invariant: the stages of the plan, the maps keyed by resource keys,
\* and a final order that holds every listed task once.
PlanTypeOK ==
    /\ git \subseteq Manifests /\ server \subseteq Objects /\ opts \in Options
    /\ known \subseteq GroupKinds /\ cached \subseteq server
    /\ stage \in {"start", "read", "unique", "matched", "grouped", "listed", "waved",
                  "planned", "failed"}
    /\ \A k \in DOMAIN live : live[k] \in server
    /\ matched \subseteq Pairs
    /\ \A k \in DOMAIN resources : resources[k] \in matched
    /\ \A t \in tasks : t.phase \in DOMAIN syncPhaseOrder /\ t.wave \in Int
    /\ stage = "planned" =>
          /\ Len(order) = Cardinality(tasks)
          /\ \A t \in tasks : \E i \in DOMAIN order :
                order[i].target = t.target /\ order[i].live = t.live

Planned == stage = "planned"

\* A manifest whose namespace is written as the cluster has it.
Exact(m) == m.ns = TrueKey(m).ns

Twins(o) == {p \in server : p.uid = o.uid}

\* Manifests that the known disagreements of the code with its comments are
\* about: without a namespace, for an object that is served under two groups,
\* and with a namespace that their kind does not have.
Ambiguous(m) ==
    /\ ~Exact(m)
    /\ ~Namespaced[m.gk] \/ \E o \in server : Key(o) = TrueKey(m) /\ Twins(o) # {o}

\* What git declares is never deleted, not under another group either, whatever
\* the cache learns or forgets while the plan is made (Reconcile checks both
\* scopes of an unknown kind for fear of "missing the object and deleting it").
TargetsAreNotPruned ==
    Planned => \A i \in DOMAIN order : IsPrune(order[i]) =>
        \A m \in Targets : ~Ambiguous(m) =>
            \A o \in Twins(order[i].live) : Key(o) # TrueKey(m)

\* Only what the application manages is deleted, and of that no hooks, no
\* children and nothing that skips the sync.  An object read because a manifest
\* of its kind and name is in git, a hook or an ambiguous one, is not covered.
OthersAreNotPruned ==
    Planned => \A i \in DOMAIN order : IsPrune(order[i]) =>
        LET o == order[i].live
        IN /\ ~o.hook /\ o.phases # {} /\ o.gk \in opts.selected
           /\ \/ o.managed /\ ~o.owned
              \/ \E m \in git : /\ IsHook(m) \/ ~Exact(m)
                               /\ m.gk = o.gk /\ m.name = o.name

TaskOf(m, phase) ==
    LET enriched == IF m.ns = "" THEN [m EXCEPT !.ns = AppNamespace] ELSE m
    IN {t \in tasks : t.target = enriched /\ t.phase = phase}

\* Every selected manifest has its task in each of its phases, every managed
\* object that is not in git has its prune task, and a task knows the live
\* object whenever the cluster has it.
NothingLost ==
    Planned =>
        /\ \A m \in Targets \cup Hooks : \A p \in m.phases :
              LET wanted == IF IsHook(m) THEN ~opts.skipHooks ELSE m.gk \in opts.selected
                  there == {o \in Visible : Key(o) = TrueKey(m)}
              IN wanted =>
                  /\ Cardinality(TaskOf(m, p)) = 1
                  /\ Exact(m) /\ there # {} => \A t \in TaskOf(m, p) : t.live \in there
        /\ \A o \in cached :
              /\ o.managed /\ ~o.owned /\ ~o.hook /\ o.phases # {}
              /\ o.gk \in opts.selected \ LateKinds /\ Twins(o) = {o}
              /\ ~ \E m \in Targets : TrueKey(m) = Key(o)
              => \E t \in tasks : IsPrune(t) /\ t.live = o

Slot(t) == <<syncPhaseOrder[t.phase], t.wave>>

\* The phases and waves of the order never go back, after adjustDeps either:
\* Sync takes the phase and wave of the first task as the one to run.
StillSorted ==
    Planned => \A i, j \in DOMAIN order : i < j => ~Lexicographic(Slot(order[j]), Slot(order[i]))

RefersTo(t, d) ==
    /\ ~IsPrune(t) /\ ~IsPrune(d)
    /\ \/ IsCrd(d.target) /\ t.target.gk = d.target.crd
       \/ IsNamespace(d.target) /\ TrueKey(t.target).ns = d.target.name

\* A namespace comes before everything in it and a definition before every
\* resource of its kind, over all phases and waves, although the two passes of
\* adjustDeps move tasks that the other one has placed.
DependenciesFirst ==
    Planned => \A i, j \in DOMAIN order : RefersTo(order[j], order[i]) => i < j

\* The phase and wave of a dependency are the earliest of its own and of those
\* that refer to it: they do not depend on how ties were sorted.  Sync plans
\* anew in every call and finds the results of the last one by the phase.
SlotsAreStable ==
    Planned => \A i \in DOMAIN order :
        LET d == order[i]
            origin == {t \in tasks : t.target = d.target /\ t.live = d.live}
            before == {Slot(t) : t \in origin \cup
                         {u \in tasks : ~IsPrune(u) /\ ~IsNamespace(u.target) /\
                            \/ RefersTo(u, d)
                            \/ IsNamespace(d.target) /\ u.target.ns = d.target.name}}
        IN ~IsPrune(d) /\ (IsNamespace(d.target) \/ IsCrd(d.target)) =>
              /\ Slot(d) \in before
              /\ \A s \in before : ~Lexicographic(s, Slot(d))

\* Objects are deleted in the reverse order of their waves.
PrunesRunBackwards ==
    Planned => \A t, u \in tasks :
        /\ IsPrune(t) /\ ~IsPruneLast(t) /\ IsPrune(u) /\ ~IsPruneLast(u)
        /\ t.live.wave < u.live.wave
        => t.wave > u.wave

\* What is pruned last is deleted in a wave after everything else of the phase.
PruneLastIsLast ==
    Planned => \A i, j \in DOMAIN order :
        /\ IsPruneLast(order[i]) /\ ~IsPruneLast(order[j]) /\ order[j].phase = "Sync"
        => order[j].wave < order[i].wave

\* The tasks are the right ones: nothing declared is deleted, nothing foreign
\* either, and nothing is forgotten (Reconcile, getSyncTasks).
PlanIsFaithful == TargetsAreNotPruned /\ OthersAreNotPruned /\ NothingLost

\* The tasks are in the right order (SetWaves and syncTasks.Sort).
OrderIsSound ==
    /\ StillSorted /\ DependenciesFirst /\ SlotsAreStable
    /\ PrunesRunBackwards /\ PruneLastIsLast
=============================================================================
