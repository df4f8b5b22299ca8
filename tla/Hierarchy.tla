----------------------------- MODULE Hierarchy -----------------------------
(***************************************************************************)
(* Owners and children in the cluster cache: references.go, resource.go    *)
(* and the functions of cluster.go that keep and read owner references.    *)
(*                                                                         *)
(* The resources of one namespace are watched by one goroutine per kind.   *)
(* Their owners are declared, or inferred: a StatefulSet owns the claims   *)
(* its templates name, a Service the Endpoints of its name.  The cache     *)
(* keeps both in OwnerRefs, with every event, while the kinds run ahead of *)
(* each other; IterateHierarchyV2 walks over what has been kept so far.    *)
(***************************************************************************)
EXTENDS Integers, Sequences, FiniteSets

CONSTANTS
    Keys,           \* resource keys of a namespace, each of a kind of its own
    StatefulSets,   \* keys with a volumeClaimTemplates function
    Claims,         \* keys of kind PersistentVolumeClaim (mightHaveInferredOwner)
    Named,          \* [keys -> Keys]: children that name their owner without its UID
    MayOwn,         \* <<owner, child>> that metadata.ownerReferences may declare
    Ignored,        \* keys whose modifications are skipped (Endpoints)
    MaxWrites,      \* bound on the changes in the API server
    MaxLives,       \* bound on the incarnations of a key
    Refused,        \* keys at which the action of a walk may stop
    MaxRoots,       \* bound on the keys a walk is started with
    None

\* A UID is a key and an incarnation; NoUid is the empty string.
NoUid == <<>>
Uids == Keys \X (1..MaxLives)

Refs == [key : Keys, uid : Uids \cup {NoUid}]

Object == [uid : Uids, version : 1..MaxWrites, owners : SUBSET Refs, claims : SUBSET Claims]

Resource == [uid : Uids, version : 1..MaxWrites, claims : SUBSET Claims,
             declared : SUBSET Refs, refs : SUBSET Refs]

\* What the constants have to be.  A kind has one of the special cases.
HierarchyAssumption ==
    /\ StatefulSets \cup Claims \cup DOMAIN Named \cup Ignored \subseteq Keys
    /\ \A k \in DOMAIN Named : Named[k] \in Keys
    /\ MayOwn \subseteq Keys \X Keys /\ Refused \subseteq Keys
    /\ StatefulSets \cap Claims = {} /\ (StatefulSets \cup Claims) \cap DOMAIN Named = {}
    /\ MaxWrites \in Nat /\ MaxLives \in Nat \ {0} /\ MaxRoots \in Nat
    /\ None \notin Object \cup Resource

VARIABLES
    server,     \* the objects: [uid, version, owners, claims], or None
    lives,      \* incarnations so far
    writes,     \* changes so far
    events,     \* what each key's watch still has to deliver
    resources,  \* the cached resources, or None (declared is history)
    walk,       \* the walk under c.lock: roots left, accepted keys, stack
    visited,    \* its visited map
    called      \* how often it called the action with a key

vars == <<server, lives, writes, events, resources, walk, visited, called>>

NoWalk == [on |-> FALSE, first |-> {}, roots |-> {}, accept |-> {}, stack |-> <<>>]

-----------------------------------------------------------------------------
(* The API server                                                           *)

unlessServer == <<resources, walk, visited, called>>

Live(k) == server[k] # None

\* The references an object may declare: to objects that exist when it is
\* written.
Declarable(k) == {[key |-> o, uid |-> server[o].uid] :
                     o \in {p \in Keys : Live(p) /\ <<p, k>> \in MayOwn}}

Templates(k) == IF k \in StatefulSets THEN SUBSET Claims ELSE {{}}

Push(k, type, obj) == events' = [events EXCEPT ![k] = Append(@, [type |-> type, obj |-> obj])]

Create(k) ==
    /\ ~walk.on
    /\ ~Live(k) /\ lives[k] < MaxLives /\ writes < MaxWrites
    /\ lives' = [lives EXCEPT ![k] = @ + 1]
    /\ writes' = writes + 1
    /\ \E owners \in SUBSET Declarable(k), claims \in Templates(k) :
          LET obj == [uid |-> <<k, lives'[k]>>, version |-> writes',
                      owners |-> owners, claims |-> claims]
          IN server' = [server EXCEPT ![k] = obj] /\ Push(k, "Added", obj)
    /\ UNCHANGED unlessServer

\* The templates of a StatefulSet are immutable.
Modify(k) ==
    /\ ~walk.on
    /\ Live(k) /\ writes < MaxWrites
    /\ writes' = writes + 1
    /\ \E owners \in SUBSET Declarable(k) :
          LET obj == [server[k] EXCEPT !.version = writes', !.owners = owners]
          IN server' = [server EXCEPT ![k] = obj] /\ Push(k, "Modified", obj)
    /\ UNCHANGED <<lives, unlessServer>>

Delete(k) ==
    /\ ~walk.on
    /\ Live(k) /\ writes < MaxWrites
    /\ writes' = writes + 1
    /\ server' = [server EXCEPT ![k] = None]
    /\ Push(k, "Deleted", server[k])
    /\ UNCHANGED <<lives, unlessServer>>

-----------------------------------------------------------------------------
(* The cached resources                                                     *)

\* newResource, resolveResourceReferences: an object that declares no owner
\* may have one by its name or its annotations.
NewResource(k, obj) ==
    [uid |-> obj.uid, version |-> obj.version, claims |-> obj.claims,
     declared |-> obj.owners,
     refs |-> IF k \in DOMAIN Named /\ obj.owners = {}
              THEN {[key |-> Named[k], uid |-> NoUid]} ELSE obj.owners]

ToOwnerRef(k, res) == [key |-> k, uid |-> res.uid]

\* setOwnerRef compares UIDs.
SetOwnerRef(res, ref, add) ==
    LET has == \E r \in res.refs : r.uid = ref.uid IN
    IF add = has THEN res
    ELSE IF add THEN [res EXCEPT !.refs = @ \cup {ref}]
    ELSE [res EXCEPT !.refs = {r \in @ : r.uid # ref.uid}]

Cached(k) == resources[k] # None

\* The references of a claim to the cached StatefulSets are what their templates
\* say: setOwnerRef for each of them, in any order, as no two have one UID.
WithInferred(k, res) ==
    LET inferring == IF k \in Claims THEN {p \in StatefulSets : Cached(p)} ELSE {}
        owners == {p \in inferring : k \in resources[p].claims}
        added == {p \in owners : \A r \in res.refs : r.uid # resources[p].uid}
    IN [res EXCEPT !.refs = {r \in @ : \A p \in inferring \ owners : r.uid # resources[p].uid}
                              \cup {ToOwnerRef(p, resources[p]) : p \in added}]

\* setNode: references of the other resources to this one, and of this one to
\* the others.
FaultySetNode(k, new) == [resources EXCEPT ![k] = WithInferred(k, new)]
SetNode(k, new) ==
    [c \in Keys |->
        IF c = k THEN WithInferred(k, new)
        ELSE IF k \in StatefulSets /\ c \in Claims /\ Cached(c)
             THEN SetOwnerRef(resources[c], ToOwnerRef(k, new), c \in new.claims)
             ELSE resources[c]]

\* onNodeRemoved
NodeRemoved(k) ==
    [c \in Keys |->
        IF c = k THEN None
        ELSE IF k \in StatefulSets /\ c \in Claims \cap resources[k].claims /\ Cached(c)
             THEN SetOwnerRef(resources[c], ToOwnerRef(k, resources[k]), FALSE)
             ELSE resources[c]]

unlessCache == <<server, lives, writes, walk, visited, called>>

\* recordEvent and processEvent
Process(k) ==
    /\ ~walk.on
    /\ events[k] # <<>>
    /\ events' = [events EXCEPT ![k] = Tail(@)]
    /\ LET e == Head(events[k]) IN
       resources' =
          CASE e.type = "Deleted" -> IF Cached(k) THEN NodeRemoved(k) ELSE resources
            [] e.type = "Modified" /\ k \in Ignored -> resources
            [] OTHER -> SetNode(k, NewResource(k, e.obj))
    /\ UNCHANGED unlessCache

\* replaceResourceCache after a list of the kind; the watch goes on from there.
Relist(k) ==
    /\ ~walk.on
    /\ events[k] # <<>>
    /\ events' = [events EXCEPT ![k] = <<>>]
    /\ resources' =
          IF ~Live(k) THEN IF Cached(k) THEN NodeRemoved(k) ELSE resources
          ELSE IF Cached(k) /\ resources[k].version = server[k].version THEN resources
          ELSE SetNode(k, NewResource(k, server[k]))
    /\ UNCHANGED unlessCache

-----------------------------------------------------------------------------
(* IterateHierarchyV2                                                       *)

\* buildGraph completes references without UID, in the cached resources.
Backfilled ==
    LET complete(r) == IF r.uid = NoUid /\ Cached(r.key)
                       THEN [r EXCEPT !.uid = resources[r.key].uid] ELSE r
    IN [k \in Keys |-> IF Cached(k)
                       THEN [resources[k] EXCEPT !.refs = {complete(r) : r \in @}]
                       ELSE None]

\* graph[p]
Children(res, p) ==
    IF res[p] = None THEN {}
    ELSE {c \in Keys : res[c] # None /\ \E r \in res[c].refs : r.uid = res[p].uid}

unlessWalk == <<server, lives, writes, events>>

WalkStart ==
    /\ ~walk.on
    /\ \E first \in {ks \in SUBSET {k \in Keys : Cached(k)} : Cardinality(ks) \in 1..MaxRoots},
          accept \in {Keys} \cup {Keys \ {k} : k \in Refused} :
          walk' = [on |-> TRUE, first |-> first, roots |-> first,
                   accept |-> accept, stack |-> <<>>]
    /\ resources' = Backfilled
    /\ visited' = [k \in Keys |-> 0]
    /\ called' = [k \in Keys |-> 0]
    /\ UNCHANGED unlessWalk

Call(k) == called' = [called EXCEPT ![k] = @ + 1]

Enter(k) ==
    /\ visited' = [visited EXCEPT ![k] = 1]
    /\ walk' = [walk EXCEPT !.roots = @ \ {k},
                            !.stack = Append(@, [key |-> k, todo |-> Children(resources, k)])]

Leave(k) == walk' = [walk EXCEPT !.roots = @ \ {k}]

\* The loop over the given keys.
WalkRoot(k) ==
    /\ walk.on /\ walk.stack = <<>>
    /\ k \in walk.roots
    /\ \/ visited[k] = 2 /\ Leave(k) /\ UNCHANGED <<visited, called>>
       \/ visited[k] # 2 /\ Call(k) /\ k \notin walk.accept /\ Leave(k) /\ UNCHANGED visited
       \/ visited[k] # 2 /\ Call(k) /\ k \in walk.accept /\ Enter(k)
    /\ UNCHANGED <<resources, unlessWalk>>

Top == walk.stack[Len(walk.stack)]
Popped == SubSeq(walk.stack, 1, Len(walk.stack) - 1)

\* iterateChildrenV2, and the same loop for the given keys.  A child that is
\* being visited is a circular dependency: it is logged.
FaultyWalkChild(c) ==
    /\ walk.on /\ walk.stack # <<>>
    /\ c \in Top.todo
    /\ LET rest == Append(Popped, [Top EXCEPT !.todo = @ \ {c}]) IN
       IF visited[c] = 0 /\ c \notin walk.first /\ c \in walk.accept
       THEN /\ Call(c)
            /\ visited' = [visited EXCEPT ![c] = 1]
            /\ walk' = [walk EXCEPT
                   !.stack = Append(rest, [key |-> c, todo |-> Children(resources, c)])]
       ELSE walk' = [walk EXCEPT !.stack = rest] /\ UNCHANGED <<visited, called>>
    /\ UNCHANGED <<resources, unlessWalk>>
WalkChild(c) ==
    /\ walk.on /\ walk.stack # <<>>
    /\ c \in Top.todo
    /\ LET rest == Append(Popped, [Top EXCEPT !.todo = @ \ {c}]) IN
       \/ /\ visited[c] # 0
          /\ walk' = [walk EXCEPT !.stack = rest]
          /\ UNCHANGED <<visited, called>>
       \/ /\ visited[c] = 0 /\ Call(c) /\ c \notin walk.accept
          /\ walk' = [walk EXCEPT !.stack = rest]
          /\ UNCHANGED visited
       \/ /\ visited[c] = 0 /\ Call(c) /\ c \in walk.accept
          /\ visited' = [visited EXCEPT ![c] = 1]
          /\ walk' = [walk EXCEPT
                 !.stack = Append(rest, [key |-> c, todo |-> Children(resources, c)])]
    /\ UNCHANGED <<resources, unlessWalk>>

WalkReturn ==
    /\ walk.on /\ walk.stack # <<>>
    /\ Top.todo = {}
    /\ visited' = [visited EXCEPT ![Top.key] = 2]
    /\ walk' = [walk EXCEPT !.stack = Popped]
    /\ UNCHANGED <<called, resources, unlessWalk>>

Done == walk.on /\ walk.roots = {} /\ walk.stack = <<>>

WalkEnd ==
    /\ Done
    /\ walk' = NoWalk
    /\ visited' = [k \in Keys |-> 0]
    /\ called' = [k \in Keys |-> 0]
    /\ UNCHANGED <<resources, unlessWalk>>

-----------------------------------------------------------------------------
Init ==
    /\ server = [k \in Keys |-> None]
    /\ lives = [k \in Keys |-> 0]
    /\ writes = 0
    /\ events = [k \in Keys |-> <<>>]
    /\ resources = [k \in Keys |-> None]
    /\ walk = NoWalk
    /\ visited = [k \in Keys |-> 0]
    /\ called = [k \in Keys |-> 0]

\* Nobody writes any more.
Idle == writes = MaxWrites /\ ~walk.on /\ UNCHANGED vars

Next ==
    \/ \E k \in Keys : \/ Create(k) \/ Modify(k) \/ Delete(k)
                       \/ Process(k) \/ Relist(k)
                       \/ WalkRoot(k) \/ WalkChild(k)
    \/ WalkStart \/ WalkReturn \/ WalkEnd
    \/ Idle

Spec == Init /\ [][Next]_vars

-----------------------------------------------------------------------------
(* Correctness                                                              *)

\* Every variable holds a value the code can produce.
HierarchyTypeOK ==
    /\ \A k \in Keys : Cached(k) => resources[k] \in Resource /\ resources[k].uid[1] = k
    /\ visited \in [Keys -> 0..2]
    /\ \A i \in DOMAIN walk.stack : visited[walk.stack[i].key] = 1

\* Who owns whom, by the objects in the server.  Between StatefulSets and
\* claims the inference overrides what is declared.
Owns(p, c) ==
    /\ Live(p) /\ Live(c)
    /\ IF p \in StatefulSets /\ c \in Claims THEN c \in server[p].claims
       ELSE \/ \E r \in server[c].owners : r.uid = server[p].uid
            \/ c \in DOMAIN Named /\ server[c].owners = {} /\ Named[c] = p

Known(uid) == \E k \in Keys : Live(k) /\ server[k].uid = uid

\* When all events are processed the graph of the cache is that of the server,
\* in whatever order owners and children arrived.  Two exceptions: a child
\* that names its owner and was given the UID of one that is gone, and one whose
\* change of owners came with an event that is skipped.
GraphIsTrue ==
    (~walk.on /\ \A k \in Keys : events[k] = <<>>) =>
        \A c \in {k \in Keys : Cached(k)} :
            /\ c \in DOMAIN Named => \A r \in Backfilled[c].refs : r.uid = NoUid \/ Known(r.uid)
            /\ c \in Ignored => resources[c].declared = server[c].owners
            => {p \in Keys : c \in Children(Backfilled, p)} = {p \in Keys : Owns(p, c)}

\* The action sees a resource it accepts once, also in a cycle of owners and
\* when it is given and is a child of what is given.
CalledOnce == \A k \in walk.accept : called[k] <= 1

\* What the walk has to reach: no more than what every set has that has the
\* given resources and, of each one that the action accepts, the children.
Reached ==
    LET children == [p \in walk.accept |-> Children(resources, p)]
        closed == {ks \in SUBSET Keys :
                     walk.first \subseteq ks /\ \A p \in ks \cap walk.accept : children[p] \subseteq ks}
    IN {k \in Keys : \A ks \in closed : k \in ks}

\* The walk finds every resource it should, and no other, whatever the order
\* of Go's maps.
WalkIsComplete == Done => {k \in Keys : called[k] > 0} = Reached

\* What the action is called with, once each (IterateHierarchyV2).
WalkIsExact == CalledOnce /\ WalkIsComplete
=============================================================================
