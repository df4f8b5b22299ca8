---------------------------- MODULE ClusterCache ----------------------------
(***************************************************************************)
(* The cluster cache of gitops-engine: pkg/cache/cluster.go.               *)
(*                                                                         *)
(* EnsureSynced() lists every served API and starts one watch goroutine    *)
(* per API and namespace; the goroutines apply the events they receive,    *)
(* directly or through the batch processor, list again from time to time,  *)
(* and react to CRDs that come and go.  Invalidate() cancels them all.     *)
(* c.lock makes the handlers atomic, except that a full synchronization    *)
(* holds it over many API calls, and a batch of events over all its events; *)
(* what a goroutine has received before it gets the lock is its own state. *)
(***************************************************************************)
EXTENDS Integers, Sequences, FiniteSets, FiniteSetsExt, SequencesExt

CONSTANTS
    Gks,            \* API kinds
    Keys,           \* resource keys
    Gk,             \* [Keys -> Gks]
    Ns,             \* [Keys -> namespaces]
    AllNs,          \* the namespace of a watch of the whole cluster
    Scopes,         \* [Gks -> sets of namespaces], what processApi calls back with
    Crd,            \* [Gks -> Keys \cup {NoKey}], the CRD that defines a kind
    Forbidden,      \* <<kind, namespace>> the account may not list
    Ignored,        \* keys whose modifications are skipped (Endpoints)
    Batch,          \* batchEventsProcessing
    WatchResync,    \* whether watchResyncTimeout is positive
    CanInvalidate,
    Mutations,      \* the keys that others create and modify
    Deletions,      \* ... and delete
    MaxWrites, MaxSyncs, MaxFaults,
    NoKey

\* The <<kind, namespace>> that can be listed and watched.
Watchable == UNION {{gk} \X Scopes[gk] : gk \in Gks}

ASSUME CacheAssumption ==
    /\ IsFiniteSet(Watchable)
    /\ Gk \in [Keys -> Gks]
    /\ Crd \in [Gks -> Keys \cup {NoKey}]
    /\ NoKey \notin Keys
    /\ DOMAIN Ns = Keys /\ DOMAIN Scopes = Gks /\ Forbidden \subseteq Watchable
    /\ Ignored \subseteq Keys /\ Mutations \subseteq Keys /\ Deletions \subseteq Keys
    /\ {Batch, WatchResync, CanInvalidate} \subseteq BOOLEAN
    /\ MaxWrites \in Nat /\ MaxSyncs \in Nat /\ MaxFaults \in Nat

VARIABLES
    log,        \* the API server's history; an index is a resourceVersion
    locked,     \* sync() is running, with c.lock held
    status,     \* syncTime and syncError as synced() sees them
    apis,       \* c.apisMeta: the generation of each kind's context, 0: no entry
    apisNil,    \* c.apisMeta is nil
    gen,        \* contexts made so far
    cancelled,  \* <<kind, generation>> of the contexts that are cancelled
    resources,  \* c.resources: the version of each key, 0: not there
    index,      \* c.nsIndex, likewise
    toList,     \* what the running sync() still has to list
    watchers,   \* the goroutines in watchEvents
    channel,    \* c.eventMetaCh, 0: nil
    closed,     \* the channels that are closed
    procs,      \* the goroutines in processEvents
    syncs, faults

vars == <<log, locked, status, apis, apisNil, gen, cancelled, resources, index,
          toList, watchers, channel, closed, procs, syncs, faults>>

-----------------------------------------------------------------------------
(* The API server                                                           *)

EventsOf(k, n) == {i \in 1..n : log[i].key = k}
VersionAt(k, n) ==
    LET es == EventsOf(k, n) IN
    IF es = {} \/ log[Max(es)].type = "Deleted" THEN 0 ELSE Max(es)
Server(k) == VersionAt(k, Len(log))
Served(gk) == Crd[gk] = NoKey \/ Server(Crd[gk]) # 0

InScope(k, gk, ns) == Gk[k] = gk /\ ns \in {AllNs, Ns[k]}

unlessLog == <<locked, status, apis, apisNil, gen, cancelled, resources, index,
               toList, watchers, channel, closed, procs, syncs, faults>>

Event(k, type) == /\ Len(log) < MaxWrites
                  /\ log' = Append(log, [key |-> k, type |-> type])
                  /\ UNCHANGED unlessLog

Write(k) == /\ Served(Gk[k])
            /\ Event(k, IF Server(k) = 0 THEN "Added" ELSE "Modified")

\* A CRD goes away after its resources.
Delete(k) == /\ Server(k) # 0
             /\ \A r \in Keys : Crd[Gk[r]] = k => Server(r) = 0
             /\ Event(k, "Deleted")

\* c.lock is free: neither a synchronization nor a batch of events holds it.
Free == ~locked /\ \A p \in DOMAIN procs : procs[p].st # "flush"

-----------------------------------------------------------------------------
(* The two maps                                                             *)

Store == [res |-> resources, idx |-> index]
SetStore(s) == resources' = s.res /\ index' = s.idx

\* setNode
Set(s, k, v) == [res |-> [s.res EXCEPT ![k] = v], idx |-> [s.idx EXCEPT ![k] = v]]

\* onNodeRemoved does nothing for a key that is not in c.resources.
Removed(s, k) == IF s.res[k] = 0 THEN s ELSE Set(s, k, 0)

\* replaceResourceCache, for each of some <<kind, namespace>>, with what version n
\* of the server lists, or with nothing (n = 0).
FaultyReplaced(s, scopes, n) ==
    LET v(k) == VersionAt(k, n)
        fresh(k) == (\E c \in scopes : InScope(k, c[1], c[2])) /\ v(k) # 0 /\ v(k) # s.res[k]
    IN [res |-> [k \in Keys |-> IF fresh(k) THEN v(k) ELSE s.res[k]],
        idx |-> [k \in Keys |-> IF fresh(k) THEN v(k) ELSE s.idx[k]]]
Replaced(s, scopes, n) ==
    LET v(k) == VersionAt(k, n)
        changed(k) == (\E c \in scopes : InScope(k, c[1], c[2])) /\ v(k) # s.res[k]
    IN [res |-> [k \in Keys |-> IF changed(k) THEN v(k) ELSE s.res[k]],
        idx |-> [k \in Keys |-> IF changed(k) THEN v(k) ELSE s.idx[k]]]

\* processEvent
FaultyProcessed(s, i) ==
    IF log[i].type = "Deleted"
    THEN [s EXCEPT !.res = [s.res EXCEPT ![log[i].key] = 0]]
    ELSE Set(s, log[i].key, i)
Processed(s, i) == IF log[i].type = "Deleted" THEN Removed(s, log[i].key)
                                              ELSE Set(s, log[i].key, i)

\* What sync() lists into the emptied c.resources.
Listed(s, gk, ns) ==
    LET present(k) == InScope(k, gk, ns) /\ Server(k) # 0
    IN [res |-> [k \in Keys |-> IF present(k) THEN Server(k) ELSE s.res[k]],
        idx |-> [k \in Keys |-> IF present(k) THEN Server(k) ELSE s.idx[k]]]

-----------------------------------------------------------------------------
(* EnsureSynced() and Invalidate()                                          *)

FaultyContexts == {<<gk, apis[gk]>> : gk \in Gks}
Contexts == {<<gk, apis[gk]>> : gk \in {g \in Gks : apis[g] # 0}}

Watcher(gk, ns, g, st, rv) ==
    [gk |-> gk, ns |-> ns, gen |-> g, st |-> st, rv |-> rv, held |-> 0, chan |-> 0,
     retry |-> "open"]

\* invalidateEventMeta
CloseChannel == closed' = IF Batch /\ channel # 0 THEN closed \cup {channel} ELSE closed

\* A timeout makes synced() false.
Expire ==
    /\ status # "unsynced"
    /\ syncs < MaxSyncs
    /\ status' = "unsynced"
    /\ UNCHANGED <<log, locked, apis, apisNil, gen, cancelled, resources, index,
                   toList, watchers, channel, closed, procs, syncs, faults>>

\* sync(), up to the listing of the APIs; it may fail right away.
SyncStart ==
    /\ Free
    /\ status = "unsynced"
    /\ syncs < MaxSyncs
    /\ syncs' = syncs + 1
    /\ cancelled' = cancelled \cup Contexts
    /\ CloseChannel
    /\ channel' = IF Batch THEN syncs' ELSE 0
    /\ resources' = [k \in Keys |-> 0]
    /\ apisNil' = FALSE
    /\ \/ /\ gen' = gen + 1
          /\ apis' = [gk \in Gks |-> IF Served(gk) THEN gen' ELSE 0]
          /\ toList' = UNION {{gk} \X Scopes[gk] : gk \in {g \in Gks : Served(g)}}
          /\ procs' = IF Batch THEN Append(procs, [st |-> "start", chan |-> 0, buf |-> <<>>])
                               ELSE procs
          /\ locked' = TRUE
          /\ UNCHANGED <<status, faults>>
       \/ /\ faults < MaxFaults
          /\ faults' = faults + 1
          /\ apis' = [gk \in Gks |-> 0]
          /\ status' = "error"
          /\ UNCHANGED <<gen, toList, procs, locked>>
    /\ UNCHANGED <<log, index, watchers>>

\* One API in one namespace: list it and start its watch, or forget the API.
SyncList(gk, ns) ==
    /\ locked
    /\ <<gk, ns>> \in toList
    /\ toList' = toList \ {<<gk, ns>>}
    /\ \/ /\ <<gk, ns>> \notin Forbidden
          /\ Served(gk)
          /\ SetStore(Listed(Store, gk, ns))
          /\ watchers' = Append(watchers, Watcher(gk, ns, gen, "watch", Len(log)))
          /\ UNCHANGED apis
       \/ /\ <<gk, ns>> \in Forbidden
          /\ apis' = [apis EXCEPT ![gk] = 0]
          /\ UNCHANGED <<resources, index, watchers>>
    /\ UNCHANGED <<log, locked, status, apisNil, gen, cancelled, channel, closed,
                   procs, syncs, faults>>

SyncEnd(result) ==
    /\ locked
    /\ locked' = FALSE
    /\ toList' = {}
    /\ status' = result
    /\ UNCHANGED <<log, apisNil, gen, cancelled, resources, index, watchers,
                   channel, closed, procs, syncs>>

SyncSucceeds == toList = {} /\ SyncEnd("synced") /\ UNCHANGED <<apis, faults>>

\* A list fails: the watches that were started go on, and RunAllAsync may not
\* have come to some APIs at all.
SyncFails ==
    /\ toList # {}
    /\ \E skipped \in SUBSET {gk \in Gks : {gk} \X Scopes[gk] \subseteq toList} :
          apis' = [gk \in Gks |-> IF gk \in skipped THEN 0 ELSE apis[gk]]
    /\ \/ \E p \in toList : ~Served(p[1]) /\ UNCHANGED faults
       \/ faults < MaxFaults /\ faults' = faults + 1
    /\ SyncEnd("error")

Invalidate ==
    /\ CanInvalidate
    /\ syncs < MaxSyncs
    /\ Free
    /\ status' = "unsynced"
    /\ cancelled' = cancelled \cup Contexts
    /\ CloseChannel
    /\ channel' = 0
    /\ apis' = [gk \in Gks |-> 0]
    /\ apisNil' = TRUE
    /\ UNCHANGED <<log, locked, gen, resources, index, toList, watchers, procs,
                   syncs, faults>>

-----------------------------------------------------------------------------
(* watchEvents                                                              *)

Cancelled(w) == <<watchers[w].gk, watchers[w].gen>> \in cancelled

unlessWatchers == <<log, locked, status, apis, apisNil, gen, cancelled, resources,
                    index, toList, channel, closed, procs, syncs>>

\* Its context is done.
Stop(w) ==
    /\ watchers[w].st \in {"list", "watch"}
    /\ Cancelled(w)
    /\ watchers' = [watchers EXCEPT ![w].st = "done"]
    /\ UNCHANGED <<faults, unlessWatchers>>

\* loadInitialState: the list, without the lock.  If the kind is not served
\* or the context is cancelled the list fails, and is tried again later.
List(w) ==
    /\ watchers[w].st = "list"
    /\ ~Cancelled(w)
    /\ Served(watchers[w].gk)
    /\ watchers' = [watchers EXCEPT ![w].st = "loaded", ![w].rv = Len(log)]
    /\ UNCHANGED <<faults, unlessWatchers>>

\* ... and its replacement of the cached resources, with the lock.
Replace(w) ==
    LET me == watchers[w] IN
    /\ me.st = "loaded"
    /\ Free
    /\ SetStore(Replaced(Store, {<<me.gk, me.ns>>}, me.rv))
    /\ watchers' = [watchers EXCEPT ![w].st = "watch"]
    /\ UNCHANGED <<log, locked, status, apis, apisNil, gen, cancelled, toList,
                   channel, closed, procs, syncs, faults>>

\* The watch timed out (watchResyncTimeout), or was closed.
Relist(w) ==
    /\ watchers[w].st = "watch"
    /\ \/ WatchResync /\ UNCHANGED faults
       \/ faults < MaxFaults /\ faults' = faults + 1
    /\ watchers' = [watchers EXCEPT ![w].st = "list"]
    /\ UNCHANGED unlessWatchers

News(w) == {i \in (watchers[w].rv + 1)..Len(log) :
               InScope(log[i].key, watchers[w].gk, watchers[w].ns)}

Receive(w) ==
    /\ watchers[w].st = "watch"
    /\ watchers[w].retry = "open"
    /\ News(w) # {}
    /\ watchers' = [watchers EXCEPT ![w].st = "event", ![w].rv = Min(News(w)),
                                    ![w].held = Min(News(w))]
    /\ UNCHANGED <<faults, unlessWatchers>>

\* The state after an event has been recorded.
Handled(i) == IF \E gk \in Gks : Crd[gk] = log[i].key THEN "crd" ELSE "watch"

\* recordEvent
Record(w) ==
    LET i == watchers[w].held
        skip == log[i].type = "Modified" /\ log[i].key \in Ignored
    IN
    /\ watchers[w].st = "event"
    /\ \/ /\ skip
          /\ watchers' = [watchers EXCEPT ![w].st = Handled(i)]
          /\ UNCHANGED <<resources, index>>
       \/ /\ ~skip /\ ~Batch
          /\ Free
          /\ SetStore(Processed(Store, i))
          /\ watchers' = [watchers EXCEPT ![w].st = Handled(i)]
       \/ /\ ~skip /\ Batch     \* reads c.eventMetaCh without the lock
          /\ watchers' = [watchers EXCEPT ![w].st = "sending", ![w].chan = channel]
          /\ UNCHANGED <<resources, index>>
    /\ UNCHANGED <<log, locked, status, apis, apisNil, gen, cancelled, toList,
                   channel, closed, procs, syncs, faults>>

Send(w, p) ==
    /\ watchers[w].st = "sending"
    /\ procs[p].st = "run"
    /\ procs[p].chan = watchers[w].chan /\ procs[p].chan \notin closed \cup {0}
    /\ procs' = [procs EXCEPT ![p].buf = Append(procs[p].buf, watchers[w].held)]
    /\ watchers' = [watchers EXCEPT ![w].st = Handled(watchers[w].held)]
    /\ UNCHANGED <<log, locked, status, apis, apisNil, gen, cancelled, resources,
                   index, toList, channel, closed, syncs, faults>>

\* A send on a closed channel panics; watchEvents recovers and starts over.
SendOnClosed(w) ==
    /\ watchers[w].st = "sending"
    /\ watchers[w].chan \in closed
    /\ watchers' = [watchers EXCEPT ![w].st = "list"]
    /\ UNCHANGED <<faults, unlessWatchers>>

\* The RetryWatcher, a goroutine of its own, starts the watch again and the
\* kind is not found.
NotFound(w) ==
    /\ watchers[w].st \in {"watch", "event", "sending", "crd"}
    /\ watchers[w].retry = "open"
    /\ ~Cancelled(w)
    /\ ~Served(watchers[w].gk)
    /\ watchers' = [watchers EXCEPT ![w].retry = "gone"]
    /\ UNCHANGED <<faults, unlessWatchers>>

\* stopWatching, called by the RetryWatcher: whatever context the kind has now
\* is cancelled, and the resources of this namespace are removed.
FaultyStopWatching(w) ==
    LET gk == watchers[w].gk IN
    /\ watchers[w].retry = "gone"
    /\ Free
    /\ cancelled' = cancelled \cup ({<<gk, apis[gk]>>} \cap Contexts)
    /\ apis' = [apis EXCEPT ![gk] = 0]
    /\ watchers' = [watchers EXCEPT ![w].retry = IF apis[gk] = 0 THEN "open" ELSE "closed"]
    /\ UNCHANGED <<log, locked, status, apisNil, gen, resources, index, toList,
                   channel, closed, procs, syncs, faults>>
StopWatching(w) ==
    LET gk == watchers[w].gk IN
    /\ watchers[w].retry = "gone"
    /\ Free
    /\ IF apis[gk] = 0 THEN UNCHANGED <<cancelled, apis, resources, index>>
       ELSE /\ cancelled' = cancelled \cup {<<gk, apis[gk]>>}
            /\ apis' = [apis EXCEPT ![gk] = 0]
            /\ SetStore(Replaced(Store, {<<gk, watchers[w].ns>>}, 0))
    /\ watchers' = [watchers EXCEPT ![w].retry = IF apis[gk] = 0 THEN "open" ELSE "closed"]
    /\ UNCHANGED <<log, locked, status, apisNil, gen, toList, channel, closed,
                   procs, syncs, faults>>

-----------------------------------------------------------------------------
(* CRD events                                                               *)

FaultyMissing == {gk \in Gks : Served(gk)}
Missing == {gk \in Gks : Served(gk) /\ apis[gk] = 0}
Granted == (UNION {{gk} \X Scopes[gk] : gk \in Missing}) \ Forbidden

\* The watcher of CRDs has recorded an event.  Nothing is retried when the
\* kinds cannot be listed; a write to the nil map panics.
CrdEvent(w) ==
    LET after(st) == [watchers EXCEPT ![w].st = st]
        deleted == log[watchers[w].held].type = "Deleted"
        unchanged == <<resources, index, apis, gen>>
    IN
    /\ watchers[w].st = "crd"
    /\ Free
    /\ \/ /\ deleted \/ Missing = {}
          /\ watchers' = after("watch")
          /\ UNCHANGED <<faults, unchanged>>
       \/ /\ ~deleted
          /\ faults < MaxFaults
          /\ faults' = faults + 1
          /\ watchers' = after("watch")
          /\ UNCHANGED unchanged
       \/ /\ ~deleted /\ Missing # {} /\ apisNil
          /\ watchers' = after("list")
          /\ UNCHANGED <<faults, unchanged>>
    /\ UNCHANGED <<log, locked, status, apisNil, cancelled, toList, channel, closed,
                   procs, syncs>>

\* startMissingWatches: list the new kinds and watch them.  A kind that is
\* forbidden in some namespace loses its entry; a list that fails is left to
\* the watch goroutine (failed).  When the whole call fails nothing is done: left
\* out is the strict RBAC mode, where a permission check may fail in mid-loop.
StartMissingWatches(w) ==
    LET scopes == SetToSeq(Granted)
        started(failed) == [j \in 1..Len(scopes) |->
            Watcher(scopes[j][1], scopes[j][2], gen',
                    IF scopes[j] \in failed THEN "list" ELSE "watch", Len(log))]
    IN
    /\ watchers[w].st = "crd"
    /\ Free
    /\ log[watchers[w].held].type # "Deleted"
    /\ Missing # {} /\ ~apisNil
    /\ gen' = gen + 1
    /\ apis' = [gk \in Gks |-> IF gk \in Missing \ {p[1] : p \in Forbidden}
                              THEN gen' ELSE apis[gk]]
    /\ \E failed \in SUBSET Granted :
          /\ failed # {} => faults < MaxFaults
          /\ faults' = IF failed = {} THEN faults ELSE faults + 1
          /\ SetStore(Replaced(Store, Granted \ failed, Len(log)))
          /\ watchers' = [watchers EXCEPT ![w].st = "watch"] \o started(failed)
    /\ UNCHANGED <<log, locked, status, apisNil, cancelled, toList, channel, closed,
                   procs, syncs>>

-----------------------------------------------------------------------------
(* processEvents                                                            *)

unlessProcs == <<log, locked, status, apis, apisNil, gen, cancelled, toList,
                 watchers, channel, closed, syncs, faults>>

\* The goroutine reads c.eventMetaCh once, when it first gets the lock.
ProcStart(p) ==
    /\ procs[p].st = "start"
    /\ Free
    /\ procs' = [procs EXCEPT ![p].st = "run", ![p].chan = channel]
    /\ UNCHANGED <<resources, index, unlessProcs>>

\* The channel is closed: what is not processed yet is dropped.
ProcEnd(p) ==
    /\ procs[p].st = "run"
    /\ procs[p].chan \in closed
    /\ procs' = [procs EXCEPT ![p].st = "done", ![p].buf = <<>>]
    /\ UNCHANGED <<resources, index, unlessProcs>>

\* processEventsBatch: one event of the buffer, with the lock held until the last
\* of them is processed.
Flush(p) ==
    /\ procs[p].st = "flush" \/ (procs[p].st = "run" /\ Free)
    /\ procs[p].buf # <<>>
    /\ SetStore(Processed(Store, Head(procs[p].buf)))
    /\ procs' = [procs EXCEPT ![p].st = IF Len(procs[p].buf) = 1 THEN "run" ELSE "flush",
                              ![p].buf = Tail(procs[p].buf)]
    /\ UNCHANGED unlessProcs

-----------------------------------------------------------------------------
Init ==
    /\ log \in {<<>>} \cup {<<[key |-> k, type |-> "Added"]>> : k \in Mutations}
    /\ \A i \in DOMAIN log : Crd[Gk[log[i].key]] = NoKey
    /\ locked = FALSE
    /\ status = "unsynced"
    /\ apis = [gk \in Gks |-> 0]
    /\ apisNil = FALSE
    /\ gen = 0
    /\ cancelled = {}
    /\ resources = [k \in Keys |-> 0]
    /\ index = [k \in Keys |-> 0]
    /\ toList = {}
    /\ watchers = <<>>
    /\ channel = 0
    /\ closed = {}
    /\ procs = <<>>
    /\ syncs = 0
    /\ faults = 0

WatchStep(w) ==
    \/ Stop(w) \/ List(w) \/ Replace(w) \/ Receive(w) \/ Record(w)
    \/ SendOnClosed(w) \/ NotFound(w) \/ StopWatching(w)
    \/ CrdEvent(w) \/ StartMissingWatches(w)
    \/ \E p \in DOMAIN procs : Send(w, p)

SyncStep ==
    \/ SyncStart \/ SyncSucceeds \/ SyncFails
    \/ \E p \in toList : SyncList(p[1], p[2])

ProcStep(p) == ProcStart(p) \/ ProcEnd(p) \/ Flush(p)

\* Nothing is left to do for the cache, and nobody writes any more.
Idle == Len(log) = MaxWrites /\ syncs = MaxSyncs /\ UNCHANGED vars

Next ==
    \/ \E k \in Mutations : Write(k)
    \/ \E k \in Deletions : Delete(k)
    \/ Expire \/ Invalidate \/ SyncStep
    \/ \E w \in DOMAIN watchers : WatchStep(w) \/ Relist(w)
    \/ \E p \in DOMAIN procs : ProcStep(p)
    \/ Idle

Spec == Init /\ [][Next]_vars

\* Goroutines get their turn and the lock, EnsureSynced() is called again and
\* again, and the resync timer of a watch fires.  MaxWatchers bounds the
\* goroutines that MaxSyncs and MaxWrites let start.
MaxWatchers == (MaxSyncs + MaxWrites) * Cardinality(UNION {Scopes[gk] : gk \in Gks})
                   * Cardinality(Gks)

Fairness ==
    /\ WF_vars(SyncStep)
    /\ \A w \in 1..MaxWatchers : /\ WF_vars(w \in DOMAIN watchers /\ WatchStep(w))
                                 /\ WF_vars(w \in DOMAIN watchers /\ Relist(w))
    /\ \A p \in 1..MaxSyncs : WF_vars(p \in DOMAIN procs /\ ProcStep(p))

FairSpec == Spec /\ Fairness

-----------------------------------------------------------------------------
(* Correctness                                                              *)

Versions == 0..Len(log)
Namespaces == UNION {Scopes[gk] : gk \in Gks}

WatcherRecords ==
    [gk : Gks, ns : Namespaces, gen : 1..gen,
     st : {"list", "loaded", "watch", "event", "sending", "crd", "done"},
     rv : Versions, held : Versions, chan : 0..syncs, retry : {"open", "gone", "closed"}]
ProcRecords ==
    [st : {"start", "run", "flush", "done"}, chan : 0..syncs, buf : Seq(1..Len(log))]

WatchersOK ==
    /\ watchers \in Seq(WatcherRecords)
    /\ \A w \in DOMAIN watchers :
          /\ <<watchers[w].gk, watchers[w].ns>> \in Watchable
          /\ watchers[w].st \in {"event", "sending", "crd"} => watchers[w].held # 0

\* Every variable holds a value the code can produce.
CacheTypeOK ==
    /\ log \in Seq([key : Keys, type : {"Added", "Modified", "Deleted"}])
    /\ locked \in BOOLEAN /\ apisNil \in BOOLEAN
    /\ status \in {"unsynced", "synced", "error"}
    /\ gen \in Nat /\ apis \in [Gks -> 0..gen] /\ cancelled \subseteq Gks \X (1..gen)
    /\ resources \in [Keys -> Versions] /\ index \in [Keys -> Versions]
    /\ toList \subseteq Watchable
    /\ WatchersOK
    /\ procs \in Seq(ProcRecords)
    /\ syncs \in 0..MaxSyncs /\ faults \in 0..MaxFaults
    /\ locked => gen # 0
    /\ channel \in 0..syncs /\ closed \subseteq 1..syncs

\* The index by namespace holds whatever c.resources holds, in the same version,
\* at every moment (setNode, onNodeRemoved): a walk, which takes its roots from
\* one map and their children from the other, meets its roots.  Until there is a
\* second synchronization it holds nothing else.
IndexAgrees ==
    /\ \A k \in Keys : resources[k] # 0 => index[k] = resources[k]
    /\ syncs <= 1 => index = resources

\* What the comment on FindResources says: the resources of a namespace are those
\* of everywhere that are in the namespace.  It is not so after a synchronization
\* that is not the first, for sync() makes a new c.resources and keeps c.nsIndex.
NamespacesAgree == ~locked => index = resources

\* No event, list or batch is under way.
Quiet ==
    /\ status = "synced" /\ Free
    /\ \A w \in DOMAIN watchers : watchers[w].retry # "gone"
    /\ \A w \in DOMAIN watchers :
          \/ watchers[w].st = "done"
          \/ /\ watchers[w].st = "watch"
             /\ ~Cancelled(w) /\ News(w) = {} /\ Served(watchers[w].gk)
    /\ \A p \in DOMAIN procs : procs[p].buf = <<>>

Permitted(k) == \A ns \in Scopes[Gk[k]] : <<Gk[k], ns>> \notin Forbidden

Current(k) == resources[k] = Server(k)

\* When everything the cache was told is processed, it shows the resources of
\* the kinds it watches as the server has them: the watches miss nothing, and
\* nothing old is applied last.  Left out are kinds whose watch was stopped once:
\* a goroutine that was cancelled may still apply the event it holds, after the
\* list of the one that follows it.
QuietMeansCurrent ==
    Quiet => \A k \in Keys \ Ignored :
                /\ Permitted(k) /\ Served(Gk[k]) /\ apis[Gk[k]] # 0
                /\ \A c \in cancelled : c[1] # Gk[k]
                => Current(k)

\* A kind whose watch is stopped leaves nothing in the cache (replaceResourceCache
\* in stopWatching).
Purges ==
    \A gk \in Gks :
        apis[gk] # 0 /\ apis'[gk] = 0 /\ ~locked /\ ~apisNil' /\ status' = "synced"
            => \A k \in Keys : Gk[k] = gk => resources'[k] = 0

StoppedIsPurged == [][Purges]_vars

\* Whoever watches can be stopped: the context of every goroutine that is not
\* cancelled is the one in c.apisMeta.
WatchesAreStoppable ==
    \A w \in DOMAIN watchers :
        watchers[w].st # "done" /\ ~Cancelled(w)
            => apis[watchers[w].gk] = watchers[w].gen

\* Whatever is lost, reordered or resurrected on the way, the periodic lists
\* bring the cache back to the state of the server.
EventuallyCurrent ==
    <>[](\A k \in Keys \ Ignored : Permitted(k) => Current(k))
================================================================================
