------------------------------- MODULE Listing -------------------------------
(***************************************************************************)
(* The lists of pkg/cache/cluster.go and what they wait for: sync() holds  *)
(* c.lock while its goroutines (RunAllAsync) list all APIs, the watch      *)
(* goroutines list again at any time and then take c.lock, and both need   *)
(* one of few permits of listSemaphore.                                    *)
(***************************************************************************)
EXTENDS Integers, Sequences, FiniteSets, SequencesExt

CONSTANTS
    Apis,       \* the APIs of the cluster
    Permitted,  \* ... that the account may list
    Permits,    \* the weight of listSemaphore
    Items,      \* the length of every list

\* Contexts in use: the goroutines of one synchronization may outlive the start
\* of the next one, but not that of the second next (the bound of the model).
    Contexts

ASSUME ListingAssumption ==
    /\ Permitted \subseteq Apis
    /\ Permits \in Nat \ {0} /\ Items \in Nat \ {0}
    /\ Contexts \subseteq Nat \ {0}

\* <<0, a>> lists API a for sync(), <<c, a>> watches it with context c.
Lister(a) == <<0, a>>
Listers == {0} \X Apis
Watchers == Contexts \X Apis
Routines == Listers \cup Watchers

VARIABLES
    locked,     \* sync() holds c.lock
    status,     \* of the last synchronization
    rbac,       \* c.respectRBAC
    found,      \* the APIs discovery returned
    context,    \* the context sync() made last
    pc, toSpawn,\* RunAllAsync: where it is, and the calls to come
    failed,     \* errgroup: a call has failed, the group's context is done
    apisMeta,   \* c.apisMeta: the context of each API, 0: no entry
    cancelled,  \* the watchers whose context is done
    st,         \* where each goroutine is
    listed,     \* items a goroutine has received
    holders, waiting,   \* listSemaphore
    cached      \* c.resources: items of each API

vars == <<locked, status, rbac, found, context, pc, toSpawn, failed, apisMeta, cancelled,
          st, listed, holders, waiting, cached>>

syncVars == <<locked, status, found, context, pc, toSpawn, failed, cancelled>>

Init ==
    /\ locked = FALSE /\ status = "unsynced"
    /\ rbac \in {"disabled", "normal", "strict"}
    /\ found = {} /\ context = 0
    /\ pc = "wait" /\ toSpawn = {} /\ failed = FALSE
    /\ apisMeta = [a \in Apis |-> 0] /\ cancelled = {}
    /\ st = [r \in Routines |-> "none"] /\ listed = [r \in Routines |-> 0]
    /\ holders = {} /\ waiting = <<>>
    /\ cached = [a \in Apis |-> 0]

-----------------------------------------------------------------------------
(* sync() and RunAllAsync                                                   *)

Unused(c) == c # context /\ \A a \in Apis : st[<<c, a>>] \in {"none", "done"}

\* sync() up to RunAllAsync: discovery may find a part of the APIs only ("partial
\* success"), or one of the calls before the lists fails.
SyncStart ==
    /\ ~locked
    /\ cached' = [a \in Apis |-> 0]
    /\ apisMeta' = [a \in Apis |-> 0]
    /\ \E c \in Contexts : Unused(c) /\ context' = c
    /\ cancelled' = {w \in cancelled : w[1] # context'}
                       \cup {<<apisMeta[a], a>> : a \in {b \in Apis : apisMeta[b] # 0}}
    /\ failed' = FALSE
    /\ \/ /\ found' \in (SUBSET Apis) \ {{}}
          /\ toSpawn' = found' /\ pc' = "spawn"
          /\ locked' = TRUE /\ UNCHANGED status
       \/ status' = "error" /\ UNCHANGED <<locked, found, toSpawn, pc>>
    /\ UNCHANGED <<rbac, st, listed, holders, waiting>>

\* g.Go
Spawn(a) ==
    /\ locked /\ pc = "spawn" /\ a \in toSpawn
    /\ toSpawn' = toSpawn \ {a}
    /\ st' = [st EXCEPT ![Lister(a)] = "start"]
    /\ pc' = "check"
    /\ UNCHANGED <<locked, status, rbac, found, context, failed, apisMeta, cancelled, listed,
                   holders, waiting, cached>>

\* Nothing more is spawned when a call has failed.
FaultyCheck ==
    /\ locked /\ pc = "check"
    /\ pc' = IF failed \/ toSpawn = {} THEN "wait" ELSE "spawn"
    /\ failed' = FALSE
    /\ UNCHANGED <<locked, status, rbac, found, context, toSpawn, apisMeta, cancelled, st,
                   listed, holders, waiting, cached>>
Check ==
    /\ locked /\ pc = "check"
    /\ pc' = IF failed \/ toSpawn = {} THEN "wait" ELSE "spawn"
    /\ UNCHANGED <<locked, status, rbac, found, context, toSpawn, failed, apisMeta, cancelled,
                   st, listed, holders, waiting, cached>>

\* g.Wait, and the end of sync().
SyncEnd ==
    /\ locked /\ pc = "wait"
    /\ \A a \in Apis : st[Lister(a)] = "none"
    /\ locked' = FALSE
    /\ status' = IF failed THEN "error" ELSE "synced"
    /\ UNCHANGED <<rbac, found, context, pc, toSpawn, failed, apisMeta, cancelled, st, listed,
                   holders, waiting, cached>>

Register(a) ==
    /\ st[Lister(a)] = "start"
    /\ apisMeta' = [apisMeta EXCEPT ![a] = context]
    /\ st' = [st EXCEPT ![Lister(a)] = "ask"]
    /\ UNCHANGED <<rbac, syncVars, listed, holders, waiting, cached>>

-----------------------------------------------------------------------------
(* listResources                                                            *)

\* Acquire: behind those that wait already.
Ask(r) ==
    /\ st[r] = "ask"
    /\ listed' = [listed EXCEPT ![r] = 0]
    /\ IF Cardinality(holders) < Permits /\ waiting = <<>>
       THEN /\ holders' = holders \cup {r}
            /\ st' = [st EXCEPT ![r] = "list"]
            /\ UNCHANGED waiting
       ELSE /\ waiting' = Append(waiting, r)
            /\ st' = [st EXCEPT ![r] = "wait"]
            /\ UNCHANGED holders
    /\ UNCHANGED <<rbac, syncVars, apisMeta, cached>>

\* The context is done while it waits.
GiveUp(w) ==
    /\ st[w] = "wait" /\ w \in cancelled
    /\ \E i \in DOMAIN waiting : waiting[i] = w /\ waiting' = RemoveAt(waiting, i)
    /\ st' = [st EXCEPT ![w] = "done"]
    /\ UNCHANGED <<rbac, syncVars, apisMeta, listed, holders, cached>>

\* Release wakes the first that waits; states are those of the goroutines after.
FaultyRelease(r, states) ==
    IF waiting = <<>> THEN holders' = holders \ {r} /\ waiting' = <<>> /\ st' = states
    ELSE LET next == Last(waiting) IN
         /\ holders' = (holders \ {r}) \cup {next}
         /\ waiting' = Front(waiting)
         /\ st' = [states EXCEPT ![next] = "list"]
Release(r, states) ==
    IF waiting = <<>> THEN holders' = holders \ {r} /\ waiting' = <<>> /\ st' = states
    ELSE LET next == Head(waiting) IN
         /\ holders' = (holders \ {r}) \cup {next}
         /\ waiting' = Tail(waiting)
         /\ st' = [states EXCEPT ![next] = "list"]

\* The next item: sync() caches it, a watch goroutine keeps it.
Item(r) ==
    /\ st[r] = "list" /\ listed[r] < Items
    /\ r[2] \in Permitted /\ r \notin cancelled
    /\ listed' = [listed EXCEPT ![r] = @ + 1]
    /\ cached' = IF r \in Listers THEN [cached EXCEPT ![r[2]] = listed'[r]] ELSE cached
    /\ UNCHANGED <<rbac, syncVars, apisMeta, st, holders, waiting>>

\* sync()'s list is complete: the watch starts.
ListEnds(a) ==
    /\ st[Lister(a)] = "list" /\ listed[Lister(a)] = Items
    /\ Release(Lister(a), [st EXCEPT ![Lister(a)] = "none", ![<<context, a>>] = "watch"])
    /\ UNCHANGED <<rbac, syncVars, apisMeta, listed, cached>>

\* sync()'s list fails, or it is forbidden: always, or for a moment.
ListFails(a) ==
    /\ st[Lister(a)] = "list"
    /\ \E error \in IF a \in Permitted THEN {"other", "forbidden"} ELSE {"forbidden"} :
          LET after == IF error = "other" \/ rbac = "disabled" THEN "failing"
                       ELSE IF rbac = "strict" THEN "review" ELSE "dropping"
          IN Release(Lister(a), [st EXCEPT ![Lister(a)] = after])
    /\ UNCHANGED <<rbac, syncVars, apisMeta, listed, cached>>

\* checkPermission, which may fail itself.
CheckPermission(a) ==
    /\ st[Lister(a)] = "review"
    /\ \E after \in {IF a \in Permitted THEN "failing" ELSE "dropping", "failing"} :
          st' = [st EXCEPT ![Lister(a)] = after]
    /\ UNCHANGED <<rbac, syncVars, apisMeta, listed, holders, waiting, cached>>

\* An API that may not be listed is not watched.
Drop(a) ==
    /\ st[Lister(a)] = "dropping"
    /\ apisMeta' = [apisMeta EXCEPT ![a] = 0]
    /\ st' = [st EXCEPT ![Lister(a)] = "none"]
    /\ UNCHANGED <<rbac, syncVars, listed, holders, waiting, cached>>

\* The call returns an error; its entry in c.apisMeta stays.
Fail(a) ==
    /\ st[Lister(a)] = "failing"
    /\ failed' = TRUE
    /\ st' = [st EXCEPT ![Lister(a)] = "none"]
    /\ UNCHANGED <<locked, status, rbac, found, context, pc, toSpawn, apisMeta, cancelled,
                   listed, holders, waiting, cached>>

-----------------------------------------------------------------------------
(* watchEvents and loadInitialState                                         *)

\* The watch ends: list again, unless the context is done.
Relist(w) ==
    /\ st[w] = "watch"
    /\ st' = [st EXCEPT ![w] = "ask"]
    /\ UNCHANGED <<rbac, syncVars, apisMeta, listed, holders, waiting, cached>>

Stop(w) ==
    /\ st[w] \in {"watch", "ask"} /\ w \in cancelled
    /\ st' = [st EXCEPT ![w] = "done"]
    /\ UNCHANGED <<rbac, syncVars, apisMeta, listed, holders, waiting, cached>>

RelistFails(w) ==
    /\ st[w] = "list"
    /\ Release(w, [st EXCEPT ![w] = "ask"])
    /\ UNCHANGED <<rbac, syncVars, apisMeta, listed, cached>>

\* The permit is given back before the lock is asked for.
RelistEnds(w) ==
    /\ st[w] = "list" /\ listed[w] = Items
    /\ Release(w, [st EXCEPT ![w] = "loaded"])
    /\ UNCHANGED <<rbac, syncVars, apisMeta, listed, cached>>

\* replaceResourceCache, even when the context is done by now.
Replace(w) ==
    /\ st[w] = "loaded" /\ ~locked
    /\ cached' = [cached EXCEPT ![w[2]] = listed[w]]
    /\ st' = [st EXCEPT ![w] = "watch"]
    /\ UNCHANGED <<rbac, syncVars, apisMeta, listed, holders, waiting>>

-----------------------------------------------------------------------------
RunAll == (\E a \in Apis : Spawn(a)) \/ Check \/ SyncEnd

ListerStep(a) ==
    \/ Register(a) \/ Ask(Lister(a)) \/ Item(Lister(a)) \/ ListEnds(a)
    \/ CheckPermission(a) \/ Drop(a) \/ Fail(a)
    \/ a \notin Permitted /\ ListFails(a)

WatcherStep(w) ==
    \/ Ask(w) \/ GiveUp(w) \/ Item(w) \/ RelistEnds(w) \/ Replace(w) \/ Stop(w)
    \/ (w[2] \notin Permitted \/ w \in cancelled) /\ RelistFails(w)

Next ==
    \/ SyncStart \/ RunAll
    \/ \E a \in Apis : ListerStep(a) \/ ListFails(a)
    \/ \E w \in Watchers : WatcherStep(w) \/ Relist(w) \/ RelistFails(w)

Spec == Init /\ [][Next]_vars

\* The scheduler runs every goroutine and requests are answered.  Nothing makes
\* a watch end, a synchronization start or a request fail.
Fairness ==
    /\ WF_vars(RunAll)
    /\ \A a \in Apis : WF_vars(ListerStep(a))
    /\ \A w \in Watchers : WF_vars(WatcherStep(w))

FairSpec == Spec /\ Fairness

-----------------------------------------------------------------------------
(* Correctness                                                              *)

\* Every variable holds a value the code can produce, and no more lists run than
\* the semaphore allows.
ListingTypeOK ==
    /\ {locked, failed} \subseteq BOOLEAN
    /\ status \in {"unsynced", "synced", "error"} /\ pc \in {"spawn", "check", "wait"}
    /\ toSpawn \subseteq found /\ found \subseteq Apis
    /\ apisMeta \in [Apis -> Contexts \cup {0}] /\ cancelled \subseteq Watchers
    /\ \A r \in Routines :
          st[r] \in IF r \in Listers
                    THEN {"none", "start", "ask", "wait", "list", "review", "dropping", "failing"}
                    ELSE {"none", "watch", "ask", "wait", "list", "loaded", "done"}
    /\ Cardinality(holders) <= Permits
    /\ holders = {r \in Routines : st[r] = "list"}
    /\ Range(waiting) = {r \in Routines : st[r] = "wait"}

\* A synchronization that reports success has listed every API that discovery
\* found to the end and has a goroutine that watches it.  An API is left out only
\* after a refused list: of any API with RespectRbacNormal, of one the account may
\* not list with RespectRbacStrict.  What RunAllAsync did not come to never counts
\* as synced.
SyncedIsComplete ==
    ~locked /\ status = "synced" => \A a \in found :
        IF apisMeta[a] = 0
        THEN rbac = "normal" \/ (rbac = "strict" /\ a \notin Permitted)
        ELSE /\ st[<<apisMeta[a], a>>] \notin {"none", "done"}
             /\ <<apisMeta[a], a>> \notin cancelled
             /\ cached[a] = Items

\* A synchronization ends, although it waits with c.lock held for permits that
\* goroutines hold which need c.lock next.
SyncReturns == locked ~> ~locked

\* Nobody waits for a permit for ever, however often the others list, and so
\* nobody waits for c.lock for ever.
NobodyStarves == SyncReturns /\ \A r \in Routines : st[r] = "wait" ~> st[r] # "wait"
=============================================================================
