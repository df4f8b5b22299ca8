------------------------------- MODULE Engine -------------------------------
(***************************************************************************)
(* gitOpsEngine.Sync between the cluster cache and its caller.             *)
(*                                                                         *)
(* The caller (the agent's loop) makes one call after the other.  A call   *)
(* reads the live objects under the cache's lock, subscribes to the cache, *)
(* and repeats syncCtx.Sync() whenever a managed resource changed, a       *)
(* second has passed or its context is cancelled.  The cache calls the     *)
(* subscribed handlers from the goroutines that process events, with its   *)
(* lock held, and the handler sends on an unbuffered channel: the cache    *)
(* waits for the engine, and the engine must never wait for the cache      *)
(* while it is subscribed.  The batches of a step are those of StateSync.  *)
(***************************************************************************)
EXTENDS StateSync, Sequences

CONSTANTS
    Keys,           \* resource keys
    Watchers,       \* goroutines that process events (watches, or processEvents)
    BatchEvents,    \* events are processed in batches: batchEventsProcessing
    MaxCalls,       \* bound on the calls of Sync
    MaxEvents,      \* bound on the events of the cluster
    MaxBatches,     \* bound on the batches of a step
    NoOne           \* nobody holds the lock

ASSUME EngineAssumption ==
    /\ BatchEvents \in BOOLEAN
    /\ MaxCalls \in Nat \ {0} /\ MaxEvents \in Nat /\ MaxBatches \in Nat \ {0}
    /\ NoOne \notin Watchers

Calls == 1..MaxCalls

VARIABLES
    pc,         \* where Sync is
    call,       \* the number of the current or last call
    requests,   \* sends on the agent's resync channel, made or waiting
    phase,      \* the operation's phase
    cancelled,  \* ctx.Done() is ready
    batches,    \* batches of the current step
    state,      \* their result so far
    managed,    \* managedResources of each call
    handlers,   \* resourceUpdatedHandlers: calls that are subscribed
    closed,     \* calls whose resIgnore is closed
    lock,       \* who holds c.lock for writing
    queue,      \* events a watcher has received
    batch,      \* events it processes with the lock held
    notifying,  \* handlers it has still to call for the first of them
    emitted     \* events so far

agentVars == <<call, requests>>
engineVars == <<pc, phase, cancelled, batches, state, managed, handlers, closed>>
cacheVars == <<lock, queue, batch, notifying, emitted>>
vars == <<agentVars, engineVars, cacheVars, syncVars>>

-----------------------------------------------------------------------------
(* The agent                                                                *)

\* The timer and the HTTP handler send on the unbuffered channel resync.
Request ==
    /\ requests < MaxCalls - 1
    /\ requests' = requests + 1
    /\ UNCHANGED <<call, engineVars, cacheVars, syncVars>>

\* for ; true; <-resync: the first call needs no request.
FaultyStart ==
    /\ pc = "idle"
    /\ call < requests
    /\ call' = call + 1
    /\ pc' = "read"
    /\ phase' = "Running" /\ cancelled' = FALSE
    /\ UNCHANGED <<requests, batches, state, managed, handlers, closed, cacheVars, syncVars>>
Start ==
    /\ pc = "idle"
    /\ call <= requests
    /\ call' = call + 1
    /\ pc' = "read"
    /\ phase' = "Running" /\ cancelled' = FALSE
    /\ UNCHANGED <<requests, batches, state, managed, handlers, closed, cacheVars, syncVars>>

Cancel ==
    /\ pc # "idle" /\ ~cancelled
    /\ cancelled' = TRUE
    /\ UNCHANGED <<agentVars, pc, phase, batches, state, managed,
                   handlers, closed, cacheVars, syncVars>>

-----------------------------------------------------------------------------
(* Sync                                                                     *)

\* GetManagedLiveObjs, Reconcile, DiffArray and NewSyncContext.  The live
\* objects are read with the lock held for reading; each of them may fail.
ReadLive ==
    /\ pc = "read"
    /\ lock = NoOne
    /\ \/ pc' = "idle" /\ UNCHANGED managed
       \/ /\ \E keys \in SUBSET Keys : managed' = [managed EXCEPT ![call] = keys]
          /\ pc' = "subscribe"
    /\ UNCHANGED <<agentVars, phase, cancelled, batches, state,
                   handlers, closed, cacheVars, syncVars>>

\* OnResourceUpdated
Subscribe ==
    /\ pc = "subscribe"
    /\ handlers' = handlers \cup {call}
    /\ pc' = "step"
    /\ batches' = 0
    /\ UNCHANGED <<agentVars, phase, cancelled, state, managed, closed, cacheVars, syncVars>>

\* syncCtx.Sync(): runTasks makes one batch after the other;
\* the groups of tasks to create go on after a failure.
StartBatch ==
    /\ pc = "step" /\ waiter = "away"
    /\ batches < MaxBatches /\ state # "pending"
    /\ NewStateSync(state)
    /\ batches' = batches + 1
    /\ UNCHANGED <<agentVars, pc, phase, cancelled, state, managed,
                   handlers, closed, cacheVars>>

SyncBatch ==
    /\ pc = "step"
    /\ StateSyncStep
    /\ UNCHANGED <<agentVars, engineVars, cacheVars>>

\* state = ss.Wait().
EndBatch ==
    /\ pc = "step"
    /\ Drop
    /\ state' = res
    /\ UNCHANGED <<agentVars, pc, phase, cancelled, batches, managed,
                   handlers, closed, cacheVars>>

\* The step ends: what it ran has failed, is pending, or went well and is the
\* last or not.  An operation may also end without running anything.
FaultyEndStep ==
    /\ pc = "step"
    /\ phase' \in {"Running", "Succeeded", "Failed", "Error"}
    /\ pc' = IF phase' = "Running" THEN "select" ELSE "unsubscribe"
    /\ batches' = 0 /\ state' = "successful"
    /\ UNCHANGED <<agentVars, cancelled, managed, handlers, closed, cacheVars, syncVars>>
EndStep ==
    /\ pc = "step" /\ waiter = "away"
    /\ CASE state = "failed" -> phase' = "Failed"
         [] state = "pending" -> phase' = "Running"
         [] OTHER -> phase' \in {"Running", "Succeeded", "Failed", "Error"}
    /\ pc' = IF phase' = "Running" THEN "select" ELSE "unsubscribe"
    /\ batches' = 0 /\ state' = "successful"
    /\ UNCHANGED <<agentVars, cancelled, managed, handlers, closed, cacheVars, syncVars>>

\* The select: one of its branches, when several are ready any of them.  The
\* third is WakeEngine.
Terminate ==
    /\ pc = "select" /\ cancelled
    /\ phase' \in {"Failed", "Error"}
    /\ pc' = "unsubscribe"
    /\ UNCHANGED <<agentVars, cancelled, batches, state, managed,
                   handlers, closed, cacheVars, syncVars>>

RefreshTimeout ==
    /\ pc = "select"
    /\ pc' = "step"
    /\ UNCHANGED <<agentVars, phase, cancelled, batches, state, managed,
                   handlers, closed, cacheVars, syncVars>>

\* The deferred calls, last first.
Unsubscribe ==
    /\ pc = "unsubscribe"
    /\ handlers' = handlers \ {call}
    /\ pc' = "close"
    /\ UNCHANGED <<agentVars, phase, cancelled, batches, state, managed,
                   closed, cacheVars, syncVars>>

FaultyCloseIgnore ==
    /\ pc = "close"
    /\ pc' = "idle"
    /\ UNCHANGED <<agentVars, phase, cancelled, batches, state, managed,
                   handlers, closed, cacheVars, syncVars>>
CloseIgnore ==
    /\ pc = "close"
    /\ closed' = closed \cup {call}
    /\ pc' = "idle"
    /\ UNCHANGED <<agentVars, phase, cancelled, batches, state, managed,
                   handlers, cacheVars, syncVars>>

-----------------------------------------------------------------------------
(* The cache                                                                *)

Emit(w) ==
    /\ emitted < MaxEvents
    /\ emitted' = emitted + 1
    /\ \E k \in Keys : queue' = [queue EXCEPT ![w] = Append(@, k)]
    /\ UNCHANGED <<lock, batch, notifying, agentVars, engineVars, syncVars>>

\* recordEvent and processEventsBatch take the lock for one event or for all.
TakeLock(w) ==
    /\ lock = NoOne /\ queue[w] # <<>>
    /\ lock' = w
    /\ LET n == IF BatchEvents THEN Len(queue[w]) ELSE 1 IN
       /\ batch' = [batch EXCEPT ![w] = SubSeq(queue[w], 1, n)]
       /\ queue' = [queue EXCEPT ![w] = SubSeq(@, n + 1, Len(@))]
    /\ notifying' = [notifying EXCEPT ![w] = handlers]
    /\ UNCHANGED <<emitted, agentVars, engineVars, syncVars>>

\* The handler Sync subscribed, for the call h; the handlers are a copy of the
\* subscribed ones, in any order.
Notifies(w, h) == lock = w /\ batch[w] # <<>> /\ h \in notifying[w]
Told(w, h) == notifying' = [notifying EXCEPT ![w] = @ \ {h}]

SkipHandler(w, h) ==
    /\ Notifies(w, h) /\ Head(batch[w]) \notin managed[h]
    /\ Told(w, h)
    /\ UNCHANGED <<lock, queue, batch, emitted, agentVars, engineVars, syncVars>>

\* case resUpdated <- true, received by the select of the same call
WakeEngine(w, h) ==
    /\ Notifies(w, h) /\ Head(batch[w]) \in managed[h]
    /\ pc = "select" /\ h = call
    /\ pc' = "step"
    /\ Told(w, h)
    /\ UNCHANGED <<lock, queue, batch, emitted, agentVars, phase, cancelled,
                   batches, state, managed, handlers, closed, syncVars>>

\* case <-resIgnore
IgnoreHandler(w, h) ==
    /\ Notifies(w, h) /\ Head(batch[w]) \in managed[h]
    /\ h \in closed
    /\ Told(w, h)
    /\ UNCHANGED <<lock, queue, batch, emitted, agentVars, engineVars, syncVars>>

\* The next event of the batch: onNodeUpdated copies the handlers again.
NextEvent(w) ==
    /\ lock = w /\ Len(batch[w]) > 1 /\ notifying[w] = {}
    /\ batch' = [batch EXCEPT ![w] = Tail(@)]
    /\ notifying' = [notifying EXCEPT ![w] = handlers]
    /\ UNCHANGED <<lock, queue, emitted, agentVars, engineVars, syncVars>>

Unlock(w) ==
    /\ lock = w /\ Len(batch[w]) = 1 /\ notifying[w] = {}
    /\ batch' = [batch EXCEPT ![w] = <<>>]
    /\ lock' = NoOne
    /\ UNCHANGED <<queue, notifying, emitted, agentVars, engineVars, syncVars>>

-----------------------------------------------------------------------------
Init ==
    /\ pc = "idle"
    /\ call = 0 /\ requests = 0
    /\ phase = "Succeeded" /\ cancelled = FALSE
    /\ batches = 0 /\ state = "successful"
    /\ managed = [c \in Calls |-> {}]
    /\ handlers = {} /\ closed = {}
    /\ lock = NoOne
    /\ queue = [w \in Watchers |-> <<>>]
    /\ batch = [w \in Watchers |-> <<>>]
    /\ notifying = [w \in Watchers |-> {}]
    /\ emitted = 0
    /\ StateSyncInit

EngineStep ==
    \/ Start \/ ReadLive \/ Subscribe \/ StartBatch \/ SyncBatch \/ EndBatch
    \/ EndStep \/ Unsubscribe \/ CloseIgnore

WatcherStep(w) ==
    \/ NextEvent(w) \/ Unlock(w)
    \/ \E h \in Calls : SkipHandler(w, h) \/ IgnoreHandler(w, h)

Next ==
    \/ Request \/ Cancel \/ EngineStep \/ Terminate \/ RefreshTimeout
    \/ \E w \in Watchers : \/ Emit(w) \/ TakeLock(w) \/ WatcherStep(w)
                           \/ \E h \in Calls : WakeEngine(w, h)

Spec == Init /\ [][Next]_vars

\* Goroutines run and timers fire.  A select does not pass over a ready branch
\* for ever: it picks among them at random.  Nobody has to cancel a call: the
\* agent never does, and with it an operation may go on for ever.
Fairness ==
    /\ WF_vars(EngineStep) /\ WF_vars(RefreshTimeout)
    /\ SF_vars(Terminate)
    /\ \A w \in Watchers :
          /\ WF_vars(TakeLock(w) \/ WatcherStep(w))
          /\ SF_vars(\E h \in Calls : WakeEngine(w, h))

FairSpec == Spec /\ Fairness

-----------------------------------------------------------------------------
(* Correctness                                                              *)

Pcs == {"idle", "read", "subscribe", "step", "select", "unsubscribe", "close"}

\* Every variable holds a value the code can produce.
EngineTypeOK ==
    /\ StateSyncTypeOK
    /\ pc \in Pcs
    /\ requests \in 0..(MaxCalls - 1) /\ call \in 0..(requests + 1)
    /\ phase \in {"Running", "Succeeded", "Failed", "Error"} /\ cancelled \in BOOLEAN
    /\ batches \in 0..MaxBatches /\ state \in RunStates
    /\ managed \in [Calls -> SUBSET Keys]
    /\ handlers \subseteq Calls /\ closed \subseteq Calls
    /\ lock \in Watchers \cup {NoOne} /\ emitted \in 0..MaxEvents
    /\ queue \in [Watchers -> Seq(Keys)] /\ batch \in [Watchers -> Seq(Keys)]
    /\ notifying \in [Watchers -> SUBSET Calls]

\* A handler that waits with the cache's lock held waits for a call that will
\* receive, or close its resIgnore: never for a call that has returned.
HandlersHaveAReceiver ==
    \A w \in Watchers : \A h \in notifying[w] :
        h \in closed \/ (h = call /\ pc \in {"step", "select", "unsubscribe", "close"})

\* A batch leaves no goroutine to the next one, and a step leaves none at all:
\* nothing runs on, or waits for a receiver, when syncCtx.Sync() has returned.
NothingLeftBehind ==
    /\ NoStraggler
    /\ pc # "step" => waiter = "away" /\ \A t \in Tasks : goroutine[t] = "none"

\* The cache's lock is released in the end, whatever the engine does: no event
\* and no reader of the cache waits for ever for a sync operation.
LockIsReleased == lock # NoOne ~> lock = NoOne

\* A call goes on: it gets the cache's lock, its batches end, its handler lets it
\* unsubscribe.
CallsGoOn == []<>(pc \in {"idle", "select"})

\* A call that is cancelled notices it between two steps, whatever else wakes it,
\* and returns.
CancelIsNoticed == pc # "idle" /\ cancelled ~> pc = "idle"

\* As long as operations come to an end, every request for a sync is followed by
\* a call that starts after it.
RequestsAreServed ==
    []<>(pc = "idle") => \A c \in 1..(MaxCalls - 1) : requests >= c ~> call > c

\* Engine, cache and caller never wait for each other for good, although the
\* cache sends to the engine with its lock held (OnResourceUpdated, recordEvent).
NobodyWaitsForEver ==
    LockIsReleased /\ CallsGoOn /\ CancelIsNoticed /\ RequestsAreServed
=============================================================================
