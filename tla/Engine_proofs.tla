--------------------------- MODULE Engine_proofs ---------------------------
(***************************************************************************)
(* Proofs about Engine and the batches of its steps, for every set of      *)
(* tasks, keys and watchers and every bound: type correctness, that nothing *)
(* of a step outlives it, that the cache never waits for a call that has   *)
(* returned, and that stateSync implements Batch.                          *)
(***************************************************************************)
EXTENDS Engine, FiniteSetTheorems, SequenceTheorems, TLAPS

-----------------------------------------------------------------------------
(* The invariant of a batch                                                 *)

\* The goroutines that the wait group counts.
Alive == {t \in Tasks : goroutine[t] \in {"running", "sending", "sent"}}

\* The tasks whose result Wait has received.
Received == {t \in Tasks : goroutine[t] \in {"sent", "done"}}

SyncType ==
    /\ currentState \in RunStates \cup {NoState}
    /\ goroutine \in [Tasks -> {"none", "running", "sending", "sent", "done"}]
    /\ returned \in [Tasks -> RunStates \cup {NoState}]
    /\ channel \in {"none", "open", "closed"}
    /\ closer \in {"none", "waiting", "done"}
    /\ waiter \in {"away", "adding", "receiving", "joined"}
    /\ res \in RunStates \cup {NoState}

\* A task has returned when its goroutine sends, or has sent.
Reported ==
    \A t \in Tasks : goroutine[t] \in {"none", "running"} <=> returned[t] = NoState

\* Where the caller is tells what the batch can be doing.
Stages ==
    /\ waiter = "away" =>
          /\ currentState = NoState /\ res = NoState
          /\ channel = "none" /\ closer = "none"
          /\ \A t \in Tasks : goroutine[t] = "none"
    /\ waiter = "adding" =>
          /\ currentState # NoState /\ res = NoState
          /\ channel = "open" /\ closer = "none"
          /\ \A t \in Tasks : goroutine[t] \in {"none", "running", "sending"}
    /\ waiter = "receiving" =>
          /\ currentState # NoState /\ res # NoState
          /\ \/ channel = "open" /\ closer = "waiting"
             \/ channel = "closed" /\ closer = "done"
    /\ waiter = "joined" =>
          /\ currentState # NoState /\ res # NoState
          /\ channel = "closed" /\ closer = "done"
    /\ channel = "closed" => Alive = {}

\* What Wait has combined so far.
Joining ==
    waiter \in {"receiving", "joined"} =>
        res = Abstract!Worst({currentState} \cup {returned[t] : t \in Received})

SyncInv ==
    /\ SyncType
    /\ wg = Cardinality(Alive)
    /\ Reported
    /\ Stages
    /\ Joining

-----------------------------------------------------------------------------
(* The invariant of the engine                                              *)

\* Only the call that is inside its deferred calls is subscribed.
Subscribed ==
    \A h \in handlers : h = call /\ pc \in {"step", "select", "unsubscribe"}

\* A call has begun unless the engine is idle, and batches run inside a step.
InCall ==
    /\ pc # "idle" => call # 0
    /\ pc # "step" => waiter = "away"

EngineInv ==
    /\ EngineTypeOK
    /\ SyncInv
    /\ InCall
    /\ Subscribed
    /\ HandlersHaveAReceiver

-----------------------------------------------------------------------------
(* Batches                                                                  *)

\* The switch of Wait keeps the worse of two states.
LEMMA CombineIsWorst ==
    ASSUME NEW S, NEW r \in RunStates
    PROVE  Combine(Abstract!Worst(S), r) = Abstract!Worst(S \cup {r})
BY DEF RunStates, Combine, Abstract!Worst

\* The worst of some states is a state.
LEMMA WorstType == \A S : Abstract!Worst(S) \in RunStates
BY DEF RunStates, Abstract!Worst

\* The goroutines that the wait group counts are finitely many.
LEMMA AliveFinite ==
    IsFiniteSet(Alive) /\ Cardinality(Alive) \in 0..Cardinality(Tasks)
<1>1. IsFiniteSet(Tasks) /\ Alive \in SUBSET Tasks
  BY StateSyncAssumption DEF Alive
<1>2. IsFiniteSet(Alive) /\ Cardinality(Alive) <= Cardinality(Tasks)
  BY <1>1, FS_Subset
<1> QED
  BY <1>1, <1>2, FS_CardinalityType

\* newStateSync begins a batch without goroutines.
LEMMA BeginKeeps ==
    ASSUME SyncInv, NEW s \in RunStates, NewStateSync(s)
    PROVE  SyncInv'
<1>1. Alive' = Alive
  BY DEF NewStateSync, Alive
<1>2. SyncType'
  BY DEF SyncInv, SyncType, NewStateSync
<1>3. Reported' /\ Joining'
  BY DEF SyncInv, Reported, Joining, NewStateSync
<1>4. Stages'
  BY <1>1, StateSyncAssumption DEF SyncInv, Stages, NewStateSync, SyncType
<1> QED
  BY <1>1, <1>2, <1>3, <1>4 DEF SyncInv, NewStateSync

\* A batch that is joined can be forgotten: no goroutine is left.
LEMMA DropKeeps ==
    ASSUME SyncInv, Drop
    PROVE  SyncInv'
<1>1. \A t \in Tasks : goroutine[t] \in {"none", "done"}
  BY DEF SyncInv, Stages, Drop, SyncType, Alive
<1>2. \A t \in Tasks : goroutine'[t] = "none" /\ returned'[t] = NoState
  BY <1>1 DEF Drop
<1>3. Alive' = Alive
  BY <1>1, <1>2 DEF Alive
<1>4. SyncType'
  <2>1. goroutine' \in [Tasks -> {"none", "running", "sending", "sent", "done"}]
    BY <1>1 DEF Drop, SyncInv, SyncType
  <2> QED
    BY <2>1 DEF Drop, SyncInv, SyncType
<1>5. Reported'
  BY <1>2 DEF Reported
<1>6. Stages' /\ Joining'
  BY <1>2 DEF Stages, Joining, Drop
<1> QED
  BY <1>3, <1>4, <1>5, <1>6 DEF SyncInv, Drop

\* Every step of a goroutine, of the closer and of Wait keeps the invariant.
LEMMA TaskKeeps ==
    ASSUME SyncInv, NEW t \in Tasks, TaskStep(t)
    PROVE  SyncInv'
<1> USE DEF SyncInv
<1>1. CASE Go(t)
  <2>1. Alive' = Alive \cup {t} /\ t \notin Alive
    BY <1>1 DEF Go, Alive, SyncType
  <2>2. wg' = Cardinality(Alive')
    BY <1>1, <2>1, AliveFinite, FS_AddElement DEF Go
  <2>3. SyncType' /\ Reported' /\ Joining'
    BY <1>1 DEF Go, SyncType, Reported, Joining
  <2>4. Stages'
    BY <1>1 DEF Go, SyncType, Stages
  <2> QED
    BY <2>2, <2>3, <2>4
<1>2. CASE RunTask(t)
  <2>1. Alive' = Alive /\ Received' = Received /\ t \notin Received
    BY <1>2 DEF RunTask, Alive, Received, SyncType
  <2>2. waiter \in {"adding", "receiving"} /\ currentState \in RunStates
    BY <1>2 DEF RunTask, Stages, SyncType, Alive
  <2>3. PICK r \in RunStates : returned' = [returned EXCEPT ![t] = r]
    BY <1>2, <2>2 DEF RunTask, RunStates
  <2>4. SyncType'
    BY <1>2, <2>3 DEF RunTask, SyncType
  <2>5. Reported'
    BY <1>2, <2>3, StateSyncAssumption DEF RunTask, Reported, SyncType
  <2>6. Stages'
    BY <1>2, <2>1 DEF RunTask, Stages, SyncType
  <2>7. Joining'
    BY <1>2, <2>1, <2>3 DEF RunTask, Joining, SyncType, Received
  <2> QED
    BY <1>2, <2>1, <2>4, <2>5, <2>6, <2>7 DEF RunTask
<1>3. CASE Receive(t)
  <2>1. Alive' = Alive /\ Received' = Received \cup {t}
    BY <1>3 DEF Receive, Alive, Received, SyncType
  <2>2. returned[t] \in RunStates /\ res \in RunStates
    BY <1>3 DEF Receive, Reported, SyncType, Stages
  <2>3. res' = Abstract!Worst({currentState} \cup {returned[x] : x \in Received} \cup {returned[t]})
    BY <1>3, <2>2, CombineIsWorst DEF Receive, Joining
  <2>4. {returned[x] : x \in Received'} = {returned[x] : x \in Received} \cup {returned[t]}
    BY <2>1
  <2>5. Joining'
    <3>1. currentState' = currentState /\ returned' = returned
      BY <1>3 DEF Receive
    <3>2. {currentState} \cup {returned[x] : x \in Received} \cup {returned[t]}
             = {currentState'} \cup {returned'[x] : x \in Received'}
      BY <2>4, <3>1
    <3>3. res' = Abstract!Worst({currentState'} \cup {returned'[x] : x \in Received'})
      BY <2>3, <3>2
    <3> QED
      BY <3>3 DEF Joining
  <2>6. res' \in RunStates
    BY <2>3, WorstType
  <2>7. SyncType' /\ Reported'
    BY <1>3, <2>6 DEF Receive, SyncType, Reported
  <2>8. Stages'
    BY <1>3, <2>1, <2>6, StateSyncAssumption DEF Receive, SyncType, Stages
  <2> QED
    BY <1>3, <2>1, <2>5, <2>7, <2>8 DEF Receive
<1>4. CASE GoDone(t)
  <2>1. Alive' = Alive \ {t} /\ t \in Alive /\ Received' = Received
    BY <1>4 DEF GoDone, Alive, Received, SyncType
  <2>2. wg' = Cardinality(Alive')
    BY <1>4, <2>1, AliveFinite, FS_RemoveElement DEF GoDone
  <2>3. SyncType' /\ Reported' /\ Joining'
    BY <1>4, <2>1 DEF GoDone, SyncType, Reported, Joining
  <2>4. Stages'
    BY <1>4, <2>1 DEF GoDone, SyncType, Stages
  <2> QED
    BY <2>2, <2>3, <2>4
<1> QED
  BY <1>1, <1>2, <1>3, <1>4 DEF TaskStep

\* The channel is closed when the wait group has come to zero, and so after
\* the last send.
LEMMA StepKeeps ==
    ASSUME SyncInv, StateSyncStep
    PROVE  SyncInv'
<1> USE DEF SyncInv
<1>1. CASE Wait
  <2>1. Alive' = Alive /\ Received' = Received /\ Received = {}
    BY <1>1 DEF Wait, Alive, Received, Stages
  <2>2. currentState \in RunStates
    BY <1>1 DEF Wait, Stages, SyncType
  <2>3. SyncType' /\ Reported'
    BY <1>1 DEF Wait, SyncType, Reported
  <2>4. Stages'
    BY <1>1, <2>1 DEF Wait, Stages, SyncType
  <2>5. currentState = Abstract!Worst({currentState})
    BY <2>2 DEF RunStates, Abstract!Worst
  <2>6. Joining'
    BY <1>1, <2>1, <2>5 DEF Wait, Joining
  <2> QED
    BY <1>1, <2>1, <2>3, <2>4, <2>6 DEF Wait
<1>2. CASE Close
  <2>1. Alive' = Alive /\ Received' = Received /\ Alive = {}
    BY <1>2, AliveFinite, FS_EmptySet DEF Close, Alive, Received
  <2>2. SyncType' /\ Reported' /\ Joining'
    BY <1>2, <2>1 DEF Close, SyncType, Reported, Joining
  <2>3. Stages'
    BY <1>2, <2>1 DEF Close, Stages, SyncType
  <2> QED
    BY <1>2, <2>1, <2>2, <2>3 DEF Close
<1>3. CASE Join
  <2>1. Alive' = Alive /\ Received' = Received
    BY <1>3 DEF Join, Alive, Received
  <2>2. SyncType' /\ Reported' /\ Joining'
    BY <1>3, <2>1 DEF Join, SyncType, Reported, Joining
  <2>3. Stages'
    BY <1>3, <2>1 DEF Join, Stages, SyncType
  <2> QED
    BY <1>3, <2>1, <2>2, <2>3 DEF Join
<1>4. CASE \E t \in Tasks : TaskStep(t)
  BY <1>4, TaskKeeps
<1> QED
  BY <1>1, <1>2, <1>3, <1>4 DEF StateSyncStep

\* The rest of the engine leaves a batch alone.
LEMMA SyncStutters ==
    ASSUME SyncInv, UNCHANGED syncVars
    PROVE  SyncInv'
<1>1. Alive' = Alive /\ Received' = Received
  BY DEF Alive, Received, syncVars
<1> QED
  BY <1>1 DEF SyncInv, SyncType, Reported, Stages, Joining, syncVars

\* The invariant of a batch gives its types and that no goroutine straggles.
LEMMA SyncParts == SyncInv => StateSyncTypeOK /\ NoStraggler
<1> SUFFICES ASSUME SyncInv PROVE StateSyncTypeOK /\ NoStraggler
  OBVIOUS
<1>1. waiter = "away" => Alive = {}
  BY DEF SyncInv, Stages, Alive
<1>2. wg \in 0..Cardinality(Tasks)
  BY AliveFinite DEF SyncInv
<1>3. waiter = "away" => wg = 0
  BY <1>1, FS_EmptySet DEF SyncInv
<1>4. channel = "closed" => \A t \in Tasks : goroutine[t] \in {"none", "done"}
  BY DEF SyncInv, Stages, Alive, SyncType
<1> QED
  BY <1>2, <1>3, <1>4 DEF SyncInv, SyncType, Stages, StateSyncTypeOK, NoStraggler

-----------------------------------------------------------------------------
(* The engine                                                               *)

\* The actions that leave the batch alone.
Aside ==
    \/ Request \/ Cancel \/ Start \/ ReadLive \/ Subscribe \/ EndStep
    \/ Unsubscribe \/ CloseIgnore \/ Terminate \/ RefreshTimeout
    \/ \E w \in Watchers : \/ Emit(w) \/ TakeLock(w) \/ NextEvent(w) \/ Unlock(w)
                           \/ \E h \in Calls : \/ SkipHandler(w, h) \/ WakeEngine(w, h)
                                               \/ IgnoreHandler(w, h)
    \/ UNCHANGED vars

\* The steps of the engine: those of its batch, and those aside from it.
LEMMA NextCases ==
    ASSUME [Next]_vars
    PROVE  StartBatch \/ SyncBatch \/ EndBatch \/ Aside
BY DEF Next, EngineStep, WatcherStep, Aside

\* A step that leaves the operation alone is a stutter of the batch.
LEMMA AsideStutters ==
    ASSUME Aside
    PROVE  UNCHANGED syncVars
BY DEF Aside, Request, Cancel, Start, ReadLive, Subscribe, EndStep, Unsubscribe,
       CloseIgnore, Terminate, RefreshTimeout, Emit, TakeLock, NextEvent, Unlock,
       SkipHandler, WakeEngine, IgnoreHandler, vars

\* Whatever a step of the engine does, its batch keeps the invariant.
LEMMA EngineSync ==
    ASSUME EngineInv, [Next]_vars
    PROVE  SyncInv'
<1>1. CASE StartBatch
  BY <1>1, BeginKeeps DEF StartBatch, EngineInv, EngineTypeOK
<1>2. CASE SyncBatch
  BY <1>2, StepKeeps DEF SyncBatch, EngineInv
<1>3. CASE EndBatch
  BY <1>3, DropKeeps DEF EndBatch, EngineInv
<1>4. CASE Aside
  BY <1>4, AsideStutters, SyncStutters DEF EngineInv
<1> QED
  BY <1>1, <1>2, <1>3, <1>4, NextCases

\* The variables of EngineTypeOK that are not the batch's.
CallType ==
    /\ pc \in Pcs
    /\ requests \in 0..(MaxCalls - 1) /\ call \in 0..(requests + 1)
    /\ phase \in {"Running", "Succeeded", "Failed", "Error"} /\ cancelled \in BOOLEAN
    /\ batches \in 0..MaxBatches /\ state \in RunStates
    /\ managed \in [Calls -> SUBSET Keys]
    /\ handlers \subseteq Calls /\ closed \subseteq Calls
WatchType ==
    /\ lock \in Watchers \cup {NoOne} /\ emitted \in 0..MaxEvents
    /\ queue \in [Watchers -> Seq(Keys)] /\ batch \in [Watchers -> Seq(Keys)]
    /\ notifying \in [Watchers -> SUBSET Calls]

\* The parts of the type invariant, one by one.
LEMMA EngineTypeParts ==
    EngineTypeOK <=> StateSyncTypeOK /\ CallType /\ WatchType
BY DEF EngineTypeOK, CallType, WatchType

\* A call that has begun is one of the bounded calls.
LEMMA CallInCalls ==
    ASSUME EngineInv, pc # "idle"
    PROVE  call \in Calls
BY EngineAssumption DEF EngineInv, EngineTypeOK, InCall, Calls

\* A step of the call keeps the type of its variables.
LEMMA CallTypeKept ==
    ASSUME EngineInv, [Next]_vars
    PROVE  CallType'
<1>0. CallType /\ SyncInv
  BY EngineTypeParts DEF EngineInv
<1> USE <1>0, EngineAssumption DEF CallType
<1>1. CASE Request
  BY <1>1 DEF Request, engineVars
<1>2. CASE Cancel
  BY <1>2 DEF Cancel, agentVars
<1>3. CASE Start
  <2>1. requests' = requests /\ call' = call + 1 /\ call' \in 0..(requests' + 1)
    BY <1>3 DEF Start
  <2>2. /\ pc' = "read" /\ phase' = "Running" /\ cancelled' = FALSE
        /\ UNCHANGED <<batches, state, managed, handlers, closed>>
    BY <1>3 DEF Start
  <2> QED
    BY <2>1, <2>2 DEF Pcs
<1>4. CASE ReadLive
  BY <1>4, CallInCalls DEF ReadLive, agentVars, Pcs
<1>5. CASE Subscribe
  BY <1>5, CallInCalls DEF Subscribe, agentVars, Pcs
<1>6. CASE StartBatch
  BY <1>6 DEF StartBatch, agentVars
<1>7. CASE SyncBatch
  BY <1>7 DEF SyncBatch, agentVars, engineVars
<1>8. CASE EndBatch
  <2>1. res \in RunStates
    BY <1>8 DEF EndBatch, Drop, SyncInv, SyncType, Stages
  <2> QED
    BY <1>8, <2>1 DEF EndBatch, agentVars
<1>9. CASE EndStep
  BY <1>9 DEF EndStep, agentVars, Pcs, RunStates
<1>10. CASE Unsubscribe \/ Terminate \/ RefreshTimeout
  BY <1>10 DEF Unsubscribe, Terminate, RefreshTimeout, agentVars, Pcs
<1>11. CASE CloseIgnore
  BY <1>11, CallInCalls DEF CloseIgnore, agentVars, Pcs
<1>12. ASSUME NEW w \in Watchers, NEW h \in Calls, WakeEngine(w, h)
       PROVE  CallType'
  BY <1>12 DEF WakeEngine, agentVars, Pcs
<1>13. ASSUME NEW w \in Watchers, NEW h \in Calls,
              Emit(w) \/ TakeLock(w) \/ WatcherStep(w)
       PROVE  CallType'
  BY <1>13 DEF WatcherStep, Emit, TakeLock, NextEvent, Unlock, SkipHandler,
     IgnoreHandler, agentVars, engineVars
<1>14. CASE UNCHANGED vars
  BY <1>14 DEF vars, agentVars, engineVars
<1>15. Calls # {}
  BY DEF Calls
<1> QED
  BY <1>1, <1>2, <1>3, <1>4, <1>5, <1>6, <1>7, <1>8, <1>9, <1>10, <1>11,
     <1>12, <1>13, <1>14, <1>15 DEF Next, EngineStep

\* An event is taken from the queue into the batch, and one after the other
\* from the batch.
LEMMA WatchTypeKept ==
    ASSUME EngineInv, [Next]_vars
    PROVE  WatchType'
<1>0. WatchType /\ handlers \subseteq Calls
  BY EngineTypeParts DEF EngineInv, CallType
<1> USE <1>0, EngineAssumption DEF WatchType
<1>1. ASSUME NEW w \in Watchers, Emit(w)
      PROVE  WatchType'
  <2>1. PICK k \in Keys : queue' = [queue EXCEPT ![w] = Append(@, k)]
    BY <1>1 DEF Emit
  <2>2. Append(queue[w], k) \in Seq(Keys)
    BY AppendProperties
  <2> QED
    BY <1>1, <2>1, <2>2 DEF Emit
<1>2. ASSUME NEW w \in Watchers, TakeLock(w)
      PROVE  WatchType'
  <2> DEFINE n == IF BatchEvents THEN Len(queue[w]) ELSE 1
  <2>1. queue[w] \in Seq(Keys) /\ n \in 1..Len(queue[w])
    BY <1>2, EmptySeq DEF TakeLock
  <2>2. SubSeq(queue[w], 1, n) \in Seq(Keys)
    BY <2>1, SubSeqProperties
  <2>3. SubSeq(queue[w], n + 1, Len(queue[w])) \in Seq(Keys)
    BY <2>1, SubSeqProperties
  <2> QED
    BY <1>2, <2>2, <2>3 DEF TakeLock
<1>3. ASSUME NEW w \in Watchers, NextEvent(w)
      PROVE  WatchType'
  <2>1. Tail(batch[w]) \in Seq(Keys)
    BY <1>3, HeadTailProperties DEF NextEvent
  <2> QED
    BY <1>3, <2>1 DEF NextEvent
<1>4. ASSUME NEW w \in Watchers, Unlock(w)
      PROVE  WatchType'
  BY <1>4 DEF Unlock
<1>5. ASSUME NEW w \in Watchers, NEW h \in Calls,
             SkipHandler(w, h) \/ IgnoreHandler(w, h) \/ WakeEngine(w, h)
      PROVE  WatchType'
  BY <1>5 DEF SkipHandler, IgnoreHandler, WakeEngine, Told
<1>6. CASE UNCHANGED cacheVars
  BY <1>6 DEF cacheVars
<1>7. CASE Request \/ Cancel \/ EngineStep \/ Terminate \/ RefreshTimeout
           \/ UNCHANGED vars
  BY <1>6, <1>7 DEF EngineStep, Request, Cancel, Start, ReadLive, Subscribe,
     StartBatch, SyncBatch, EndBatch, EndStep, Unsubscribe, CloseIgnore,
     Terminate, RefreshTimeout, vars
<1> QED
  BY <1>1, <1>2, <1>3, <1>4, <1>5, <1>7 DEF Next, WatcherStep

\* A call subscribes inside a step, leaves its step with no batch going on,
\* and unsubscribes before it closes resIgnore and returns.
LEMMA ReceiversKept ==
    ASSUME EngineInv, [Next]_vars
    PROVE  InCall' /\ Subscribed' /\ HandlersHaveAReceiver'
<1>0. /\ EngineTypeOK /\ SyncInv /\ InCall /\ Subscribed /\ HandlersHaveAReceiver
      /\ notifying \in [Watchers -> SUBSET Calls] /\ call \in Nat
  BY DEF EngineInv, EngineTypeOK
<1> USE <1>0 DEF InCall, Subscribed, HandlersHaveAReceiver
<1>1. CASE Request \/ Cancel
  BY <1>1 DEF Request, Cancel, agentVars, engineVars, cacheVars, syncVars
<1>2. CASE Start
  BY <1>2 DEF Start, cacheVars, syncVars
<1>3. CASE ReadLive \/ Subscribe
  BY <1>3 DEF ReadLive, Subscribe, agentVars, cacheVars, syncVars
<1>4. CASE StartBatch \/ SyncBatch \/ EndBatch
  BY <1>4 DEF StartBatch, SyncBatch, EndBatch, agentVars, engineVars, cacheVars
<1>5. CASE EndStep
  BY <1>5 DEF EndStep, agentVars, cacheVars, syncVars
<1>6. CASE Terminate \/ RefreshTimeout
  BY <1>6 DEF Terminate, RefreshTimeout, agentVars, cacheVars, syncVars
<1>7. CASE Unsubscribe
  BY <1>7 DEF Unsubscribe, agentVars, cacheVars, syncVars
<1>8. CASE CloseIgnore
  BY <1>8 DEF CloseIgnore, agentVars, cacheVars, syncVars
<1>9. ASSUME NEW w \in Watchers, TakeLock(w) \/ NextEvent(w)
      PROVE  InCall' /\ Subscribed' /\ HandlersHaveAReceiver'
  <2>1. notifying' = [notifying EXCEPT ![w] = handlers]
    BY <1>9 DEF TakeLock, NextEvent
  <2>2. UNCHANGED <<call, pc, handlers, closed, waiter>>
    BY <1>9 DEF TakeLock, NextEvent, agentVars, engineVars, syncVars
  <2> QED
    BY <2>1, <2>2
<1>10. ASSUME NEW w \in Watchers, Emit(w) \/ Unlock(w)
       PROVE  InCall' /\ Subscribed' /\ HandlersHaveAReceiver'
  BY <1>10 DEF Emit, Unlock, agentVars, engineVars, syncVars
<1>11. ASSUME NEW w \in Watchers, NEW h \in Calls, SkipHandler(w, h) \/ IgnoreHandler(w, h)
       PROVE  InCall' /\ Subscribed' /\ HandlersHaveAReceiver'
  BY <1>11 DEF SkipHandler, IgnoreHandler, Told, agentVars, engineVars, syncVars
<1>12. ASSUME NEW w \in Watchers, NEW h \in Calls, WakeEngine(w, h)
       PROVE  InCall' /\ Subscribed' /\ HandlersHaveAReceiver'
  BY <1>12 DEF WakeEngine, Told, agentVars, syncVars
<1>13. CASE UNCHANGED vars
  BY <1>13 DEF vars, agentVars, engineVars, cacheVars, syncVars
<1> QED
  BY <1>1, <1>2, <1>3, <1>4, <1>5, <1>6, <1>7, <1>8, <1>9, <1>10, <1>11, <1>12,
     <1>13 DEF Next, EngineStep, WatcherStep

\* The loop starts with its invariant.
LEMMA EngineInit == Init => EngineInv
<1> SUFFICES ASSUME Init PROVE EngineInv
  OBVIOUS
<1> USE EngineAssumption DEF Init, StateSyncInit
<1>1. Alive = {} /\ Cardinality(Alive) = 0
  BY FS_EmptySet DEF Alive
<1>2. SyncInv
  BY <1>1 DEF SyncInv, SyncType, Reported, Stages, Joining
<1>3. CallType
  <2>1. 0 \in 0..(MaxCalls - 1) /\ 0 \in 0..(0 + 1) /\ 0 \in 0..MaxBatches
    OBVIOUS
  <2>2. managed \in [Calls -> SUBSET Keys]
    OBVIOUS
  <2>3. requests \in 0..(MaxCalls - 1) /\ call \in 0..(requests + 1) /\ batches \in 0..MaxBatches
    BY <2>1, Zenon
  <2>4. pc \in Pcs /\ state \in RunStates /\ cancelled \in BOOLEAN
    BY DEF Pcs, RunStates
  <2> QED
    BY <2>2, <2>3, <2>4 DEF CallType
<1>4. WatchType
  BY DEF WatchType
<1>5. InCall /\ Subscribed /\ HandlersHaveAReceiver
  BY DEF InCall, Subscribed, HandlersHaveAReceiver
<1> QED
  BY <1>2, <1>3, <1>4, <1>5, SyncParts, EngineTypeParts DEF EngineInv

\* Each step of the loop keeps its invariant.
LEMMA EngineKept == EngineInv /\ [Next]_vars => EngineInv'
<1> SUFFICES ASSUME EngineInv, [Next]_vars PROVE EngineInv'
  OBVIOUS
<1>1. SyncInv'
  BY EngineSync
<1>2. StateSyncTypeOK'
  BY <1>1, SyncParts, PTL
<1>3. EngineTypeOK'
  BY <1>2, CallTypeKept, WatchTypeKept DEF EngineTypeOK, CallType, WatchType
<1> QED
  BY <1>1, <1>3, ReceiversKept DEF EngineInv

\* The invariant of the loop holds in every state.
LEMMA EngineInvariant == Spec => []EngineInv
BY EngineInit, EngineKept, PTL DEF Spec

\* Every variable of the engine and of its batches holds a value the code can
\* produce, however many tasks, calls, watchers and events there are.
THEOREM EngineTypeCorrect == Spec => []EngineTypeOK
<1>1. EngineInv => EngineTypeOK
  BY DEF EngineInv
<1> QED
  BY <1>1, EngineInvariant, PTL

\* No handler waits with the cache's lock held for a call that has returned:
\* for any interleaving of watchers, calls, timers and cancellations.
THEOREM ReceiverCorrect == Spec => []HandlersHaveAReceiver
<1>1. EngineInv => HandlersHaveAReceiver
  BY DEF EngineInv
<1> QED
  BY <1>1, EngineInvariant, PTL

\* When syncCtx.Sync() returns no goroutine of its batches is left, and the
\* results channel is closed only after the last send.
THEOREM NothingLeftCorrect == Spec => []NothingLeftBehind
<1>1. EngineInv => NothingLeftBehind
  BY SyncParts DEF EngineInv, InCall, SyncInv, Stages, NothingLeftBehind
<1> QED
  BY <1>1, EngineInvariant, PTL

-----------------------------------------------------------------------------
(* stateSync implements Batch                                               *)

Members == {t \in Tasks : goroutine[t] # "none"}
Result == IF waiter = "joined" THEN res ELSE NoState

\* The loop starts as a batch does.
LEMMA RefinesInit == Init => Abstract!BatchInit
BY DEF Init, StateSyncInit, Abstract!BatchInit

\* A step of the engine that is not one of a batch is a stutter of Batch.
LEMMA RefinesStutter ==
    ASSUME UNCHANGED syncVars
    PROVE  UNCHANGED Abstract!batchVars
BY DEF syncVars, Abstract!batchVars

\* newStateSync begins the batch, and a stateSync that is dropped is forgotten.
LEMMA RefinesEnds ==
    ASSUME SyncInv, Drop \/ \E s \in RunStates : NewStateSync(s)
    PROVE  Abstract!BatchNext
<1> USE DEF SyncInv
<1>1. CASE \E s \in RunStates : NewStateSync(s)
  <2>1. Abstract!Begin
    BY <1>1 DEF NewStateSync, Stages, Abstract!Begin, Abstract!RunStates, RunStates
  <2> QED
    BY <2>1 DEF Abstract!BatchNext
<1>2. CASE Drop
  <2>1. \A t \in Tasks : goroutine'[t] = "none"
    BY <1>2 DEF Drop, Stages, SyncType, Alive
  <2>2. Abstract!Forget
    BY <1>2, <2>1 DEF Drop, Stages, Abstract!Forget
  <2> QED
    BY <2>2 DEF Abstract!BatchNext
<1> QED
  BY <1>1, <1>2

\* A goroutine that starts is a task handed over, one whose function returns
\* is a task finished; what the channel and the wait group do is not seen.
LEMMA RefinesTask ==
    ASSUME SyncInv, NEW t \in Tasks, TaskStep(t)
    PROVE  [Abstract!BatchNext]_Abstract!batchVars
<1> USE DEF SyncInv
<1>1. CASE Go(t)
  <2>1. Abstract!Hand(t)
    BY <1>1, StateSyncAssumption DEF Go, Stages, SyncType, Abstract!Hand
  <2> QED
    BY <2>1 DEF Abstract!BatchNext
<1>2. CASE RunTask(t)
  <2>1. waiter # "joined" /\ currentState \in RunStates
    BY <1>2 DEF RunTask, Stages, SyncType, Alive
  <2>2. Members' = Members /\ t \in Members
    BY <1>2 DEF RunTask, Members, SyncType
  <2>3. returned[t] = NoState
    BY <1>2 DEF RunTask, Reported
  <2>4. \E r \in {currentState, "pending", "failed"} : returned' = [returned EXCEPT ![t] = r]
    BY <1>2 DEF RunTask
  <2>5. Abstract!Finish(t)
    BY <1>2, <2>1, <2>2, <2>3, <2>4 DEF RunTask, Members, Abstract!Finish
  <2> QED
    BY <2>5 DEF Abstract!BatchNext
<1>3. CASE Receive(t) \/ GoDone(t)
  <2>1. Members' = Members
    BY <1>3 DEF Receive, GoDone, Members, SyncType
  <2>2. Result' = Result /\ UNCHANGED <<currentState, returned>>
    BY <1>3 DEF Receive, GoDone, Result
  <2> QED
    BY <2>1, <2>2 DEF Members, Result, Abstract!batchVars
<1> QED
  BY <1>1, <1>2, <1>3 DEF TaskStep

\* Wait returns, and the batch concludes, when the closed channel is drained:
\* then every task has returned and every result is received.
LEMMA RefinesStep ==
    ASSUME SyncInv, StateSyncStep
    PROVE  [Abstract!BatchNext]_Abstract!batchVars
<1> USE DEF SyncInv
<1>1. CASE Wait \/ Close
  <2>1. Members' = Members /\ Result' = Result /\ UNCHANGED <<currentState, returned>>
    BY <1>1 DEF Wait, Close, Members, Result, Stages
  <2> QED
    BY <2>1 DEF Members, Result, Abstract!batchVars
<1>2. CASE Join
  <2>1. \A t \in Tasks : goroutine[t] \in {"none", "done"}
    BY <1>2 DEF Join, Stages, SyncType, Alive
  <2>2. Members = Received
    BY <2>1 DEF Members, Received
  <2>3. res = Abstract!Worst({currentState} \cup {returned[t] : t \in Members})
    BY <1>2, <2>2 DEF Join, Joining
  <2>4. \A t \in Members : returned[t] # NoState
    BY <2>1 DEF Members, Reported
  <2>5. Members' = Members /\ Result = NoState /\ Result' = res
    BY <1>2 DEF Join, Members, Result
  <2>6. currentState # NoState /\ UNCHANGED <<currentState, returned>>
    BY <1>2 DEF Join, Stages
  <2>7. Abstract!Conclude
    BY <2>3, <2>4, <2>5, <2>6 DEF Members, Result, Abstract!Conclude
  <2> QED
    BY <2>7 DEF Abstract!BatchNext
<1>3. CASE \E t \in Tasks : TaskStep(t)
  BY <1>3, RefinesTask
<1> QED
  BY <1>1, <1>2, <1>3 DEF StateSyncStep

\* Each step of the loop is a step of the batch, or a stutter.
LEMMA RefinesNext ==
    EngineInv /\ [Next]_vars => [Abstract!BatchNext]_Abstract!batchVars
<1> SUFFICES ASSUME EngineInv, [Next]_vars
             PROVE  [Abstract!BatchNext]_Abstract!batchVars
  OBVIOUS
<1>1. CASE StartBatch \/ EndBatch
  <2>1. Drop \/ \E s \in RunStates : NewStateSync(s)
    BY <1>1 DEF StartBatch, EndBatch, EngineInv, EngineTypeOK
  <2> QED
    BY <2>1, RefinesEnds DEF EngineInv
<1>2. CASE SyncBatch
  BY <1>2, RefinesStep DEF SyncBatch, EngineInv
<1>3. CASE Aside
  BY <1>3, AsideStutters, RefinesStutter
<1> QED
  BY <1>1, <1>2, <1>3, NextCases

\* Goroutines, channel and wait group together run every task of a batch once
\* and return the worst of all their states, for any number of tasks and in
\* whatever order they finish: Wait cannot miss, or count twice, a result.
THEOREM BatchImplemented == Spec => ImplementsBatch
BY RefinesInit, RefinesNext, EngineInvariant, PTL DEF Spec, ImplementsBatch, Abstract!BatchSpec
=============================================================================
