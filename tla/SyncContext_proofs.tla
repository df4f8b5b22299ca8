------------------------- MODULE SyncContext_proofs -------------------------
(***************************************************************************)
(* Proofs about SyncContext for every set of tasks, every option and every *)
(* bound.  First type correctness, that no wave starts on unfinished work, *)
(* and how an operation ends: success is not decided on unfinished work,   *)
(* SyncFail hooks run after a failure and then nothing else does, a dry    *)
(* run changes nothing but old hooks.                                      *)
(*                                                                         *)
(* Then what becomes of the objects, and of the hooks above all: running   *)
(* hooks keep their objects, success rests on the applied version, pruned  *)
(* objects are gone before the next wave, Terminate() stops the hooks that *)
(* it sees; a successful operation has deleted the hooks it should, no     *)
(* hook runs twice, and no finalizer is left behind.                       *)
(***************************************************************************)
EXTENDS SyncContext, TLAPS

-----------------------------------------------------------------------------
(* Types of the operators on objects                                        *)

\* A DELETE request marks an object, and yields well-formed objects.
LEMMA MarkedDeletedType ==
    ASSUME NEW o \in Objects, cluster \in [Objects -> KubeObjects \cup {NoObj}]
    PROVE  MarkedDeleted(o) \in [Objects -> KubeObjects \cup {NoObj}]
<1>1. CASE cluster[o] = NoObj
  BY <1>1 DEF MarkedDeleted
<1>2. CASE cluster[o] # NoObj
  <2>1. cluster[o] \in KubeObjects
    BY <1>2
  <2>2. [cluster[o] EXCEPT !.deleting = TRUE] \in KubeObjects
    BY <2>1 DEF KubeObjects
  <2> QED
    BY <1>2, <2>2 DEF MarkedDeleted
<1> QED
  BY <1>1, <1>2

\* Removing the hook finalizer yields well-formed objects.
LEMMA WithoutFinalizerType ==
    ASSUME NEW o \in Objects, NEW objs \in [Objects -> KubeObjects \cup {NoObj}]
    PROVE  WithoutFinalizer(objs, o) \in [Objects -> KubeObjects \cup {NoObj}]
<1>1. CASE objs[o] = NoObj
  BY <1>1 DEF WithoutFinalizer
<1>2. CASE objs[o] # NoObj
  <2>1. objs[o] \in KubeObjects
    BY <1>2
  <2>2. [objs[o] EXCEPT !.finalizer = FALSE] \in KubeObjects
    BY <2>1 DEF KubeObjects
  <2> QED
    BY <1>2, <2>2 DEF WithoutFinalizer
<1> QED
  BY <1>1, <1>2

\* Applying a task's target yields well-formed objects.
LEMMA AppliedType ==
    ASSUME NEW t \in Tasks, cluster \in [Objects -> KubeObjects \cup {NoObj}]
    PROVE  Applied(t) \in [Objects -> KubeObjects \cup {NoObj}]
<1> DEFINE o == Obj[t]
           del == cluster[o] # NoObj /\ cluster[o].deleting
           fin == t \in Hooks \/ (cluster[o] # NoObj /\ cluster[o].finalizer)
           new == [health |-> NewHealth(o), deleting |-> del,
                   finalizer |-> fin, applied |-> TRUE]
<1>1. o \in Objects
  BY TaskAssumption
<1>2. NewHealth(o) \in Healths
  BY DEF NewHealth, Healths
<1>3. del \in BOOLEAN /\ fin \in BOOLEAN
  OBVIOUS
<1>4. Applied(t) = [cluster EXCEPT ![o] = new]
  BY DEF Applied
<1>5. new \in KubeObjects
  <2> HIDE DEF del, fin, o
  <2> QED
    BY <1>2, <1>3 DEF KubeObjects
<1> QED
  <2> HIDE DEF new, o
  <2> QED
    BY <1>1, <1>4, <1>5

-----------------------------------------------------------------------------
(* Types of the operators on results                                        *)

ResType == syncRes \in [Tasks -> Results \cup {NoResult}]
ObjType == /\ cluster \in [Objects -> KubeObjects \cup {NoObj}]
           /\ live \in [Objects -> KubeObjects \cup {NoObj}]
ControlType ==
    /\ pc \in RunStages \cup Cleaning \cup
             {"idle", "dryrun", "update", "unhook", "terminate", "terminateRunning"}
    /\ site \in {"none", "ns", "wet", "fail"}
    /\ batch \subseteq Tasks
    /\ todo \subseteq Tasks
    /\ run \in {"successful", "pending", "failed"}
SavedType == /\ opPhase \in OpPhases
             /\ saved \in [phase : OpPhases, res : [Tasks -> Results \cup {NoResult}]]
CountType == /\ validated \subseteq Tasks
             /\ faults \in 0..MaxFaults
             /\ crashes \in 0..MaxCrashes
             /\ dryRun \in BOOLEAN
             /\ nsTasks \subseteq AutoNs

\* The parts of the type invariant.
LEMMA TypeParts == TypeOK <=> ResType /\ ObjType /\ ControlType /\ SavedType /\ CountType
BY DEF TypeOK, ResType, ObjType, ControlType, SavedType, CountType

\* The same parts, after a step.
LEMMA TypePartsNext ==
    ASSUME ResType', ObjType', ControlType', SavedType', CountType'
    PROVE  TypeOK'
BY DEF TypeOK, ResType, ObjType, ControlType, SavedType, CountType

\* The views of a task's result have the types of its fields.
LEMMA ViewType ==
    ASSUME ResType, NEW t \in Tasks
    PROVE  OpState(t) \in OpPhases /\ SyncStatus(t) \in Codes
BY DEF ResType, OpState, SyncStatus, Results, OpPhases, Codes

\* Recording a result keeps the map of results well formed.
LEMMA SetResultType ==
    ASSUME ResType, NEW t \in Tasks, NEW s \in Codes, NEW p \in OpPhases,
           SetResourceResult(t, s, p)
    PROVE  ResType'
BY DEF ResType, SetResourceResult, Results

\* A return sets and saves well-formed results.
LEMMA ReturnType ==
    ASSUME NEW p \in OpPhases, NEW r \in [Tasks -> Results \cup {NoResult}],
           Return(p, r)
    PROVE  ResType' /\ SavedType' /\ ControlType'
BY DEF Return, ResType, SavedType, ControlType

\* The phase of a hook is read from its object's health.
LEMMA HookPhaseType ==
    ASSUME NEW obj \in KubeObjects
    PROVE  HookPhase(obj) \in {"Failed", "Running", "Succeeded", "Error"}
<1>1. ResourceHealth(obj) \in Healths
  BY DEF ResourceHealth, KubeObjects, Healths
<1> QED
  BY <1>1 DEF HookPhase, Healths

\* What the update of a running task records is a result.
LEMMA UpdatedType ==
    ASSUME ResType, ObjType, NEW t \in Tasks, HasLive(t)
    PROVE  Updated(t) \in Results
<1>1. LiveObj(t) \in KubeObjects
  BY TaskAssumption DEF ObjType, LiveObj, HasLive
<1>2. SyncStatus(t) \in Codes
  BY ViewType
<1>3. CASE t \in Hooks
  <2>1. HookPhase(LiveObj(t)) \in OpPhases
    BY <1>1, HookPhaseType DEF OpPhases
  <2> QED
    BY <1>3, <2>1 DEF Updated, Results, Codes
<1>4. CASE t \notin Hooks
  BY <1>2, <1>4 DEF Updated, Results, OpPhases
<1> QED
  BY <1>3, <1>4

\* The results after the update of the running tasks are well formed.
LEMMA UpdateType ==
    ASSUME ResType, ObjType
    PROVE  UpdateResults \in [Tasks -> Results \cup {NoResult}]
BY UpdatedType DEF UpdateResults, ResType

\* So are those of the dry run and those of a prune task.
LEMMA DryRunType ==
    ASSUME ResType, NEW bad
    PROVE  DryRunResults(bad) \in [Tasks -> Results \cup {NoResult}]
<1>1. \A t \in Tasks : PruneResult(t) \in Results
  BY DEF PruneResult, Results, Codes, OpPhases
<1> QED
  BY <1>1 DEF DryRunResults, ResType, Results, Codes, OpPhases

\* What pruneObject records is a result.
LEMMA PruneResultType ==
    ASSUME NEW t \in Tasks
    PROVE  PruneResult(t) \in Results
BY DEF PruneResult, Results, Codes, OpPhases

\* A call to the API server, done or failed, yields well-formed objects.
LEMMA ApiType ==
    ASSUME NEW after \in [Objects -> KubeObjects \cup {NoObj}],
           cluster \in [Objects -> KubeObjects \cup {NoObj}],
           faults \in 0..MaxFaults,
           ApiDone(after) \/ ApiError(after)
    PROVE  /\ cluster' \in [Objects -> KubeObjects \cup {NoObj}]
           /\ faults' \in 0..MaxFaults
BY BoundAssumption DEF ApiDone, ApiError

\* The removal of a finalizer, done or failed.
LEMMA FinalizerType ==
    ASSUME ObjType, faults \in 0..MaxFaults, NEW o \in Objects,
           RemoveFinalizer(o) \/ FailToRemoveFinalizer(o)
    PROVE  ObjType' /\ faults' \in 0..MaxFaults
<1>1. /\ WithoutFinalizer(live, o) \in [Objects -> KubeObjects \cup {NoObj}]
      /\ WithoutFinalizer(cluster, o) \in [Objects -> KubeObjects \cup {NoObj}]
  BY WithoutFinalizerType DEF ObjType
<1>2. live' = WithoutFinalizer(live, o)
  BY DEF RemoveFinalizer, FailToRemoveFinalizer
<1>3. CASE RemoveFinalizer(o)
  BY <1>1, <1>2, <1>3, ApiType DEF RemoveFinalizer, ObjType
<1>4. CASE FailToRemoveFinalizer(o)
  BY <1>1, <1>2, <1>4, ApiType DEF FailToRemoveFinalizer, ObjType
<1> QED
  BY <1>3, <1>4

-----------------------------------------------------------------------------
(* Type correctness                                                         *)

\* The operation starts with values of these types.
LEMMA TypeInit == Init => TypeOK
<1> SUFFICES ASSUME Init PROVE TypeOK
  OBVIOUS
<1>1. PICK old \in [Existing -> OldObjects \cup {NoObj}] :
         cluster = [o \in Objects |-> IF o \in Existing THEN old[o] ELSE NoObj]
  BY DEF Init
<1>2. ObjType
  BY <1>1 DEF Init, ObjType, OldObjects
<1>3. ResType /\ SavedType
  BY DEF Init, ResType, SavedType, OpPhases
<1>4. ControlType
  BY DEF Init, ControlType
<1>5. /\ validated \subseteq Tasks /\ faults \in 0..MaxFaults
      /\ crashes \in 0..MaxCrashes /\ dryRun \in BOOLEAN
      /\ nsTasks \subseteq AutoNs
  <2>1. 0 \in 0..MaxFaults /\ 0 \in 0..MaxCrashes
    BY BoundAssumption
  <2> QED
    BY <2>1, OptionAssumption DEF Init
<1>6. CountType
  BY <1>5 DEF CountType
<1> QED
  BY <1>2, <1>3, <1>4, <1>6, TypeParts

\* The first steps of Sync() preserve the types.
LEMMA TypeStart ==
    ASSUME TypeOK,
           StartInvalid \/ StartNsUnknown \/ StartAgain \/ StartFirst \/ DryRunStep
    PROVE  TypeOK'
<1> USE TypeParts, TypePartsNext
<1>1. CASE StartInvalid
  <2>1. PICK t \in Tasks :
           Return("Failed", [syncRes EXCEPT ![t] = [status |-> "SyncFailed", phase |-> ""]])
    BY <1>1 DEF StartInvalid, CurTasks
  <2>2. [status |-> "SyncFailed", phase |-> ""] \in Results
    BY DEF Results, Codes, OpPhases
  <2>3. [syncRes EXCEPT ![t] = [status |-> "SyncFailed", phase |-> ""]]
           \in [Tasks -> Results \cup {NoResult}]
    BY <2>1, <2>2 DEF ResType
  <2>4. ResType' /\ SavedType' /\ ControlType'
    BY <2>1, <2>3, ReturnType DEF OpPhases
  <2>5. /\ faults < MaxFaults
        /\ faults' = faults + 1
        /\ UNCHANGED <<cluster, live, validated, crashes, dryRun>>
        /\ nsTasks' \subseteq AutoNs
    BY <1>1 DEF StartInvalid, autoCreateNamespace
  <2>6. ObjType' /\ CountType'
    BY <2>5, BoundAssumption DEF ObjType, CountType
  <2> QED
    BY <2>4, <2>6
<1>2. CASE StartNsUnknown
  <2>1. PICK t \in AutoNs : nsTasks' = {t} /\ SetResourceResult(t, "SyncFailed", "Error")
    BY <1>2 DEF StartNsUnknown, appendFailedNsTask
  <2>2. ResType'
    BY <2>1, KindAssumption, SetResultType DEF Codes, OpPhases
  <2> QED
    BY <1>2, <2>1, <2>2, BoundAssumption
    DEF StartNsUnknown, GoTo, ObjType, CountType, SavedType, ControlType
<1>3. CASE StartAgain
  BY <1>3 DEF StartAgain, autoCreateNamespace, GoTo, ObjType, ResType, CountType,
              SavedType, ControlType
<1>4. CASE StartFirst
  <2>1. ControlType' /\ SavedType'
    BY <1>4, KindAssumption
    DEF StartFirst, GoTo, RunTasks, SavedType, ControlType, RunStages
  <2> QED
    BY <1>4, <2>1 DEF StartFirst, autoCreateNamespace, ObjType, ResType, CountType
<1>5. CASE DryRunStep
  <2>1. ObjType' /\ CountType'
    BY <1>5, BoundAssumption
    DEF DryRunStep, ObjType, CountType, DryRunCreates, DryRunTasks, CurTasks
  <2>2. ASSUME GoTo("update", {}), syncRes' \in {syncRes, DryRunResults({})}
        PROVE  ResType' /\ SavedType' /\ ControlType'
    BY <1>5, <2>2, DryRunType
    DEF DryRunStep, GoTo, ResType, SavedType, ControlType
  <2>3. ASSUME NEW t, Return("Failed", DryRunResults({t}))
        PROVE  ResType' /\ SavedType' /\ ControlType'
    BY <2>3, DryRunType, ReturnType DEF OpPhases
  <2> QED
    BY <1>5, <2>1, <2>2, <2>3 DEF DryRunStep
<1> QED
  BY <1>1, <1>2, <1>3, <1>4, <1>5

\* So do the steps that evaluate the tasks.
LEMMA TypeEvaluate ==
    ASSUME TypeOK, UpdateStep \/ Decide \/ \E t \in Tasks : Unhook(t)
    PROVE  TypeOK'
<1> USE TypeParts, TypePartsNext
<1>1. CASE UpdateStep
  <2>1. UpdateResults \in [Tasks -> Results \cup {NoResult}]
    BY UpdateType
  <2>2. ASSUME Return("Running", UpdateResults)
        PROVE  ResType' /\ SavedType' /\ ControlType'
    BY <2>1, <2>2, ReturnType DEF OpPhases
  <2>3. ASSUME NEW ts \in SUBSET Tasks, GoTo("unhook", ts),
               UNCHANGED <<site, batch, run>>
        PROVE  ResType' /\ SavedType' /\ ControlType'
    BY <1>1, <2>1, <2>3 DEF UpdateStep, GoTo, ResType, SavedType, ControlType
  <2>4. ResType' /\ SavedType' /\ ControlType'
    BY <1>1, <2>2, <2>3, KindAssumption DEF UpdateStep, CompletedHooks, CurTasks
  <2> QED
    BY <1>1, <2>4 DEF UpdateStep, ObjType, CountType
<1>2. ASSUME NEW t \in Tasks, Unhook(t)
      PROVE  TypeOK'
  <2>1. ObjType' /\ faults' \in 0..MaxFaults
    BY <1>2, FinalizerType, TaskAssumption DEF Unhook, CountType
  <2>2. ResType'
    BY <1>2, ViewType, SetResultType DEF Unhook, OpPhases, ResType
  <2> QED
    BY <1>2, <2>1, <2>2 DEF Unhook, CountType, SavedType, ControlType
<1>3. CASE Decide
  <2>1. ControlType' /\ SavedType'
    BY <1>3, KindAssumption
    DEF Decide, GoTo, RunTasks, FirstStep, NextTasks, MainTasks, CurTasks,
        DeletedOnSuccess, DeletedOnFailure, SavedType, ControlType,
        RunStages, Cleaning, OpPhases
  <2> QED
    BY <1>3, <2>1 DEF Decide, ObjType, ResType, CountType
<1> QED
  BY <1>1, <1>2, <1>3

\* So do the loops of runTasks.
LEMMA TypeRun ==
    ASSUME TypeOK,
           \/ \E t \in Tasks : FinalizerStep(t) \/ PruneStep(t) \/ DeleteStep(t)
                                \/ CreateStep(t)
           \/ FinalizersDone \/ PruneDone \/ DeleteDone \/ CreateDone
    PROVE  TypeOK'
<1> USE TypeParts, TypePartsNext
<1> \A t \in Tasks : Obj[t] \in Objects
  BY TaskAssumption
<1>1. ASSUME NEW t \in Tasks, FinalizerStep(t)
      PROVE  TypeOK'
  <2>1. ObjType' /\ faults' \in 0..MaxFaults
    BY <1>1, FinalizerType DEF FinalizerStep, CountType
  <2>2. ResType'
    BY <1>1, ViewType, SetResultType DEF FinalizerStep, OpPhases, ResType
  <2> QED
    BY <1>1, <2>1, <2>2 DEF FinalizerStep, CountType, SavedType, ControlType
<1>2. ASSUME NEW t \in Tasks, PruneStep(t)
      PROVE  TypeOK'
  <2>1. MarkedDeleted(Obj[t]) \in [Objects -> KubeObjects \cup {NoObj}]
    BY MarkedDeletedType DEF ObjType
  <2>2. PICK after \in [Objects -> KubeObjects \cup {NoObj}] :
           ApiDone(after) \/ ApiError(after)
    BY <1>2, <2>1 DEF PruneStep, ObjType
  <2>3. ObjType' /\ faults' \in 0..MaxFaults
    BY <1>2, <2>2, ApiType DEF PruneStep, ObjType, CountType
  <2>4. ResType'
    <3>1. CASE SetResourceResult(t, "SyncFailed", "Failed")
      BY <3>1, SetResultType DEF Codes, OpPhases
    <3>2. CASE syncRes' = [syncRes EXCEPT ![t] = PruneResult(t)]
      BY <3>2, PruneResultType DEF ResType
    <3> QED
      BY <1>2, <3>1, <3>2 DEF PruneStep
  <2> QED
    BY <1>2, <2>3, <2>4 DEF PruneStep, CountType, SavedType, ControlType
<1>3. ASSUME NEW t \in Tasks, DeleteStep(t)
      PROVE  TypeOK'
  <2>1. MarkedDeleted(Obj[t]) \in [Objects -> KubeObjects \cup {NoObj}]
    BY MarkedDeletedType DEF ObjType
  <2>2. ObjType' /\ faults' \in 0..MaxFaults
    BY <1>3, <2>1, ApiType DEF DeleteStep, ObjType, CountType
  <2>3. ResType'
    BY <1>3, ViewType, SetResultType DEF DeleteStep, OpPhases, ResType
  <2> QED
    BY <1>3, <2>2, <2>3 DEF DeleteStep, Worse, CountType, SavedType, ControlType
<1>4. ASSUME NEW t \in Tasks, CreateStep(t)
      PROVE  TypeOK'
  <2>1. Applied(t) \in [Objects -> KubeObjects \cup {NoObj}]
    BY AppliedType DEF ObjType
  <2>2. PICK after \in [Objects -> KubeObjects \cup {NoObj}] :
           ApiDone(after) \/ ApiError(after)
    BY <1>4, <2>1 DEF CreateStep, CreateEffect, ObjType
  <2>3. ObjType' /\ faults' \in 0..MaxFaults
    BY <1>4, <2>2, ApiType DEF CreateStep, ObjType, CountType
  <2>4. ResType'
    BY <1>4, SetResultType DEF CreateStep, OpPhases, Codes
  <2> QED
    BY <1>4, <2>3, <2>4 DEF CreateStep, CountType, SavedType, ControlType
<1>5. CASE FinalizersDone \/ PruneDone \/ DeleteDone \/ CreateDone
  BY <1>5, KindAssumption
  DEF FinalizersDone, PruneDone, DeleteDone, CreateDone, GoTo, RunStages,
      ObjType, ResType, CountType, SavedType, ControlType
<1> QED
  BY <1>1, <1>2, <1>3, <1>4, <1>5

\* So do the steps after runTasks.
LEMMA TypeEnd ==
    ASSUME TypeOK,
           \/ \E t \in Tasks : DeleteHook(t)
           \/ NsRan \/ WetRan \/ WaveHookFails \/ Succeed
           \/ FailWaveHook \/ SetOperationFailed \/ SyncFailRan
    PROVE  TypeOK'
<1> USE TypeParts, TypePartsNext
<1>1. DeletedOnFailure \subseteq Tasks /\ DeletedOnSuccess \subseteq Tasks
      /\ SyncFailTasks \subseteq Tasks
  BY DEF DeletedOnFailure, DeletedOnSuccess, SyncFailTasks, CurTasks
<1>2. \A p \in OpPhases : Return(p, syncRes) => ResType' /\ SavedType' /\ ControlType'
  BY ReturnType DEF ResType
<1>3. CASE NsRan
  <2>1. ResType' /\ SavedType' /\ ControlType'
    BY <1>2, <1>3 DEF NsRan, GoTo, OpPhases, ResType, SavedType, ControlType
  <2> QED
    BY <1>3, <2>1 DEF NsRan, ObjType, CountType
<1>4. CASE WetRan
  <2>1. ResType' /\ SavedType' /\ ControlType'
    BY <1>1, <1>2, <1>4
    DEF WetRan, GoTo, Cleaning, OpPhases, ResType, SavedType, ControlType
  <2> QED
    BY <1>4, <2>1 DEF WetRan, ObjType, CountType
<1>5. CASE WaveHookFails
  BY <1>1, <1>5, BoundAssumption
  DEF WaveHookFails, GoTo, Cleaning, ObjType, ResType, CountType, SavedType, ControlType
<1>6. ASSUME NEW t \in Tasks, DeleteHook(t)
      PROVE  TypeOK'
  <2>1. MarkedDeleted(Obj[t]) \in [Objects -> KubeObjects \cup {NoObj}]
    BY MarkedDeletedType, TaskAssumption DEF ObjType
  <2>2. ObjType' /\ faults' \in 0..MaxFaults
    BY <1>6, <2>1, ApiType DEF DeleteHook, ObjType, CountType
  <2>3. ResType'
    BY <1>6, SetResultType DEF DeleteHook, OpPhases, Codes, ResType
  <2> QED
    BY <1>6, <2>2, <2>3 DEF DeleteHook, CountType, SavedType, ControlType
<1>7. CASE Succeed \/ FailWaveHook
  BY <1>2, <1>7 DEF Succeed, FailWaveHook, OpPhases, ObjType, CountType
<1>8. CASE SetOperationFailed
  <2>1. ResType' /\ SavedType' /\ ControlType'
    BY <1>1, <1>2, <1>8
    DEF SetOperationFailed, RunTasks, RunStages, OpPhases, ResType, SavedType, ControlType
  <2> QED
    BY <1>8, <2>1 DEF SetOperationFailed, ObjType, CountType
<1>9. CASE SyncFailRan
  <2>1. ResType' /\ SavedType' /\ ControlType'
    BY <1>2, <1>9 DEF SyncFailRan, OpPhases, SavedType
  <2> QED
    BY <1>9, <2>1 DEF SyncFailRan, ObjType, CountType
<1> QED
  BY <1>3, <1>4, <1>5, <1>6, <1>7, <1>8, <1>9

\* What Terminate() records before it looks at the hooks: nothing, or one failed
\* result of a task.
LEMMA TerminateResult ==
    ASSUME StartTerminate
    PROVE  \/ syncRes' = syncRes
           \/ \E t \in Tasks : \/ SetResourceResult(t, "SyncFailed", "")
                               \/ SetResourceResult(t, "SyncFailed", "Error")
BY KindAssumption
DEF StartTerminate, TerminateTasks, appendFailedNsTask, CurTasks

\* So do the steps of Terminate().
LEMMA TypeTerminate ==
    ASSUME TypeOK,
           \/ StartTerminate \/ TerminateDone
           \/ \E t \in Tasks : TerminateFinalizer(t) \/ TerminateDelete(t)
    PROVE  TypeOK'
<1> USE TypeParts, TypePartsNext
<1> \A t \in Tasks : Obj[t] \in Objects
  BY TaskAssumption
<1>1. \A p \in OpPhases : Return(p, syncRes) => ResType' /\ SavedType' /\ ControlType'
  BY ReturnType DEF ResType
<1>2. CASE StartTerminate
  <2>1. /\ UNCHANGED <<cluster, live, site, batch, run, validated, crashes, dryRun>>
        /\ GoTo("terminate", {t \in Hooks : HasLive(t)})
    BY <1>2 DEF StartTerminate
  <2>2. ResType'
    <3>1. "SyncFailed" \in Codes /\ "" \in OpPhases /\ "Error" \in OpPhases
      BY DEF Codes, OpPhases
    <3> QED
      BY <1>2, <3>1, TerminateResult, SetResultType DEF ResType
  <2>3. nsTasks' \subseteq AutoNs
    BY <1>2 DEF StartTerminate, TerminateTasks, autoCreateNamespace, appendFailedNsTask
  <2>4. faults' = faults \/ (faults < MaxFaults /\ faults' = faults + 1)
    BY <1>2 DEF StartTerminate, TerminateTasks
  <2>5. faults' \in 0..MaxFaults
    BY <2>4, BoundAssumption DEF CountType
  <2> QED
    BY <2>1, <2>2, <2>3, <2>5, KindAssumption
    DEF GoTo, ObjType, CountType, SavedType, ControlType
<1>3. ASSUME NEW t \in Tasks, TerminateFinalizer(t)
      PROVE  TypeOK'
  <2>1. ObjType' /\ faults' \in 0..MaxFaults
    BY <1>3, FinalizerType DEF TerminateFinalizer, CountType
  <2>2. CASE Return("Error", syncRes)
    BY <1>1, <1>3, <2>1, <2>2 DEF TerminateFinalizer, OpPhases, CountType
  <2>3. CASE GoTo("terminateRunning", todo) /\ batch' = {t} /\ UNCHANGED <<syncRes, site, run>>
    BY <1>3, <2>1, <2>3
    DEF TerminateFinalizer, GoTo, ResType, CountType, SavedType, ControlType
  <2>4. CASE /\ GoTo("terminate", todo \ {t})
             /\ \E p \in {"Succeeded", "Failed"} : SetResourceResult(t, "", p)
             /\ UNCHANGED <<site, batch, run>>
    <3>1. ResType'
      BY <2>4, SetResultType DEF OpPhases, Codes
    <3> QED
      BY <1>3, <2>1, <2>4, <3>1
      DEF TerminateFinalizer, GoTo, CountType, SavedType, ControlType
  <2>5. CASE /\ GoTo("terminate", todo \ {t})
             /\ SetResourceResult(t, SyncStatus(t), "Error")
             /\ run' = "failed" /\ UNCHANGED <<site, batch>>
    <3>1. ResType'
      BY <2>5, ViewType, SetResultType DEF OpPhases
    <3> QED
      BY <1>3, <2>1, <2>5, <3>1
      DEF TerminateFinalizer, GoTo, CountType, SavedType, ControlType
  <2> QED
    BY <1>3, <2>2, <2>3, <2>4, <2>5 DEF TerminateFinalizer
<1>4. ASSUME NEW t \in Tasks, TerminateDelete(t)
      PROVE  TypeOK'
  <2>1. MarkedDeleted(Obj[t]) \in [Objects -> KubeObjects \cup {NoObj}]
    BY MarkedDeletedType DEF ObjType
  <2>2. ObjType' /\ faults' \in 0..MaxFaults
    BY <1>4, <2>1, ApiType DEF TerminateDelete, ObjType, CountType
  <2>3. ResType'
    BY <1>4, SetResultType DEF TerminateDelete, OpPhases, Codes
  <2> QED
    BY <1>4, <2>2, <2>3 DEF TerminateDelete, GoTo, CountType, SavedType, ControlType
<1>5. CASE TerminateDone
  <2>1. ResType' /\ SavedType' /\ ControlType'
    BY <1>1, <1>5 DEF TerminateDone, OpPhases
  <2> QED
    BY <1>5, <2>1 DEF TerminateDone, ObjType, CountType
<1> QED
  BY <1>2, <1>3, <1>4, <1>5

\* So does everything around the operation.
LEMMA TypeWorld ==
    ASSUME TypeOK,
           World \/ Refresh \/ Crash \/ Finished \/ UNCHANGED vars
    PROVE  TypeOK'
<1> USE TypeParts, TypePartsNext
<1>1. ASSUME NEW o \in Objects,
             Settle(o) \/ Relapse(o) \/ ExternalDelete(o) \/ DeletionCompletes(o)
      PROVE  TypeOK'
  <2>1. \A h \in HealthOutcomes : cluster[o] # NoObj =>
           [cluster EXCEPT ![o].health = h] \in [Objects -> KubeObjects \cup {NoObj}]
    <3> SUFFICES ASSUME NEW h \in HealthOutcomes, cluster[o] # NoObj
                 PROVE  [cluster[o] EXCEPT !.health = h] \in KubeObjects
      BY DEF ObjType
    <3>1. cluster[o] \in KubeObjects /\ h \in Healths
      BY ObjectAssumption DEF ObjType
    <3> QED
      BY <3>1 DEF KubeObjects
  <2>2. cluster' \in [Objects -> KubeObjects \cup {NoObj}]
    <3>1. CASE Settle(o) \/ Relapse(o)
      BY <2>1, <3>1 DEF Settle, Relapse
    <3>2. CASE ExternalDelete(o)
      BY <3>2, MarkedDeletedType DEF ExternalDelete, ObjType
    <3>3. CASE DeletionCompletes(o)
      BY <3>3 DEF DeletionCompletes, ObjType
    <3> QED
      BY <1>1, <3>1, <3>2, <3>3
  <2>3. faults' \in 0..MaxFaults /\ UNCHANGED unlessCluster
    <3>1. \/ faults' = faults
          \/ faults < MaxFaults /\ faults' = faults + 1
      BY <1>1 DEF Settle, Relapse, ExternalDelete, DeletionCompletes
    <3>2. UNCHANGED unlessCluster
      BY <1>1 DEF Settle, Relapse, ExternalDelete, DeletionCompletes
    <3> QED
      BY <3>1, <3>2, BoundAssumption DEF CountType
  <2>4. ObjType' /\ ResType' /\ CountType'
    BY <2>2, <2>3 DEF unlessCluster, ObjType, ResType, CountType
  <2>5. SavedType' /\ ControlType'
    BY <2>3 DEF unlessCluster, SavedType, ControlType
  <2> QED
    BY <2>4, <2>5
<1>2. ASSUME NEW o \in Objects, Observe(o)
      PROVE  TypeOK'
  <2>1. UNCHANGED unlessLive /\ ObjType'
    BY <1>2 DEF Observe, unlessLive, ObjType
  <2> QED
    BY <2>1 DEF unlessLive, ResType, SavedType, ControlType, CountType
<1>3. CASE Refresh
  <2>1. UNCHANGED unlessLive /\ ObjType'
    BY <1>3 DEF Refresh, unlessLive, ObjType
  <2> QED
    BY <2>1 DEF unlessLive, ResType, SavedType, ControlType, CountType
<1>4. CASE Crash
  <2>1. ResType' /\ SavedType' /\ ControlType'
    BY <1>4, ReturnType DEF Crash, SavedType
  <2>2. /\ crashes < MaxCrashes
        /\ crashes' = crashes + 1
        /\ UNCHANGED <<cluster, live, validated, faults, dryRun, nsTasks>>
    BY <1>4 DEF Crash
  <2>3. ObjType' /\ CountType'
    BY <2>2, BoundAssumption DEF ObjType, CountType
  <2> QED
    BY <2>1, <2>3
<1>5. CASE Finished \/ UNCHANGED vars
  <2>1. UNCHANGED vars
    BY <1>5 DEF Finished
  <2> QED
    BY <2>1 DEF vars, ObjType, ResType, SavedType, ControlType, CountType
<1> QED
  BY <1>1, <1>2, <1>3, <1>4, <1>5 DEF World

\* Every step preserves the types.
LEMMA TypeStep == TypeOK /\ [Next]_vars => TypeOK'
<1> SUFFICES ASSUME TypeOK, [Next]_vars PROVE TypeOK'
  OBVIOUS
<1>1. CASE SyncStep
  BY <1>1, TypeStart, TypeEvaluate, TypeRun, TypeEnd DEF SyncStep, RunStep
<1>2. CASE StartTerminate \/ TerminateStep
  BY <1>2, TypeTerminate DEF TerminateStep
<1>3. CASE World \/ Refresh \/ Crash \/ Finished \/ UNCHANGED vars
  BY <1>3, TypeWorld
<1> QED
  BY <1>1, <1>2, <1>3 DEF Next

\* Every variable of the sync operation always holds a value the code can
\* produce: no step of Sync() or Terminate() leaves an ill-formed result.
THEOREM TypeCorrect == Spec => []TypeOK
<1> QED
  BY TypeInit, TypeStep, PTL DEF Spec

-----------------------------------------------------------------------------
(* The gate between waves                                                   *)

\* While completed hooks are unhooked, nothing that is waited for runs.
Quiet == pc = "unhook" =>
            \A t \in CurTasks : MultiStep \/ t \in Hooks => ~Running(t)

\* runTasks only handles the tasks it was called with.
TodoInBatch == pc \in RunStages => todo \subseteq batch

\* A batch is one phase and wave: none of its tasks is earlier than another.
Flat == InWetRun => \A t, u \in batch : ~Earlier(u, t)

GateInv == TypeOK /\ Quiet /\ TodoInBatch /\ Flat /\ WaveGate

SamePresence == /\ \A o \in Objects : live'[o] = NoObj <=> live[o] = NoObj
                /\ nsTasks' = nsTasks

\* The order of the tasks depends only on which objects are live, and on the
\* namespace task of this call.
LEMMA ViewStable ==
    ASSUME SamePresence
    PROVE  /\ CurTasks' = CurTasks
           /\ MainTasks' = MainTasks
           /\ \A t, u : Earlier(t, u)' <=> Earlier(t, u)
           /\ MultiStep' <=> MultiStep
           /\ \A t \in Tasks : Skipped(t)' <=> Skipped(t)
<1>1. \A t \in Tasks : HasLive(t)' <=> HasLive(t)
  BY TaskAssumption DEF SamePresence, HasLive, LiveObj
<1>2. CurTasks' = CurTasks
  BY <1>1 DEF CurTasks, SamePresence
<1>3. CurPrunes' = CurPrunes
  BY <1>2 DEF CurPrunes
<1>4. PruneWaves' = PruneWaves
  BY <1>3 DEF PruneWaves
<1>5. \A w : Mirrored(w)' = Mirrored(w)
  BY <1>4 DEF Mirrored
<1>6. \A t : PruneWave(t)' = PruneWave(t)
  BY <1>3, <1>5 DEF PruneWave
<1>7. SyncPhaseLastWave' = SyncPhaseLastWave
  <2> DEFINE W == {PruneWave(t) : t \in {u \in CurTasks : Phase[u] = "Sync"}}
  <2>1. W' = W
    BY <1>2, <1>6
  <2> QED
    BY <2>1 DEF SyncPhaseLastWave
<1>8. \A t : Wave(t)' = Wave(t)
  BY <1>3, <1>6, <1>7 DEF Wave
<1>9. \A t, u : Earlier(t, u)' <=> Earlier(t, u)
  BY <1>8 DEF Earlier
<1> QED
  BY <1>1, <1>2, <1>9 DEF MainTasks, MultiStep, Skipped

\* Removing a finalizer leaves every object where it is.
LEMMA FinalizerPresence ==
    ASSUME ObjType, NEW o \in Objects,
           RemoveFinalizer(o) \/ FailToRemoveFinalizer(o), nsTasks' = nsTasks
    PROVE  SamePresence
<1>1. live' = WithoutFinalizer(live, o)
  BY DEF RemoveFinalizer, FailToRemoveFinalizer
<1>2. CASE live[o] = NoObj
  BY <1>1, <1>2 DEF WithoutFinalizer, SamePresence
<1>3. CASE live[o] # NoObj
  <2>1. live[o] \in KubeObjects
    BY <1>3 DEF ObjType
  <2>2. [live[o] EXCEPT !.finalizer = FALSE] \in KubeObjects
    BY <2>1 DEF KubeObjects
  <2>3. live' = [live EXCEPT ![o] = [live[o] EXCEPT !.finalizer = FALSE]]
    BY <1>1, <1>3 DEF WithoutFinalizer
  <2> QED
    BY <1>3, <2>2, <2>3, ObjectAssumption DEF SamePresence, ObjType
<1> QED
  BY <1>2, <1>3

\* The gate stays shut while only results of the batch change.
LEMMA GateKept ==
    ASSUME GateInv, SamePresence,
           InWetRun' => InWetRun /\ batch' = batch,
           \A u \in Tasks \ batch : syncRes'[u] = syncRes[u]
    PROVE  Flat' /\ WaveGate'
<1>1. Flat'
  BY ViewStable DEF Flat, GateInv
<1>2. ASSUME InWetRun', NEW t \in batch', NEW u \in MainTasks', Earlier(u, t)'
      PROVE  Settled(u)'
  <2>1. InWetRun /\ t \in batch /\ u \in MainTasks /\ Earlier(u, t)
    BY <1>2, ViewStable
  <2>2. u \in Tasks \ batch
    BY <2>1 DEF GateInv, Flat, MainTasks, CurTasks
  <2>3. Settled(u)
    BY <2>1 DEF GateInv, WaveGate
  <2>4. syncRes'[u] = syncRes[u] /\ (Skipped(u)' <=> Skipped(u))
    BY <2>2, ViewStable
  <2> QED
    BY <2>3, <2>4 DEF Settled, OpState, Pending
<1> QED
  BY <1>1, <1>2 DEF WaveGate

\* Deciding on a batch opens the gate only for a step whose predecessors are
\* settled: nothing runs, nothing failed, and what is pending is not earlier.
LEMMA GateDecide ==
    ASSUME GateInv, Decide
    PROVE  Quiet' /\ TodoInBatch' /\ Flat' /\ WaveGate'
<1>1. SamePresence /\ syncRes' = syncRes
  BY DEF Decide, SamePresence
<1>2. pc' # "unhook"
  BY DEF Decide, GoTo, RunTasks
<1>3. CASE pc' \notin RunStages
  BY <1>2, <1>3 DEF Quiet, TodoInBatch, Flat, WaveGate, InWetRun
<1>4. CASE pc' \in RunStages
  <2>1. /\ pc = "unhook"
        /\ ~\E t \in MainTasks : Unsuccessful(t)
        /\ RunTasks("wet", FirstStep(NextTasks))
    BY <1>4 DEF Decide, HasFailed, GoTo, RunStages
  <2>2. batch' = FirstStep(NextTasks) /\ todo' \subseteq batch'
    BY <2>1 DEF RunTasks
  <2>3. \A t \in batch' : t \in NextTasks /\ \A u \in NextTasks : ~Earlier(u, t)
    BY <2>2 DEF FirstStep
  <2>4. Flat'
    BY <1>1, <2>3, ViewStable DEF Flat
  <2>5. ASSUME NEW t \in batch', NEW u \in MainTasks, Earlier(u, t)
        PROVE  Settled(u)
    <3>1. t \in CurTasks /\ u \in CurTasks /\ u \in Tasks
      BY <2>3 DEF NextTasks, MainTasks, CurTasks
    <3>2. ~Running(u)
      BY <2>1, <2>5, <3>1 DEF GateInv, Quiet, MultiStep
    <3>3. ~Unsuccessful(u)
      BY <2>1
    <3>4. OpState(u) \in {"", "Succeeded"}
      BY <3>1, <3>2, <3>3, ViewType, TypeParts
      DEF GateInv, Running, Unsuccessful, OpPhases
    <3>5. Pending(u) => Skipped(u)
      BY <2>3, <2>5 DEF NextTasks
    <3> QED
      BY <3>4, <3>5 DEF Settled, Pending
  <2>6. WaveGate'
    <3> SUFFICES ASSUME NEW t \in batch', NEW u \in MainTasks', Earlier(u, t)'
                 PROVE  Settled(u)'
      BY DEF WaveGate
    <3>1. u \in MainTasks /\ Earlier(u, t) /\ u \in Tasks
      BY <1>1, ViewStable DEF MainTasks, CurTasks
    <3>2. Settled(u) /\ (Skipped(u)' <=> Skipped(u))
      BY <1>1, <2>5, <3>1, ViewStable
    <3> QED
      BY <1>1, <3>2 DEF Settled, OpState, Pending
  <2> QED
    BY <1>2, <2>2, <2>4, <2>6 DEF Quiet, TodoInBatch
<1> QED
  BY <1>3, <1>4

\* The loops of runTasks change results of the batch only.
LEMMA GateRun ==
    ASSUME GateInv, NEW t \in Tasks,
           FinalizerStep(t) \/ PruneStep(t) \/ DeleteStep(t) \/ CreateStep(t)
    PROVE  Quiet' /\ TodoInBatch' /\ Flat' /\ WaveGate'
<1>1. /\ pc \in RunStages /\ pc' = pc /\ t \in todo /\ todo' = todo \ {t}
      /\ UNCHANGED <<site, batch>>
  BY DEF FinalizerStep, PruneStep, DeleteStep, CreateStep, RunStages
<1>2. t \in batch
  BY <1>1 DEF GateInv, TodoInBatch
<1>3. SamePresence
  <2>1. CASE FinalizerStep(t)
    BY <2>1, FinalizerPresence, TaskAssumption, TypeParts DEF FinalizerStep, GateInv
  <2>2. CASE PruneStep(t) \/ DeleteStep(t) \/ CreateStep(t)
    BY <2>2 DEF PruneStep, DeleteStep, CreateStep, SamePresence
  <2> QED
    BY <2>1, <2>2
<1>4. \A u \in Tasks \ batch : syncRes'[u] = syncRes[u]
  <2>1. \/ syncRes' = syncRes
        \/ \E r : syncRes' = [syncRes EXCEPT ![t] = r]
    BY DEF FinalizerStep, PruneStep, DeleteStep, CreateStep, SetResourceResult
  <2> QED
    BY <1>2, <2>1, TypeParts DEF GateInv, ResType
<1>5. Flat' /\ WaveGate'
  BY <1>1, <1>3, <1>4, GateKept DEF InWetRun
<1> QED
  BY <1>1, <1>5 DEF GateInv, Quiet, TodoInBatch, RunStages

\* UpdateStep leaves nothing running that is waited for, Unhook neither.
LEMMA GateEvaluate ==
    ASSUME GateInv, UpdateStep \/ \E t \in Tasks : Unhook(t)
    PROVE  Quiet' /\ TodoInBatch' /\ Flat' /\ WaveGate'
<1>1. pc' \notin RunStages
  BY DEF UpdateStep, Unhook, Return, GoTo, RunStages
<1>2. Quiet'
  <2>1. ASSUME UpdateStep, pc' = "unhook"
        PROVE  Quiet'
    <3>1. SamePresence
      BY <2>1 DEF UpdateStep, SamePresence
    <3>2. syncRes' = UpdateResults
      BY <2>1 DEF UpdateStep
    <3>3. \A t \in CurTasks : MultiStep \/ t \in Hooks =>
             UpdateResults[t] = NoResult \/ UpdateResults[t].phase # "Running"
      BY <2>1 DEF UpdateStep, StillRunning, Return
    <3> QED
      BY <3>1, <3>2, <3>3, ViewStable DEF Quiet, Running, OpState
  <2>2. ASSUME NEW t \in Tasks, Unhook(t)
        PROVE  Quiet'
    <3>1. SamePresence
      BY <2>2, FinalizerPresence, TaskAssumption, TypeParts DEF Unhook, GateInv
    <3>2. \/ syncRes' = syncRes
          \/ syncRes' = [syncRes EXCEPT ![t] = [status |-> SyncStatus(t), phase |-> "Error"]]
      BY <2>2 DEF Unhook, SetResourceResult
    <3>3. \A u \in Tasks : Running(u)' => Running(u)
      BY <3>2, TypeParts DEF GateInv, ResType, Running, OpState
    <3>4. pc = "unhook"
      BY <2>2 DEF Unhook
    <3> QED
      BY <3>1, <3>3, <3>4, ViewStable DEF GateInv, Quiet, CurTasks
  <2> QED
    BY <2>1, <2>2 DEF Quiet
<1> QED
  BY <1>1, <1>2 DEF TodoInBatch, Flat, WaveGate, InWetRun

\* From loop to loop, the batch stays what it was.
LEMMA GateLoops ==
    ASSUME GateInv, FinalizersDone \/ PruneDone \/ DeleteDone \/ CreateDone
    PROVE  Quiet' /\ TodoInBatch' /\ Flat' /\ WaveGate'
<1>1. /\ pc \in RunStages /\ pc' \in RunStages
      /\ todo' \subseteq batch
      /\ UNCHANGED <<cluster, live, syncRes, site, batch, nsTasks>>
  BY DEF FinalizersDone, PruneDone, DeleteDone, CreateDone, GoTo, RunStages
<1>2. SamePresence
  BY <1>1 DEF SamePresence
<1>3. Flat' /\ WaveGate'
  BY <1>1, <1>2, GateKept DEF InWetRun
<1> QED
  BY <1>1, <1>3 DEF Quiet, TodoInBatch, RunStages

\* The other steps leave the wet run, or are not part of it.
LEMMA GateLeft ==
    ASSUME pc' \notin RunStages \cup {"unhook"}
           \/ (pc' = "finalizers" /\ site' # "wet" /\ todo' \subseteq batch')
    PROVE  Quiet' /\ TodoInBatch' /\ Flat' /\ WaveGate'
BY DEF Quiet, TodoInBatch, Flat, WaveGate, InWetRun, RunStages

\* Steps outside the wet run keep the gate.
LEMMA GateOther ==
    ASSUME GateInv,
           \/ StartInvalid \/ StartNsUnknown \/ StartAgain \/ StartFirst \/ DryRunStep
           \/ NsRan \/ WetRan \/ WaveHookFails \/ SyncFailRan
           \/ Succeed \/ FailWaveHook \/ SetOperationFailed
           \/ StartTerminate \/ TerminateStep \/ Crash
           \/ \E t \in Tasks : DeleteHook(t)
    PROVE  Quiet' /\ TodoInBatch' /\ Flat' /\ WaveGate'
<1>1. CASE \/ StartInvalid \/ StartNsUnknown \/ StartAgain \/ DryRunStep
           \/ NsRan \/ WetRan \/ WaveHookFails \/ SyncFailRan
           \/ Succeed \/ FailWaveHook \/ Crash
  BY <1>1, GateLeft
  DEF StartInvalid, StartNsUnknown, StartAgain, DryRunStep, NsRan, WetRan,
      WaveHookFails, SyncFailRan, Succeed, FailWaveHook, Crash, Return, GoTo,
      RunStages
<1>2. CASE StartFirst
  BY <1>2, GateLeft DEF StartFirst, GoTo, RunTasks, RunStages
<1>3. CASE SetOperationFailed
  BY <1>3, GateLeft DEF SetOperationFailed, Return, RunTasks, RunStages
<1>4. CASE \E t \in Tasks : DeleteHook(t)
  BY <1>4, GateLeft DEF DeleteHook, Cleaning, RunStages
<1>5. CASE StartTerminate \/ TerminateStep
  <2>1. pc' \in {"idle", "terminate", "terminateRunning"}
    BY <1>5 DEF StartTerminate, TerminateStep, TerminateFinalizer,
                TerminateDelete, TerminateDone, Return, GoTo
  <2> QED
    BY <2>1, GateLeft DEF RunStages
<1> QED
  BY <1>1, <1>2, <1>3, <1>4, <1>5

\* The world changes neither the results nor, during a call, the snapshot.
LEMMA GateWorld ==
    ASSUME GateInv, World \/ Refresh \/ Finished \/ UNCHANGED vars
    PROVE  Quiet' /\ TodoInBatch' /\ Flat' /\ WaveGate'
<1>1. UNCHANGED <<pc, site, batch, todo, syncRes>>
  BY DEF World, Settle, Relapse, ExternalDelete, DeletionCompletes, Observe,
         Refresh, Finished, vars, unlessCluster, unlessLive
<1>2. CASE pc = "idle"
  BY <1>1, <1>2, GateLeft DEF RunStages
<1>3. CASE pc # "idle"
  <2>1. live' = live /\ nsTasks' = nsTasks
    BY <1>3 DEF World, Settle, Relapse, ExternalDelete, DeletionCompletes,
                Observe, Refresh, Finished, vars, unlessCluster
  <2>2. SamePresence
    BY <2>1 DEF SamePresence
  <2>3. Flat' /\ WaveGate'
    BY <1>1, <2>2, GateKept DEF InWetRun
  <2>4. Quiet'
    BY <1>1, <2>2, ViewStable DEF GateInv, Quiet, Running, OpState
  <2> QED
    BY <1>1, <2>3, <2>4 DEF GateInv, TodoInBatch
<1> QED
  BY <1>2, <1>3

\* The operation starts with the gate closed.
LEMMA GateInit == Init => GateInv
<1> SUFFICES ASSUME Init PROVE GateInv
  OBVIOUS
<1>1. pc = "idle"
  BY DEF Init
<1> QED
  BY <1>1, TypeInit
  DEF GateInv, Quiet, TodoInBatch, Flat, WaveGate, InWetRun, RunStages

\* Each step keeps the gate.
LEMMA GateStep == GateInv /\ [Next]_vars => GateInv'
<1> SUFFICES ASSUME GateInv, [Next]_vars PROVE GateInv'
  OBVIOUS
<1>1. TypeOK'
  BY TypeStep DEF GateInv
<1>2. CASE SyncStep
  BY <1>1, <1>2, GateOther, GateEvaluate, GateDecide, GateRun, GateLoops
  DEF SyncStep, RunStep, GateInv
<1>3. CASE StartTerminate \/ TerminateStep \/ Crash
  BY <1>1, <1>3, GateOther DEF GateInv
<1>4. CASE World \/ Refresh \/ Finished \/ UNCHANGED vars
  BY <1>1, <1>4, GateWorld DEF GateInv
<1> QED
  BY <1>2, <1>3, <1>4 DEF Next

\* While Sync() runs a batch, every task of an earlier phase or wave has
\* succeeded or is left out as in sync: for any tasks, waves and options, and
\* whatever other actors, errors and restarts do in between.
THEOREM GateCorrect == Spec => []WaveGate
<1>1. GateInv => WaveGate
  BY DEF GateInv
<1> QED
  BY <1>1, GateInit, GateStep, PTL DEF Spec

-----------------------------------------------------------------------------
(* The shapes of the steps                                                  *)

HookSteps == {"finalizers", "delete", "unhook"} \cup Cleaning \cup Terminating

\* A call of one of runTasks' loops handles one task of the batch.
LEMMA RunShape ==
    ASSUME NEW t \in Tasks,
           FinalizerStep(t) \/ PruneStep(t) \/ DeleteStep(t) \/ CreateStep(t)
    PROVE  /\ pc \in RunStages /\ pc' = pc
           /\ t \in todo /\ todo' = todo \ {t}
           /\ UNCHANGED <<opPhase, site, batch, saved, crashes, dryRun, nsTasks>>
           /\ syncRes' = syncRes \/ \E r : syncRes' = [syncRes EXCEPT ![t] = r]
BY DEF FinalizerStep, PruneStep, DeleteStep, CreateStep, RunStages,
       SetResourceResult

\* runTasks goes on to its next loop when the one before is done.
LEMMA LoopShape ==
    ASSUME FinalizersDone \/ PruneDone \/ DeleteDone \/ CreateDone
    PROVE  /\ pc \in RunStages /\ pc' \in RunStages
           /\ todo = {}
           /\ UNCHANGED <<cluster, live, syncRes, opPhase, site, batch, saved,
                          crashes, dryRun, nsTasks>>
           /\ run' = "failed" => run = "failed"
BY DEF FinalizersDone, PruneDone, DeleteDone, CreateDone, GoTo, RunStages

\* The world leaves the operation alone, and a call its snapshot.
LEMMA WorldShape ==
    ASSUME World \/ Refresh \/ Finished \/ UNCHANGED vars
    PROVE  /\ UNCHANGED <<syncRes, opPhase, pc, site, batch, todo, run, saved,
                          crashes, dryRun, nsTasks>>
           /\ pc # "idle" => live' = live
BY DEF World, Settle, Relapse, ExternalDelete, DeletionCompletes, Observe,
       Refresh, Finished, vars, unlessCluster, unlessLive

\* A return leaves nothing to do.
LEMMA ReturnShape ==
    ASSUME NEW p, NEW r, Return(p, r)
    PROVE  /\ pc' = "idle" /\ site' = "none" /\ batch' = {} /\ todo' = {}
           /\ opPhase' = p /\ syncRes' = r
           /\ saved' = [phase |-> p, res |-> r]
BY DEF Return

-----------------------------------------------------------------------------
(* What runTasks is called with                                             *)

\* SyncFail tasks are in a batch of their own, and nobody else runs them.
RunBatch ==
    /\ pc \in RunStages => site # "none"
    /\ site = "fail" => pc \in RunStages
    /\ pc \in RunStages /\ site = "fail" => \A t \in batch : Phase[t] = "SyncFail"
    /\ pc \in RunStages /\ site # "fail" => \A t \in batch : Phase[t] # "SyncFail"
    /\ pc \in RunStages /\ site = "ns" => batch \subseteq NsTasks

\* The loops on finalizers and hook deletions handle hooks only.
HookLoops ==
    /\ pc \in HookSteps => todo \subseteq Hooks
    /\ pc = "terminateRunning" => batch \subseteq Hooks

\* A finalizer is removed from hooks that completed, or did not start yet.
HooksAtRest ==
    /\ pc = "unhook" => \A t \in todo : Completed(t)
    /\ pc = "finalizers" => \A t \in todo : Pending(t)

LoopInv == GateInv /\ RunBatch /\ HookLoops /\ HooksAtRest

\* Sync() starts with the namespace tasks, or without a batch.
LEMMA RunBatchStart ==
    ASSUME RunBatch, StartInvalid \/ StartNsUnknown \/ StartAgain \/ StartFirst
    PROVE  RunBatch'
<1>1. pc \notin RunStages /\ site # "fail"
  BY DEF RunBatch, StartInvalid, StartNsUnknown, StartAgain, StartFirst,
         Callable, RunStages
<1>2. CASE StartInvalid \/ StartNsUnknown \/ StartAgain
  BY <1>1, <1>2 DEF RunBatch, StartInvalid, StartNsUnknown, StartAgain, Return,
                    GoTo, RunStages
<1>3. CASE StartFirst
  <2>1. CASE GoTo("dryrun", {}) /\ UNCHANGED <<site, batch, run>>
    BY <1>1, <2>1 DEF RunBatch, GoTo, RunStages
  <2>2. CASE \E t \in NsTasks : RunTasks("ns", {t})
    <3>1. PICK t \in NsTasks : RunTasks("ns", {t})
      BY <2>2
    <3>2. Phase[t] # "SyncFail"
      BY KindAssumption
    <3> QED
      BY <3>1, <3>2 DEF RunBatch, RunTasks, RunStages
  <2> QED
    BY <1>3, <2>1, <2>2 DEF StartFirst
<1> QED
  BY <1>2, <1>3

\* Each step keeps the batch apart.
LEMMA RunBatchStep == GateInv /\ RunBatch /\ [Next]_vars => RunBatch'
<1> SUFFICES ASSUME GateInv, RunBatch, [Next]_vars PROVE RunBatch'
  OBVIOUS
<1>1. CASE StartInvalid \/ StartNsUnknown \/ StartAgain \/ StartFirst
  BY <1>1, RunBatchStart
<1>2. CASE Decide
  <2>1. CASE RunTasks("wet", FirstStep(NextTasks))
    BY <2>1 DEF RunBatch, RunTasks, RunStages, FirstStep, NextTasks, MainTasks
  <2>2. CASE pc = "unhook" /\ pc' \in Cleaning /\ site' = site
    BY <2>2 DEF RunBatch, Cleaning, RunStages
  <2> QED
    BY <1>2, <2>1, <2>2 DEF Decide, GoTo, Cleaning
<1>3. CASE SetOperationFailed
  <2>1. CASE RunTasks("fail", SyncFailTasks)
    BY <2>1 DEF RunBatch, RunTasks, RunStages, SyncFailTasks, MainTasks
  <2> QED
    BY <1>3, <2>1 DEF SetOperationFailed, Return, RunBatch, RunStages
<1>4. ASSUME NEW t \in Tasks,
             FinalizerStep(t) \/ PruneStep(t) \/ DeleteStep(t) \/ CreateStep(t)
      PROVE  RunBatch'
  BY <1>4, RunShape DEF RunBatch
<1>5. CASE FinalizersDone \/ PruneDone \/ DeleteDone \/ CreateDone
  BY <1>5, LoopShape DEF RunBatch
<1>6. CASE DryRunStep \/ NsRan \/ WetRan \/ WaveHookFails \/ SyncFailRan
  BY <1>6 DEF DryRunStep, NsRan, WetRan, WaveHookFails, SyncFailRan, Return,
              GoTo, RunBatch, RunStages
<1>7. CASE UpdateStep \/ Succeed \/ FailWaveHook \/ Crash \/ StartTerminate
  BY <1>7 DEF UpdateStep, Succeed, FailWaveHook, Crash, StartTerminate, Callable,
              Return, GoTo, RunBatch, RunStages
<1>8. CASE TerminateStep \/ \E t \in Tasks : Unhook(t) \/ DeleteHook(t)
  <2>1. pc \notin RunStages /\ pc' \notin RunStages /\ site' \in {site, "none"}
    BY <1>8 DEF TerminateStep, TerminateFinalizer, TerminateDelete, TerminateDone,
                Unhook, DeleteHook, Cleaning, Return, GoTo, RunStages
  <2> QED
    BY <2>1 DEF RunBatch
<1>9. CASE World \/ Refresh \/ Finished \/ UNCHANGED vars
  BY <1>9, WorldShape DEF RunBatch
<1> QED
  BY <1>1, <1>2, <1>3, <1>4, <1>5, <1>6, <1>7, <1>8, <1>9
  DEF Next, SyncStep, RunStep

\* Each step keeps those loops to hooks.
LEMMA HookLoopsStep == GateInv /\ HookLoops /\ [Next]_vars => HookLoops'
<1> SUFFICES ASSUME GateInv, HookLoops, [Next]_vars PROVE HookLoops'
  OBVIOUS
<1> USE DEF HookSteps, Cleaning, Terminating
<1>1. CASE pc' \notin HookSteps
  BY <1>1 DEF HookLoops
<1>2. ASSUME NEW t \in Tasks,
             FinalizerStep(t) \/ PruneStep(t) \/ DeleteStep(t) \/ CreateStep(t)
      PROVE  HookLoops'
  BY <1>2, RunShape DEF HookLoops, RunStages
<1>3. CASE FinalizersDone \/ PruneDone \/ DeleteDone \/ CreateDone
  BY <1>3, KindAssumption
  DEF HookLoops, FinalizersDone, PruneDone, DeleteDone, CreateDone, GoTo
<1>4. CASE Decide \/ WetRan \/ WaveHookFails
  BY <1>4, KindAssumption
  DEF HookLoops, Decide, WetRan, WaveHookFails, GoTo, RunTasks, Return,
      DeletedOnSuccess, DeletedOnFailure
<1>5. CASE StartFirst \/ SetOperationFailed
  BY <1>5 DEF HookLoops, StartFirst, SetOperationFailed, GoTo, RunTasks, Return
<1>6. CASE UpdateStep
  BY <1>6 DEF HookLoops, UpdateStep, CompletedHooks, GoTo, Return
<1>7. ASSUME NEW t \in Tasks, Unhook(t) \/ DeleteHook(t)
      PROVE  HookLoops'
  BY <1>7 DEF HookLoops, Unhook, DeleteHook
<1>8. CASE StartTerminate \/ TerminateStep
  BY <1>8 DEF HookLoops, StartTerminate, TerminateStep, TerminateFinalizer,
              TerminateDelete, TerminateDone, GoTo, Return
<1>9. CASE World \/ Refresh \/ Finished \/ UNCHANGED vars
  BY <1>9, WorldShape DEF HookLoops
<1>10. CASE StartInvalid \/ StartNsUnknown \/ StartAgain \/ DryRunStep \/ NsRan
            \/ SyncFailRan \/ Succeed \/ FailWaveHook \/ Crash
  BY <1>1, <1>10
  DEF StartInvalid, StartNsUnknown, StartAgain, DryRunStep, NsRan, SyncFailRan,
      Succeed, FailWaveHook, Crash, Return, GoTo
<1> QED
  BY <1>2, <1>3, <1>4, <1>5, <1>6, <1>7, <1>8, <1>9, <1>10
  DEF Next, SyncStep, RunStep

\* Each step keeps those hooks at rest.
LEMMA HooksAtRestStep == LoopInv /\ [Next]_vars => HooksAtRest'
<1> SUFFICES ASSUME LoopInv, [Next]_vars PROVE HooksAtRest'
  OBVIOUS
<1> ResType
  BY TypeParts DEF LoopInv, GateInv
<1>1. CASE pc' \notin {"unhook", "finalizers"}
  BY <1>1 DEF HooksAtRest
<1>2. ASSUME NEW t \in Tasks,
             FinalizerStep(t) \/ PruneStep(t) \/ DeleteStep(t) \/ CreateStep(t)
      PROVE  HooksAtRest'
  <2>1. /\ pc' = pc /\ pc \in RunStages /\ todo' = todo \ {t}
        /\ \A u \in Tasks \ {t} : syncRes'[u] = syncRes[u]
    BY <1>2, RunShape DEF ResType
  <2>2. todo \subseteq Tasks
    BY TypeParts DEF LoopInv, GateInv, ControlType
  <2> QED
    BY <2>1, <2>2 DEF LoopInv, HooksAtRest, Pending, OpState, RunStages
<1>3. ASSUME NEW t \in Tasks, Unhook(t)
      PROVE  HooksAtRest'
  <2>1. /\ pc = "unhook" /\ pc' = pc /\ todo' = todo \ {t}
        /\ \A u \in Tasks \ {t} : syncRes'[u] = syncRes[u]
    BY <1>3 DEF Unhook, SetResourceResult, ResType
  <2>2. todo \subseteq Tasks
    BY TypeParts DEF LoopInv, GateInv, ControlType
  <2> QED
    BY <2>1, <2>2 DEF LoopInv, HooksAtRest, Completed, OpState
<1>4. CASE UpdateStep
  <2>1. CASE pc' = "unhook"
    <3>1. todo' = CompletedHooks /\ syncRes' = UpdateResults
      BY <1>4, <2>1 DEF UpdateStep, GoTo, Return
    <3> QED
      BY <2>1, <3>1 DEF CompletedHooks, HooksAtRest, Completed, OpState
  <2> QED
    BY <1>1, <1>4, <2>1 DEF UpdateStep, GoTo, Return
<1>5. CASE StartFirst \/ Decide \/ SetOperationFailed
  <2>1. \A t : Pending(t)' <=> Pending(t)
    <3>1. syncRes' = syncRes
      BY <1>5 DEF StartFirst, Decide, SetOperationFailed, Return
    <3> QED
      BY <3>1 DEF Pending, OpState
  <2> QED
    BY <1>5, <2>1
    DEF StartFirst, Decide, SetOperationFailed, GoTo, RunTasks, Return, HooksAtRest
<1>6. CASE World \/ Refresh \/ Finished \/ UNCHANGED vars
  BY <1>6, WorldShape DEF LoopInv, HooksAtRest, Pending, Completed, OpState
<1>7. CASE \/ FinalizersDone \/ PruneDone \/ DeleteDone \/ CreateDone
           \/ \E t \in Tasks : DeleteHook(t)
  BY <1>1, <1>7
  DEF FinalizersDone, PruneDone, DeleteDone, CreateDone, GoTo, DeleteHook, Cleaning
<1>8. CASE StartInvalid \/ StartNsUnknown \/ StartAgain \/ DryRunStep \/ NsRan
           \/ WetRan \/ WaveHookFails
  BY <1>1, <1>8
  DEF StartInvalid, StartNsUnknown, StartAgain, DryRunStep, NsRan, WetRan,
      WaveHookFails, Return, GoTo
<1>9. CASE SyncFailRan \/ Succeed \/ FailWaveHook \/ Crash
           \/ StartTerminate \/ TerminateStep
  BY <1>1, <1>9
  DEF SyncFailRan, Succeed, FailWaveHook, Crash, StartTerminate, TerminateStep,
      TerminateFinalizer, TerminateDelete, TerminateDone, Return, GoTo
<1> QED
  BY <1>2, <1>3, <1>4, <1>5, <1>6, <1>7, <1>8, <1>9
  DEF Next, SyncStep, RunStep

\* The operation starts outside all loops.
LEMMA LoopInit == Init => LoopInv
BY GateInit
DEF Init, LoopInv, RunBatch, HookLoops, HooksAtRest, HookSteps, RunStages, Cleaning,
    Terminating

\* Each step keeps the invariants of the loops.
LEMMA LoopStep == LoopInv /\ [Next]_vars => LoopInv'
BY GateStep, RunBatchStep, HookLoopsStep, HooksAtRestStep DEF LoopInv

-----------------------------------------------------------------------------
(* A dry run                                                                *)

SameOutside(objs) == \A o \in Objects \ objs : cluster'[o] = cluster[o]

\* The calls on one object change no other.
LEMMA OneObject ==
    ASSUME ObjType, NEW o \in Objects
    PROVE  /\ MarkedDeleted(o) \in {f \in [Objects -> KubeObjects \cup {NoObj}] :
                                       \A p \in Objects \ {o} : f[p] = cluster[p]}
           /\ WithoutFinalizer(cluster, o) \in
                  {f \in [Objects -> KubeObjects \cup {NoObj}] :
                      \A p \in Objects \ {o} : f[p] = cluster[p]}
<1>1. /\ MarkedDeleted(o) \in [Objects -> KubeObjects \cup {NoObj}]
      /\ WithoutFinalizer(cluster, o) \in [Objects -> KubeObjects \cup {NoObj}]
  BY MarkedDeletedType, WithoutFinalizerType DEF ObjType
<1>2. \A p \in Objects \ {o} : MarkedDeleted(o)[p] = cluster[p]
  BY DEF MarkedDeleted, ObjType
<1>3. \A p \in Objects \ {o} : WithoutFinalizer(cluster, o)[p] = cluster[p]
  BY DEF WithoutFinalizer, ObjType
<1> QED
  BY <1>1, <1>2, <1>3

\* A call that removes a finalizer, done or failed, touches one object.
LEMMA FinalizerTouches ==
    ASSUME ObjType, NEW o \in Objects,
           RemoveFinalizer(o) \/ FailToRemoveFinalizer(o)
    PROVE  SameOutside({o})
BY OneObject
DEF RemoveFinalizer, FailToRemoveFinalizer, ApiDone, ApiError, SameOutside

\* So does one that deletes.
LEMMA DeleteTouches ==
    ASSUME ObjType, NEW o \in Objects,
           ApiDone(MarkedDeleted(o)) \/ ApiError(MarkedDeleted(o))
    PROVE  SameOutside({o})
BY OneObject DEF ApiDone, ApiError, SameOutside

\* Each step of a dry run spares the objects that are no hooks.
LEMMA HarmlessStep ==
    ASSUME LoopInv, [Next]_vars, dryRun, <<pc, todo>>' # <<pc, todo>>
    PROVE  \A o \in Objects \ HookObjects : cluster'[o] = cluster[o]
<1> SUFFICES SameOutside(HookObjects)
  BY DEF SameOutside
<1> ObjType
  BY TypeParts DEF LoopInv, GateInv
<1>1. ASSUME NEW t \in Hooks, SameOutside({Obj[t]})
      PROVE  SameOutside(HookObjects)
  BY <1>1 DEF SameOutside, HookObjects
<1>2. Hooks \subseteq Tasks /\ \A t \in Tasks : Obj[t] \in Objects
  BY KindAssumption, TaskAssumption
<1>3. ASSUME NEW t \in Tasks, FinalizerStep(t) \/ Unhook(t) \/ TerminateFinalizer(t)
      PROVE  SameOutside(HookObjects)
  <2>1. t \in Hooks
    BY <1>3 DEF LoopInv, HookLoops, HookSteps, Terminating, FinalizerStep, Unhook,
                TerminateFinalizer
  <2>2. SameOutside({Obj[t]})
    BY <1>2, <1>3, FinalizerTouches DEF FinalizerStep, Unhook, TerminateFinalizer
  <2> QED
    BY <1>1, <2>1, <2>2
<1>4. ASSUME NEW t \in Tasks, DeleteStep(t) \/ DeleteHook(t) \/ TerminateDelete(t)
      PROVE  SameOutside(HookObjects)
  <2>1. t \in Hooks
    BY <1>4 DEF LoopInv, HookLoops, HookSteps, DeleteStep, DeleteHook,
                TerminateDelete
  <2>2. SameOutside({Obj[t]})
    BY <1>2, <1>4, DeleteTouches DEF DeleteStep, DeleteHook, TerminateDelete
  <2> QED
    BY <1>1, <2>1, <2>2
<1>5. ASSUME NEW t \in Tasks, PruneStep(t) \/ CreateStep(t)
      PROVE  SameOutside(HookObjects)
  <2>1. cluster' = cluster
    BY <1>5 DEF PruneStep, CreateStep, CreateEffect, Deletes, ApiDone, ApiError
  <2> QED
    BY <2>1 DEF SameOutside
<1>6. CASE World \/ Refresh \/ Finished \/ UNCHANGED vars
  BY <1>6, WorldShape
<1>7. ASSUME cluster' = cluster
      PROVE  SameOutside(HookObjects)
  BY <1>7 DEF SameOutside
<1>8. CASE StartInvalid \/ StartNsUnknown \/ StartAgain \/ StartFirst \/ DryRunStep
           \/ UpdateStep \/ Decide \/ StartTerminate \/ TerminateDone \/ Crash
  BY <1>7, <1>8 DEF StartInvalid, StartNsUnknown, StartAgain, StartFirst, DryRunStep,
                    UpdateStep, Decide, StartTerminate, TerminateDone, Crash
<1>9. CASE NsRan \/ WetRan \/ WaveHookFails \/ SyncFailRan
           \/ Succeed \/ FailWaveHook \/ SetOperationFailed
  BY <1>7, <1>9 DEF NsRan, WetRan, WaveHookFails, SyncFailRan, Succeed, FailWaveHook,
                    SetOperationFailed
<1>10. CASE FinalizersDone \/ PruneDone \/ DeleteDone \/ CreateDone
  BY <1>7, <1>10, LoopShape
<1> QED
  BY <1>3, <1>4, <1>5, <1>6, <1>8, <1>9, <1>10
  DEF Next, SyncStep, RunStep, TerminateStep

\* No step of a dry-run operation changes an object that is not a hook's: not
\* the namespace that is created before the dry run, nor a resource whose own
\* dry run had to be skipped.
THEOREM DryRunCorrect == Spec => DryRunIsHarmless
<1>1. LoopInv /\ [Next]_vars =>
         [dryRun /\ <<pc, todo>>' # <<pc, todo>> =>
             \A o \in Objects \ HookObjects : cluster'[o] = cluster[o]]_vars
  BY HarmlessStep
<1> QED
  BY <1>1, LoopInit, LoopStep, PTL DEF Spec, DryRunIsHarmless

-----------------------------------------------------------------------------
(* Failure                                                                  *)

IsFailedMain(t) == Phase[t] # "SyncFail" /\ Unsuccessful(t)
MainFailed == \E t \in Tasks : IsFailedMain(t)

\* What makes the operation fail is the failure of a task outside the SyncFail
\* phase, one that runTasks has finished with.
FailureKnown ==
    /\ pc = "cleanFailed" \/ site = "fail" => MainFailed
    /\ InWetRun /\ run = "failed" => \E t \in Tasks \ todo : IsFailedMain(t)

CauseInv == LoopInv /\ FailureKnown

\* A task that is recorded as failed is failed, and so are those that were.
LEMMA FailureSet ==
    ASSUME ResType, NEW t \in Tasks, NEW s \in Codes, NEW p \in {"Failed", "Error"},
           SetResourceResult(t, s, p)
    PROVE  Unsuccessful(t)' /\ \A u \in Tasks : Unsuccessful(u) => Unsuccessful(u)'
<1> DEFINE r == [status |-> s, phase |-> p]
<1>1. r \in Results /\ r # NoResult /\ r.phase = p
  <2>1. r \in Results /\ r.phase = p
    BY DEF Results, OpPhases
  <2> QED
    BY <2>1, OptionAssumption
<1>2. syncRes' = [syncRes EXCEPT ![t] = r]
  BY DEF SetResourceResult
<1> HIDE DEF r
<1>3. OpState(t)' = p
  BY <1>1, <1>2 DEF ResType, OpState
<1>4. \A u \in Tasks \ {t} : OpState(u)' = OpState(u)
  BY <1>2 DEF ResType, OpState
<1> QED
  BY <1>3, <1>4 DEF Unsuccessful

\* runTasks fails only with a failed task.
LEMMA RunFails ==
    ASSUME ResType, NEW t \in Tasks, run' = "failed", run # "failed",
           FinalizerStep(t) \/ PruneStep(t) \/ DeleteStep(t) \/ CreateStep(t)
    PROVE  Unsuccessful(t)'
<1>1. \/ SetResourceResult(t, SyncStatus(t), "Error")
      \/ SetResourceResult(t, "SyncFailed", "Failed")
  BY DEF FinalizerStep, PruneStep, DeleteStep, CreateStep, Worse
<1>2. SyncStatus(t) \in Codes /\ "SyncFailed" \in Codes
  BY ViewType DEF Codes
<1> QED
  BY <1>1, <1>2, FailureSet

\* A call of runTasks that fails leaves a failed task.
LEMMA KnownRun ==
    ASSUME CauseInv, NEW t \in Tasks,
           FinalizerStep(t) \/ PruneStep(t) \/ DeleteStep(t) \/ CreateStep(t)
    PROVE  FailureKnown'
<1> ResType
  BY TypeParts DEF CauseInv, LoopInv, GateInv
<1>1. /\ pc \in RunStages /\ pc' = pc
      /\ t \in todo /\ todo' = todo \ {t}
      /\ site' = site /\ batch' = batch
  BY RunShape
<1>2. \A u \in Tasks \ {t} : syncRes'[u] = syncRes[u]
  BY RunShape DEF ResType
<1>3. \A u \in Tasks \ {t} : IsFailedMain(u) => IsFailedMain(u)'
  BY <1>2 DEF IsFailedMain, Unsuccessful, OpState
<1>4. t \in batch
  BY <1>1 DEF CauseInv, LoopInv, GateInv, TodoInBatch
<1>5. CASE site = "fail"
  <2>1. Phase[t] = "SyncFail"
    BY <1>1, <1>4, <1>5 DEF CauseInv, LoopInv, RunBatch
  <2>2. MainFailed'
    BY <1>3, <1>5, <2>1 DEF CauseInv, FailureKnown, MainFailed, IsFailedMain
  <2> QED
    BY <1>1, <1>5, <2>2 DEF FailureKnown, InWetRun
<1>6. CASE site # "fail"
  <2>1. Phase[t] # "SyncFail"
    BY <1>1, <1>4, <1>6 DEF CauseInv, LoopInv, RunBatch
  <2>2. ASSUME InWetRun', run' = "failed"
        PROVE  \E u \in Tasks \ todo' : IsFailedMain(u)'
    <3>1. CASE run = "failed"
      BY <1>1, <1>3, <2>2, <3>1 DEF CauseInv, FailureKnown, InWetRun
    <3>2. CASE run # "failed"
      BY <1>1, <2>1, <2>2, <3>2, RunFails DEF IsFailedMain
    <3> QED
      BY <3>1, <3>2
  <2>3. pc' # "cleanFailed"
    BY <1>1 DEF RunStages
  <2> QED
    BY <1>1, <1>6, <2>2, <2>3 DEF FailureKnown
<1> QED
  BY <1>5, <1>6

\* Each step keeps the failure that it acts on.
LEMMA KnownStep == CauseInv /\ [Next]_vars => FailureKnown'
<1> SUFFICES ASSUME CauseInv, [Next]_vars PROVE FailureKnown'
  OBVIOUS
<1> ResType
  BY TypeParts DEF CauseInv, LoopInv, GateInv
<1>1. ASSUME syncRes' = syncRes, MainFailed
      PROVE  MainFailed'
  BY <1>1 DEF MainFailed, IsFailedMain, Unsuccessful, OpState
<1>2. ASSUME pc' # "cleanFailed", site' # "fail", pc' \notin RunStages \/ run' # "failed"
      PROVE  FailureKnown'
  BY <1>2 DEF FailureKnown, InWetRun
<1>3. pc \notin RunStages => site # "fail"
  BY DEF CauseInv, LoopInv, RunBatch
<1>4. ASSUME NEW t \in Tasks,
             FinalizerStep(t) \/ PruneStep(t) \/ DeleteStep(t) \/ CreateStep(t)
      PROVE  FailureKnown'
  BY <1>4, KnownRun
<1>5. CASE FinalizersDone \/ PruneDone \/ DeleteDone \/ CreateDone
  <2>1. /\ UNCHANGED <<syncRes, site>> /\ pc \in RunStages /\ pc' \in RunStages
        /\ run' = "failed" => run = "failed"
    BY <1>5, LoopShape
  <2>3. run' = "failed" => todo' = {}
    BY <1>5 DEF FinalizersDone, PruneDone, DeleteDone, CreateDone, GoTo
  <2>2. \A t : IsFailedMain(t)' <=> IsFailedMain(t)
    BY <2>1 DEF IsFailedMain, Unsuccessful, OpState
  <2> QED
    BY <2>1, <2>2, <2>3 DEF CauseInv, FailureKnown, MainFailed, InWetRun, RunStages
<1>6. CASE \/ StartInvalid \/ StartNsUnknown \/ StartAgain \/ DryRunStep \/ UpdateStep
           \/ StartTerminate \/ TerminateStep \/ Crash
           \/ \E t \in Tasks : Unhook(t)
  <2> USE DEF Terminating
  <2>1. CASE StartInvalid \/ StartNsUnknown \/ StartAgain \/ DryRunStep \/ UpdateStep
    <3>1. /\ pc \notin RunStages
          /\ pc' \in {"idle", "update", "unhook"}
          /\ site' \in {"none", site}
      BY <2>1 DEF StartInvalid, StartNsUnknown, StartAgain, DryRunStep, UpdateStep,
                  Callable, Return, GoTo, RunStages
    <3> QED
      BY <1>2, <1>3, <3>1 DEF RunStages
  <2>2. CASE StartTerminate \/ TerminateStep
    <3>1. /\ pc \notin RunStages
          /\ pc' \in {"idle"} \cup Terminating
          /\ site' \in {"none", site}
      BY <2>2 DEF StartTerminate, TerminateStep, TerminateFinalizer, TerminateDelete,
                  TerminateDone, Callable, Return, GoTo, RunStages
    <3> QED
      BY <1>2, <1>3, <3>1 DEF RunStages
  <2>3. CASE Crash
    BY <1>2, <2>3 DEF Crash, Return, RunStages
  <2>4. ASSUME NEW t \in Tasks, Unhook(t)
        PROVE  FailureKnown'
    BY <1>2, <1>3, <2>4 DEF Unhook, RunStages
  <2> QED
    BY <1>6, <2>1, <2>2, <2>3, <2>4
<1>7. CASE StartFirst
  BY <1>2, <1>3, <1>7 DEF StartFirst, Callable, GoTo, RunTasks, RunStages
<1>8. CASE Decide
  <2>1. HasFailed => MainFailed
    BY DEF HasFailed, MainFailed, IsFailedMain, MainTasks, CurTasks
  <2> QED
    BY <1>1, <1>2, <1>3, <1>8, <2>1
    DEF Decide, GoTo, RunTasks, RunStages, FailureKnown, InWetRun
<1>9. CASE NsRan \/ SyncFailRan \/ Succeed \/ FailWaveHook \/ WaveHookFails
  BY <1>2, <1>3, <1>9
  DEF NsRan, SyncFailRan, Succeed, FailWaveHook, WaveHookFails, Return, GoTo, RunStages
<1>10. CASE WetRan
  <2>1. CASE run = "failed" /\ pc' = "cleanFailed" /\ UNCHANGED <<syncRes, site>>
    <3>1. MainFailed
      BY <1>10, <2>1
      DEF WetRan, CauseInv, FailureKnown, InWetRun, RunStages, MainFailed
    <3> QED
      BY <1>1, <2>1, <3>1 DEF FailureKnown, InWetRun, RunStages
  <2>2. CASE pc' \in {"idle", "cleanSucceeded"} /\ site' \in {"none", "wet"}
    BY <1>2, <2>2 DEF RunStages
  <2> QED
    BY <1>10, <2>1, <2>2 DEF WetRan, GoTo, Return
<1>11. ASSUME NEW t \in Tasks, DeleteHook(t)
       PROVE  FailureKnown'
  <2>1. MainFailed => MainFailed'
    <3>1. CASE syncRes' = syncRes
      BY <1>1, <3>1
    <3>2. CASE SetResourceResult(t, "", "Error")
      BY <3>2, FailureSet DEF MainFailed, IsFailedMain, Codes
    <3> QED
      BY <1>11, <3>1, <3>2 DEF DeleteHook
  <2> QED
    BY <1>11, <2>1
    DEF DeleteHook, CauseInv, LoopInv, RunBatch, FailureKnown, InWetRun, Cleaning, RunStages
<1>12. CASE SetOperationFailed
  <2>1. MainFailed'
    BY <1>1, <1>12 DEF SetOperationFailed, Return, CauseInv, FailureKnown
  <2> QED
    BY <1>12, <2>1 DEF SetOperationFailed, Return, RunTasks, FailureKnown, InWetRun, RunStages
<1>13. CASE World \/ Refresh \/ Finished \/ UNCHANGED vars
  <2>1. UNCHANGED <<syncRes, pc, site, todo, run>>
    BY <1>13, WorldShape
  <2> QED
    BY <2>1
    DEF CauseInv, FailureKnown, MainFailed, IsFailedMain, Unsuccessful, OpState, InWetRun
<1> QED
  BY <1>4, <1>5, <1>6, <1>7, <1>8, <1>9, <1>10, <1>11, <1>12, <1>13
  DEF Next, SyncStep, RunStep

\* The operation starts without a failure to act on.
LEMMA CauseInit == Init => CauseInv
BY LoopInit DEF Init, CauseInv, FailureKnown, InWetRun, RunStages

\* Each step keeps the cause of a failure.
LEMMA CauseStep == CauseInv /\ [Next]_vars => CauseInv'
BY LoopStep, KnownStep DEF CauseInv

\* SyncFail hooks run only in an operation that has a failed task.
THEOREM CauseCorrect == Spec => []SyncFailAfterFailure
<1>1. CauseInv => SyncFailAfterFailure
  BY DEF CauseInv, FailureKnown, MainFailed, IsFailedMain, SyncFailAfterFailure
<1> QED
  BY <1>1, CauseInit, CauseStep, PTL DEF Spec

-----------------------------------------------------------------------------
(* After a failure                                                          *)

\* A failed task is still a task when Sync() decides.  Two kinds may not be: a
\* prune task whose object another client has deleted (run sync_lost), and the
\* namespace task of autoCreateNamespace once syncNamespace has nothing to change.
FailuresStay == pc = "unhook" => \A t \in Tasks : Unsuccessful(t) => t \in CurTasks

NoSyncFailYet(res) == \A t \in Tasks : Phase[t] = "SyncFail" => res[t] = NoResult
FailedIn(res) == \E t \in Tasks : /\ Phase[t] # "SyncFail"
                                  /\ res[t] # NoResult
                                  /\ res[t].phase \in {"Failed", "Error"}

\* Results in which a SyncFail hook is started for a reason.
Reasoned(res) == NoSyncFailYet(res) \/ FailedIn(res)

\* So are the results of every operation that goes on, in memory and as saved;
\* with other than SyncFail tasks running, no SyncFail hook has started.
Final ==
    ~dryRun =>
        /\ pc \in RunStages /\ site # "fail" => NoSyncFailYet(syncRes)
        /\ UnderWay /\ pc \notin {"cleanSucceeded", "cleanWaveHook"} => Reasoned(syncRes)
        /\ saved.phase \notin Completions => Reasoned(saved.res)

FinalInv == CauseInv /\ Final

\* Failed tasks are read off the results.
LEMMA FailedInResults == MainFailed <=> FailedIn(syncRes)
BY DEF MainFailed, IsFailedMain, Unsuccessful, OpState, FailedIn

\* And so they are after a step.
LEMMA FailedInResultsNext == MainFailed' <=> FailedIn(syncRes')
BY DEF MainFailed, IsFailedMain, Unsuccessful, OpState, FailedIn

\* Observing the running tasks neither starts one nor forgets a failure.
LEMMA ReasonedUpdate ==
    ASSUME ResType, Reasoned(syncRes)
    PROVE  Reasoned(UpdateResults)
<1>1. ASSUME NEW t \in Tasks, ~Running(t)
      PROVE  UpdateResults[t] = syncRes[t]
  BY <1>1 DEF UpdateResults
<1>2. \A t \in Tasks : syncRes[t] = NoResult => ~Running(t)
  BY DEF Running, OpState
<1>3. \A t \in Tasks : syncRes[t].phase \in {"Failed", "Error"} => ~Running(t)
  BY DEF Running, OpState
<1>4. NoSyncFailYet(syncRes) => NoSyncFailYet(UpdateResults)
  BY <1>1, <1>2 DEF NoSyncFailYet
<1>5. FailedIn(syncRes) => FailedIn(UpdateResults)
  BY <1>1, <1>3 DEF FailedIn
<1> QED
  BY <1>4, <1>5 DEF Reasoned

\* A return keeps the results reasoned, or ends the operation.
LEMMA FinalReturn ==
    ASSUME NEW p, NEW r, Return(p, r), p \in Completions \/ Reasoned(r)
    PROVE  Final'
BY ReturnShape DEF Final, UnderWay, RunStages

\* Each step keeps the order of failure and SyncFail hooks.
LEMMA FinalStep ==
    ASSUME FinalInv, FailuresStay, [Next]_vars, dryRun' = dryRun
    PROVE  Final'
<1> SUFFICES ASSUME ~dryRun
             PROVE  Final'
  BY DEF Final
<1> USE DEF RunStages, Terminating
<1>0. ResType
  BY TypeParts DEF FinalInv, CauseInv, LoopInv, GateInv
<1>1. pc \in RunStages /\ site # "fail" => NoSyncFailYet(syncRes)
  BY DEF FinalInv, Final
<1>2. UnderWay /\ pc \notin {"cleanSucceeded", "cleanWaveHook"} => Reasoned(syncRes)
  BY DEF FinalInv, Final
<1>3. saved.phase \notin Completions => Reasoned(saved.res)
  BY DEF FinalInv, Final
<1>4. Callable => UnderWay /\ pc \notin RunStages
  BY DEF Callable, UnderWay
<1>5. pc \notin Terminating \cup {"idle"} => UnderWay
  BY DEF UnderWay
<1>6. ASSUME saved' = saved, pc' \notin RunStages, Reasoned(syncRes')
      PROVE  Final'
  BY <1>3, <1>6 DEF Final
<1>7. ASSUME saved' = saved, pc' \in {"cleanSucceeded", "cleanWaveHook"} \cup Terminating
      PROVE  Final'
  BY <1>3, <1>7 DEF Final, UnderWay
<1>8. ASSUME saved' = saved, NoSyncFailYet(syncRes')
      PROVE  Final'
  BY <1>3, <1>8 DEF Final, Reasoned
<1>9. ASSUME saved' = saved, site' = "fail", Reasoned(syncRes')
      PROVE  Final'
  BY <1>3, <1>9 DEF Final
<1>11. CASE StartInvalid
  BY <1>11, FinalReturn DEF StartInvalid, Completions
<1>12. CASE StartNsUnknown
  <2>1. PICK t \in AutoNs : SetResourceResult(t, "SyncFailed", "Error")
    BY <1>12 DEF StartNsUnknown, appendFailedNsTask
  <2>2. t \in Tasks /\ Phase[t] # "SyncFail"
    BY KindAssumption
  <2>3. MainFailed'
    BY <1>0, <2>1, <2>2, FailureSet DEF MainFailed, IsFailedMain, Codes
  <2> QED
    BY <1>6, <1>12, <2>3, FailedInResultsNext DEF StartNsUnknown, GoTo, Reasoned
<1>13. CASE StartAgain
  BY <1>2, <1>4, <1>6, <1>13 DEF StartAgain, GoTo, Callable
<1>14. CASE StartFirst
  BY <1>8, <1>14 DEF StartFirst, GoTo, Started, NoSyncFailYet
<1>15. CASE DryRunStep
  <2>1. DryRunResults({}) = syncRes
    BY <1>0 DEF DryRunResults, ResType
  <2>2. ASSUME NEW t, Return("Failed", DryRunResults({t}))
        PROVE  Final'
    BY <2>2, FinalReturn DEF Completions
  <2> QED
    BY <1>2, <1>5, <1>6, <1>15, <2>1, <2>2 DEF DryRunStep, GoTo
<1>16. CASE UpdateStep
  <2>1. Reasoned(UpdateResults)
    BY <1>0, <1>2, <1>5, <1>16, ReasonedUpdate DEF UpdateStep
  <2> QED
    BY <1>6, <1>16, <2>1, FinalReturn DEF UpdateStep, GoTo
<1>17. ASSUME NEW t \in Tasks, Unhook(t)
       PROVE  Final'
  <2>1. /\ pc = "unhook" /\ t \in todo /\ pc' = pc /\ saved' = saved
        /\ syncRes' = syncRes \/ SetResourceResult(t, SyncStatus(t), "Error")
    BY <1>17 DEF Unhook
  <2>2. Reasoned(syncRes) /\ Completed(t)
    BY <1>2, <1>5, <2>1 DEF FinalInv, CauseInv, LoopInv, HooksAtRest
  <2>3. CASE syncRes' = syncRes
    BY <1>6, <2>1, <2>2, <2>3
  <2>4. CASE SetResourceResult(t, SyncStatus(t), "Error")
    <3>1. CASE NoSyncFailYet(syncRes)
      <4>1. Phase[t] # "SyncFail"
        BY <2>2, <3>1 DEF NoSyncFailYet, Completed, OpState, Completions
      <4>2. NoSyncFailYet(syncRes')
        BY <1>0, <2>4, <3>1, <4>1 DEF NoSyncFailYet, SetResourceResult, ResType
      <4> QED
        BY <1>8, <2>1, <4>2
    <3>2. CASE MainFailed
      <4>1. MainFailed'
        BY <1>0, <2>4, <3>2, FailureSet, ViewType DEF MainFailed, IsFailedMain
      <4> QED
        BY <1>6, <2>1, <4>1, FailedInResultsNext DEF Reasoned
    <3> QED
      BY <2>2, <3>1, <3>2, FailedInResults DEF Reasoned
  <2> QED
    BY <2>1, <2>3, <2>4
<1>18. CASE Decide
  <2>1. Reasoned(syncRes) /\ syncRes' = syncRes /\ saved' = saved
    BY <1>2, <1>5, <1>18 DEF Decide, GoTo
  <2>2. MainFailed => HasFailed
    BY <1>18 DEF Decide, MainFailed, IsFailedMain, HasFailed, MainTasks, FailuresStay
  <2>3. CASE HasFailed
    BY <1>6, <1>18, <2>1, <2>3 DEF Decide, GoTo
  <2>4. CASE ~HasFailed
    BY <1>8, <2>1, <2>2, <2>4, FailedInResults DEF Reasoned
  <2> QED
    BY <2>3, <2>4
<1>19. ASSUME NEW t \in Tasks,
              FinalizerStep(t) \/ PruneStep(t) \/ DeleteStep(t) \/ CreateStep(t)
       PROVE  Final'
  <2>1. /\ pc \in RunStages /\ t \in todo
        /\ UNCHANGED <<pc, site, saved>>
        /\ \A u \in Tasks \ {t} : syncRes'[u] = syncRes[u]
    BY <1>0, <1>19, RunShape DEF ResType
  <2>2. CASE site = "fail"
    <3>1. MainFailed'
      BY <2>1, <2>2, KnownStep DEF FinalInv, FailureKnown
    <3> QED
      BY <1>9, <2>1, <2>2, <3>1, FailedInResultsNext DEF Reasoned
  <2>3. CASE site # "fail"
    <3>1. Phase[t] # "SyncFail"
      BY <2>1, <2>3 DEF FinalInv, CauseInv, LoopInv, GateInv, RunBatch, TodoInBatch
    <3>2. NoSyncFailYet(syncRes')
      BY <1>1, <2>1, <2>3, <3>1 DEF NoSyncFailYet
    <3> QED
      BY <1>8, <2>1, <3>2
  <2> QED
    BY <2>2, <2>3
<1>20. CASE FinalizersDone \/ PruneDone \/ DeleteDone \/ CreateDone
  <2>1. pc \in RunStages /\ UNCHANGED <<syncRes, site, saved>>
    BY <1>20, LoopShape
  <2> QED
    BY <1>1, <1>2, <1>5, <1>8, <1>9, <2>1
<1>21. CASE NsRan
  BY <1>1, <1>8, <1>21, FinalReturn DEF NsRan, GoTo, Completions
<1>22. CASE WetRan
  <2>1. NoSyncFailYet(syncRes)
    BY <1>1, <1>22 DEF WetRan
  <2> QED
    BY <1>8, <1>22, <2>1, FinalReturn DEF WetRan, GoTo, Reasoned
<1>23. CASE WaveHookFails \/ StartTerminate
  BY <1>7, <1>23 DEF WaveHookFails, StartTerminate, GoTo
<1>24. ASSUME NEW t \in Tasks, DeleteHook(t)
       PROVE  Final'
  <2>1. pc \in Cleaning /\ pc' = pc /\ saved' = saved
    BY <1>24 DEF DeleteHook
  <2>2. CASE pc = "cleanFailed"
    <3>1. MainFailed'
      BY <2>1, <2>2, KnownStep DEF FinalInv, FailureKnown
    <3> QED
      BY <1>6, <2>1, <2>2, <3>1, FailedInResultsNext DEF Reasoned
  <2>3. CASE pc # "cleanFailed"
    BY <1>7, <2>1, <2>3 DEF Cleaning
  <2> QED
    BY <2>2, <2>3
<1>25. CASE Succeed \/ FailWaveHook \/ TerminateDone
  BY <1>25, FinalReturn DEF Succeed, FailWaveHook, TerminateDone, Completions
<1>26. CASE SetOperationFailed
  <2>1. Reasoned(syncRes)
    BY <1>2, <1>5, <1>26 DEF SetOperationFailed
  <2> QED
    BY <1>9, <1>26, <2>1, FinalReturn DEF SetOperationFailed, RunTasks, Completions
<1>27. CASE SyncFailRan
  BY <1>2, <1>5, <1>27, FinalReturn DEF SyncFailRan
<1>28. ASSUME NEW t \in Tasks, TerminateFinalizer(t) \/ TerminateDelete(t)
       PROVE  Final'
  BY <1>7, <1>28, FinalReturn DEF TerminateFinalizer, TerminateDelete, GoTo, Completions
<1>29. CASE Crash
  BY <1>3, <1>29, FinalReturn DEF Crash
<1>30. CASE World \/ Refresh \/ Finished \/ UNCHANGED vars
  <2>1. UNCHANGED <<pc, site, opPhase, saved, syncRes, dryRun>>
    BY <1>30, WorldShape
  <2> QED
    BY <2>1 DEF FinalInv, Final, UnderWay
<1> QED
  BY <1>11, <1>12, <1>13, <1>14, <1>15, <1>16, <1>17, <1>18, <1>19, <1>20, <1>21,
     <1>22, <1>23, <1>24, <1>25, <1>26, <1>27, <1>28, <1>29, <1>30
  DEF Next, SyncStep, RunStep, TerminateStep

\* Whether an operation is a dry run is settled when it starts; restarts are
\* counted.
LEMMA DryRunRigid == [Next]_vars => dryRun' = dryRun /\ (Crash \/ crashes' = crashes)
<1> SUFFICES ASSUME [Next]_vars PROVE dryRun' = dryRun /\ (Crash \/ crashes' = crashes)
  OBVIOUS
<1>1. CASE RunStep
  BY <1>1, RunShape, LoopShape DEF RunStep
<1>2. CASE World \/ Refresh \/ Finished \/ UNCHANGED vars
  BY <1>2, WorldShape
<1>3. CASE \/ StartInvalid \/ StartNsUnknown \/ StartAgain \/ StartFirst
           \/ DryRunStep \/ UpdateStep \/ Decide
           \/ \E t \in Tasks : Unhook(t) \/ DeleteHook(t)
  BY <1>3 DEF StartInvalid, StartNsUnknown, StartAgain, StartFirst, DryRunStep,
              UpdateStep, Decide, Unhook, DeleteHook
<1>4. CASE \/ NsRan \/ WetRan \/ WaveHookFails \/ SyncFailRan
           \/ Succeed \/ FailWaveHook \/ SetOperationFailed
           \/ StartTerminate \/ TerminateStep \/ Crash
  BY <1>4 DEF NsRan, WetRan, WaveHookFails, SyncFailRan, Succeed, FailWaveHook,
              SetOperationFailed, StartTerminate, TerminateStep,
              TerminateFinalizer, TerminateDelete, TerminateDone, Crash
<1> QED
  BY <1>1, <1>2, <1>3, <1>4 DEF Next, SyncStep

\* The operation starts before both.
LEMMA FinalInit == Init => FinalInv
<1> SUFFICES ASSUME Init PROVE FinalInv
  OBVIOUS
<1>1. /\ syncRes = [t \in Tasks |-> NoResult]
      /\ saved.res = syncRes
  BY DEF Init
<1>2. NoSyncFailYet(syncRes) /\ NoSyncFailYet(saved.res)
  BY <1>1 DEF NoSyncFailYet
<1> QED
  BY <1>2, CauseInit DEF FinalInv, Final, Reasoned

\* Once a SyncFail hook has been started, no other task is started: for any
\* tasks, errors and restarts, as long as no failed task is lost before the
\* decision: a prune task or the automatic namespace task may be.
THEOREM FinalCorrect == Spec /\ []FailuresStay => []FailureIsFinal
<1>1. FinalInv /\ FailuresStay /\ [Next]_vars => FinalInv'
  BY CauseStep, FinalStep, DryRunRigid DEF FinalInv
<1>2. FinalInv => FailureIsFinal
  BY DEF FinalInv, Final, FailureIsFinal, InWetRun, NoSyncFailYet, SyncFailTasks,
         MainTasks, CurTasks
<1> QED
  BY <1>1, <1>2, FinalInit, PTL DEF Spec

-----------------------------------------------------------------------------
(* Success                                                                  *)

\* What a task may look like when the operation succeeds.
Excused(t) ==
    \/ Settled(t)
    \/ Running(t) /\ t \notin Hooks /\ (t \in batch \/ ~MultiStep)
    \/ OpState(t) = "Error" /\ t \in HookSucceeded
    \/ dryRun /\ t \in SkipDryRun

LeftOut == IF dryRun THEN SkipDryRun ELSE {}

\* While a batch runs, no other task has failed or is waited for.
OthersFine ==
    InWetRun => \A t \in MainTasks \ batch :
                    ~Unsuccessful(t) /\ (Running(t) => t \notin Hooks /\ ~MultiStep)

\* Each loop of runTasks leaves its tasks of the batch done, if all went well.
LoopsDone ==
    InWetRun /\ run = "successful" =>
        /\ pc = "prune" =>
              \A t \in (batch \cap Prunes) \ todo : OpState(t) = "Succeeded"
        /\ pc \in {"delete", "create", "ran"} =>
              \A t \in batch \cap Prunes : OpState(t) = "Succeeded"
        /\ pc \in {"create", "ran"} =>
              \A t \in batch \ (Prunes \cup LeftOut \cup todo) :
                  OpState(t) \in {"Running", "Succeeded"}

LoopTodo ==
    /\ pc = "create" => todo \cap Prunes = {}
    /\ pc = "ran" => todo = {}
    /\ pc = "cleanSucceeded" => todo \subseteq HookSucceeded

SuccessInv == LoopInv /\ OthersFine /\ LoopsDone /\ LoopTodo /\ NoFalseSuccess

\* The views of a task stay while its result and the live objects do.
LEMMA ExcusedStable ==
    ASSUME SamePresence, NEW t \in Tasks, syncRes'[t] = syncRes[t]
    PROVE  /\ OpState(t)' = OpState(t)
           /\ Settled(t)' <=> Settled(t)
           /\ batch' = batch /\ dryRun' = dryRun => (Excused(t)' <=> Excused(t))
<1>1. OpState(t)' = OpState(t)
  BY DEF OpState
<1>2. Settled(t)' <=> Settled(t)
  BY <1>1, ViewStable DEF Settled, Pending
<1> QED
  BY <1>1, <1>2, ViewStable DEF Excused, Running

\* runTasks does not change which objects its snapshot holds.
LEMMA RunPresence ==
    ASSUME ObjType, NEW t \in Tasks,
           FinalizerStep(t) \/ PruneStep(t) \/ DeleteStep(t) \/ CreateStep(t)
    PROVE  SamePresence
<1>1. CASE FinalizerStep(t)
  BY <1>1, FinalizerPresence, TaskAssumption DEF FinalizerStep
<1>2. CASE PruneStep(t) \/ DeleteStep(t) \/ CreateStep(t)
  BY <1>2 DEF PruneStep, DeleteStep, CreateStep, SamePresence
<1> QED
  BY <1>1, <1>2

\* A loop step that goes well leaves its task done.
LEMMA RunSucceeds ==
    ASSUME ResType, NEW t \in Tasks, run' = "successful",
           FinalizerStep(t) \/ PruneStep(t) \/ DeleteStep(t) \/ CreateStep(t)
    PROVE  /\ run = "successful"
           /\ pc \in {"finalizers", "delete"} => syncRes' = syncRes
           /\ pc = "prune" => OpState(t)' = "Succeeded"
           /\ pc = "create" => OpState(t)' \in {"Running", "Succeeded"}
<1> USE DEF ResType
<1>1. CASE FinalizerStep(t)
  BY <1>1 DEF FinalizerStep
<1>2. CASE DeleteStep(t)
  BY <1>2 DEF DeleteStep, Worse
<1>3. CASE PruneStep(t)
  <2>1. syncRes' = [syncRes EXCEPT ![t] = PruneResult(t)] /\ run = "successful" /\ pc = "prune"
    BY <1>3 DEF PruneStep
  <2>2. syncRes'[t] = PruneResult(t) /\ PruneResult(t) # NoResult
    BY <2>1, PruneResultType, OptionAssumption
  <2>3. PruneResult(t).phase = "Succeeded"
    BY DEF PruneResult
  <2> QED
    BY <2>1, <2>2, <2>3 DEF OpState
<1>4. CASE CreateStep(t)
  <2> DEFINE p == IF dryRun THEN "Succeeded" ELSE "Running"
             r == [status |-> "Synced", phase |-> p]
  <2>1. SetResourceResult(t, "Synced", p) /\ run = "successful" /\ pc = "create"
    BY <1>4 DEF CreateStep
  <2>2. p \in {"Running", "Succeeded"}
    OBVIOUS
  <2> HIDE DEF p
  <2>3. r \in Results /\ r.phase = p
    BY <2>2 DEF Results, Codes, OpPhases
  <2>4. syncRes'[t] = r
    BY <2>1 DEF SetResourceResult
  <2> HIDE DEF r
  <2>5. r # NoResult
    BY <2>3, OptionAssumption
  <2> QED
    BY <2>1, <2>2, <2>3, <2>4, <2>5 DEF OpState
<1> QED
  BY <1>1, <1>2, <1>3, <1>4

\* The loops of runTasks.
LEMMA SuccessRun ==
    ASSUME SuccessInv, NEW t \in Tasks, dryRun' = dryRun,
           FinalizerStep(t) \/ PruneStep(t) \/ DeleteStep(t) \/ CreateStep(t)
    PROVE  OthersFine' /\ LoopsDone' /\ LoopTodo' /\ NoFalseSuccess'
<1>1. /\ pc \in RunStages /\ pc' = pc /\ t \in todo /\ todo' = todo \ {t}
      /\ site' = site /\ batch' = batch
  BY RunShape
<1>2. ResType /\ ObjType /\ todo \subseteq batch /\ batch \subseteq Tasks
  BY <1>1, TypeParts DEF SuccessInv, LoopInv, GateInv, TodoInBatch, ControlType
<1>3. \A u \in Tasks \ {t} : OpState(u)' = OpState(u)
  BY <1>2, RunShape DEF ResType, OpState
<1>4. SamePresence
  BY <1>2, RunPresence
<1>5. OthersFine'
  <2>1. MainTasks' = MainTasks /\ (MultiStep' <=> MultiStep)
    BY <1>4, ViewStable
  <2>2. \A u \in MainTasks \ batch : OpState(u)' = OpState(u)
    BY <1>1, <1>2, <1>3 DEF MainTasks, CurTasks
  <2> QED
    BY <1>1, <2>1, <2>2
    DEF SuccessInv, OthersFine, InWetRun, Unsuccessful, Running
<1>6. LoopsDone'
  <2> SUFFICES ASSUME InWetRun', run' = "successful"
               PROVE  LoopsDone'
    BY DEF LoopsDone
  <2>1. /\ run = "successful"
        /\ pc \in {"finalizers", "delete"} => syncRes' = syncRes
        /\ pc = "prune" => OpState(t)' = "Succeeded"
        /\ pc = "create" => OpState(t)' \in {"Running", "Succeeded"}
    BY <1>2, RunSucceeds
  <2>2. InWetRun
    BY <1>1 DEF InWetRun
  <2>3. pc = "create" => t \notin Prunes
    BY <1>1 DEF SuccessInv, LoopTodo
  <2>4. pc # "ran"
    BY <1>1 DEF SuccessInv, LoopTodo
  <2>5. pc = "delete" => \A u \in Tasks : OpState(u)' = OpState(u)
    BY <2>1 DEF OpState
  <2>6. LeftOut' = LeftOut
    BY DEF LeftOut
  <2>7. pc = "prune" =>
           \A u \in (batch \cap Prunes) \ todo' : OpState(u)' = "Succeeded"
    BY <1>1, <1>2, <1>3, <2>1, <2>2 DEF SuccessInv, LoopsDone
  <2>8. pc \in {"delete", "create"} =>
           \A u \in batch \cap Prunes : OpState(u)' = "Succeeded"
    BY <1>1, <1>2, <1>3, <2>1, <2>2, <2>3, <2>5 DEF SuccessInv, LoopsDone
  <2>9. pc = "create" =>
           \A u \in batch \ (Prunes \cup LeftOut \cup todo') :
               OpState(u)' \in {"Running", "Succeeded"}
    BY <1>1, <1>2, <1>3, <2>1, <2>2 DEF SuccessInv, LoopsDone
  <2> QED
    BY <1>1, <2>4, <2>6, <2>7, <2>8, <2>9 DEF LoopsDone
<1>7. LoopTodo' /\ NoFalseSuccess'
  BY <1>1 DEF SuccessInv, LoopTodo, NoFalseSuccess, RunStages
<1> QED
  BY <1>5, <1>6, <1>7

\* From loop to loop, what went well is handed on.
LEMMA SuccessLoops ==
    ASSUME SuccessInv, dryRun' = dryRun,
           FinalizersDone \/ PruneDone \/ DeleteDone \/ CreateDone
    PROVE  OthersFine' /\ LoopsDone' /\ LoopTodo' /\ NoFalseSuccess'
<1>1. /\ pc \in RunStages /\ pc' \in RunStages /\ todo = {}
      /\ UNCHANGED <<live, syncRes, site, batch, nsTasks>>
  BY LoopShape
<1>2. SamePresence /\ \A u : OpState(u)' = OpState(u)
  BY <1>1 DEF SamePresence, OpState
<1>3. OthersFine'
  BY <1>1, <1>2, ViewStable DEF SuccessInv, OthersFine, InWetRun, Unsuccessful, Running
<1>4. LeftOut' = LeftOut
  BY DEF LeftOut
<1>5. LoopTodo' /\ NoFalseSuccess'
  BY <1>1 DEF FinalizersDone, PruneDone, DeleteDone, CreateDone, GoTo, LoopTodo,
              NoFalseSuccess, RunStages
<1>6. ASSUME InWetRun', run' = "successful"
      PROVE  LoopsDone'
  <2>1. InWetRun
    BY <1>1, <1>6 DEF InWetRun
  <2>2. CASE FinalizersDone
    <3>1. pc' = "prune" /\ todo' = batch \cap Prunes
      BY <1>6, <2>2 DEF FinalizersDone, GoTo
    <3> QED
      BY <1>1, <3>1 DEF LoopsDone
  <2>3. CASE PruneDone
    <3>1. run = "successful" /\ pc = "prune" /\ pc' = "delete"
      BY <1>6, <2>3 DEF PruneDone, GoTo
    <3> QED
      BY <1>1, <1>2, <2>1, <3>1 DEF SuccessInv, LoopsDone
  <2>4. CASE DeleteDone
    <3>1. /\ run = "successful" /\ pc = "delete" /\ pc' = "create"
          /\ todo' = batch \ (Prunes \cup LeftOut)
      BY <1>6, <2>4 DEF DeleteDone, GoTo, LeftOut
    <3> QED
      BY <1>1, <1>2, <1>4, <2>1, <3>1 DEF SuccessInv, LoopsDone
  <2>5. CASE CreateDone
    <3>1. run = "successful" /\ pc = "create" /\ pc' = "ran" /\ todo' = {}
      BY <1>6, <2>5 DEF CreateDone, GoTo
    <3> QED
      BY <1>1, <1>2, <1>4, <2>1, <3>1 DEF SuccessInv, LoopsDone
  <2> QED
    BY <2>2, <2>3, <2>4, <2>5
<1> QED
  BY <1>3, <1>5, <1>6 DEF LoopsDone

\* A task that has not failed, is not waited for and need not run is excused.
LEMMA FineIsExcused ==
    ASSUME ResType, NEW t \in Tasks, ~Unsuccessful(t),
           Running(t) => t \notin Hooks /\ ~MultiStep,
           Pending(t) => Skipped(t)
    PROVE  Excused(t)
<1>1. OpState(t) \in {"", "Running", "Succeeded"}
  BY ViewType DEF Unsuccessful, OpPhases
<1> QED
  BY <1>1 DEF Excused, Settled, Running, Pending

\* No false success says that every task is excused.
LEMMA ExcusedMeans ==
    /\ NoFalseSuccess <=> (pc = "cleanSucceeded" => \A t \in MainTasks : Excused(t))
    /\ NoFalseSuccess' <=> (pc' = "cleanSucceeded" => \A t \in MainTasks' : Excused(t)')
BY DEF NoFalseSuccess, Excused

\* Sync() decides on success when all its tasks are excused.
LEMMA SuccessDecide ==
    ASSUME SuccessInv, dryRun' = dryRun, Decide
    PROVE  OthersFine' /\ LoopsDone' /\ LoopTodo' /\ NoFalseSuccess'
<1>1. SamePresence /\ syncRes' = syncRes /\ pc = "unhook"
  BY DEF Decide, SamePresence
<1>2. ResType /\ MainTasks \subseteq Tasks
  BY TypeParts DEF SuccessInv, LoopInv, GateInv, MainTasks, CurTasks
<1>3. \A t \in MainTasks : Running(t) => t \notin Hooks /\ ~MultiStep
  BY <1>1 DEF SuccessInv, LoopInv, GateInv, Quiet, MainTasks
<1>4. CASE HasFailed
  BY <1>4 DEF Decide, GoTo, OthersFine, LoopsDone, LoopTodo, NoFalseSuccess,
              InWetRun, RunStages
<1>5. CASE ~HasFailed /\ NextTasks = {}
  <2>1. pc' = "cleanSucceeded" /\ todo' = DeletedOnSuccess /\ batch' = batch
    BY <1>5 DEF Decide, GoTo
  <2>2. \A t \in MainTasks : Excused(t)
    BY <1>2, <1>3, <1>5, FineIsExcused DEF HasFailed, NextTasks
  <2>3. NoFalseSuccess'
    BY <1>1, <1>2, <2>1, <2>2, ViewStable, ExcusedStable, ExcusedMeans
  <2> QED
    BY <2>1, <2>3
    DEF OthersFine, LoopsDone, LoopTodo, InWetRun, RunStages, DeletedOnSuccess
<1>6. CASE ~HasFailed /\ NextTasks # {}
  <2>1. pc' = "finalizers"
    BY <1>6 DEF Decide, RunTasks
  <2>2. \A t \in MainTasks : /\ Unsuccessful(t)' <=> Unsuccessful(t)
                             /\ Running(t)' <=> Running(t)
    BY <1>1 DEF Unsuccessful, Running, OpState
  <2>3. OthersFine'
    BY <1>1, <1>3, <1>6, <2>2, ViewStable DEF OthersFine, HasFailed
  <2> QED
    BY <2>1, <2>3 DEF LoopsDone, LoopTodo, NoFalseSuccess
<1> QED
  BY <1>4, <1>5, <1>6

\* So it does after the last batch, without another call.
LEMMA SuccessWetRan ==
    ASSUME SuccessInv, dryRun' = dryRun, WetRan
    PROVE  OthersFine' /\ LoopsDone' /\ LoopTodo' /\ NoFalseSuccess'
<1>1. CASE pc' \in {"idle", "cleanFailed"}
  BY <1>1 DEF OthersFine, LoopsDone, LoopTodo, NoFalseSuccess, InWetRun, RunStages
<1>2. CASE /\ run = "successful" /\ Remaining = {}
           /\ GoTo("cleanSucceeded", DeletedOnSuccess)
           /\ UNCHANGED <<syncRes, site, batch, run>>
  <2>1. InWetRun /\ pc = "ran" /\ todo = {}
    BY DEF WetRan, InWetRun, RunStages, SuccessInv, LoopTodo
  <2>2. ResType /\ MainTasks \subseteq Tasks /\ UNCHANGED <<live, nsTasks>>
    BY TypeParts DEF SuccessInv, LoopInv, GateInv, MainTasks, CurTasks, WetRan
  <2>3. ASSUME NEW t \in MainTasks, t \notin batch
        PROVE  Excused(t)
    <3>1. ~Unsuccessful(t) /\ (Running(t) => t \notin Hooks /\ ~MultiStep)
      BY <2>1, <2>3 DEF SuccessInv, OthersFine
    <3>2. t \notin NextTasks
      BY <1>2, <2>3 DEF Remaining
    <3>3. Pending(t) => Skipped(t)
      BY <2>3, <3>2 DEF NextTasks
    <3> QED
      BY <2>2, <3>1, <3>3, FineIsExcused
  <2>4. ASSUME NEW t \in MainTasks, t \in batch
        PROVE  Excused(t)
    <3>1. t \notin Hooks
      BY <1>2, <2>4 DEF Remaining
    <3>2. \/ OpState(t) \in {"Running", "Succeeded"}
          \/ dryRun /\ t \in SkipDryRun
      BY <1>2, <2>1, <2>4 DEF SuccessInv, LoopsDone, LeftOut
    <3> QED
      BY <2>4, <3>1, <3>2 DEF Excused, Settled, Running
  <2>5. NoFalseSuccess'
    <3>1. SamePresence /\ syncRes' = syncRes /\ batch' = batch
      BY <1>2, <2>2 DEF SamePresence
    <3> QED
      BY <2>2, <2>3, <2>4, <3>1, ViewStable, ExcusedStable, ExcusedMeans
  <2> QED
    BY <1>2, <2>5
    DEF GoTo, OthersFine, LoopsDone, LoopTodo, InWetRun, RunStages, DeletedOnSuccess
<1> QED
  BY <1>1, <1>2 DEF WetRan, Return, GoTo

\* The failure to delete a succeeded hook is recorded, and forgiven.
LEMMA SuccessDelete ==
    ASSUME SuccessInv, dryRun' = dryRun, NEW t \in Tasks, DeleteHook(t)
    PROVE  OthersFine' /\ LoopsDone' /\ LoopTodo' /\ NoFalseSuccess'
<1>1. /\ pc \in Cleaning /\ pc' = pc /\ t \in todo /\ todo' = todo \ {t}
      /\ live' = live /\ batch' = batch /\ nsTasks' = nsTasks
      /\ syncRes' = syncRes \/ SetResourceResult(t, "", "Error")
  BY DEF DeleteHook
<1>2. ResType /\ SamePresence
  BY <1>1, TypeParts DEF SuccessInv, LoopInv, GateInv, SamePresence
<1>3. OthersFine' /\ LoopsDone' /\ LoopTodo'
  BY <1>1 DEF SuccessInv, OthersFine, LoopsDone, LoopTodo, InWetRun, Cleaning, RunStages
<1>4. ASSUME pc = "cleanSucceeded", NEW u \in MainTasks
      PROVE  Excused(u)'
  <2>1. u \in Tasks /\ Excused(u)
    BY <1>4, ExcusedMeans DEF SuccessInv, MainTasks, CurTasks
  <2>2. CASE syncRes'[u] = syncRes[u]
    BY <1>1, <1>2, <2>1, <2>2, ExcusedStable
  <2>3. CASE u = t /\ SetResourceResult(t, "", "Error")
    <3> DEFINE r == [status |-> "", phase |-> "Error"]
    <3>1. r \in Results /\ r.phase = "Error"
      BY DEF Results, Codes, OpPhases
    <3>2. syncRes'[t] = r
      BY <1>2, <2>3 DEF SetResourceResult, ResType
    <3> HIDE DEF r
    <3>3. OpState(t)' = "Error"
      BY <3>1, <3>2, OptionAssumption DEF OpState
    <3>4. t \in HookSucceeded
      BY <1>1, <1>4 DEF SuccessInv, LoopTodo
    <3> QED
      BY <2>3, <3>3, <3>4 DEF Excused
  <2> QED
    BY <1>1, <1>2, <2>1, <2>2, <2>3 DEF SetResourceResult, ResType
<1>5. NoFalseSuccess'
  BY <1>1, <1>2, <1>4, ViewStable, ExcusedMeans
<1> QED
  BY <1>3, <1>5

\* The other steps neither run a batch nor decide on success.
LEMMA SuccessOther ==
    ASSUME pc' \notin RunStages \cup {"cleanSucceeded"}
           \/ (pc' = "finalizers" /\ site' # "wet")
    PROVE  OthersFine' /\ LoopsDone' /\ LoopTodo' /\ NoFalseSuccess'
BY DEF OthersFine, LoopsDone, LoopTodo, NoFalseSuccess, InWetRun, RunStages

\* Nor does the world disturb what the code looks at.
LEMMA SuccessWorld ==
    ASSUME SuccessInv, World \/ Refresh \/ Finished \/ UNCHANGED vars
    PROVE  OthersFine' /\ LoopsDone' /\ LoopTodo' /\ NoFalseSuccess'
<1>1. /\ UNCHANGED <<syncRes, pc, site, batch, todo, run, dryRun, nsTasks>>
      /\ pc # "idle" => live' = live
  BY WorldShape
<1>2. CASE pc = "idle"
  BY <1>1, <1>2, SuccessOther DEF RunStages
<1>3. CASE pc # "idle"
  <2>1. SamePresence /\ \A u : OpState(u)' = OpState(u)
    BY <1>1, <1>3 DEF SamePresence, OpState
  <2>2. OthersFine'
    BY <1>1, <2>1, ViewStable
    DEF SuccessInv, OthersFine, InWetRun, Unsuccessful, Running
  <2>3. LoopsDone' /\ LoopTodo'
    BY <1>1, <2>1 DEF SuccessInv, LoopsDone, LoopTodo, InWetRun, LeftOut
  <2>4. NoFalseSuccess'
    BY <1>1, <2>1, ViewStable, ExcusedStable, ExcusedMeans
    DEF SuccessInv, MainTasks, CurTasks
  <2> QED
    BY <2>2, <2>3, <2>4
<1> QED
  BY <1>2, <1>3

\* Each step keeps what a success rests on.
LEMMA SuccessStep == SuccessInv /\ [Next]_vars => SuccessInv'
<1> SUFFICES ASSUME SuccessInv, [Next]_vars PROVE SuccessInv'
  OBVIOUS
<1>1. LoopInv' /\ dryRun' = dryRun
  BY LoopStep, DryRunRigid DEF SuccessInv
<1> SUFFICES OthersFine' /\ LoopsDone' /\ LoopTodo' /\ NoFalseSuccess'
  BY <1>1 DEF SuccessInv
<1>2. CASE RunStep \/ Decide \/ WetRan \/ \E t \in Tasks : DeleteHook(t)
  BY <1>1, <1>2, SuccessRun, SuccessLoops, SuccessDecide, SuccessWetRan, SuccessDelete
  DEF RunStep
<1>3. CASE World \/ Refresh \/ Finished \/ UNCHANGED vars
  BY <1>3, SuccessWorld
<1>4. CASE StartInvalid \/ StartNsUnknown \/ StartAgain \/ DryRunStep \/ UpdateStep
  BY <1>4, SuccessOther
  DEF StartInvalid, StartNsUnknown, StartAgain, DryRunStep, UpdateStep, Return, GoTo,
      RunStages
<1>5. CASE StartFirst \/ SetOperationFailed
  BY <1>5, SuccessOther
  DEF StartFirst, SetOperationFailed, GoTo, RunTasks, Return, RunStages
<1>6. CASE NsRan \/ WaveHookFails \/ SyncFailRan \/ Succeed \/ FailWaveHook \/ Crash
           \/ \E t \in Tasks : Unhook(t)
  BY <1>6, SuccessOther
  DEF NsRan, WaveHookFails, SyncFailRan, Succeed, FailWaveHook, Crash, Unhook, Return,
      GoTo, RunStages
<1>7. CASE StartTerminate \/ TerminateStep
  BY <1>7, SuccessOther
  DEF StartTerminate, TerminateStep, TerminateFinalizer, TerminateDelete,
      TerminateDone, Return, GoTo, RunStages
<1> QED
  BY <1>2, <1>3, <1>4, <1>5, <1>6, <1>7 DEF Next, SyncStep

\* The operation starts undecided.
LEMMA SuccessInit == Init => SuccessInv
BY LoopInit
DEF Init, SuccessInv, OthersFine, LoopsDone, LoopTodo, NoFalseSuccess, InWetRun, RunStages

\* Sync() decides on success only when no task failed, none is left out that
\* should run, and what still runs is a resource that nothing waits for: for
\* any tasks and options, after any errors, restarts and calls before it.
THEOREM SuccessCorrect == Spec => []NoFalseSuccess
<1>1. SuccessInv => NoFalseSuccess
  BY DEF SuccessInv
<1> QED
  BY <1>1, SuccessInit, SuccessStep, PTL DEF Spec

-----------------------------------------------------------------------------
(* Running tasks                                                            *)

\* Only the creation of its object starts a task.
NoneStarted == \A t \in Tasks : Running(t)' => Running(t)

\* A result that is not "Running" starts no task.
LEMMA NotStarted ==
    ASSUME ResType, NEW t \in Tasks, NEW s, NEW p, p # "Running",
           SetResourceResult(t, s, p)
    PROVE  NoneStarted
<1>1. \A u \in Tasks \ {t} : OpState(u)' = OpState(u)
  BY DEF SetResourceResult, ResType, OpState
<1>2. OpState(t)' \in {"", p}
  <2>1. syncRes'[t] = [status |-> s, phase |-> p]
    BY DEF SetResourceResult, ResType
  <2> QED
    BY <2>1 DEF OpState
<1> QED
  BY <1>1, <1>2 DEF NoneStarted, Running

\* Nor do unchanged results,
LEMMA SameResults ==
    ASSUME syncRes' = syncRes
    PROVE  NoneStarted
BY DEF NoneStarted, Running, OpState

\* the update of the running tasks,
LEMMA UpdateStartsNone ==
    ASSUME syncRes' = UpdateResults
    PROVE  NoneStarted
BY DEF UpdateResults, NoneStarted, Running, OpState

\* or the dry run.
LEMMA DryRunStartsNone ==
    ASSUME NEW bad, syncRes' = DryRunResults(bad)
    PROVE  NoneStarted
BY DEF DryRunResults, PruneResult, NoneStarted, Running, OpState

\* Of the steps of a sync operation, CreateStep and Crash may.
LEMMA StartsOnlyByCreate ==
    ASSUME ResType, [Next]_vars
    PROVE  NoneStarted \/ Crash \/ \E t \in Tasks : CreateStep(t)
<1> USE SameResults
<1>1. CASE World \/ Refresh \/ Finished \/ UNCHANGED vars
  BY <1>1, WorldShape
<1>2. CASE FinalizersDone \/ PruneDone \/ DeleteDone \/ CreateDone
  BY <1>2, LoopShape
<1>3. ASSUME NEW t \in Tasks, Unhook(t) \/ DeleteHook(t) \/ FinalizerStep(t) \/ DeleteStep(t)
      PROVE  NoneStarted
  BY <1>3, NotStarted DEF Unhook, DeleteHook, FinalizerStep, DeleteStep
<1>4. ASSUME NEW t \in Tasks, PruneStep(t)
      PROVE  NoneStarted
  <2>1. CASE syncRes' = [syncRes EXCEPT ![t] = PruneResult(t)]
    <3>1. SetResourceResult(t, PruneResult(t).status, "Succeeded")
      BY <2>1 DEF SetResourceResult, PruneResult
    <3> QED
      BY <3>1, NotStarted
  <2> QED
    BY <1>4, <2>1, NotStarted DEF PruneStep
<1>5. ASSUME NEW t \in Tasks, TerminateFinalizer(t) \/ TerminateDelete(t)
      PROVE  NoneStarted
  BY <1>5, NotStarted DEF TerminateFinalizer, TerminateDelete, Return
<1>6. CASE StartInvalid
  <2>1. PICK t \in Tasks : SetResourceResult(t, "SyncFailed", "")
    BY <1>6 DEF StartInvalid, Return, SetResourceResult, CurTasks
  <2> QED
    BY <2>1, NotStarted
<1>7. CASE StartNsUnknown
  BY <1>7, NotStarted, KindAssumption DEF StartNsUnknown, appendFailedNsTask
<1>8. CASE UpdateStep
  BY <1>8, UpdateStartsNone DEF UpdateStep
<1>9. CASE DryRunStep
  BY <1>9, DryRunStartsNone DEF DryRunStep, Return
<1>10. CASE StartAgain \/ StartFirst \/ Decide \/ NsRan \/ WetRan \/ WaveHookFails
  BY <1>10 DEF StartAgain, StartFirst, Decide, NsRan, WetRan, WaveHookFails, Return
<1>11. CASE StartTerminate
  BY <1>11, TerminateResult, NotStarted
<1>12. CASE SyncFailRan \/ Succeed \/ FailWaveHook \/ SetOperationFailed \/ TerminateDone
  BY <1>12 DEF SyncFailRan, Succeed, FailWaveHook, SetOperationFailed, TerminateDone,
               Return
<1> QED
  BY <1>1, <1>2, <1>3, <1>4, <1>5, <1>6, <1>7, <1>8, <1>9, <1>10, <1>11, <1>12
  DEF Next, SyncStep, RunStep, TerminateStep

-----------------------------------------------------------------------------
(* Running hooks keep their objects                                         *)

\* No two hooks have one object.
HooksAlone == \A t, u \in Hooks : Obj[t] = Obj[u] => t = u

Held(o) == cluster[o] # NoObj /\ cluster[o].finalizer

\* A running hook's object carries the finalizer.
HooksHeld == UnderWay => \A t \in Hooks : Running(t) => Held(Obj[t])

HeldInv == LoopInv /\ (crashes = 0 => HooksHeld)

KeepsHeld(objs, f) ==
    \A o \in objs : cluster[o] # NoObj /\ cluster[o].finalizer
                       => f[o] # NoObj /\ f[o].finalizer

\* A deletion leaves the finalizer of its object,
LEMMA MarkedKeepsHeld ==
    ASSUME ObjType, NEW o \in Objects
    PROVE  KeepsHeld(Objects, MarkedDeleted(o))
<1>1. CASE cluster[o] = NoObj
  BY <1>1 DEF MarkedDeleted, KeepsHeld
<1>2. CASE cluster[o] # NoObj
  <2> DEFINE new == [cluster[o] EXCEPT !.deleting = TRUE]
  <2>1. cluster[o] \in KubeObjects
    BY <1>2 DEF ObjType
  <2>2. new \in KubeObjects /\ new.finalizer = cluster[o].finalizer
    BY <2>1 DEF KubeObjects
  <2>3. new # NoObj
    BY <2>2, ObjectAssumption
  <2>4. MarkedDeleted(o) = [cluster EXCEPT ![o] = new]
    BY <1>2 DEF MarkedDeleted
  <2> HIDE DEF new
  <2> QED
    BY <2>2, <2>3, <2>4 DEF KeepsHeld, ObjType
<1> QED
  BY <1>1, <1>2

\* the removal of a finalizer leaves the others,
LEMMA WithoutKeepsHeld ==
    ASSUME ObjType, NEW o \in Objects
    PROVE  KeepsHeld(Objects \ {o}, WithoutFinalizer(cluster, o))
BY OneObject DEF KeepsHeld

\* and an apply keeps them all, and gives hooks theirs.
LEMMA AppliedHolds ==
    ASSUME ObjType, NEW t \in Tasks
    PROVE  /\ KeepsHeld(Objects, Applied(t))
           /\ t \in Hooks => Applied(t)[Obj[t]] # NoObj /\ Applied(t)[Obj[t]].finalizer
<1> DEFINE o == Obj[t]
           del == cluster[o] # NoObj /\ cluster[o].deleting
           fin == t \in Hooks \/ (cluster[o] # NoObj /\ cluster[o].finalizer)
           new == [health |-> NewHealth(o), deleting |-> del,
                   finalizer |-> fin, applied |-> TRUE]
<1>1. o \in Objects
  BY TaskAssumption
<1>2. Applied(t) = [cluster EXCEPT ![o] = new]
  BY DEF Applied
<1>3. new.finalizer = fin
  OBVIOUS
<1>4. new \in KubeObjects
  <2>1. NewHealth(o) \in Healths
    BY DEF NewHealth, Healths
  <2>2. del \in BOOLEAN /\ fin \in BOOLEAN
    OBVIOUS
  <2> HIDE DEF del, fin, o
  <2> QED
    BY <2>1, <2>2 DEF KubeObjects
<1>5. new # NoObj
  BY <1>4, ObjectAssumption
<1>6. (t \in Hooks \/ (cluster[o] # NoObj /\ cluster[o].finalizer)) => fin
  OBVIOUS
<1> HIDE DEF new, fin
<1> QED
  BY <1>1, <1>2, <1>3, <1>5, <1>6 DEF KeepsHeld, ObjType

\* An operation that is over, or being terminated, is not resumed.
LEMMA UnderWayBefore ==
    ASSUME [Next]_vars, ~Crash, UnderWay'
    PROVE  UnderWay
<1> USE DEF UnderWay, Terminating
<1>1. CASE pc \notin Terminating \cup {"idle"}
  BY <1>1
<1>2. CASE Callable
  BY <1>2 DEF Callable
<1>3. CASE TerminateStep
  BY <1>3 DEF TerminateStep, TerminateFinalizer, TerminateDelete, TerminateDone, Return,
              GoTo, Completions
<1>4. CASE World \/ Refresh \/ Finished \/ UNCHANGED vars
  BY <1>4, WorldShape
<1>5. CASE RunStep
  BY <1>1, <1>5, RunShape, LoopShape DEF RunStep, RunStages
<1>6. CASE StartInvalid \/ StartNsUnknown \/ StartAgain \/ StartFirst \/ StartTerminate
  BY <1>2, <1>6 DEF StartInvalid, StartNsUnknown, StartAgain, StartFirst, StartTerminate
<1>7. CASE \/ DryRunStep \/ UpdateStep \/ Decide
           \/ \E t \in Tasks : Unhook(t) \/ DeleteHook(t)
           \/ NsRan \/ WetRan \/ WaveHookFails \/ SyncFailRan
           \/ Succeed \/ FailWaveHook \/ SetOperationFailed
  BY <1>1, <1>7
  DEF DryRunStep, UpdateStep, Decide, Unhook, DeleteHook, NsRan, WetRan, WaveHookFails,
      SyncFailRan, Succeed, FailWaveHook, SetOperationFailed, Cleaning
<1> QED
  BY <1>3, <1>4, <1>5, <1>6, <1>7 DEF Next, SyncStep

\* The calls that remove a finalizer spare the objects of running hooks.
LEMMA HeldFinalizer ==
    ASSUME HooksAlone, HeldInv, crashes = 0, UnderWay, NoneStarted,
           NEW u \in Tasks, Unhook(u) \/ FinalizerStep(u)
    PROVE  HooksHeld'
<1>1. u \in Hooks /\ ~Running(u)
  BY DEF HeldInv, LoopInv, HookLoops, HooksAtRest, HookSteps, Unhook, FinalizerStep,
         Running, Completed, Pending, Completions
<1>2. cluster' \in {cluster, WithoutFinalizer(cluster, Obj[u])}
  BY DEF Unhook, FinalizerStep, RemoveFinalizer, FailToRemoveFinalizer, ApiDone, ApiError
<1>3. Obj[u] \in Objects /\ Hooks \subseteq Tasks
  BY TaskAssumption, KindAssumption
<1>4. KeepsHeld(Objects \ {Obj[u]}, cluster')
  <2>1. ObjType
    BY TypeParts DEF HeldInv, LoopInv, GateInv
  <2> QED
    BY <1>2, <1>3, <2>1, WithoutKeepsHeld DEF KeepsHeld
<1>5. ASSUME NEW t \in Hooks, Running(t)
      PROVE  Held(Obj[t])'
  <2>1. Held(Obj[t]) /\ Obj[t] \in Objects \ {Obj[u]}
    BY <1>1, <1>3, <1>5, TaskAssumption DEF HeldInv, HooksHeld, HooksAlone
  <2> QED
    BY <1>4, <2>1 DEF Held, KeepsHeld
<1> QED
  BY <1>3, <1>5 DEF HooksHeld, NoneStarted

\* What leaves every held object held.
LEMMA HeldKept ==
    ASSUME HeldInv, crashes = 0, UnderWay, NoneStarted, KeepsHeld(Objects, cluster')
    PROVE  HooksHeld'
BY KindAssumption, TaskAssumption
DEF HeldInv, HooksHeld, Held, KeepsHeld, NoneStarted

\* The world removes no finalizer.
LEMMA WorldKeepsHeld ==
    ASSUME ObjType, World \/ Refresh \/ Finished \/ UNCHANGED vars
    PROVE  KeepsHeld(Objects, cluster')
<1>1. CASE cluster' = cluster
  BY <1>1 DEF KeepsHeld
<1>2. ASSUME NEW o \in Objects, Settle(o) \/ Relapse(o)
      PROVE  KeepsHeld(Objects, cluster')
  <2>1. PICK h \in HealthOutcomes : cluster' = [cluster EXCEPT ![o].health = h]
    BY <1>2 DEF Settle, Relapse
  <2> DEFINE new == [cluster[o] EXCEPT !.health = h]
  <2>2. cluster[o] \in KubeObjects
    BY <1>2 DEF ObjType, Settle, Relapse
  <2>3. new \in KubeObjects /\ new.finalizer = cluster[o].finalizer
    BY <2>2, ObjectAssumption DEF KubeObjects
  <2>4. new # NoObj
    BY <2>3, ObjectAssumption
  <2>5. cluster' = [cluster EXCEPT ![o] = new]
    BY <2>1
  <2> HIDE DEF new
  <2> QED
    BY <2>3, <2>4, <2>5 DEF KeepsHeld, ObjType
<1>3. ASSUME NEW o \in Objects, ExternalDelete(o)
      PROVE  KeepsHeld(Objects, cluster')
  BY <1>3, MarkedKeepsHeld DEF ExternalDelete
<1>4. ASSUME NEW o \in Objects, DeletionCompletes(o)
      PROVE  KeepsHeld(Objects, cluster')
  BY <1>4 DEF DeletionCompletes, KeepsHeld, ObjType
<1> QED
  BY <1>1, <1>2, <1>3, <1>4 DEF World, Observe, Refresh, Finished, vars, unlessLive

\* Each step but a restart keeps the objects of running hooks held.
LEMMA HeldStep ==
    ASSUME HooksAlone, HeldInv, crashes = 0, [Next]_vars, ~Crash
    PROVE  HooksHeld'
<1> SUFFICES ASSUME UnderWay'
             PROVE  HooksHeld'
  BY DEF HooksHeld
<1>1. UnderWay
  BY UnderWayBefore
<1>2. ResType /\ ObjType
  BY TypeParts DEF HeldInv, LoopInv, GateInv
<1>3. Obj \in [Tasks -> Objects] /\ Hooks \subseteq Tasks
  BY TaskAssumption, KindAssumption
<1>4. ASSUME NEW t \in Tasks, CreateStep(t)
      PROVE  HooksHeld'
  <2>1. cluster' \in {cluster, Applied(t)}
    BY <1>4 DEF CreateStep, CreateEffect, ApiDone, ApiError
  <2>2. KeepsHeld(Objects, cluster')
    BY <1>2, <2>1, AppliedHolds DEF KeepsHeld
  <2>3. CASE SetResourceResult(t, "SyncFailed", "Failed")
    BY <1>1, <1>2, <2>2, <2>3, NotStarted, HeldKept
  <2>4. CASE dryRun /\ SetResourceResult(t, "Synced", "Succeeded")
    BY <1>1, <1>2, <2>2, <2>4, NotStarted, HeldKept
  <2>5. CASE cluster' = Applied(t) /\ SetResourceResult(t, "Synced", "Running")
    <3>1. \A u \in Tasks \ {t} : Running(u)' <=> Running(u)
      BY <1>2, <2>5 DEF SetResourceResult, ResType, Running, OpState
    <3>2. \A u \in Hooks : u # t /\ Running(u) => Held(Obj[u])'
      BY <1>1, <1>3, <2>2 DEF HeldInv, HooksHeld, Held, KeepsHeld
    <3>3. t \in Hooks => Held(Obj[t])'
      BY <1>2, <2>5, AppliedHolds DEF Held
    <3> QED
      BY <1>3, <3>1, <3>2, <3>3 DEF HooksHeld
  <2> QED
    BY <1>4, <2>3, <2>4, <2>5 DEF CreateStep, CreateEffect, ApiDone
<1>5. CASE ~\E t \in Tasks : CreateStep(t)
  <2>1. NoneStarted
    BY <1>2, <1>5, StartsOnlyByCreate
  <2>2. CASE World \/ Refresh \/ Finished \/ UNCHANGED vars
    BY <1>1, <1>2, <2>1, <2>2, WorldKeepsHeld, HeldKept
  <2>3. ASSUME NEW t \in Tasks, Unhook(t) \/ FinalizerStep(t)
        PROVE  HooksHeld'
    BY <1>1, <2>1, <2>3, HeldFinalizer
  <2>4. ASSUME NEW t \in Tasks, PruneStep(t) \/ DeleteStep(t) \/ DeleteHook(t)
        PROVE  HooksHeld'
    <3>1. cluster' \in {cluster, MarkedDeleted(Obj[t])}
      BY <2>4 DEF PruneStep, DeleteStep, DeleteHook, ApiDone, ApiError
    <3>2. KeepsHeld(Objects, cluster')
      BY <1>2, <1>3, <3>1, MarkedKeepsHeld DEF KeepsHeld
    <3> QED
      BY <1>1, <2>1, <3>2, HeldKept
  <2>5. ASSUME cluster' = cluster
        PROVE  HooksHeld'
    BY <1>1, <2>1, <2>5, HeldKept DEF KeepsHeld
  <2>6. CASE FinalizersDone \/ PruneDone \/ DeleteDone \/ CreateDone
    BY <2>5, <2>6, LoopShape
  <2>7. CASE StartInvalid \/ StartNsUnknown \/ StartAgain \/ StartFirst \/ DryRunStep
             \/ UpdateStep \/ Decide
    BY <2>5, <2>7 DEF StartInvalid, StartNsUnknown, StartAgain, StartFirst, DryRunStep,
                      UpdateStep, Decide
  <2>8. CASE NsRan \/ WetRan \/ WaveHookFails \/ SyncFailRan \/ Succeed \/ FailWaveHook
             \/ SetOperationFailed
    BY <2>5, <2>8 DEF NsRan, WetRan, WaveHookFails, SyncFailRan, Succeed, FailWaveHook,
                      SetOperationFailed
  <2>9. CASE StartTerminate \/ TerminateStep
    <3>1. TerminateStep => pc \in Terminating
      BY DEF TerminateStep, TerminateFinalizer, TerminateDelete, TerminateDone, Terminating
    <3> QED
      BY <1>1, <2>5, <2>9, <3>1 DEF StartTerminate, UnderWay
  <2> QED
    BY <1>5, <2>2, <2>3, <2>4, <2>6, <2>7, <2>8, <2>9 DEF Next, SyncStep, RunStep
<1> QED
  BY <1>4, <1>5

\* The operation starts without a running hook.
LEMMA HeldInit == Init => HeldInv
<1> SUFFICES ASSUME Init PROVE HeldInv
  OBVIOUS
<1>1. \A t \in Tasks : ~Running(t)
  BY DEF Init, Running, OpState
<1> QED
  BY <1>1, LoopInit, KindAssumption DEF HeldInv, HooksHeld

\* Each step keeps them held, until a restart.
LEMMA HeldInvStep ==
    ASSUME HooksAlone, HeldInv, [Next]_vars
    PROVE  HeldInv' /\ (crashes' = 0 => crashes = 0 /\ ~Crash)
<1>1. LoopInv'
  BY LoopStep DEF HeldInv
<1>2. crashes \in Nat
  BY TypeParts, BoundAssumption DEF HeldInv, LoopInv, GateInv, CountType
<1>3. crashes' = 0 => crashes = 0 /\ ~Crash
  BY <1>2, DryRunRigid DEF Crash
<1> QED
  BY <1>1, <1>3, HeldStep DEF HeldInv

\* The objects of running hooks stay, whoever deletes them: the finalizer
\* keeps them until the operation has seen how they ended.  (A restart between
\* the removal of the finalizer and the return of Sync() forgets what it saw.)
THEOREM HookStays == HooksAlone => (Spec => [](crashes = 0 => RunningHookStays))
<1> SUFFICES ASSUME HooksAlone
             PROVE  Spec => [](crashes = 0 => RunningHookStays)
  OBVIOUS
<1>1. HeldInv /\ [Next]_vars => HeldInv'
  BY HeldInvStep
<1>2. HeldInv => (crashes = 0 => RunningHookStays)
  BY DEF HeldInv, HooksHeld, Held, RunningHookStays
<1> QED
  BY <1>1, <1>2, HeldInit, PTL DEF Spec

\* While a call is under way the operation is not over, nor was it saved so.
StillOpen ==
    /\ pc # "idle" => opPhase \notin Completions /\ saved.phase \notin Completions
    /\ pc = "idle" => saved.phase = opPhase

\* A return saves the phase that it sets.
LEMMA SavesPhase ==
    \A p, r : Return(p, r) => /\ pc' = "idle" /\ opPhase' = p
                             /\ saved'.phase = opPhase'
BY DEF Return

\* It becomes a success in one step only.
LEMMA StillOpenStep ==
    ASSUME StillOpen, [Next]_vars
    PROVE  /\ StillOpen'
           /\ opPhase' = "Succeeded" =>
                 \/ pc = "idle" /\ opPhase = "Succeeded"
                       /\ (World \/ Refresh \/ Finished \/ UNCHANGED vars)
                 \/ Succeed
<1> USE SavesPhase DEF StillOpen, Completions
<1>1. CASE RunStep
  BY <1>1, RunShape, LoopShape DEF RunStep, RunStages
<1>2. CASE World \/ Refresh \/ Finished \/ UNCHANGED vars
  BY <1>2, WorldShape
<1>3. CASE \/ StartInvalid \/ StartNsUnknown \/ StartAgain \/ StartFirst \/ StartTerminate
  BY <1>3 DEF StartInvalid, StartNsUnknown, StartAgain, StartFirst, StartTerminate,
              Callable, GoTo, RunTasks, Return
<1>4. CASE DryRunStep \/ UpdateStep
  BY <1>4 DEF DryRunStep, UpdateStep, GoTo, Return
<1>5. CASE Decide
  BY <1>5 DEF Decide, GoTo, RunTasks
<1>6. ASSUME NEW t \in Tasks, Unhook(t) \/ DeleteHook(t)
      PROVE  UNCHANGED <<pc, opPhase, saved>> /\ pc # "idle"
  BY <1>6 DEF Unhook, DeleteHook, Cleaning
<1>7. CASE NsRan \/ WetRan \/ WaveHookFails \/ SyncFailRan
  BY <1>7 DEF NsRan, WetRan, WaveHookFails, SyncFailRan, GoTo
<1>8. CASE Succeed \/ FailWaveHook \/ SetOperationFailed \/ Crash
  <2>1. CASE Succeed \/ FailWaveHook \/ Crash
    BY <2>1 DEF Succeed, FailWaveHook, Crash
  <2>2. CASE SetOperationFailed
    BY <2>2 DEF SetOperationFailed, RunTasks
  <2> QED
    BY <1>8, <2>1, <2>2
<1>9. CASE TerminateStep
  <2>1. ASSUME NEW t \in Tasks, TerminateFinalizer(t)
        PROVE  \/ UNCHANGED <<opPhase, saved>> /\ pc # "idle" /\ pc' # "idle"
               \/ Return("Error", syncRes)
    BY <2>1 DEF TerminateFinalizer, GoTo
  <2>2. ASSUME NEW t \in Tasks, TerminateDelete(t)
        PROVE  UNCHANGED <<opPhase, saved>> /\ pc # "idle" /\ pc' # "idle"
    BY <2>2 DEF TerminateDelete, GoTo
  <2>3. CASE TerminateDone
    BY <2>3 DEF TerminateDone
  <2> QED
    BY <1>9, <2>1, <2>2, <2>3 DEF TerminateStep
<1> QED
  BY <1>1, <1>2, <1>3, <1>4, <1>5, <1>6, <1>7, <1>8, <1>9 DEF Next, SyncStep

\* Terminate() has still to handle each hook that runs and that its snapshot
\* shows.
HooksToStop ==
    pc \in Terminating =>
        /\ opPhase \notin Completions
        /\ \A t \in Hooks : Running(t) /\ HasLive(t) => t \in todo

StopInv == TypeOK /\ StillOpen /\ HooksToStop

\* It begins with all of them.
LEMMA TerminateStarts ==
    ASSUME StartTerminate
    PROVE  HooksToStop'
<1>1. opPhase \notin Completions /\ opPhase' = opPhase /\ live' = live
      /\ todo' = {t \in Hooks : HasLive(t)}
  BY DEF StartTerminate, Callable, GoTo
<1> QED
  BY <1>1 DEF HooksToStop, HasLive, LiveObj

\* Each call it makes stops the hook it is about, or leaves it to do.
LEMMA TerminateCalls ==
    ASSUME StopInv, NEW t \in Tasks, TerminateFinalizer(t) \/ TerminateDelete(t)
    PROVE  /\ HooksToStop'
           /\ opPhase' # "Failed"
<1>1. ResType /\ ObjType /\ HooksToStop /\ pc \in Terminating
  BY TypeParts DEF StopInv, TerminateFinalizer, TerminateDelete, Terminating
<1>0. \A u \in Hooks : HasLive(u)' <=> HasLive(u)
  <2>1. SamePresence
    <3>1. CASE TerminateFinalizer(t)
      BY <1>1, <3>1, FinalizerPresence, TaskAssumption DEF TerminateFinalizer
    <3>2. CASE TerminateDelete(t)
      BY <3>2 DEF TerminateDelete, SamePresence
    <3> QED
      BY <3>1, <3>2
  <2> QED
    BY <2>1, KindAssumption, TaskAssumption DEF SamePresence, HasLive, LiveObj
<1>2. \/ Return("Error", syncRes)
      \/ /\ opPhase' = opPhase /\ todo' = todo /\ syncRes' = syncRes
      \/ /\ opPhase' = opPhase /\ todo' = todo \ {t}
         /\ \E s : \E p \in Completions : SetResourceResult(t, s, p)
  <2> USE DEF Completions
  <2>1. CASE TerminateDelete(t)
    <3>1. opPhase' = opPhase /\ todo' = todo \ {t}
      BY <2>1 DEF TerminateDelete, GoTo
    <3>2. SetResourceResult(t, "", "Succeeded") \/ SetResourceResult(t, "", "Failed")
      BY <2>1 DEF TerminateDelete
    <3> QED
      BY <3>1, <3>2
  <2>2. CASE TerminateFinalizer(t)
    <3>1. \/ Return("Error", syncRes)
          \/ GoTo("terminateRunning", todo) /\ syncRes' = syncRes
          \/ GoTo("terminate", todo \ {t})
      BY <2>2 DEF TerminateFinalizer
    <3>2. CASE Return("Error", syncRes)
      BY <3>2
    <3>3. CASE GoTo("terminateRunning", todo) /\ syncRes' = syncRes
      BY <3>3 DEF GoTo
    <3>4. CASE GoTo("terminate", todo \ {t})
      <4>1. opPhase' = opPhase /\ todo' = todo \ {t} /\ pc' = "terminate"
        BY <3>4 DEF GoTo
      <4>2. \/ \E p \in {"Succeeded", "Failed"} : SetResourceResult(t, "", p)
            \/ SetResourceResult(t, SyncStatus(t), "Error")
        BY <2>2, <4>1 DEF TerminateFinalizer, Return, GoTo
      <4> QED
        BY <4>1, <4>2
    <3> QED
      BY <3>1, <3>2, <3>3, <3>4
  <2> QED
    BY <2>1, <2>2
<1>3. CASE Return("Error", syncRes)
  BY <1>3 DEF Return, HooksToStop, Terminating
<1>4. CASE opPhase' = opPhase /\ todo' = todo /\ syncRes' = syncRes
  BY <1>0, <1>1, <1>4 DEF HooksToStop, Running, OpState, Completions
<1>5. ASSUME opPhase' = opPhase, todo' = todo \ {t},
             NEW s, NEW p \in Completions, SetResourceResult(t, s, p)
      PROVE  HooksToStop' /\ opPhase' # "Failed"
  <2>1. \A u \in Tasks \ {t} : Running(u)' <=> Running(u)
    BY <1>1, <1>5 DEF SetResourceResult, ResType, Running, OpState
  <2>2. ~Running(t)'
    <3>1. syncRes'[t] = [status |-> s, phase |-> p]
      BY <1>1, <1>5 DEF SetResourceResult, ResType
    <3> QED
      BY <1>5, <3>1 DEF Running, OpState, Completions
  <2> QED
    BY <1>0, <1>1, <1>5, <2>1, <2>2, KindAssumption DEF HooksToStop, Completions
<1> QED
  BY <1>2, <1>3, <1>4, <1>5

\* A step from or to a running Terminate() is one of its own, or of the world.
LEMMA TerminateShape ==
    ASSUME [Next]_vars, pc \in Terminating \/ pc' \in Terminating
    PROVE  \/ StartTerminate \/ TerminateStep \/ Crash
           \/ World \/ Refresh \/ Finished \/ UNCHANGED vars
<1> USE DEF Terminating
<1>1. CASE RunStep
  BY <1>1, RunShape, LoopShape DEF RunStep, RunStages
<1>2. CASE \/ StartInvalid \/ StartNsUnknown \/ StartAgain \/ StartFirst
           \/ DryRunStep \/ UpdateStep \/ Decide
           \/ \E t \in Tasks : Unhook(t) \/ DeleteHook(t)
  BY <1>2 DEF StartInvalid, StartNsUnknown, StartAgain, StartFirst, Callable, DryRunStep,
              UpdateStep, Decide, Unhook, DeleteHook, Return, GoTo, RunTasks, Cleaning
<1>3. CASE \/ NsRan \/ WetRan \/ WaveHookFails \/ SyncFailRan
           \/ Succeed \/ FailWaveHook \/ SetOperationFailed
  BY <1>3 DEF NsRan, WetRan, WaveHookFails, SyncFailRan, Succeed, FailWaveHook,
              SetOperationFailed, Return, GoTo, RunTasks
<1> QED
  BY <1>1, <1>2, <1>3 DEF Next, SyncStep

\* Each step keeps the running hooks among those Terminate() will handle.
LEMMA StopStep == StopInv /\ [Next]_vars => StopInv'
<1> SUFFICES ASSUME StopInv, [Next]_vars PROVE StopInv'
  OBVIOUS
<1>1. TypeOK' /\ StillOpen'
  BY TypeStep, StillOpenStep DEF StopInv
<1> SUFFICES ASSUME pc' \in Terminating
             PROVE  HooksToStop'
  BY <1>1 DEF StopInv, HooksToStop
<1>2. CASE StartTerminate
  BY <1>2, TerminateStarts
<1>3. CASE TerminateStep
  BY <1>3, TerminateCalls DEF TerminateStep, TerminateDone, Return, Terminating
<1>4. CASE Crash
  BY <1>4 DEF Crash, Return, Terminating
<1>5. CASE World \/ Refresh \/ Finished \/ UNCHANGED vars
  <2>1. UNCHANGED <<pc, opPhase, syncRes, todo, live>>
    BY <1>5, WorldShape DEF Terminating
  <2> QED
    BY <2>1 DEF StopInv, HooksToStop, Running, OpState, HasLive, LiveObj
<1> QED
  BY <1>2, <1>3, <1>4, <1>5, TerminateShape

\* A Terminate() that reports no error leaves no hook running that its snapshot
\* shows: for any hooks and objects, whatever the finalizers, the failing calls
\* and the other actors do in between.
THEOREM TerminateCorrect == Spec => TerminateStopsHooks
<1>1. Init => StopInv
  <2> SUFFICES ASSUME Init PROVE StopInv
    OBVIOUS
  <2>1. pc = "idle" /\ opPhase = "" /\ saved.phase = opPhase
    BY DEF Init
  <2> QED
    BY <2>1, TypeInit DEF StopInv, StillOpen, HooksToStop, Terminating
<1>2. StopInv /\ [Next]_vars =>
         [pc = "terminate" /\ opPhase' = "Failed" =>
             \A t \in Hooks : Running(t) => ~HasLive(t)]_vars
  <2> SUFFICES ASSUME StopInv, [Next]_vars, pc = "terminate", opPhase' = "Failed",
                      ~UNCHANGED vars
               PROVE  \A t \in Hooks : Running(t) => ~HasLive(t)
    OBVIOUS
  <2>1. HooksToStop /\ pc \in Terminating /\ opPhase # "Failed"
    BY DEF StopInv, HooksToStop, Terminating, Completions
  <2>2. CASE TerminateDone
    BY <2>1, <2>2 DEF HooksToStop, TerminateDone
  <2>3. CASE StartTerminate
    BY <2>3 DEF StartTerminate, Callable
  <2>4. CASE World \/ Refresh \/ Finished
    BY <2>1, <2>4, WorldShape
  <2>5. CASE Crash
    BY <2>1, <2>5 DEF StopInv, StillOpen, Terminating, Completions, Crash, Return
  <2> QED
    BY <2>1, <2>2, <2>3, <2>4, <2>5, TerminateCalls, TerminateShape DEF TerminateStep
<1> QED
  BY <1>1, <1>2, StopStep, PTL DEF Spec, TerminateStopsHooks

-----------------------------------------------------------------------------
(* How objects age                                                          *)

\* From cluster to f: what was applied stays applied, what was being deleted
\* goes on being deleted, and what is new was applied by this operation.
Ages(f, o) ==
    /\ cluster[o] # NoObj /\ f[o] # NoObj =>
          /\ cluster[o].applied => f[o].applied
          /\ cluster[o].deleting => f[o].deleting
    /\ cluster[o] = NoObj /\ f[o] # NoObj => f[o].applied

\* One object that gets a later version ages, and the others stay.
LEMMA OneAges ==
    ASSUME ObjType, NEW o \in Objects, cluster[o] # NoObj, NEW new \in KubeObjects,
           cluster[o].applied => new.applied, cluster[o].deleting => new.deleting
    PROVE  \A p \in Objects : Ages([cluster EXCEPT ![o] = new], p)
BY DEF Ages, ObjType

\* A deletion ages its object.
LEMMA MarkedAges ==
    ASSUME ObjType, NEW o \in Objects
    PROVE  \A p \in Objects : Ages(MarkedDeleted(o), p)
<1>1. CASE cluster[o] = NoObj
  BY <1>1 DEF MarkedDeleted, Ages
<1>2. CASE cluster[o] # NoObj
  <2> DEFINE new == [cluster[o] EXCEPT !.deleting = TRUE]
  <2>1. cluster[o] \in KubeObjects
    BY <1>2 DEF ObjType
  <2>2. new \in KubeObjects /\ new.deleting /\ new.applied = cluster[o].applied
    BY <2>1 DEF KubeObjects
  <2>3. MarkedDeleted(o) = [cluster EXCEPT ![o] = new]
    BY <1>2 DEF MarkedDeleted
  <2> HIDE DEF new
  <2> QED
    BY <1>2, <2>2, <2>3, OneAges
<1> QED
  BY <1>1, <1>2

\* So does the removal of its finalizer.
LEMMA WithoutAges ==
    ASSUME ObjType, NEW o \in Objects
    PROVE  \A p \in Objects : Ages(WithoutFinalizer(cluster, o), p)
<1>1. CASE cluster[o] = NoObj
  BY <1>1 DEF WithoutFinalizer, Ages
<1>2. CASE cluster[o] # NoObj
  <2> DEFINE new == [cluster[o] EXCEPT !.finalizer = FALSE]
  <2>1. cluster[o] \in KubeObjects
    BY <1>2 DEF ObjType
  <2>2. /\ new \in KubeObjects
        /\ new.deleting = cluster[o].deleting /\ new.applied = cluster[o].applied
    BY <2>1 DEF KubeObjects
  <2>3. WithoutFinalizer(cluster, o) = [cluster EXCEPT ![o] = new]
    BY <1>2 DEF WithoutFinalizer
  <2> HIDE DEF new
  <2> QED
    BY <1>2, <2>2, <2>3, OneAges
<1> QED
  BY <1>1, <1>2

\* An apply ages its object, too, which then is this operation's.
LEMMA AppliedAges ==
    ASSUME ObjType, NEW t \in Tasks
    PROVE  /\ \A p \in Objects : Ages(Applied(t), p)
           /\ \A p \in Objects \ {Obj[t]} : Applied(t)[p] = cluster[p]
           /\ Applied(t)[Obj[t]] # NoObj => Applied(t)[Obj[t]].applied
<1> DEFINE o == Obj[t]
           del == cluster[o] # NoObj /\ cluster[o].deleting
           fin == t \in Hooks \/ (cluster[o] # NoObj /\ cluster[o].finalizer)
           new == [health |-> NewHealth(o), deleting |-> del,
                   finalizer |-> fin, applied |-> TRUE]
<1>1. o \in Objects
  BY TaskAssumption
<1>2. Applied(t) = [cluster EXCEPT ![o] = new]
  BY DEF Applied
<1>3. new.applied /\ new.deleting = del
  OBVIOUS
<1>4. cluster[o] # NoObj /\ cluster[o].deleting => del
  OBVIOUS
<1> HIDE DEF new, del, fin
<1> QED
  BY <1>1, <1>2, <1>3, <1>4 DEF Ages, ObjType

\* The world lets objects age.
LEMMA WorldAges ==
    ASSUME ObjType, World \/ Refresh \/ Finished \/ UNCHANGED vars
    PROVE  \A p \in Objects : Ages(cluster', p)
<1>1. CASE cluster' = cluster
  BY <1>1 DEF Ages
<1>2. ASSUME NEW o \in Objects, Settle(o) \/ Relapse(o)
      PROVE  \A p \in Objects : Ages(cluster', p)
  <2>1. PICK h \in HealthOutcomes : cluster' = [cluster EXCEPT ![o].health = h]
    BY <1>2 DEF Settle, Relapse
  <2> DEFINE new == [cluster[o] EXCEPT !.health = h]
  <2>2. cluster[o] # NoObj /\ cluster[o] \in KubeObjects
    BY <1>2 DEF ObjType, Settle, Relapse
  <2>3. /\ new \in KubeObjects
        /\ new.deleting = cluster[o].deleting /\ new.applied = cluster[o].applied
    BY <2>2, ObjectAssumption DEF KubeObjects
  <2>4. cluster' = [cluster EXCEPT ![o] = new]
    BY <2>1
  <2> HIDE DEF new
  <2> QED
    BY <2>2, <2>3, <2>4, OneAges
<1>3. ASSUME NEW o \in Objects, ExternalDelete(o)
      PROVE  \A p \in Objects : Ages(cluster', p)
  BY <1>3, MarkedAges DEF ExternalDelete
<1>4. ASSUME NEW o \in Objects, DeletionCompletes(o)
      PROVE  \A p \in Objects : Ages(cluster', p)
  BY <1>4 DEF DeletionCompletes, Ages, ObjType
<1> QED
  BY <1>1, <1>2, <1>3, <1>4 DEF World, Observe, Refresh, Finished, vars, unlessLive

\* Only the world and the calls on the API server change the cluster.
LEMMA ClusterShape ==
    ASSUME [Next]_vars
    PROVE  \/ cluster' = cluster
           \/ World
           \/ \E t \in Tasks :
                 \/ cluster' = MarkedDeleted(Obj[t])
                 \/ cluster' = WithoutFinalizer(cluster, Obj[t])
                 \/ CreateStep(t) /\ cluster' = Applied(t)
<1>1. CASE FinalizersDone \/ PruneDone \/ DeleteDone \/ CreateDone
  BY <1>1, LoopShape
<1>2. ASSUME NEW t \in Tasks, Unhook(t) \/ FinalizerStep(t) \/ TerminateFinalizer(t)
      PROVE  cluster' \in {cluster, WithoutFinalizer(cluster, Obj[t])}
  BY <1>2 DEF Unhook, FinalizerStep, TerminateFinalizer, RemoveFinalizer,
              FailToRemoveFinalizer, ApiDone, ApiError
<1>3. ASSUME NEW t \in Tasks,
             PruneStep(t) \/ DeleteStep(t) \/ DeleteHook(t) \/ TerminateDelete(t)
      PROVE  cluster' \in {cluster, MarkedDeleted(Obj[t])}
  BY <1>3 DEF PruneStep, DeleteStep, DeleteHook, TerminateDelete, ApiDone, ApiError
<1>4. ASSUME NEW t \in Tasks, CreateStep(t)
      PROVE  cluster' \in {cluster, Applied(t)}
  BY <1>4 DEF CreateStep, CreateEffect, ApiDone, ApiError
<1>5. CASE \/ StartInvalid \/ StartNsUnknown \/ StartAgain \/ StartFirst \/ DryRunStep
           \/ UpdateStep \/ Decide \/ StartTerminate \/ TerminateDone \/ Crash
  BY <1>5 DEF StartInvalid, StartNsUnknown, StartAgain, StartFirst, DryRunStep,
              UpdateStep, Decide, StartTerminate, TerminateDone, Crash
<1>6. CASE \/ NsRan \/ WetRan \/ WaveHookFails \/ SyncFailRan
           \/ Succeed \/ FailWaveHook \/ SetOperationFailed
  BY <1>6 DEF NsRan, WetRan, WaveHookFails, SyncFailRan, Succeed, FailWaveHook,
              SetOperationFailed
<1>7. CASE Refresh \/ Finished \/ UNCHANGED vars
  BY <1>7 DEF Refresh, Finished, vars, unlessLive
<1> QED
  BY <1>1, <1>2, <1>3, <1>4, <1>5, <1>6, <1>7
  DEF Next, SyncStep, RunStep, TerminateStep

\* Each step lets objects age, and only an apply creates one.
LEMMA ClusterAges ==
    ASSUME ObjType, [Next]_vars
    PROVE  \A o \in Objects :
              /\ Ages(cluster', o)
              /\ cluster[o] = NoObj /\ cluster'[o] # NoObj
                    => \E t \in Tasks : CreateStep(t) /\ Obj[t] = o
<1>1. Obj \in [Tasks -> Objects]
  BY TaskAssumption
<1>2. CASE cluster' = cluster
  BY <1>2 DEF Ages
<1>3. CASE World
  <2>1. \A o \in Objects : cluster[o] = NoObj => cluster'[o] = NoObj
    BY <1>3 DEF World, Settle, Relapse, ExternalDelete, DeletionCompletes, Observe,
                MarkedDeleted, unlessLive, ObjType
  <2> QED
    BY <1>3, <2>1, WorldAges
<1>4. ASSUME NEW t \in Tasks, cluster' = MarkedDeleted(Obj[t])
      PROVE  \A o \in Objects : /\ Ages(cluster', o)
                                /\ cluster[o] = NoObj => cluster'[o] = NoObj
  BY <1>1, <1>4, MarkedAges DEF MarkedDeleted, ObjType
<1>5. ASSUME NEW t \in Tasks, cluster' = WithoutFinalizer(cluster, Obj[t])
      PROVE  \A o \in Objects : /\ Ages(cluster', o)
                                /\ cluster[o] = NoObj => cluster'[o] = NoObj
  BY <1>1, <1>5, WithoutAges DEF WithoutFinalizer, ObjType
<1>6. ASSUME NEW t \in Tasks, CreateStep(t), cluster' = Applied(t)
      PROVE  \A o \in Objects :
                /\ Ages(cluster', o)
                /\ cluster[o] = NoObj /\ cluster'[o] # NoObj
                      => \E u \in Tasks : CreateStep(u) /\ Obj[u] = o
  BY <1>6, AppliedAges
<1> QED
  BY <1>2, <1>3, <1>4, <1>5, <1>6, ClusterShape

\* The snapshot of a call changes in finalizers only.
LiveKept ==
    \A o \in Objects :
        /\ live'[o] = NoObj <=> live[o] = NoObj
        /\ live[o] # NoObj => /\ live'[o].applied = live[o].applied
                              /\ live'[o].deleting = live[o].deleting

\* During a call only finalizers are changed in its copy.
LEMMA LiveShape ==
    ASSUME ObjType, [Next]_vars, pc # "idle"
    PROVE  LiveKept
<1>1. ASSUME NEW t \in Tasks, live' = WithoutFinalizer(live, Obj[t])
      PROVE  LiveKept
  <2> DEFINE o == Obj[t]
             new == [live[o] EXCEPT !.finalizer = FALSE]
  <2>1. o \in Objects
    BY TaskAssumption
  <2>2. CASE live[o] = NoObj
    BY <1>1, <2>2 DEF WithoutFinalizer, LiveKept
  <2>3. CASE live[o] # NoObj
    <3>1. live[o] \in KubeObjects
      BY <2>1, <2>3 DEF ObjType
    <3>2. /\ new \in KubeObjects
          /\ new.deleting = live[o].deleting /\ new.applied = live[o].applied
      BY <3>1 DEF KubeObjects
    <3>3. live' = [live EXCEPT ![o] = new]
      BY <1>1, <2>3 DEF WithoutFinalizer
    <3>4. new # NoObj
      BY <3>2, ObjectAssumption
    <3> HIDE DEF new
    <3> QED
      BY <2>1, <2>3, <3>2, <3>3, <3>4 DEF LiveKept, ObjType
  <2> QED
    BY <2>2, <2>3
<1>2. ASSUME live' = live
      PROVE  LiveKept
  BY <1>2 DEF LiveKept
<1>3. ASSUME NEW t \in Tasks, Unhook(t) \/ FinalizerStep(t) \/ TerminateFinalizer(t)
      PROVE  LiveKept
  BY <1>1, <1>3 DEF Unhook, FinalizerStep, TerminateFinalizer, RemoveFinalizer,
                    FailToRemoveFinalizer
<1>4. CASE FinalizersDone \/ PruneDone \/ DeleteDone \/ CreateDone
  BY <1>2, <1>4, LoopShape
<1>5. ASSUME NEW t \in Tasks,
             PruneStep(t) \/ DeleteStep(t) \/ CreateStep(t) \/ DeleteHook(t) \/ TerminateDelete(t)
      PROVE  LiveKept
  BY <1>2, <1>5 DEF PruneStep, DeleteStep, CreateStep, DeleteHook, TerminateDelete
<1>6. CASE \/ StartInvalid \/ StartNsUnknown \/ StartAgain \/ StartFirst \/ DryRunStep
           \/ UpdateStep \/ Decide \/ StartTerminate \/ TerminateDone \/ Crash
  BY <1>2, <1>6 DEF StartInvalid, StartNsUnknown, StartAgain, StartFirst, DryRunStep,
              UpdateStep, Decide, StartTerminate, TerminateDone, Crash
<1>7. CASE \/ NsRan \/ WetRan \/ WaveHookFails \/ SyncFailRan
           \/ Succeed \/ FailWaveHook \/ SetOperationFailed
  BY <1>2, <1>7 DEF NsRan, WetRan, WaveHookFails, SyncFailRan, Succeed, FailWaveHook,
              SetOperationFailed
<1>8. CASE World \/ Refresh \/ Finished \/ UNCHANGED vars
  BY <1>2, <1>8, WorldShape
<1> QED
  BY <1>3, <1>4, <1>5, <1>6, <1>7, <1>8
  DEF Next, SyncStep, RunStep, TerminateStep

\* What is saved are the results at the last return.
LEMMA SavedShape ==
    ASSUME [Next]_vars
    PROVE  \/ saved' = saved /\ (pc' = "idle" => pc = "idle" /\ syncRes' = syncRes)
           \/ pc' = "idle" /\ saved'.res = syncRes'
<1>1. \A q, r : Return(q, r) => pc' = "idle" /\ saved'.res = syncRes'
  BY DEF Return
<1>2. CASE RunStep
  BY <1>2, RunShape, LoopShape DEF RunStep, RunStages
<1>3. CASE World \/ Refresh \/ Finished \/ UNCHANGED vars
  BY <1>3, WorldShape
<1>4. CASE \/ StartInvalid \/ StartNsUnknown \/ StartAgain \/ StartFirst \/ DryRunStep
           \/ UpdateStep \/ Decide
  BY <1>1, <1>4 DEF StartInvalid, StartNsUnknown, StartAgain, StartFirst, DryRunStep,
                    UpdateStep, Decide, GoTo, RunTasks
<1>5. CASE \/ NsRan \/ WetRan \/ WaveHookFails \/ SyncFailRan
           \/ Succeed \/ FailWaveHook \/ SetOperationFailed
  BY <1>1, <1>5 DEF NsRan, WetRan, WaveHookFails, SyncFailRan, Succeed, FailWaveHook,
                    SetOperationFailed, GoTo, RunTasks
<1>6. CASE StartTerminate \/ TerminateStep \/ Crash
  BY <1>1, <1>6 DEF StartTerminate, TerminateStep, TerminateFinalizer, TerminateDelete,
                    TerminateDone, Crash, GoTo
<1>7. ASSUME NEW t \in Tasks, Unhook(t) \/ DeleteHook(t)
      PROVE  saved' = saved /\ pc' # "idle"
  BY <1>7 DEF Unhook, DeleteHook, Cleaning
<1> QED
  BY <1>2, <1>3, <1>4, <1>5, <1>6, <1>7 DEF Next, SyncStep

-----------------------------------------------------------------------------
(* Sync() waits for what was applied                                        *)

NewOrGone(objs, o) == objs[o] = NoObj \/ objs[o].applied
RunningIn(res, t) == res[t] # NoResult /\ res[t].phase = "Running"

\* The object of a running task is the one that this operation applied, by what
\* Sync() knows and by what a restart would start from.
Applying ==
    /\ \A t \in Tasks : Running(t) => NewOrGone(cluster, Obj[t])
    /\ \A t \in Tasks : RunningIn(saved.res, t) => NewOrGone(cluster, Obj[t])

ApplyingInv == LoopInv /\ Applying

\* The view of a task, and the results it is read off.
LEMMA RunningMeans ==
    /\ \A t : Running(t) <=> RunningIn(syncRes, t)
    /\ \A t : Running(t)' <=> RunningIn(syncRes', t)
BY DEF Running, OpState, RunningIn

\* Each step keeps running tasks on what was applied.
LEMMA ApplyingStep ==
    ASSUME ApplyingInv, [Next]_vars
    PROVE  Applying'
<1>1. ResType /\ ObjType /\ RunBatch /\ Applying
  BY TypeParts DEF ApplyingInv, LoopInv, GateInv
<1>2. \A o \in Objects : NewOrGone(cluster, o) => NewOrGone(cluster', o)
  BY <1>1, ClusterAges DEF Ages, NewOrGone
<1>3. Obj \in [Tasks -> Objects]
  BY TaskAssumption
<1>4. \A t \in Tasks : Running(t)' => NewOrGone(cluster', Obj[t])
  <2>1. CASE NoneStarted
    BY <1>1, <1>2, <1>3, <2>1 DEF NoneStarted, Applying
  <2>2. CASE Crash
    BY <1>1, <1>2, <1>3, <2>2, RunningMeans DEF Crash, Return, Applying
  <2>3. ASSUME NEW u \in Tasks, CreateStep(u)
        PROVE  \A t \in Tasks : Running(t)' => NewOrGone(cluster', Obj[t])
    <3>1. CASE NoneStarted
      BY <2>1, <3>1
    <3>2. CASE cluster' = Applied(u) /\ SetResourceResult(u, "Synced", "Running")
      <4>1. \A t \in Tasks \ {u} : Running(t)' => Running(t)
        BY <1>1, <3>2 DEF SetResourceResult, ResType, Running, OpState
      <4>2. NewOrGone(cluster', Obj[u])
        BY <1>1, <3>2, AppliedAges DEF NewOrGone
      <4> QED
        BY <1>1, <1>2, <1>3, <4>1, <4>2 DEF Applying
    <3> QED
      BY <1>1, <2>3, <3>1, <3>2, NotStarted DEF CreateStep, CreateEffect, ApiDone
  <2> QED
    BY <1>1, <2>1, <2>2, <2>3, StartsOnlyByCreate
<1>5. \A t \in Tasks : RunningIn(saved'.res, t) => NewOrGone(cluster', Obj[t])
  BY <1>1, <1>2, <1>3, <1>4, RunningMeans, SavedShape DEF Applying
<1> QED
  BY <1>4, <1>5 DEF Applying

\* The operation starts with nothing running.
LEMMA ApplyingInit == Init => ApplyingInv
<1> SUFFICES ASSUME Init PROVE ApplyingInv
  OBVIOUS
<1>1. \A t \in Tasks : ~RunningIn(syncRes, t) /\ saved.res = syncRes
  BY DEF Init, RunningIn
<1> QED
  BY <1>1, LoopInit, RunningMeans DEF ApplyingInv, Applying

\* As long as a task runs, its object is the version that this operation
\* applied, or gone: for any tasks that share objects or not, any snapshot, any
\* failed calls, deletions by others and restarts.
THEOREM AppliedCorrect == Spec => []RunningIsApplied
<1>1. ApplyingInv /\ [Next]_vars => ApplyingInv'
  BY LoopStep, ApplyingStep DEF ApplyingInv
<1>2. ApplyingInv => RunningIsApplied
  BY DEF ApplyingInv, Applying, NewOrGone, RunningIsApplied
<1> QED
  BY <1>1, <1>2, ApplyingInit, PTL DEF Spec

-----------------------------------------------------------------------------
(* Pruned objects                                                           *)

\* The object of a prune task is no other task's: Reconcile leaves without a
\* target what no target names.  (The exception is a resource whose target has
\* become a hook of the same name: it is pruned, and created as a hook.)
PrunesAlone == \A t \in Prunes, u \in Tasks : Obj[t] = Obj[u] => t = u

Going(objs, o) == objs[o] = NoObj \/ objs[o].deleting
PrunedIn(res, t) == res[t] # NoResult /\ res[t].status = "Pruned"

\* The view of a task, and the results it is read off.
LEMMA PrunedMeans ==
    /\ \A t : SyncStatus(t) = "Pruned" <=> PrunedIn(syncRes, t)
    /\ \A t : (SyncStatus(t) = "Pruned")' <=> PrunedIn(syncRes', t)
BY DEF SyncStatus, PrunedIn

\* Only the loop on prune tasks records that an object was pruned.
NonePruned == \A t \in Prunes : PrunedIn(syncRes', t) => PrunedIn(syncRes, t)

\* A status other than "Pruned" prunes nothing, nor does the old one.
LEMMA NotPruned ==
    ASSUME ResType, NEW t \in Tasks, NEW s, NEW p,
           s # "Pruned" \/ s = SyncStatus(t) \/ t \notin Prunes,
           SetResourceResult(t, s, p)
    PROVE  NonePruned
<1>1. \A u \in Tasks \ {t} : syncRes'[u] = syncRes[u]
  BY DEF SetResourceResult, ResType
<1>2. syncRes'[t] = [status |-> s, phase |-> p]
  BY DEF SetResourceResult, ResType
<1>3. t \in Prunes => (PrunedIn(syncRes', t) => PrunedIn(syncRes, t))
  BY <1>2, PrunedMeans DEF PrunedIn
<1> QED
  BY <1>1, <1>3, KindAssumption DEF NonePruned, PrunedIn

\* The update of running tasks keeps the status of the others,
LEMMA UpdatePrunesNone ==
    ASSUME syncRes' = UpdateResults
    PROVE  NonePruned
BY KindAssumption, PrunedMeans DEF UpdateResults, Updated, NonePruned, PrunedIn

\* and the dry run of a real sync records failures only.
LEMMA DryRunPrunesNone ==
    ASSUME ~dryRun, NEW bad, syncRes' = DryRunResults(bad)
    PROVE  NonePruned
BY KindAssumption DEF DryRunResults, NonePruned, PrunedIn

\* Of the steps of a real sync, PruneStep and Crash may.
LEMMA PrunedOnlyByPrune ==
    ASSUME ResType, ~dryRun, [Next]_vars
    PROVE  NonePruned \/ Crash \/ \E t \in Tasks : PruneStep(t)
<1>1. syncRes' = syncRes => NonePruned
  BY DEF NonePruned
<1>2. CASE World \/ Refresh \/ Finished \/ UNCHANGED vars
  BY <1>1, <1>2, WorldShape
<1>3. CASE FinalizersDone \/ PruneDone \/ DeleteDone \/ CreateDone
  BY <1>1, <1>3, LoopShape
<1>4. ASSUME NEW t \in Tasks,
             \/ Unhook(t) \/ DeleteHook(t) \/ FinalizerStep(t) \/ DeleteStep(t)
             \/ CreateStep(t)
      PROVE  NonePruned
  BY <1>1, <1>4, NotPruned DEF Unhook, DeleteHook, FinalizerStep, DeleteStep, CreateStep
<1>5. ASSUME NEW t \in Tasks, TerminateFinalizer(t) \/ TerminateDelete(t)
      PROVE  NonePruned
  BY <1>1, <1>5, NotPruned DEF TerminateFinalizer, TerminateDelete, Return
<1>6. CASE StartInvalid
  <2>1. PICK t \in Tasks : SetResourceResult(t, "SyncFailed", "")
    BY <1>6 DEF StartInvalid, Return, SetResourceResult, CurTasks
  <2> QED
    BY <2>1, NotPruned
<1>7. CASE StartNsUnknown
  BY <1>7, NotPruned, KindAssumption DEF StartNsUnknown, appendFailedNsTask
<1>12. CASE StartTerminate
  BY <1>1, <1>12, NotPruned, TerminateResult
<1>8. CASE UpdateStep
  BY <1>8, UpdatePrunesNone DEF UpdateStep
<1>9. CASE DryRunStep
  BY <1>1, <1>9, DryRunPrunesNone DEF DryRunStep, Return
<1>10. CASE StartAgain \/ StartFirst \/ Decide \/ NsRan \/ WetRan \/ WaveHookFails
  BY <1>1, <1>10 DEF StartAgain, StartFirst, Decide, NsRan, WetRan, WaveHookFails, Return
<1>11. CASE SyncFailRan \/ Succeed \/ FailWaveHook \/ SetOperationFailed \/ TerminateDone
  BY <1>1, <1>11 DEF SyncFailRan, Succeed, FailWaveHook, SetOperationFailed,
                     TerminateDone, Return
<1> QED
  BY <1>2, <1>3, <1>4, <1>5, <1>6, <1>7, <1>8, <1>9, <1>10, <1>11, <1>12
  DEF Next, SyncStep, RunStep, TerminateStep

\* The wet run of a batch starts where Sync() decides, and keeps its batch.
LEMMA WetShape ==
    ASSUME [Next]_vars, InWetRun'
    PROVE  (InWetRun /\ batch' = batch) \/ (Decide /\ NextTasks # {})
<1> USE DEF InWetRun, RunStages
<1>1. CASE RunStep
  BY <1>1, RunShape, LoopShape DEF RunStep
<1>2. CASE World \/ Refresh \/ Finished \/ UNCHANGED vars
  BY <1>2, WorldShape
<1>3. CASE \/ StartInvalid \/ StartNsUnknown \/ StartAgain \/ StartFirst
           \/ DryRunStep \/ UpdateStep \/ Decide
           \/ \E t \in Tasks : Unhook(t) \/ DeleteHook(t)
  BY <1>3 DEF StartInvalid, StartNsUnknown, StartAgain, StartFirst, DryRunStep, UpdateStep,
              Decide, Unhook, DeleteHook, Return, GoTo, RunTasks, Cleaning
<1>4. CASE \/ NsRan \/ WetRan \/ WaveHookFails \/ SyncFailRan
           \/ Succeed \/ FailWaveHook \/ SetOperationFailed
  BY <1>4 DEF NsRan, WetRan, WaveHookFails, SyncFailRan, Succeed, FailWaveHook,
              SetOperationFailed, Return, GoTo, RunTasks
<1>5. CASE StartTerminate \/ TerminateStep \/ Crash
  BY <1>5 DEF StartTerminate, TerminateStep, TerminateFinalizer, TerminateDelete,
              TerminateDone, Crash, Return, GoTo
<1> QED
  BY <1>1, <1>2, <1>3, <1>4, <1>5 DEF Next, SyncStep

\* A call sees the cluster as the snapshot has it.
LEMMA CallShape ==
    ASSUME [Next]_vars, pc = "idle", pc' # "idle"
    PROVE  Callable /\ UNCHANGED <<cluster, live>>
<1>1. CASE World \/ Refresh \/ Finished \/ UNCHANGED vars
  BY <1>1, WorldShape
<1>2. CASE RunStep
  BY <1>2, RunShape, LoopShape DEF RunStep, RunStages
<1>3. CASE StartNsUnknown \/ StartAgain \/ StartFirst \/ StartTerminate
  BY <1>3 DEF StartNsUnknown, StartAgain, StartFirst, StartTerminate
<1>4. CASE \/ StartInvalid \/ DryRunStep \/ UpdateStep \/ Decide
           \/ \E t \in Tasks : Unhook(t) \/ DeleteHook(t)
  BY <1>4 DEF StartInvalid, DryRunStep, UpdateStep, Decide, Unhook, DeleteHook, Return,
              Cleaning
<1>5. CASE \/ NsRan \/ WetRan \/ WaveHookFails \/ SyncFailRan
           \/ Succeed \/ FailWaveHook \/ SetOperationFailed \/ TerminateStep \/ Crash
  BY <1>5 DEF NsRan, WetRan, WaveHookFails, SyncFailRan, Succeed, FailWaveHook,
              SetOperationFailed, TerminateStep, TerminateFinalizer, TerminateDelete,
              TerminateDone, Crash
<1> QED
  BY <1>1, <1>2, <1>3, <1>4, <1>5 DEF Next, SyncStep

\* The finalizers of completed hooks are removed after the update.
LEMMA UnhookShape ==
    ASSUME [Next]_vars, pc' = "unhook"
    PROVE  \/ pc = "unhook" /\ (World \/ Finished \/ UNCHANGED vars
                                \/ \E t \in Tasks : Unhook(t))
           \/ UpdateStep /\ StillRunning \cup Pruning = {}
<1>1. CASE World \/ Refresh \/ Finished \/ UNCHANGED vars
  BY <1>1, WorldShape DEF Refresh
<1>2. CASE RunStep
  BY <1>2, RunShape, LoopShape DEF RunStep, RunStages
<1>3. CASE \/ StartInvalid \/ StartNsUnknown \/ StartAgain \/ StartFirst
           \/ DryRunStep \/ UpdateStep \/ Decide
           \/ \E t \in Tasks : Unhook(t) \/ DeleteHook(t)
  BY <1>3 DEF StartInvalid, StartNsUnknown, StartAgain, StartFirst, DryRunStep, UpdateStep,
              Decide, Unhook, DeleteHook, Return, GoTo, RunTasks, Cleaning
<1>4. CASE \/ NsRan \/ WetRan \/ WaveHookFails \/ SyncFailRan
           \/ Succeed \/ FailWaveHook \/ SetOperationFailed
  BY <1>4 DEF NsRan, WetRan, WaveHookFails, SyncFailRan, Succeed, FailWaveHook,
              SetOperationFailed, Return, GoTo, RunTasks
<1>5. CASE StartTerminate \/ TerminateStep \/ Crash
  BY <1>5 DEF StartTerminate, TerminateStep, TerminateFinalizer, TerminateDelete,
              TerminateDone, Crash, Return, GoTo
<1> QED
  BY <1>1, <1>2, <1>3, <1>4, <1>5 DEF Next, SyncStep

\* What the call does not see does not exist.
Seen(o) == live[o] = NoObj => cluster[o] = NoObj

\* An object to prune is not overlooked, and Sync() goes on only when it sees
\* each pruned one gone, or sees no mark on it.
Gone ==
    ~dryRun =>
        /\ \A t \in Prunes : Seen(Obj[t])
        /\ pc = "unhook" => \A t \in Prunes :
              PrunedIn(syncRes, t) => cluster[Obj[t]] = NoObj \/ Unmarked(Obj[t])
        /\ InWetRun => \A t \in Prunes \ batch :
              PrunedIn(syncRes, t) => cluster[Obj[t]] = NoObj \/ Unmarked(Obj[t])

GoneInv == SuccessInv /\ Gone

\* The object of a prune task is not created again.
LEMMA GoneStays ==
    ASSUME PrunesAlone, SuccessInv, [Next]_vars, NEW t \in Prunes
    PROVE  cluster[Obj[t]] = NoObj => cluster'[Obj[t]] = NoObj
<1>1. ObjType /\ t \in Tasks /\ Obj[t] \in Objects
  BY TypeParts, KindAssumption, TaskAssumption DEF SuccessInv, LoopInv, GateInv
<1>2. \A u \in Tasks : CreateStep(u) => Obj[u] # Obj[t]
  <2> SUFFICES ASSUME NEW u \in Tasks, CreateStep(u), Obj[u] = Obj[t]
               PROVE  FALSE
    OBVIOUS
  <2>1. u = t
    BY DEF PrunesAlone
  <2> QED
    BY <2>1 DEF CreateStep, SuccessInv, LoopTodo
<1> QED
  BY <1>1, <1>2, ClusterAges

\* A real prune task is pruned in the wet run, as one of its batch.
LEMMA PruneStepPrunes ==
    ASSUME SuccessInv, NEW t \in Prunes, PruneStep(t)
    PROVE  InWetRun /\ t \in batch
<1>1. pc = "prune" /\ t \in todo /\ t \in Tasks
  BY KindAssumption DEF PruneStep
<1>2. t \in batch
  BY <1>1 DEF SuccessInv, LoopInv, GateInv, TodoInBatch, RunStages
<1>3. InWetRun
  <2>1. site # "none" /\ site # "fail" /\ site # "ns"
    BY <1>1, <1>2, KindAssumption DEF SuccessInv, LoopInv, RunBatch, RunStages
  <2>2. site \in {"none", "ns", "wet", "fail"}
    BY TypeParts DEF SuccessInv, LoopInv, GateInv, ControlType
  <2> QED
    BY <1>1, <2>1, <2>2 DEF InWetRun, RunStages
<1> QED
  BY <1>2, <1>3

\* Between two calls, the snapshot takes objects over from the cluster.
LEMMA SnapshotTaken ==
    ASSUME ObjType, [Next]_vars, pc = "idle"
    PROVE  \A o \in Objects : live'[o] = live[o] \/ (live'[o] = cluster[o] /\ cluster' = cluster)
<1>1. ASSUME live' = live
      PROVE  \A o \in Objects : live'[o] = live[o]
  BY <1>1
<1>2. CASE Refresh
  BY <1>2 DEF Refresh, unlessLive
<1>3. CASE World
  <2>1. ASSUME NEW o \in Objects, Observe(o)
        PROVE  \A p \in Objects :
                  live'[p] = live[p] \/ (live'[p] = cluster[p] /\ cluster' = cluster)
    BY <2>1 DEF Observe, unlessLive, ObjType
  <2> QED
    BY <1>1, <1>3, <2>1 DEF World, Settle, Relapse, ExternalDelete, DeletionCompletes,
                            unlessCluster
<1>4. CASE Finished \/ UNCHANGED vars
  BY <1>1, <1>4 DEF Finished, vars
<1>5. CASE RunStep \/ TerminateStep
  BY <1>5, RunShape, LoopShape
  DEF RunStep, TerminateStep, TerminateFinalizer, TerminateDelete, TerminateDone, RunStages
<1>6. CASE \/ StartInvalid \/ StartNsUnknown \/ StartAgain \/ StartFirst \/ DryRunStep
           \/ UpdateStep \/ Decide \/ StartTerminate \/ Crash
           \/ \E t \in Tasks : Unhook(t) \/ DeleteHook(t)
  BY <1>1, <1>6 DEF StartInvalid, StartNsUnknown, StartAgain, StartFirst, DryRunStep,
                    UpdateStep, Decide, StartTerminate, Crash, Unhook, DeleteHook, Cleaning
<1>7. CASE \/ NsRan \/ WetRan \/ WaveHookFails \/ SyncFailRan
           \/ Succeed \/ FailWaveHook \/ SetOperationFailed
  BY <1>7 DEF NsRan, WetRan, WaveHookFails, SyncFailRan, Succeed, FailWaveHook,
              SetOperationFailed
<1> QED
  BY <1>2, <1>3, <1>4, <1>5, <1>6, <1>7 DEF Next, SyncStep

\* Each step keeps what was pruned gone, or unmarked in the snapshot.
LEMMA GoneStep ==
    ASSUME PrunesAlone, SuccessInv, Gone, [Next]_vars
    PROVE  Gone'
<1>1. /\ ResType /\ ObjType /\ RunBatch /\ batch \subseteq Tasks
      /\ Prunes \subseteq Tasks /\ Obj \in [Tasks -> Objects]
  BY TypeParts, KindAssumption, TaskAssumption
  DEF SuccessInv, LoopInv, GateInv, ControlType
<1> SUFFICES ASSUME ~dryRun PROVE Gone'
  BY DryRunRigid DEF Gone
<1>2. \A t \in Prunes : cluster[Obj[t]] = NoObj => cluster'[Obj[t]] = NoObj
  BY GoneStays
<1>3. \A t \in Prunes : Seen(Obj[t])'
  <2> SUFFICES ASSUME NEW t \in Prunes, live'[Obj[t]] = NoObj
               PROVE  cluster'[Obj[t]] = NoObj
    BY DEF Seen
  <2>1. Obj[t] \in Objects /\ (live[Obj[t]] = NoObj => cluster[Obj[t]] = NoObj)
    BY <1>1 DEF Gone, Seen
  <2>2. CASE pc = "idle"
    BY <1>1, <1>2, <2>1, <2>2, SnapshotTaken
  <2>3. CASE pc # "idle"
    BY <1>1, <1>2, <2>1, <2>3, LiveShape DEF LiveKept
  <2> QED
    BY <2>2, <2>3
<1>4. ASSUME pc # "idle", NEW t \in Prunes,
             cluster[Obj[t]] = NoObj \/ Unmarked(Obj[t])
      PROVE  cluster'[Obj[t]] = NoObj \/ Unmarked(Obj[t])'
  <2>1. LiveKept /\ Obj[t] \in Objects
    BY <1>1, <1>4, LiveShape
  <2> QED
    BY <1>2, <1>4, <2>1 DEF LiveKept, Unmarked
<1>7. pc' = "unhook" => \A t \in Prunes :
         PrunedIn(syncRes', t) => cluster'[Obj[t]] = NoObj \/ Unmarked(Obj[t])'
  <2> SUFFICES ASSUME pc' = "unhook", NEW t \in Prunes, PrunedIn(syncRes', t)
               PROVE  cluster'[Obj[t]] = NoObj \/ Unmarked(Obj[t])'
    OBVIOUS
  <2>1. PrunedIn(syncRes, t)
    <3>1. ~Crash /\ ~\E u \in Tasks : PruneStep(u)
      BY DEF Crash, Return, PruneStep
    <3> QED
      BY <1>1, <3>1, PrunedOnlyByPrune DEF NonePruned
  <2>2. CASE pc = "unhook"
    BY <1>4, <2>1, <2>2 DEF Gone
  <2>3. CASE UpdateStep /\ Pruning = {}
    <3>1. pc # "idle"
      BY <2>3 DEF UpdateStep
    <3>2. CASE live[Obj[t]] = NoObj
      BY <1>4, <3>1, <3>2 DEF Gone, Seen
    <3>3. CASE live[Obj[t]] # NoObj
      <4>1. t \in CurTasks /\ SyncStatus(t) = "Pruned" /\ HasLive(t)
        BY <1>1, <2>1, <3>3, KindAssumption, PrunedMeans DEF CurTasks, HasLive, LiveObj
      <4>2. ~LiveObj(t).deleting
        BY <2>3, <4>1 DEF Pruning
      <4> QED
        BY <1>4, <3>1, <3>3, <4>2 DEF Unmarked, LiveObj
    <3> QED
      BY <3>2, <3>3
  <2> QED
    BY <2>2, <2>3, UnhookShape
<1>8. InWetRun' => \A t \in Prunes \ batch' :
         PrunedIn(syncRes', t) => cluster'[Obj[t]] = NoObj \/ Unmarked(Obj[t])'
  <2> SUFFICES ASSUME InWetRun', NEW t \in Prunes \ batch', PrunedIn(syncRes', t)
               PROVE  cluster'[Obj[t]] = NoObj \/ Unmarked(Obj[t])'
    OBVIOUS
  <2>1. CASE InWetRun /\ batch' = batch
    <3>1. pc # "idle" /\ ~Crash
      BY <2>1 DEF InWetRun, RunStages, Crash, Return
    <3>2. PrunedIn(syncRes, t)
      <4>1. CASE NonePruned
        BY <4>1 DEF NonePruned
      <4>2. ASSUME NEW u \in Tasks, PruneStep(u)
            PROVE  PrunedIn(syncRes, t)
        <5>1. u # t
          BY <2>1, <4>2, PruneStepPrunes
        <5>2. syncRes'[t] = syncRes[t]
          BY <1>1, <4>2, <5>1, RunShape DEF ResType
        <5> QED
          BY <5>2 DEF PrunedIn
      <4> QED
        BY <1>1, <3>1, <4>1, <4>2, PrunedOnlyByPrune
    <3> QED
      BY <1>4, <2>1, <3>1, <3>2 DEF Gone
  <2>2. CASE Decide
    <3>1. pc = "unhook" /\ syncRes' = syncRes
      BY <2>2 DEF Decide
    <3> QED
      BY <1>4, <3>1 DEF Gone
  <2> QED
    BY <2>1, <2>2, WetShape
<1> QED
  BY <1>3, <1>7, <1>8 DEF Gone

\* The operation starts with nothing pruned.
LEMMA GoneInit == Init => GoneInv
<1> SUFFICES ASSUME Init PROVE GoneInv
  OBVIOUS
<1>1. pc = "idle" /\ live = cluster
  BY DEF Init
<1> QED
  BY <1>1, SuccessInit DEF GoneInv, Gone, Seen, InWetRun, RunStages

\* While a later batch runs, what was pruned before it is gone from the
\* cluster, unless the snapshot is older than its mark: for every kind of
\* snapshot, any errors, restarts and deletions by others.
THEOREM PrunedCorrect == PrunesAlone => (Spec => []PrunedIsGone)
<1> SUFFICES ASSUME PrunesAlone
             PROVE  Spec => []PrunedIsGone
  OBVIOUS
<1>1. GoneInv /\ [Next]_vars => GoneInv'
  BY SuccessStep, GoneStep DEF GoneInv
<1>2. GoneInv => PrunedIsGone
  BY PrunedMeans DEF GoneInv, Gone, PrunedIsGone
<1> QED
  BY <1>1, <1>2, GoneInit, PTL DEF Spec

-----------------------------------------------------------------------------
(* Hooks are cleaned up                                                     *)

\* A hook shares its object with no resource that is applied.
HooksApart == \A t \in Hooks, u \in Tasks \ (Hooks \cup Prunes) : Obj[t] # Obj[u]

\* Only an apply makes an object that the call does not see.
LEMMA SeenStays ==
    ASSUME ObjType, [Next]_vars, NEW o \in Objects, Seen(o),
           \A t \in Tasks : CreateStep(t) => Obj[t] # o
    PROVE  Seen(o)'
<1>1. cluster[o] = NoObj => cluster'[o] = NoObj
  BY ClusterAges
<1>2. CASE pc # "idle"
  BY <1>1, <1>2, LiveShape DEF LiveKept, Seen
<1>3. CASE pc = "idle" /\ pc' # "idle"
  BY <1>3, CallShape DEF Seen
<1>4. CASE live' = live
  BY <1>1, <1>4 DEF Seen
<1>5. CASE World \/ Refresh \/ Finished \/ UNCHANGED vars
  <2>1. live' = live \/ (cluster' = cluster /\ live'[o] \in {live[o], cluster[o]})
    BY <1>5
    DEF World, Settle, Relapse, ExternalDelete, DeletionCompletes, Observe, Refresh,
        Finished, vars, unlessCluster, unlessLive, ObjType
  <2> QED
    BY <1>4, <2>1 DEF Seen
<1>6. CASE pc = "idle" /\ pc' = "idle"
  <2>1. CASE RunStep
    BY <1>6, <2>1, RunShape, LoopShape DEF RunStep, RunStages
  <2>2. CASE StartInvalid \/ StartNsUnknown \/ StartAgain \/ StartFirst \/ StartTerminate
    BY <1>4, <2>2 DEF StartInvalid, StartNsUnknown, StartAgain, StartFirst, StartTerminate
  <2>3. CASE \/ DryRunStep \/ UpdateStep \/ Decide
             \/ \E t \in Tasks : Unhook(t) \/ DeleteHook(t)
             \/ NsRan \/ WetRan \/ WaveHookFails \/ SyncFailRan
             \/ Succeed \/ FailWaveHook \/ SetOperationFailed \/ TerminateStep \/ Crash
    BY <1>6, <2>3
    DEF DryRunStep, UpdateStep, Decide, Unhook, DeleteHook, NsRan, WetRan, WaveHookFails,
        SyncFailRan, Succeed, FailWaveHook, SetOperationFailed, TerminateStep,
        TerminateFinalizer, TerminateDelete, TerminateDone, Crash, Cleaning
  <2> QED
    BY <1>5, <2>1, <2>2, <2>3 DEF Next, SyncStep
<1> QED
  BY <1>2, <1>3, <1>6

\* The loop on prune tasks handles nothing else.
PrunesOnly == pc = "prune" => todo \subseteq Prunes

\* Each step keeps it so.
LEMMA PrunesOnlyStep == PrunesOnly /\ [Next]_vars => PrunesOnly'
<1> SUFFICES ASSUME PrunesOnly, [Next]_vars, pc' = "prune"
             PROVE  todo' \subseteq Prunes
  BY DEF PrunesOnly
<1>1. CASE RunStep
  <2>1. ASSUME NEW t \in Tasks,
               FinalizerStep(t) \/ PruneStep(t) \/ DeleteStep(t) \/ CreateStep(t)
        PROVE  todo' \subseteq Prunes
    BY <2>1, RunShape DEF PrunesOnly
  <2>2. CASE FinalizersDone \/ PruneDone \/ DeleteDone \/ CreateDone
    BY <2>2 DEF FinalizersDone, PruneDone, DeleteDone, CreateDone, GoTo
  <2> QED
    BY <1>1, <2>1, <2>2 DEF RunStep
<1>2. CASE World \/ Refresh \/ Finished \/ UNCHANGED vars
  BY <1>2, WorldShape DEF PrunesOnly
<1>3. CASE \/ StartInvalid \/ StartNsUnknown \/ StartAgain \/ StartFirst
           \/ DryRunStep \/ UpdateStep \/ Decide
           \/ \E t \in Tasks : Unhook(t) \/ DeleteHook(t)
  BY <1>3 DEF StartInvalid, StartNsUnknown, StartAgain, StartFirst, DryRunStep, UpdateStep,
              Decide, Unhook, DeleteHook, Return, GoTo, RunTasks, Cleaning
<1>4. CASE \/ NsRan \/ WetRan \/ WaveHookFails \/ SyncFailRan
           \/ Succeed \/ FailWaveHook \/ SetOperationFailed
  BY <1>4 DEF NsRan, WetRan, WaveHookFails, SyncFailRan, Succeed, FailWaveHook,
              SetOperationFailed, Return, GoTo, RunTasks
<1>5. CASE StartTerminate \/ TerminateStep \/ Crash
  BY <1>5 DEF StartTerminate, TerminateStep, TerminateFinalizer, TerminateDelete,
              TerminateDone, Crash, Return, GoTo
<1> QED
  BY <1>1, <1>2, <1>3, <1>4, <1>5 DEF Next, SyncStep

\* A real sync learns that a hook has succeeded when it updates its tasks from
\* the live objects.
LEMMA NewSuccess ==
    ASSUME ResType, PrunesOnly, [Next]_vars, UnderWay, ~Crash, ~dryRun,
           NEW t \in Hooks, OpState(t)' = "Succeeded", OpState(t) # "Succeeded"
    PROVE  pc = "update" /\ Running(t) /\ HasLive(t) /\ UNCHANGED <<cluster, live>>
<1>1. syncRes' # syncRes
  BY DEF OpState
<1>2. t \in Tasks /\ t \notin Prunes
  BY KindAssumption
<1>3. ASSUME NEW u \in Tasks, NEW s, NEW p, SetResourceResult(u, s, p), p # "Succeeded"
      PROVE  FALSE
  <2>1. syncRes'[t] = syncRes[t] \/ syncRes'[t] = [status |-> s, phase |-> p]
    BY <1>2, <1>3 DEF SetResourceResult, ResType
  <2> QED
    BY <1>3, <2>1 DEF OpState
<1>4. CASE UpdateStep
  <2>1. pc = "update" /\ syncRes' = UpdateResults /\ UNCHANGED <<cluster, live>>
    BY <1>4 DEF UpdateStep
  <2> QED
    BY <1>2, <2>1 DEF UpdateResults, OpState
<1>5. CASE World \/ Refresh \/ Finished \/ UNCHANGED vars
  BY <1>1, <1>5, WorldShape
<1>6. CASE FinalizersDone \/ PruneDone \/ DeleteDone \/ CreateDone
  BY <1>1, <1>6, LoopShape
<1>7. ASSUME NEW u \in Tasks,
             Unhook(u) \/ DeleteHook(u) \/ FinalizerStep(u) \/ DeleteStep(u) \/ CreateStep(u)
      PROVE  FALSE
  BY <1>1, <1>3, <1>7 DEF Unhook, DeleteHook, FinalizerStep, DeleteStep, CreateStep
<1>8. ASSUME NEW u \in Tasks, PruneStep(u)
      PROVE  FALSE
  <2>1. CASE SetResourceResult(u, "SyncFailed", "Failed")
    BY <1>3, <2>1
  <2>2. CASE syncRes' = [syncRes EXCEPT ![u] = PruneResult(u)] /\ u \in Prunes
    <3>1. syncRes'[t] = syncRes[t]
      BY <1>2, <2>2 DEF ResType
    <3> QED
      BY <3>1 DEF OpState
  <2> QED
    BY <1>8, <2>1, <2>2 DEF PruneStep, PrunesOnly
<1>9. CASE StartInvalid
  <2>1. PICK u \in Tasks : SetResourceResult(u, "SyncFailed", "")
    BY <1>9 DEF StartInvalid, Return, SetResourceResult, CurTasks
  <2> QED
    BY <1>3, <2>1
<1>10. CASE StartNsUnknown
  BY <1>3, <1>10, KindAssumption DEF StartNsUnknown, appendFailedNsTask
<1>11. CASE DryRunStep
  <2>1. syncRes' = syncRes \/ \E bad : syncRes' = DryRunResults(bad)
    BY <1>11 DEF DryRunStep, Return
  <2> QED
    BY <1>2, <2>1 DEF DryRunResults, OpState
<1>12. CASE StartAgain \/ StartFirst \/ Decide \/ NsRan \/ WetRan \/ WaveHookFails
  BY <1>1, <1>12 DEF StartAgain, StartFirst, Decide, NsRan, WetRan, WaveHookFails, Return
<1>13. CASE StartTerminate
  BY <1>1, <1>3, <1>13, TerminateResult
<1>14. CASE SyncFailRan \/ Succeed \/ FailWaveHook \/ SetOperationFailed
  BY <1>1, <1>14 DEF SyncFailRan, Succeed, FailWaveHook, SetOperationFailed, Return
<1>15. CASE TerminateStep
  BY <1>15 DEF TerminateStep, TerminateFinalizer, TerminateDelete, TerminateDone, UnderWay,
               Terminating
<1> QED
  BY <1>4, <1>5, <1>6, <1>7, <1>8, <1>9, <1>10, <1>11, <1>12, <1>13, <1>14, <1>15
  DEF Next, SyncStep, RunStep

\* A hook that succeeded is seen, or gone.
HooksSeen == \A t \in Hooks : OpState(t) = "Succeeded" => Seen(Obj[t])

\* A batch of hooks makes objects that the call does not see.
Blind == \/ pc \in {"idle", "cleanFailed", "cleanWaveHook"} \cup Terminating
         \/ pc \in RunStages /\ batch \cap Hooks # {}

\* That the deletion of hooks, at the end, misses none: because the call sees
\* the cluster as it was, or because a hook is updated from what is seen.
AllSeen ==
    /\ dryRun => \A o \in Objects : Seen(o)
    /\ Snapshot = "current" /\ ~Blind => HooksSeen
    /\ HooksAlone /\ crashes = 0 /\ UnderWay => HooksSeen

\* The rest of the call sees again what a batch of hooks made.
LEMMA BlindShape ==
    ASSUME RunBatch, [Next]_vars, pc # "idle", pc' # "idle", Blind
    PROVE  Blind'
<1> USE DEF Blind, Terminating, RunStages
<1>1. CASE RunStep
  <2>1. pc \in RunStages /\ pc' \in RunStages /\ batch' = batch
    BY <1>1, RunShape, LoopShape DEF RunStep
  <2> QED
    BY <2>1
<1>2. CASE World \/ Refresh \/ Finished \/ UNCHANGED vars
  BY <1>2, WorldShape
<1>3. CASE \/ StartInvalid \/ StartNsUnknown \/ StartAgain \/ StartFirst
           \/ DryRunStep \/ UpdateStep \/ Decide \/ StartTerminate
           \/ \E t \in Tasks : Unhook(t) \/ DeleteHook(t)
  BY <1>3 DEF StartInvalid, StartNsUnknown, StartAgain, StartFirst, Callable, DryRunStep,
              UpdateStep, Decide, StartTerminate, Unhook, DeleteHook
<1>4. CASE SetOperationFailed
  <2>1. PICK t \in SyncFailTasks : ~Completed(t) /\ batch' = SyncFailTasks
    BY <1>4 DEF SetOperationFailed, Return, RunTasks
  <2>2. t \in Hooks
    BY <2>1, KindAssumption DEF SyncFailTasks, CurTasks, MainTasks
  <2> QED
    BY <1>4, <2>1, <2>2 DEF SetOperationFailed, RunTasks, Return
<1>5. CASE NsRan
  BY <1>5, KindAssumption DEF NsRan, RunBatch, Return
<1>6. CASE WetRan \/ WaveHookFails
  BY <1>6 DEF WetRan, WaveHookFails, Return, GoTo, Remaining
<1>7. CASE SyncFailRan \/ Succeed \/ FailWaveHook \/ Crash
  BY <1>7 DEF SyncFailRan, Succeed, FailWaveHook, Crash, Return
<1>8. CASE TerminateStep
  BY <1>8 DEF TerminateStep, TerminateFinalizer, TerminateDelete, TerminateDone, Return, GoTo
<1> QED
  BY <1>1, <1>2, <1>3, <1>4, <1>5, <1>6, <1>7, <1>8 DEF Next, SyncStep

\* Each step keeps them seen.
LEMMA AllSeenStep ==
    ASSUME HooksApart, SuccessInv, PrunesOnly, AllSeen, [Next]_vars
    PROVE  AllSeen'
<1>1. /\ ResType /\ ObjType /\ RunBatch /\ TodoInBatch /\ crashes \in Nat
      /\ Hooks \subseteq Tasks /\ Obj \in [Tasks -> Objects]
  BY TypeParts, KindAssumption, TaskAssumption, BoundAssumption
  DEF SuccessInv, LoopInv, GateInv, CountType
<1>2. dryRun' = dryRun /\ (crashes' = 0 => crashes = 0 /\ ~Crash)
  BY <1>1, DryRunRigid DEF Crash
<1>3. dryRun' => \A o \in Objects : Seen(o)'
  <2> SUFFICES ASSUME dryRun, NEW o \in Objects
               PROVE  Seen(o)'
    BY <1>2
  <2>1. Seen(o)
    BY DEF AllSeen
  <2>2. ASSUME NEW t \in Tasks, CreateStep(t)
        PROVE  UNCHANGED <<cluster, live>>
    BY <2>2 DEF CreateStep, CreateEffect, ApiDone, ApiError
  <2> QED
    BY <1>1, <2>1, <2>2, SeenStays DEF Seen
<1>4. ASSUME NEW u \in Tasks, CreateStep(u), NEW t \in Hooks, u \notin Hooks
      PROVE  Obj[u] # Obj[t]
  <2>1. u \notin Prunes
    BY <1>4 DEF SuccessInv, LoopTodo, CreateStep
  <2> QED
    BY <1>4, <2>1 DEF HooksApart
<1>5. ASSUME Snapshot = "current", ~Blind'
      PROVE  HooksSeen'
  <2>1. CASE pc = "idle"
    <3>1. pc' # "idle"
      BY <1>5 DEF Blind
    <3>2. live' = cluster'
      <4>1. \A o \in Objects : live[o] = cluster[o]
        BY <1>5, <2>1, <3>1, CallShape DEF Callable, FreshObjects
      <4>2. live = cluster
        BY <1>1, <4>1 DEF ObjType
      <4> QED
        BY <2>1, <3>1, <4>2, CallShape
    <3> QED
      BY <3>2 DEF HooksSeen, Seen
  <2>2. CASE pc # "idle"
    <3>1. pc' # "idle" /\ ~Blind
      BY <1>1, <1>5, <2>2, BlindShape DEF Blind
    <3>2. ASSUME NEW t \in Hooks, NEW u \in Tasks, CreateStep(u)
          PROVE  Obj[u] # Obj[t]
      <4>1. u \in batch /\ pc \in RunStages
        BY <1>1, <3>2 DEF CreateStep, TodoInBatch, RunStages
      <4> QED
        BY <1>4, <3>1, <3>2, <4>1 DEF Blind
    <3>3. ASSUME NEW t \in Hooks, OpState(t)' = "Succeeded"
          PROVE  Seen(Obj[t])'
      <4>1. CASE Seen(Obj[t])
        BY <1>1, <3>2, <4>1, SeenStays
      <4>2. CASE OpState(t) # "Succeeded" /\ ~dryRun
        <5>1. ~Crash /\ UnderWay
          BY <2>2, <3>1 DEF Crash, Return, UnderWay, Blind
        <5>2. HasLive(t) /\ UNCHANGED <<cluster, live>>
          BY <1>1, <3>3, <4>2, <5>1, NewSuccess
        <5> QED
          BY <5>2 DEF Seen, HasLive, LiveObj
      <4> QED
        BY <1>1, <1>5, <3>1, <4>1, <4>2 DEF AllSeen, HooksSeen
    <3> QED
      BY <3>3 DEF HooksSeen
  <2> QED
    BY <2>1, <2>2
<1>6. ASSUME HooksAlone, crashes' = 0, UnderWay'
      PROVE  HooksSeen'
  <2> SUFFICES ASSUME NEW t \in Hooks, OpState(t)' = "Succeeded"
               PROVE  Seen(Obj[t])'
    BY DEF HooksSeen
  <2>1. UnderWay /\ crashes = 0 /\ ~Crash
    BY <1>2, <1>6, UnderWayBefore
  <2>2. CASE dryRun
    BY <1>1, <1>2, <1>3, <2>2
  <2>3. CASE ~dryRun /\ OpState(t) # "Succeeded"
    <3>1. HasLive(t) /\ UNCHANGED <<cluster, live>>
      BY <1>1, <2>1, <2>3, NewSuccess
    <3> QED
      BY <3>1 DEF Seen, HasLive, LiveObj
  <2>4. CASE ~dryRun /\ OpState(t) = "Succeeded"
    <3>1. Seen(Obj[t])
      BY <1>6, <2>1, <2>4 DEF AllSeen, HooksSeen
    <3>2. ASSUME NEW u \in Tasks, CreateStep(u)
          PROVE  Obj[u] # Obj[t]
      <4>1. u # t
        <5> SUFFICES ASSUME u = t PROVE FALSE
          OBVIOUS
        <5>1. \E s : SetResourceResult(t, s, "Running") \/ SetResourceResult(t, s, "Failed")
          BY <2>4, <3>2 DEF CreateStep
        <5>2. syncRes'[t] # NoResult => syncRes'[t].phase \in {"Running", "Failed"}
          BY <1>1, <5>1 DEF SetResourceResult, ResType
        <5> QED
          BY <5>2 DEF OpState
      <4> QED
        BY <1>4, <1>6, <3>2, <4>1 DEF HooksAlone
    <3> QED
      BY <1>1, <3>1, <3>2, SeenStays
  <2> QED
    BY <2>2, <2>3, <2>4
<1> QED
  BY <1>3, <1>5, <1>6 DEF AllSeen

\* What the deletion of hooks needs to know.
Trusted == Snapshot = "current" \/ (HooksAlone /\ crashes = 0)

Swept(t) == OpState(t) = "Succeeded" => Going(cluster, Obj[t])

\* The hooks that the deletion is done with are going.
Cleaned ==
    Trusted =>
        /\ pc = "cleanSucceeded" => \A t \in HookSucceeded \ todo : Swept(t)
        /\ HooksCleanedUp

CleanedInv == SuccessInv /\ PrunesOnly /\ AllSeen /\ StillOpen /\ Cleaned

\* Without an apply, what is going does not come back.
LEMMA GoingStays ==
    ASSUME ObjType, [Next]_vars, pc # "create", NEW o \in Objects, Going(cluster, o)
    PROVE  Going(cluster', o)
<1>1. /\ Ages(cluster', o)
      /\ cluster[o] = NoObj => cluster'[o] = NoObj
  BY ClusterAges DEF CreateStep
<1> QED
  BY <1>1 DEF Ages, Going

\* What is deleted is going, if it is still there.
LEMMA MarkedGoes ==
    ASSUME ObjType, NEW o \in Objects
    PROVE  Going(MarkedDeleted(o), o)
<1>1. CASE cluster[o] = NoObj
  BY <1>1 DEF MarkedDeleted, Going
<1>2. CASE cluster[o] # NoObj
  <2>1. cluster[o] \in KubeObjects
    BY <1>2 DEF ObjType
  <2>2. [cluster[o] EXCEPT !.deleting = TRUE].deleting
    BY <2>1 DEF KubeObjects
  <2>3. MarkedDeleted(o)[o] = [cluster[o] EXCEPT !.deleting = TRUE]
    BY <1>2 DEF MarkedDeleted, ObjType
  <2> QED
    BY <2>2, <2>3 DEF Going
<1> QED
  BY <1>1, <1>2

\* The hooks are deleted after the decision on success.
LEMMA CleanShape ==
    ASSUME [Next]_vars, pc' = "cleanSucceeded"
    PROVE  \/ Decide \/ WetRan
           \/ pc = "cleanSucceeded" /\ (World \/ Refresh \/ Finished \/ UNCHANGED vars
                                        \/ \E t \in Tasks : DeleteHook(t))
<1>1. CASE World \/ Refresh \/ Finished \/ UNCHANGED vars
  BY <1>1, WorldShape
<1>2. CASE RunStep
  BY <1>2, RunShape, LoopShape DEF RunStep, RunStages
<1>3. CASE \/ StartInvalid \/ StartNsUnknown \/ StartAgain \/ StartFirst
           \/ DryRunStep \/ UpdateStep \/ Decide
           \/ \E t \in Tasks : Unhook(t) \/ DeleteHook(t)
  BY <1>3 DEF StartInvalid, StartNsUnknown, StartAgain, StartFirst, DryRunStep, UpdateStep,
              Unhook, DeleteHook, Return, GoTo, RunTasks
<1>4. CASE \/ NsRan \/ WetRan \/ WaveHookFails \/ SyncFailRan
           \/ Succeed \/ FailWaveHook \/ SetOperationFailed
  BY <1>4 DEF NsRan, WaveHookFails, SyncFailRan, Succeed, FailWaveHook,
              SetOperationFailed, Return, GoTo, RunTasks
<1>5. CASE StartTerminate \/ TerminateStep \/ Crash
  BY <1>5 DEF StartTerminate, TerminateStep, TerminateFinalizer, TerminateDelete,
              TerminateDone, Crash, Return, GoTo
<1> QED
  BY <1>1, <1>2, <1>3, <1>4, <1>5 DEF Next, SyncStep

\* The deletion of hooks starts when Sync() has seen them, and ends one more
\* with each of its calls.
LEMMA SweptStep ==
    ASSUME CleanedInv, Trusted, [Next]_vars, pc' = "cleanSucceeded",
           NEW t \in HookSucceeded \ todo'
    PROVE  Swept(t)'
<1>1. /\ ResType /\ ObjType /\ t \in Tasks /\ t \in Hooks /\ t \notin Prunes
      /\ Obj \in [Tasks -> Objects] /\ RunBatch
  BY TypeParts, KindAssumption, TaskAssumption DEF CleanedInv, SuccessInv, LoopInv, GateInv
<1> SUFFICES ASSUME OpState(t)' = "Succeeded"
             PROVE  Going(cluster', Obj[t])
  BY DEF Swept, Going
<1>2. CASE pc = "cleanSucceeded" /\ UNCHANGED <<todo, syncRes>>
  BY <1>1, <1>2, GoingStays DEF CleanedInv, Cleaned, Swept, OpState
<1>3. ASSUME NEW u \in Tasks, DeleteHook(u)
      PROVE  Going(cluster', Obj[t])
  <2>1. /\ pc = "cleanSucceeded" /\ todo' = todo \ {u}
        /\ \A v \in Tasks \ {u} : syncRes'[v] = syncRes[v]
    BY <1>1, <1>3 DEF DeleteHook, SetResourceResult, ResType
  <2>2. CASE t # u
    <3>1. OpState(t)' = OpState(t) /\ t \notin todo
      BY <1>1, <2>1, <2>2 DEF OpState
    <3>2. Swept(t)
      BY <2>1, <3>1 DEF CleanedInv, Cleaned
    <3>3. Going(cluster, Obj[t])
      BY <3>1, <3>2 DEF Swept
    <3> QED
      BY <1>1, <2>1, <3>3, GoingStays
  <2>3. CASE t = u
    <3>1. ASSUME NEW s, SetResourceResult(u, s, "Error")
          PROVE  syncRes'[u].phase = "Error"
      BY <1>1, <3>1 DEF SetResourceResult, ResType
    <3>2. cluster' = MarkedDeleted(Obj[u]) \/ syncRes'[u].phase = "Error"
      BY <1>3, <3>1 DEF DeleteHook, ApiDone
    <3>3. syncRes'[t].phase = "Succeeded"
      BY DEF OpState
    <3> QED
      BY <1>1, <2>3, <3>2, <3>3, MarkedGoes
  <2> QED
    BY <2>2, <2>3
<1>4. ASSUME Decide \/ WetRan
      PROVE  Going(cluster', Obj[t])
  <2>1. /\ todo' = DeletedOnSuccess /\ UNCHANGED <<cluster, live, syncRes>>
        /\ pc = "unhook" \/ (pc \in RunStages /\ batch \cap Hooks = {})
    BY <1>4 DEF Decide, WetRan, Return, GoTo, RunTasks, Remaining, RunStages
  <2>2. ~HasLive(t)
    BY <1>1, <2>1, KindAssumption DEF DeletedOnSuccess, CurTasks
  <2>3. ~Blind /\ UnderWay
    BY <2>1 DEF Blind, UnderWay, Terminating, RunStages
  <2>4. HooksSeen
    BY <2>3 DEF CleanedInv, AllSeen, Trusted
  <2> QED
    BY <1>1, <2>1, <2>2, <2>4 DEF HooksSeen, Seen, HasLive, LiveObj, OpState, Going
<1>5. CASE World \/ Refresh \/ Finished \/ UNCHANGED vars
  BY <1>2, <1>5, WorldShape
<1> QED
  BY <1>3, <1>4, <1>5, CleanShape

\* Each step keeps what a successful operation cleans up.
LEMMA CleanedStep ==
    ASSUME HooksApart, CleanedInv, [Next]_vars
    PROVE  CleanedInv'
<1>1. SuccessInv' /\ PrunesOnly' /\ AllSeen' /\ StillOpen'
  BY SuccessStep, PrunesOnlyStep, AllSeenStep, StillOpenStep DEF CleanedInv
<1>2. /\ ObjType /\ crashes \in Nat /\ HookSucceeded \subseteq Tasks
      /\ Obj \in [Tasks -> Objects]
  BY TypeParts, KindAssumption, TaskAssumption, BoundAssumption
  DEF CleanedInv, SuccessInv, LoopInv, GateInv, CountType
<1>3. ASSUME Trusted'
      PROVE  Trusted
  <2>1. crashes' = 0 => crashes = 0
    BY <1>2, DryRunRigid DEF Crash
  <2> QED
    BY <1>3, <2>1 DEF Trusted
<1>4. ASSUME Trusted', opPhase' = "Succeeded", NEW t \in HookSucceeded
      PROVE  Swept(t)'
  <2>1. CASE Succeed
    <3>1. Swept(t) /\ UNCHANGED <<cluster, syncRes>>
      BY <1>3, <1>4, <2>1 DEF Succeed, Return, CleanedInv, Cleaned
    <3> QED
      BY <3>1 DEF Swept, Going, OpState
  <2>2. CASE /\ pc = "idle" /\ opPhase = "Succeeded"
             /\ World \/ Refresh \/ Finished \/ UNCHANGED vars
    <3>1. OpState(t)' = OpState(t)
      BY <2>2, WorldShape DEF OpState
    <3>2. OpState(t) = "Succeeded" => Going(cluster, Obj[t])
      BY <1>3, <1>4, <2>2 DEF CleanedInv, Cleaned, HooksCleanedUp, Going
    <3> QED
      BY <1>2, <2>2, <3>1, <3>2, GoingStays DEF Swept, Going
  <2> QED
    BY <1>4, <2>1, <2>2, StillOpenStep DEF CleanedInv
<1>5. Cleaned'
  BY <1>3, <1>4, SweptStep DEF Cleaned, HooksCleanedUp, Swept, Going
<1> QED
  BY <1>1, <1>5 DEF CleanedInv

\* The operation starts with a snapshot of the cluster.
LEMMA CleanedInit == Init => CleanedInv
<1> SUFFICES ASSUME Init PROVE CleanedInv
  OBVIOUS
<1>1. /\ live = cluster /\ pc = "idle" /\ opPhase = "" /\ saved.phase = opPhase
  BY DEF Init
<1>2. \A o \in Objects : Seen(o)
  BY <1>1 DEF Seen
<1> QED
  BY <1>1, <1>2, SuccessInit, KindAssumption, TaskAssumption
  DEF CleanedInv, PrunesOnly, AllSeen, HooksSeen, StillOpen, Completions, Cleaned,
      HooksCleanedUp

\* A successful operation has deleted its HookSucceeded hooks (or recorded that
\* it could not): when each call sees the cluster as it is, whatever fails or
\* restarts; and, as long as the process does not restart, also when it sees an
\* older cluster, if no two hooks share an object.
THEOREM CleanedUpCorrect ==
    HooksApart => (Spec => [](Trusted => HooksCleanedUp))
<1> SUFFICES ASSUME HooksApart
             PROVE  Spec => [](Trusted => HooksCleanedUp)
  OBVIOUS
<1>1. CleanedInv /\ [Next]_vars => CleanedInv'
  BY CleanedStep
<1>2. CleanedInv => (Trusted => HooksCleanedUp)
  BY DEF CleanedInv, Cleaned
<1> QED
  BY <1>1, <1>2, CleanedInit, PTL DEF Spec

-----------------------------------------------------------------------------
(* Hooks run once                                                           *)

\* The hooks that run after a failure are not deleted by the failure itself.
\* (One that is, and whose deletion fails, is recorded as completed before it
\* ran, and then runs.)
FailedHooksApart == \A t \in HookFailed : Phase[t] # "SyncFail"

AllSyncFail == {t \in Tasks : Phase[t] = "SyncFail"}

PendingIn(res, t) == res[t] = NoResult \/ res[t].phase = ""

\* The SyncFail hooks are started in one batch: none has a result, or all have.
Together(res) == \/ \A t \in AllSyncFail : PendingIn(res, t)
                 \/ \A t \in AllSyncFail : ~PendingIn(res, t)

\* The hooks of a batch are pending until they are created, and all of them are
\* created unless a call fails.
BatchTogether ==
    LET hooks == batch \cap Hooks IN
    /\ pc \in {"finalizers", "prune", "delete"} /\ run # "failed" =>
          \A t \in hooks : PendingIn(syncRes, t)
    /\ pc = "create" =>
          /\ run # "pending"
          /\ \A t \in todo \cap Hooks : PendingIn(syncRes, t)
          /\ run # "failed" => \A t \in hooks \ todo : ~PendingIn(syncRes, t)
    /\ pc = "ran" /\ site = "fail" =>
          /\ run = "pending" => \A t \in hooks : PendingIn(syncRes, t)
          /\ run = "successful" => \A t \in hooks : ~PendingIn(syncRes, t)

\* So are the SyncFail hooks of an operation that goes on, in memory and as
\* saved; and none is running when the others are started or have failed.
SyncFailTogether ==
    /\ UnderWay /\ site # "fail" /\ pc \notin {"cleanSucceeded", "cleanWaveHook"} =>
          Together(syncRes)
    /\ InWetRun \/ pc = "cleanFailed" => \A t \in AllSyncFail : ~Running(t)
    /\ site = "fail" => AllSyncFail \subseteq batch
    /\ pc = "cleanFailed" => todo \subseteq HookFailed
    /\ saved.phase \notin Completions => Together(saved.res)

OnceInv ==
    /\ LoopInv /\ PrunesOnly /\ StillOpen
    /\ ~dryRun => BatchTogether /\ SyncFailTogether

\* The view of a task, and the results it is read off.
LEMMA PendingMeans ==
    /\ \A t : Pending(t) <=> PendingIn(syncRes, t)
    /\ \A t : Pending(t)' <=> PendingIn(syncRes', t)
BY DEF Pending, OpState, PendingIn

\* What is recorded for a task is its result, and no other's.
LEMMA Recorded ==
    ASSUME ResType, NEW t \in Tasks, NEW s \in Codes, NEW p \in OpPhases,
           SetResourceResult(t, s, p)
    PROVE  /\ \A u \in Tasks \ {t} : syncRes'[u] = syncRes[u]
           /\ PendingIn(syncRes', t) <=> p = ""
<1>1. [status |-> s, phase |-> p] # NoResult
  BY OptionAssumption DEF Results
<1>2. syncRes'[t] = [status |-> s, phase |-> p]
  BY DEF SetResourceResult, ResType
<1>3. syncRes'[t].phase = p
  BY <1>2
<1> QED
  BY <1>1, <1>2, <1>3 DEF SetResourceResult, ResType, PendingIn

\* The SyncFail tasks are hooks, and always tasks of the operation.
LEMMA SyncFailAre == AllSyncFail \subseteq Hooks /\ SyncFailTasks = AllSyncFail
BY KindAssumption DEF AllSyncFail, SyncFailTasks, MainTasks, CurTasks

\* A call of runTasks' loops.
LEMMA RunTogether ==
    ASSUME OnceInv, ~dryRun, NEW t \in Tasks,
           FinalizerStep(t) \/ PruneStep(t) \/ DeleteStep(t) \/ CreateStep(t)
    PROVE  BatchTogether'
<1>1. /\ ResType /\ batch \subseteq Tasks /\ TodoInBatch /\ Hooks \subseteq Tasks
      /\ Prunes \cap Hooks = {} /\ SyncStatus(t) \in Codes
      /\ BatchTogether
  BY TypeParts, ViewType, KindAssumption DEF OnceInv, LoopInv, GateInv, ControlType
<1>2. /\ pc \in RunStages /\ pc' = pc /\ t \in todo /\ todo' = todo \ {t}
      /\ batch' = batch /\ site' = site
  BY RunShape
<1>3. CASE FinalizerStep(t) \/ DeleteStep(t)
  <2>1. pc \in {"finalizers", "delete"} /\ (run' # "failed" => run # "failed" /\ syncRes' = syncRes)
    BY <1>3 DEF FinalizerStep, DeleteStep, Worse
  <2> QED
    BY <1>1, <1>2, <2>1 DEF BatchTogether
<1>4. CASE PruneStep(t)
  <2>1. pc = "prune" /\ (run' # "failed" => run # "failed") /\ t \in Prunes
    BY <1>4 DEF PruneStep, OnceInv, PrunesOnly
  <2>2. \A u \in Hooks : syncRes'[u] = syncRes[u]
    BY <1>1, <1>4, <2>1, RunShape DEF ResType
  <2> QED
    BY <1>1, <1>2, <2>1, <2>2 DEF BatchTogether, PendingIn
<1>5. CASE CreateStep(t)
  <2>1. pc = "create" /\ run' \in {run, "failed"}
    BY <1>5 DEF CreateStep
  <2>2. /\ \A u \in Tasks \ {t} : syncRes'[u] = syncRes[u]
        /\ ~PendingIn(syncRes', t)
    BY <1>1, <1>5, Recorded DEF CreateStep, Codes, OpPhases
  <2> QED
    BY <1>1, <1>2, <2>1, <2>2 DEF BatchTogether, PendingIn
<1> QED
  BY <1>3, <1>4, <1>5

\* The loops follow each other.
LEMMA LoopTogether ==
    ASSUME OnceInv, ~dryRun, FinalizersDone \/ PruneDone \/ DeleteDone \/ CreateDone
    PROVE  BatchTogether'
<1>1. /\ BatchTogether /\ run \in {"successful", "pending", "failed"} /\ Prunes \cap Hooks = {}
  BY TypeParts, KindAssumption DEF OnceInv, LoopInv, GateInv, ControlType
<1>2. syncRes' = syncRes /\ batch' = batch /\ site' = site
  BY LoopShape
<1>3. CASE FinalizersDone
  BY <1>1, <1>2, <1>3 DEF FinalizersDone, GoTo, BatchTogether
<1>4. CASE PruneDone
  BY <1>1, <1>2, <1>4 DEF PruneDone, GoTo, BatchTogether
<1>5. CASE DeleteDone
  BY <1>1, <1>2, <1>5 DEF DeleteDone, GoTo, BatchTogether
<1>6. CASE CreateDone
  BY <1>1, <1>2, <1>6 DEF CreateDone, GoTo, BatchTogether
<1> QED
  BY <1>3, <1>4, <1>5, <1>6

\* A failed operation that has not completed its SyncFail hooks has started none.
LEMMA NoneYet ==
    ASSUME OnceInv, ~dryRun, pc = "cleanFailed", ~(\A t \in SyncFailTasks : Completed(t))
    PROVE  \A t \in AllSyncFail : PendingIn(syncRes, t)
<1>1. ResType /\ AllSyncFail \subseteq Tasks /\ site # "fail"
  BY TypeParts DEF OnceInv, LoopInv, GateInv, AllSyncFail, RunBatch, RunStages
<1>2. Together(syncRes) /\ \A t \in AllSyncFail : ~Running(t)
  BY <1>1 DEF OnceInv, SyncFailTogether, UnderWay, Terminating
<1>3. \A t \in AllSyncFail : ~Pending(t) => Completed(t)
  <2> SUFFICES ASSUME NEW t \in AllSyncFail, ~Pending(t)
               PROVE  Completed(t)
    OBVIOUS
  <2>1. OpState(t) \in OpPhases
    BY <1>1, ViewType
  <2> QED
    BY <1>2, <2>1 DEF Pending, Running, Completed, OpPhases, Completions
<1> QED
  BY <1>2, <1>3, SyncFailAre, PendingMeans DEF Together

\* Each step keeps the hooks of a batch together.
LEMMA BatchTogetherStep ==
    ASSUME OnceInv, ~dryRun, [Next]_vars
    PROVE  BatchTogether'
<1> USE DEF RunStages
<1>1. CASE RunStep
  BY <1>1, RunTogether, LoopTogether DEF RunStep
<1>2. CASE World \/ Refresh \/ Finished \/ UNCHANGED vars
  BY <1>2, WorldShape DEF OnceInv, BatchTogether, PendingIn
<1>3. CASE pc' \notin RunStages
  BY <1>3 DEF BatchTogether
<1>4. ASSUME NEW s, NEW ts, RunTasks(s, ts), \A t \in ts \cap Hooks : PendingIn(syncRes', t)
      PROVE  BatchTogether'
  BY <1>4 DEF RunTasks, BatchTogether
<1>5. CASE StartFirst
  <2>1. \A t \in NsTasks : {t} \cap Hooks = {}
    BY KindAssumption
  <2> QED
    BY <1>3, <1>4, <1>5, <2>1 DEF StartFirst, GoTo
<1>6. CASE Decide
  <2>1. \A t \in FirstStep(NextTasks) : PendingIn(syncRes', t)
    BY <1>6, PendingMeans DEF Decide, FirstStep, NextTasks
  <2> QED
    BY <1>3, <1>4, <1>6, <2>1 DEF Decide, GoTo
<1>7. CASE SetOperationFailed
  <2>1. CASE pc' = "idle"
    BY <1>3, <2>1
  <2>2. CASE pc' # "idle"
    <3>1. /\ pc = "cleanFailed" /\ RunTasks("fail", SyncFailTasks) /\ syncRes' = syncRes
          /\ ~(\A t \in SyncFailTasks : Completed(t))
      BY <1>7, <2>2 DEF SetOperationFailed, Return
    <3> QED
      BY <1>4, <3>1, NoneYet, SyncFailAre
  <2> QED
    BY <2>1, <2>2
<1>8. CASE \/ StartInvalid \/ StartNsUnknown \/ StartAgain \/ DryRunStep \/ UpdateStep
           \/ \E t \in Tasks : Unhook(t) \/ DeleteHook(t)
  BY <1>3, <1>8 DEF StartInvalid, StartNsUnknown, StartAgain, DryRunStep, UpdateStep,
                    Unhook, DeleteHook, Return, GoTo, Cleaning
<1>9. CASE \/ NsRan \/ WetRan \/ WaveHookFails \/ SyncFailRan
           \/ Succeed \/ FailWaveHook
  BY <1>3, <1>9 DEF NsRan, WetRan, WaveHookFails, SyncFailRan, Succeed, FailWaveHook,
                    Return, GoTo
<1>10. CASE StartTerminate \/ TerminateStep \/ Crash
  BY <1>3, <1>10 DEF StartTerminate, TerminateStep, TerminateFinalizer, TerminateDelete,
                     TerminateDone, Crash, Return, GoTo
<1> QED
  BY <1>1, <1>2, <1>5, <1>6, <1>7, <1>8, <1>9, <1>10 DEF Next, SyncStep

SamePending == \A t \in AllSyncFail : PendingIn(syncRes', t) <=> PendingIn(syncRes, t)

\* The update of the tasks starts no SyncFail hook.
LEMMA UpdatePending ==
    ASSUME ResType, ObjType, syncRes' = UpdateResults
    PROVE  SamePending
<1> SUFFICES ASSUME NEW t \in AllSyncFail, Running(t), HasLive(t)
             PROVE  PendingIn(UpdateResults, t) <=> PendingIn(syncRes, t)
  BY DEF SamePending, PendingIn, UpdateResults, AllSyncFail
<1>1. t \in Hooks /\ t \in Tasks /\ t \in CurTasks
  BY SyncFailAre, KindAssumption DEF AllSyncFail, CurTasks
<1>2. ~PendingIn(syncRes, t)
  BY PendingMeans DEF Running, Pending
<1>3. LiveObj(t) \in KubeObjects
  BY <1>1, TaskAssumption DEF ObjType, LiveObj, HasLive
<1>4. UpdateResults[t] = Updated(t)
  BY <1>1 DEF UpdateResults
<1>5. Updated(t) # NoResult
  BY <1>1, UpdatedType, OptionAssumption
<1>6. \A s, p : p # "" => [status |-> s, phase |-> p].phase # ""
  OBVIOUS
<1>7. Updated(t).phase # ""
  BY <1>1, <1>3, <1>6, HookPhaseType DEF Updated
<1> QED
  BY <1>2, <1>4, <1>5, <1>7 DEF PendingIn

\* Outside their own batch, no step of an operation that goes on starts one.
LEMMA PendingKept ==
    ASSUME FailedHooksApart, OnceInv, ~dryRun, [Next]_vars, ~Crash, UnderWay',
           site # "fail", pc \notin {"cleanSucceeded", "cleanWaveHook"}
    PROVE  SamePending
<1>1. /\ ResType /\ ObjType /\ TodoInBatch /\ AllSyncFail \subseteq Tasks
      /\ \A u \in Tasks : SyncStatus(u) \in Codes
      /\ RunBatch /\ HooksAtRest /\ SyncFailTogether
      /\ UnderWay
  BY TypeParts, ViewType, UnderWayBefore DEF OnceInv, LoopInv, GateInv, AllSyncFail
<1>2. syncRes' = syncRes => SamePending
  BY DEF SamePending
<1>3. ASSUME NEW t \in Tasks \ AllSyncFail, \A u \in Tasks \ {t} : syncRes'[u] = syncRes[u]
      PROVE  SamePending
  BY <1>1, <1>3 DEF SamePending, PendingIn
<1>4. CASE RunStep
  <2>1. ASSUME NEW t \in Tasks,
               FinalizerStep(t) \/ PruneStep(t) \/ DeleteStep(t) \/ CreateStep(t)
        PROVE  SamePending
    <3>1. /\ pc \in RunStages /\ t \in todo
          /\ \A u \in Tasks \ {t} : syncRes'[u] = syncRes[u]
      BY <1>1, <2>1, RunShape DEF ResType
    <3>2. t \notin AllSyncFail
      BY <1>1, <3>1 DEF RunBatch, TodoInBatch, AllSyncFail
    <3> QED
      BY <1>3, <3>1, <3>2
  <2> QED
    BY <1>2, <1>4, <2>1, LoopShape DEF RunStep
<1>5. CASE World \/ Refresh \/ Finished \/ UNCHANGED vars
  BY <1>2, <1>5, WorldShape
<1>6. ASSUME NEW t \in Tasks, Unhook(t)
      PROVE  SamePending
  <2>1. ~PendingIn(syncRes, t)
    BY <1>1, <1>6, PendingMeans DEF HooksAtRest, Unhook, Completed, Completions, Pending
  <2>2. syncRes' = syncRes \/ SetResourceResult(t, SyncStatus(t), "Error")
    BY <1>6 DEF Unhook
  <2>3. CASE SetResourceResult(t, SyncStatus(t), "Error")
    <3>1. /\ \A u \in Tasks \ {t} : syncRes'[u] = syncRes[u]
          /\ ~PendingIn(syncRes', t)
      BY <1>1, <2>3, Recorded DEF OpPhases
    <3> QED
      BY <1>1, <2>1, <3>1 DEF SamePending, PendingIn
  <2> QED
    BY <1>2, <2>2, <2>3
<1>7. ASSUME NEW t \in Tasks, DeleteHook(t)
      PROVE  SamePending
  <2>1. pc = "cleanFailed" /\ t \in todo
    BY <1>7 DEF DeleteHook, Cleaning
  <2>2. t \notin AllSyncFail
    BY <1>1, <2>1 DEF SyncFailTogether, FailedHooksApart, AllSyncFail
  <2>3. \A u \in Tasks \ {t} : syncRes'[u] = syncRes[u]
    BY <1>1, <1>7 DEF DeleteHook, SetResourceResult, ResType
  <2> QED
    BY <1>3, <2>2, <2>3
<1>8. CASE StartInvalid \/ FailWaveHook \/ Succeed
  BY <1>8 DEF StartInvalid, FailWaveHook, Succeed, Return, UnderWay, Completions
<1>9. CASE StartNsUnknown
  <2>1. PICK t \in AutoNs : SetResourceResult(t, "SyncFailed", "Error")
    BY <1>9 DEF StartNsUnknown, appendFailedNsTask
  <2>2. t \in Tasks \ AllSyncFail
    BY KindAssumption DEF AllSyncFail
  <2> QED
    BY <1>1, <1>3, <2>1, <2>2 DEF SetResourceResult, ResType
<1>10. CASE DryRunStep
  <2>1. DryRunResults({}) = syncRes
    BY <1>1 DEF DryRunResults, ResType
  <2>2. ASSUME NEW r, Return("Failed", r)
        PROVE  FALSE
    BY <2>2 DEF Return, UnderWay, Completions
  <2> QED
    BY <1>2, <1>10, <2>1, <2>2 DEF DryRunStep
<1>11. CASE UpdateStep
  BY <1>1, <1>11, UpdatePending DEF UpdateStep
<1>12. CASE StartAgain \/ StartFirst \/ Decide \/ NsRan \/ WetRan
            \/ WaveHookFails \/ SyncFailRan \/ SetOperationFailed
  BY <1>2, <1>12 DEF StartAgain, StartFirst, Decide, NsRan, WetRan,
                     WaveHookFails, SyncFailRan, SetOperationFailed, Return
<1>13. CASE StartTerminate \/ TerminateStep
  BY <1>1, <1>13 DEF StartTerminate, GoTo, TerminateStep, TerminateFinalizer, TerminateDelete, TerminateDone,
                     UnderWay, Terminating
<1> QED
  BY <1>4, <1>5, <1>6, <1>7, <1>8, <1>9, <1>10, <1>11, <1>12, <1>13 DEF Next, SyncStep

\* The batch of SyncFail hooks ends in one way, and so does the deletion of
\* hooks that is not followed by it.
LEMMA FailedBatchEnds ==
    ASSUME [Next]_vars, ~Crash
    PROVE  /\ pc \in RunStages /\ site = "fail" /\ site' # "fail" => SyncFailRan
           /\ pc \in {"cleanSucceeded", "cleanWaveHook"} =>
                 pc' = pc \/ (pc' = "idle" /\ opPhase' \in Completions)
<1> USE DEF RunStages
<1>1. CASE RunStep
  BY <1>1, RunShape, LoopShape DEF RunStep
<1>2. CASE World \/ Refresh \/ Finished \/ UNCHANGED vars
  BY <1>2, WorldShape
<1>3. CASE \/ StartInvalid \/ StartNsUnknown \/ StartAgain \/ StartFirst
           \/ DryRunStep \/ UpdateStep \/ Decide \/ StartTerminate
           \/ \E t \in Tasks : Unhook(t) \/ DeleteHook(t)
  BY <1>3 DEF StartInvalid, StartNsUnknown, StartAgain, StartFirst, Callable, DryRunStep,
              UpdateStep, Decide, StartTerminate, Unhook, DeleteHook, Cleaning
<1>4. CASE NsRan \/ WetRan \/ WaveHookFails \/ SyncFailRan
  BY <1>4 DEF NsRan, WetRan, WaveHookFails, SyncFailRan
<1>5. CASE Succeed \/ FailWaveHook \/ SetOperationFailed
  BY <1>5 DEF Succeed, FailWaveHook, SetOperationFailed, Return, Completions
<1>6. CASE TerminateStep
  BY <1>6 DEF TerminateStep, TerminateFinalizer, TerminateDelete, TerminateDone
<1> QED
  BY <1>1, <1>2, <1>3, <1>4, <1>5, <1>6 DEF Next, SyncStep

\* The SyncFail hooks of an operation that goes on stay together.
LEMMA TogetherStep ==
    ASSUME FailedHooksApart, OnceInv, ~dryRun, [Next]_vars, UnderWay', site' # "fail",
           pc' \notin {"cleanSucceeded", "cleanWaveHook"}
    PROVE  Together(syncRes')
<1>1. RunBatch /\ SyncFailTogether /\ BatchTogether
  BY DEF OnceInv, LoopInv
<1>2. CASE Crash
  BY <1>1, <1>2 DEF Crash, Return, UnderWay, SyncFailTogether
<1>3. CASE ~Crash /\ site = "fail"
  <2>1. SyncFailRan
    BY <1>1, <1>3, FailedBatchEnds DEF RunBatch
  <2>2. run \in {"successful", "pending"} /\ syncRes' = syncRes
    BY <2>1, TypeParts
    DEF SyncFailRan, Return, UnderWay, Completions, OnceInv, LoopInv, GateInv, ControlType
  <2>3. AllSyncFail \subseteq batch \cap Hooks
    BY <1>1, <1>3, SyncFailAre DEF SyncFailTogether
  <2> QED
    BY <1>1, <1>3, <2>1, <2>2, <2>3 DEF SyncFailRan, BatchTogether, Together
<1>4. CASE ~Crash /\ site # "fail"
  <2>1. UnderWay
    BY <1>4, UnderWayBefore
  <2>2. pc \notin {"cleanSucceeded", "cleanWaveHook"}
    BY <1>4, FailedBatchEnds DEF UnderWay
  <2>3. SamePending
    BY <1>4, <2>2, PendingKept
  <2> QED
    BY <1>1, <1>4, <2>1, <2>2, <2>3 DEF SyncFailTogether, Together, SamePending
<1> QED
  BY <1>2, <1>3, <1>4

\* The hooks of a failed operation are deleted after the decision that it failed.
LEMMA FailShape ==
    ASSUME [Next]_vars, pc' = "cleanFailed"
    PROVE  \/ /\ Decide \/ WetRan
              /\ syncRes' = syncRes /\ todo' \subseteq HookFailed
           \/ pc = "cleanFailed" /\ todo' \subseteq todo
<1>1. CASE World \/ Refresh \/ Finished \/ UNCHANGED vars
  BY <1>1, WorldShape
<1>2. CASE RunStep
  BY <1>2, RunShape, LoopShape DEF RunStep, RunStages
<1>3. CASE \/ StartInvalid \/ StartNsUnknown \/ StartAgain \/ StartFirst
           \/ DryRunStep \/ UpdateStep \/ Decide
           \/ \E t \in Tasks : Unhook(t) \/ DeleteHook(t)
  BY <1>3 DEF StartInvalid, StartNsUnknown, StartAgain, StartFirst, DryRunStep, UpdateStep,
              Decide, Unhook, DeleteHook, Return, GoTo, RunTasks, DeletedOnFailure
<1>4. CASE \/ NsRan \/ WetRan \/ WaveHookFails \/ SyncFailRan
           \/ Succeed \/ FailWaveHook \/ SetOperationFailed
  BY <1>4 DEF NsRan, WetRan, WaveHookFails, SyncFailRan, Succeed, FailWaveHook,
              SetOperationFailed, Return, GoTo, RunTasks, DeletedOnFailure
<1>5. CASE StartTerminate \/ TerminateStep \/ Crash
  BY <1>5 DEF StartTerminate, TerminateStep, TerminateFinalizer, TerminateDelete,
              TerminateDone, Crash, Return, GoTo
<1> QED
  BY <1>1, <1>2, <1>3, <1>4, <1>5 DEF Next, SyncStep

\* No SyncFail hook runs while the others run, or when they have failed.
LEMMA NoneRuns ==
    ASSUME OnceInv, ~dryRun, [Next]_vars, InWetRun' \/ pc' = "cleanFailed"
    PROVE  \A t \in AllSyncFail : ~Running(t)'
<1>1. /\ ResType /\ TodoInBatch /\ RunBatch /\ Quiet
      /\ AllSyncFail \subseteq Tasks \cap Hooks /\ AllSyncFail \subseteq CurTasks
      /\ SyncFailTogether
  BY TypeParts, SyncFailAre, KindAssumption
  DEF OnceInv, LoopInv, GateInv, AllSyncFail, CurTasks
<1>2. ASSUME InWetRun \/ pc \in {"cleanFailed", "unhook"}
      PROVE  \A t \in AllSyncFail : ~Running(t)
  BY <1>1, <1>2 DEF SyncFailTogether, Quiet
<1>3. InWetRun \/ pc \in {"cleanFailed", "unhook"}
  BY WetShape, FailShape DEF Decide, WetRan, InWetRun, RunStages
<1>4. CASE NoneStarted
  BY <1>1, <1>2, <1>3, <1>4 DEF NoneStarted
<1>5. ASSUME NEW t \in Tasks, CreateStep(t)
      PROVE  \A u \in AllSyncFail : ~Running(u)'
  <2>1. InWetRun /\ t \notin AllSyncFail
    BY <1>1, <1>3, <1>5 DEF CreateStep, InWetRun, RunStages, TodoInBatch, RunBatch, AllSyncFail
  <2>2. \A u \in Tasks \ {t} : syncRes'[u] = syncRes[u]
    BY <1>1, <1>5 DEF CreateStep, SetResourceResult, ResType
  <2> QED
    BY <1>1, <1>2, <1>3, <2>1, <2>2 DEF Running, OpState
<1>6. ~Crash
  BY DEF Crash, Return, InWetRun, RunStages
<1> QED
  BY <1>1, <1>4, <1>5, <1>6, StartsOnlyByCreate

\* They are all started by the one call that fails the operation.
LEMMA AllInBatch ==
    ASSUME OnceInv, ~dryRun, [Next]_vars, site' = "fail"
    PROVE  AllSyncFail \subseteq batch'
<1>1. RunBatch /\ SyncFailTogether
  BY DEF OnceInv, LoopInv
<1> USE DEF SyncFailTogether
<1>2. CASE RunStep
  BY <1>1, <1>2, RunShape, LoopShape DEF RunStep
<1>3. CASE World \/ Refresh \/ Finished \/ UNCHANGED vars
  BY <1>1, <1>3, WorldShape
<1>4. CASE \/ StartInvalid \/ StartNsUnknown \/ StartAgain \/ StartFirst \/ StartTerminate
           \/ DryRunStep \/ UpdateStep \/ Decide
           \/ \E t \in Tasks : Unhook(t) \/ DeleteHook(t)
  BY <1>1, <1>4 DEF StartInvalid, StartNsUnknown, StartAgain, StartFirst, StartTerminate,
                    Callable, DryRunStep, UpdateStep, Decide, Unhook, DeleteHook, Return,
                    GoTo, RunTasks, Cleaning
<1>5. CASE \/ NsRan \/ WetRan \/ WaveHookFails \/ SyncFailRan
           \/ Succeed \/ FailWaveHook \/ Crash
  BY <1>1, <1>5 DEF NsRan, WetRan, WaveHookFails, SyncFailRan, Succeed, FailWaveHook,
                    Crash, Return, GoTo, RunTasks
<1>6. CASE SetOperationFailed
  BY <1>6, SyncFailAre DEF SetOperationFailed, Return, RunTasks
<1>7. CASE TerminateStep
  BY <1>1, <1>7 DEF RunBatch, RunStages, TerminateStep, TerminateFinalizer,
                    TerminateDelete, TerminateDone, Return, GoTo
<1> QED
  BY <1>2, <1>3, <1>4, <1>5, <1>6, <1>7 DEF Next, SyncStep

\* Each step keeps the SyncFail hooks together.
LEMMA SyncFailTogetherStep ==
    ASSUME FailedHooksApart, OnceInv, ~dryRun, [Next]_vars
    PROVE  SyncFailTogether'
<1>1. /\ SyncFailTogether
      /\ StillOpen' /\ RunBatch'
  BY StillOpenStep, LoopStep DEF OnceInv, LoopInv
<1>2. pc' = "cleanFailed" => todo' \subseteq HookFailed
  BY <1>1, FailShape DEF SyncFailTogether
<1>3. saved'.phase \notin Completions => Together(saved'.res)
  <2>1. CASE saved' = saved
    BY <1>1, <2>1 DEF SyncFailTogether
  <2>2. CASE pc' = "idle" /\ saved'.res = syncRes'
    BY <1>1, <2>2, TogetherStep DEF StillOpen, RunBatch, UnderWay, RunStages, Terminating
  <2> QED
    BY <2>1, <2>2, SavedShape
<1> QED
  BY <1>2, <1>3, TogetherStep, NoneRuns, AllInBatch DEF SyncFailTogether

\* The operation starts without results.
LEMMA OnceInit == Init => OnceInv
<1> SUFFICES ASSUME Init PROVE OnceInv
  OBVIOUS
<1>1. /\ pc = "idle" /\ site = "none" /\ opPhase = "" /\ saved.phase = opPhase
      /\ saved.res = syncRes
      /\ \A t \in Tasks : syncRes[t] = NoResult
  BY DEF Init
<1>2. Together(syncRes)
  BY <1>1 DEF Together, PendingIn, AllSyncFail
<1> QED
  BY <1>1, <1>2, LoopInit
  DEF OnceInv, PrunesOnly, StillOpen, Completions, BatchTogether, SyncFailTogether,
      InWetRun, RunStages

\* Each step keeps the invariant.
LEMMA OnceStep ==
    ASSUME FailedHooksApart, OnceInv, [Next]_vars
    PROVE  OnceInv'
BY LoopStep, PrunesOnlyStep, StillOpenStep, DryRunRigid, BatchTogetherStep,
   SyncFailTogetherStep DEF OnceInv

\* A hook that has completed is not created again.
LEMMA NotAgain ==
    ASSUME OnceInv, [Next]_vars, crashes' = crashes, NEW t \in Hooks, Completed(t)
    PROVE  OpState(t)' # "Running"
<1>1. ResType /\ t \in Tasks /\ crashes \in Nat
  BY TypeParts, KindAssumption, BoundAssumption DEF OnceInv, LoopInv, GateInv, CountType
<1>2. ~Running(t) /\ ~Pending(t)
  BY DEF Completed, Completions, Running, Pending
<1>3. ~Crash
  BY <1>1 DEF Crash
<1>4. CASE NoneStarted
  BY <1>1, <1>2, <1>4 DEF NoneStarted, Running
<1>5. ASSUME NEW u \in Tasks, CreateStep(u)
      PROVE  OpState(t)' # "Running"
  <2>1. CASE u # t
    BY <1>1, <1>2, <1>5, <2>1 DEF CreateStep, SetResourceResult, ResType, OpState, Running
  <2>2. CASE u = t /\ ~dryRun
    BY <1>2, <1>5, <2>2, PendingMeans DEF CreateStep, OnceInv, BatchTogether
  <2>3. CASE u = t /\ dryRun
    <3>1. PICK s, p : SetResourceResult(t, s, p) /\ p # "Running"
      BY <1>5, <2>3 DEF CreateStep
    <3> QED
      BY <1>1, <1>2, <3>1, NotStarted DEF NoneStarted, Running
  <2> QED
    BY <2>1, <2>2, <2>3
<1> QED
  BY <1>1, <1>3, <1>4, <1>5, StartsOnlyByCreate

\* A hook that completed is not started a second time in the operation, unless
\* the process restarts and forgets it: a batch starts pending hooks, and the
\* SyncFail hooks, all of them at once, none before it failed.
THEOREM HookOnceCorrect == FailedHooksApart => (Spec => HookRunsOnce)
<1> SUFFICES ASSUME FailedHooksApart
             PROVE  Spec => HookRunsOnce
  OBVIOUS
<1>1. OnceInv /\ [Next]_vars => OnceInv'
  BY OnceStep
<1>2. OnceInv /\ [Next]_vars =>
        [crashes' = crashes =>
            \A t \in Hooks : Completed(t) => OpState(t)' # "Running"]_vars
  BY NotAgain
<1> QED
  BY <1>1, <1>2, OnceInit, PTL DEF Spec, HookRunsOnce

-----------------------------------------------------------------------------
(* No finalizer is stranded                                                 *)

\* From cluster to f: no object is new, applied or given a finalizer.
Fades(f, o) ==
    f[o] # NoObj => /\ cluster[o] # NoObj
                    /\ f[o].applied => cluster[o].applied
                    /\ f[o].finalizer => cluster[o].finalizer

\* One object that gets a weaker version fades, and the others stay.
LEMMA OneFades ==
    ASSUME ObjType, NEW o \in Objects, cluster[o] # NoObj, NEW new \in KubeObjects,
           new.applied => cluster[o].applied, new.finalizer => cluster[o].finalizer
    PROVE  \A p \in Objects : Fades([cluster EXCEPT ![o] = new], p)
BY DEF Fades, ObjType

\* A deletion does that to its object,
LEMMA MarkedFades ==
    ASSUME ObjType, NEW o \in Objects
    PROVE  \A p \in Objects : Fades(MarkedDeleted(o), p)
<1>1. CASE cluster[o] = NoObj
  BY <1>1 DEF MarkedDeleted, Fades
<1>2. CASE cluster[o] # NoObj
  <2> DEFINE new == [cluster[o] EXCEPT !.deleting = TRUE]
  <2>1. cluster[o] \in KubeObjects
    BY <1>2 DEF ObjType
  <2>2. /\ new \in KubeObjects /\ new.applied = cluster[o].applied
        /\ new.finalizer = cluster[o].finalizer
    BY <2>1 DEF KubeObjects
  <2>3. MarkedDeleted(o) = [cluster EXCEPT ![o] = new]
    BY <1>2 DEF MarkedDeleted
  <2> HIDE DEF new
  <2> QED
    BY <1>2, <2>2, <2>3, OneFades
<1> QED
  BY <1>1, <1>2

\* the removal of a finalizer too, which takes it for good,
LEMMA WithoutFades ==
    ASSUME ObjType, NEW o \in Objects
    PROVE  /\ \A p \in Objects : Fades(WithoutFinalizer(cluster, o), p)
           /\ cluster[o] # NoObj => ~WithoutFinalizer(cluster, o)[o].finalizer
<1>1. CASE cluster[o] = NoObj
  BY <1>1 DEF WithoutFinalizer, Fades
<1>2. CASE cluster[o] # NoObj
  <2> DEFINE new == [cluster[o] EXCEPT !.finalizer = FALSE]
  <2>1. cluster[o] \in KubeObjects
    BY <1>2 DEF ObjType
  <2>2. new \in KubeObjects /\ new.applied = cluster[o].applied /\ ~new.finalizer
    BY <2>1 DEF KubeObjects
  <2>3. WithoutFinalizer(cluster, o) = [cluster EXCEPT ![o] = new]
    BY <1>2 DEF WithoutFinalizer
  <2>4. WithoutFinalizer(cluster, o)[o] = new
    BY <2>3 DEF ObjType
  <2> HIDE DEF new
  <2> QED
    BY <1>2, <2>2, <2>3, <2>4, OneFades
<1> QED
  BY <1>1, <1>2

\* and so does the world.
LEMMA WorldFades ==
    ASSUME ObjType, World
    PROVE  \A p \in Objects : Fades(cluster', p)
<1>1. ASSUME NEW o \in Objects, Settle(o) \/ Relapse(o)
      PROVE  \A p \in Objects : Fades(cluster', p)
  <2>1. PICK h \in HealthOutcomes : cluster' = [cluster EXCEPT ![o].health = h]
    BY <1>1 DEF Settle, Relapse
  <2> DEFINE new == [cluster[o] EXCEPT !.health = h]
  <2>2. cluster[o] # NoObj /\ cluster[o] \in KubeObjects
    BY <1>1 DEF ObjType, Settle, Relapse
  <2>3. /\ new \in KubeObjects /\ new.applied = cluster[o].applied
        /\ new.finalizer = cluster[o].finalizer
    BY <2>2, ObjectAssumption DEF KubeObjects
  <2>4. cluster' = [cluster EXCEPT ![o] = new]
    BY <2>1
  <2> HIDE DEF new
  <2> QED
    BY <2>2, <2>3, <2>4, OneFades
<1>2. ASSUME NEW o \in Objects, ExternalDelete(o)
      PROVE  \A p \in Objects : Fades(cluster', p)
  BY <1>2, MarkedFades DEF ExternalDelete
<1>3. ASSUME NEW o \in Objects, DeletionCompletes(o)
      PROVE  \A p \in Objects : Fades(cluster', p)
  BY <1>3 DEF DeletionCompletes, Fades, ObjType
<1>4. ASSUME NEW o \in Objects, Observe(o)
      PROVE  \A p \in Objects : Fades(cluster', p)
  BY <1>4 DEF Observe, unlessLive, Fades
<1> QED
  BY <1>1, <1>2, <1>3, <1>4 DEF World

\* Only an apply makes an object, a new version of it or its finalizer.
LEMMA ClusterFades ==
    ASSUME ObjType, [Next]_vars, NEW o \in Objects,
           \A t \in Tasks : CreateStep(t) => Obj[t] # o
    PROVE  Fades(cluster', o)
<1>1. Obj \in [Tasks -> Objects]
  BY TaskAssumption
<1>2. CASE cluster' = cluster
  BY <1>2 DEF Fades
<1>3. ASSUME NEW t \in Tasks, CreateStep(t), cluster' = Applied(t)
      PROVE  Fades(cluster', o)
  <2>1. cluster'[o] = cluster[o]
    BY <1>3, AppliedAges
  <2> QED
    BY <2>1 DEF Fades
<1> QED
  BY <1>1, <1>2, <1>3, ClusterShape, WorldFades, MarkedFades, WithoutFades

\* Only these calls change the snapshot of a call.
LEMMA SnapshotShape ==
    ASSUME [Next]_vars, pc # "idle"
    PROVE  \/ live' = live
           \/ \E t \in Tasks : /\ Unhook(t) \/ FinalizerStep(t) \/ TerminateFinalizer(t)
                               /\ live' = WithoutFinalizer(live, Obj[t])
<1>1. ASSUME NEW t \in Tasks, Unhook(t) \/ FinalizerStep(t) \/ TerminateFinalizer(t)
      PROVE  live' = WithoutFinalizer(live, Obj[t])
  BY <1>1 DEF Unhook, FinalizerStep, TerminateFinalizer, RemoveFinalizer,
              FailToRemoveFinalizer
<1>2. CASE World \/ Refresh \/ Finished \/ UNCHANGED vars
  BY <1>2, WorldShape
<1>3. CASE FinalizersDone \/ PruneDone \/ DeleteDone \/ CreateDone
  BY <1>3, LoopShape
<1>4. ASSUME NEW t \in Tasks,
             PruneStep(t) \/ DeleteStep(t) \/ CreateStep(t) \/ DeleteHook(t) \/ TerminateDelete(t)
      PROVE  live' = live
  BY <1>4 DEF PruneStep, DeleteStep, CreateStep, DeleteHook, TerminateDelete
<1>5. CASE \/ StartInvalid \/ StartNsUnknown \/ StartAgain \/ StartFirst \/ DryRunStep
           \/ UpdateStep \/ Decide \/ StartTerminate \/ TerminateDone \/ Crash
  BY <1>5 DEF StartInvalid, StartNsUnknown, StartAgain, StartFirst, DryRunStep,
              UpdateStep, Decide, StartTerminate, TerminateDone, Crash
<1>6. CASE \/ NsRan \/ WetRan \/ WaveHookFails \/ SyncFailRan
           \/ Succeed \/ FailWaveHook \/ SetOperationFailed
  BY <1>6 DEF NsRan, WetRan, WaveHookFails, SyncFailRan, Succeed, FailWaveHook,
              SetOperationFailed
<1> QED
  BY <1>1, <1>2, <1>3, <1>4, <1>5, <1>6 DEF Next, SyncStep, RunStep, TerminateStep

\* A task that is pending has been so all the time the operation goes on.
LEMMA PendingStays ==
    ASSUME ResType, ObjType, [Next]_vars, ~Crash, UnderWay', NEW t \in Tasks, Pending(t)'
    PROVE  Pending(t)
<1> \A u \in Tasks : SyncStatus(u) \in Codes
  BY ViewType
<1>1. ASSUME NEW u \in Tasks, NEW s \in Codes, NEW q \in OpPhases, q # "",
             SetResourceResult(u, s, q)
      PROVE  Pending(t)
  BY <1>1, Recorded, PendingMeans DEF PendingIn
<1>2. syncRes' = syncRes => Pending(t)
  BY DEF Pending, OpState
<1>3. /\ "" \in Codes /\ "Synced" \in Codes /\ "SyncFailed" \in Codes
      /\ "Error" \in OpPhases /\ "Failed" \in OpPhases /\ "Running" \in OpPhases
      /\ "Succeeded" \in OpPhases
  BY DEF Codes, OpPhases
<1>4. CASE UpdateStep
  <2>1. syncRes'[t] = syncRes[t] \/ (HasLive(t) /\ syncRes'[t] = Updated(t))
    BY <1>4 DEF UpdateStep, UpdateResults
  <2>2. HasLive(t) => Updated(t) # NoResult /\ Updated(t).phase # ""
    <3> SUFFICES ASSUME HasLive(t)
                 PROVE  Updated(t) # NoResult /\ Updated(t).phase # ""
      OBVIOUS
    <3>1. Updated(t) # NoResult
      BY UpdatedType, OptionAssumption
    <3>2. LiveObj(t) \in KubeObjects
      BY TaskAssumption DEF ObjType, LiveObj, HasLive
    <3>3. \A s, q : q # "" => [status |-> s, phase |-> q].phase # ""
      OBVIOUS
    <3> QED
      BY <3>1, <3>2, <3>3, HookPhaseType DEF Updated
  <2> QED
    BY <2>1, <2>2 DEF Pending, OpState
<1>5. CASE DryRunStep
  <2>1. syncRes' = syncRes \/ \E bad : syncRes' = DryRunResults(bad)
    BY <1>5 DEF DryRunStep, Return
  <2>2. ASSUME NEW s, NEW q, q # "", [status |-> s, phase |-> q] \in Results,
               syncRes'[t] = [status |-> s, phase |-> q]
        PROVE  FALSE
    <3> DEFINE r == [status |-> s, phase |-> q]
    <3>1. r.phase = q /\ r # NoResult
      BY <2>2, OptionAssumption
    <3> HIDE DEF r
    <3>2. syncRes'[t] = r
      BY <2>2 DEF r
    <3> QED
      BY <2>2, <3>1, <3>2 DEF Pending, OpState
  <2>3. PruneResult(t) \in Results /\ PruneResult(t).phase # ""
    BY PruneResultType DEF PruneResult
  <2>4. PruneResult(t) # syncRes'[t]
    BY <2>3, OptionAssumption DEF Pending, OpState
  <2>5. /\ [status |-> "SyncFailed", phase |-> "Failed"] \in Results
        /\ [status |-> "Synced", phase |-> "Succeeded"] \in Results
    BY <1>3 DEF Results
  <2>6. syncRes'[t] = syncRes[t]
    BY <2>1, <2>2, <2>4, <2>5 DEF DryRunResults
  <2> QED
    BY <2>6 DEF Pending, OpState
<1>6. CASE World \/ Refresh \/ Finished \/ UNCHANGED vars
  BY <1>2, <1>6, WorldShape
<1>7. CASE FinalizersDone \/ PruneDone \/ DeleteDone \/ CreateDone
  BY <1>2, <1>7, LoopShape
<1>8. ASSUME NEW u \in Tasks,
             Unhook(u) \/ DeleteHook(u) \/ FinalizerStep(u) \/ DeleteStep(u) \/ CreateStep(u)
      PROVE  Pending(t)
  BY <1>1, <1>2, <1>3, <1>8
  DEF Unhook, DeleteHook, FinalizerStep, DeleteStep, CreateStep
<1>9. ASSUME NEW u \in Tasks, PruneStep(u)
      PROVE  Pending(t)
  <2>1. CASE syncRes' = [syncRes EXCEPT ![u] = PruneResult(u)]
    <3>1. SetResourceResult(u, PruneResult(u).status, "Succeeded")
      BY <2>1 DEF SetResourceResult, PruneResult
    <3>2. PruneResult(u).status \in Codes
      BY DEF PruneResult, Codes
    <3> QED
      BY <1>1, <1>3, <3>1, <3>2
  <2> QED
    BY <1>1, <1>3, <1>9, <2>1 DEF PruneStep
<1>10. CASE StartInvalid \/ Succeed \/ FailWaveHook
  BY <1>10 DEF StartInvalid, Succeed, FailWaveHook, Return, UnderWay, Completions
<1>11. CASE StartNsUnknown
  BY <1>1, <1>3, <1>11, KindAssumption DEF StartNsUnknown, appendFailedNsTask
<1>12. CASE StartTerminate \/ TerminateStep
  BY <1>12, UnderWayBefore
  DEF StartTerminate, TerminateStep, TerminateFinalizer, TerminateDelete, TerminateDone,
      GoTo, UnderWay, Terminating
<1>13. CASE \/ StartAgain \/ StartFirst \/ Decide \/ NsRan \/ WetRan \/ WaveHookFails
            \/ SyncFailRan \/ SetOperationFailed
  BY <1>2, <1>13 DEF StartAgain, StartFirst, Decide, NsRan, WetRan, WaveHookFails,
                     SyncFailRan, SetOperationFailed, Return
<1> QED
  BY <1>4, <1>5, <1>6, <1>7, <1>8, <1>9, <1>10, <1>11, <1>12, <1>13
  DEF Next, SyncStep, RunStep

\* No other step of Sync() or Terminate() leads from a batch into its loops.
LEMMA BatchLeft ==
    ASSUME [Next]_vars, pc \in RunStages, ~RunStep,
           ~(World \/ Refresh \/ Finished \/ UNCHANGED vars)
    PROVE  pc' \notin {"finalizers", "prune", "delete", "create"}
<1> USE DEF RunStages
<1>1. CASE \/ StartInvalid \/ StartNsUnknown \/ StartAgain \/ StartFirst
           \/ DryRunStep \/ UpdateStep \/ Decide
           \/ \E t \in Tasks : Unhook(t) \/ DeleteHook(t)
  BY <1>1 DEF StartInvalid, StartNsUnknown, StartAgain, StartFirst, Callable, DryRunStep,
              UpdateStep, Decide, Unhook, DeleteHook, Cleaning
<1>2. CASE \/ NsRan \/ WetRan \/ WaveHookFails \/ SyncFailRan
           \/ Succeed \/ FailWaveHook \/ SetOperationFailed
  BY <1>2 DEF NsRan, WetRan, WaveHookFails, SyncFailRan, Succeed, FailWaveHook,
              SetOperationFailed, Return, GoTo
<1>3. CASE StartTerminate \/ TerminateStep \/ Crash
  BY <1>3 DEF StartTerminate, TerminateStep, TerminateFinalizer, TerminateDelete,
              TerminateDone, Crash, Return, GoTo
<1> QED
  BY <1>1, <1>2, <1>3 DEF Next, SyncStep

\* The hooks of a batch are pending until they are created.
BatchPending ==
    site = "wet" =>
        /\ pc \in {"finalizers", "prune", "delete"} /\ run # "failed" =>
              \A t \in batch \cap Hooks : Pending(t)
        /\ pc = "create" => \A t \in todo \cap Hooks : Pending(t)

\* Each step keeps them so.
LEMMA BatchPendingStep ==
    ASSUME LoopInv, PrunesOnly, BatchPending, [Next]_vars
    PROVE  BatchPending'
<1> SUFFICES ASSUME pc' \in {"finalizers", "prune", "delete", "create"}, site' = "wet"
             PROVE  BatchPending'
  BY DEF BatchPending
<1>1. /\ ResType /\ TodoInBatch /\ Hooks \subseteq Tasks /\ batch \subseteq Tasks
      /\ Prunes \cap Hooks = {}
      /\ run \in {"successful", "pending", "failed"}
  BY TypeParts, KindAssumption DEF LoopInv, GateInv, ControlType
<1>2. (InWetRun /\ batch' = batch) \/ (Decide /\ NextTasks # {})
  BY WetShape DEF InWetRun, RunStages
<1>3. \A u : OpState(u)' = OpState(u) => (Pending(u)' <=> Pending(u))
  BY DEF Pending
<1>4. CASE Decide /\ NextTasks # {}
  <2>1. /\ pc' = "finalizers" /\ batch' = FirstStep(NextTasks) /\ syncRes' = syncRes
    BY <1>4 DEF Decide, GoTo, RunTasks
  <2> QED
    BY <1>3, <2>1 DEF BatchPending, FirstStep, NextTasks, OpState
<1>5. CASE InWetRun /\ batch' = batch
  <2>1. site = "wet" /\ pc \in RunStages
    BY <1>5 DEF InWetRun
  <2>2. CASE World \/ Refresh \/ Finished \/ UNCHANGED vars
    <3>1. UNCHANGED <<syncRes, pc, site, batch, todo, run>>
      BY <2>2, WorldShape
    <3> QED
      BY <1>3, <3>1 DEF BatchPending, OpState
  <2>3. CASE FinalizersDone \/ PruneDone \/ DeleteDone \/ CreateDone
    <3>1. syncRes' = syncRes
      BY <2>3, LoopShape
    <3>2. \/ pc \in {"finalizers", "prune"} /\ run' = run /\ run = "successful"
                /\ pc' \in {"prune", "delete"}
          \/ pc = "delete" /\ run = "successful" /\ pc' = "create" /\ todo' \subseteq batch
      BY <2>3 DEF FinalizersDone, PruneDone, DeleteDone, CreateDone, GoTo
    <3> QED
      BY <1>3, <1>5, <2>1, <3>1, <3>2 DEF BatchPending, OpState
  <2>4. ASSUME NEW t \in Tasks, FinalizerStep(t) \/ DeleteStep(t)
        PROVE  BatchPending'
    <3>1. /\ pc \in {"finalizers", "delete"} /\ pc' = pc
          /\ run' # "failed" => run # "failed" /\ syncRes' = syncRes
      BY <2>4 DEF FinalizerStep, DeleteStep, Worse
    <3> QED
      BY <1>3, <1>5, <2>1, <3>1 DEF BatchPending, OpState
  <2>5. ASSUME NEW t \in Tasks, PruneStep(t)
        PROVE  BatchPending'
    <3>1. pc = "prune" /\ pc' = pc /\ (run' # "failed" => run # "failed") /\ t \in Prunes
      BY <2>5 DEF PruneStep, PrunesOnly
    <3>2. \A u \in Hooks : syncRes'[u] = syncRes[u]
      BY <1>1, <2>5, <3>1, RunShape DEF ResType
    <3> QED
      BY <1>3, <1>5, <2>1, <3>1, <3>2 DEF BatchPending, OpState
  <2>6. ASSUME NEW t \in Tasks, CreateStep(t)
        PROVE  BatchPending'
    <3>1. pc = "create" /\ pc' = pc /\ todo' = todo \ {t}
      BY <2>6 DEF CreateStep
    <3>2. \A u \in Tasks \ {t} : syncRes'[u] = syncRes[u]
      BY <1>1, <2>6, RunShape DEF ResType
    <3>3. \A u \in todo' \cap Hooks : Pending(u)'
      BY <1>1, <2>1, <3>1, <3>2 DEF BatchPending, Pending, OpState
    <3> QED
      BY <3>1, <3>3 DEF BatchPending
  <2>7. CASE ~RunStep /\ ~(World \/ Refresh \/ Finished \/ UNCHANGED vars)
    <3>1. pc' \notin {"finalizers", "prune", "delete", "create"} \/ site' # "wet"
      BY <1>1, <2>1, <2>7, BatchLeft
    <3> QED
      BY <3>1
  <2> QED
    BY <2>2, <2>3, <2>4, <2>5, <2>6, <2>7 DEF RunStep
<1> QED
  BY <1>2, <1>4, <1>5

Unapplied(o) == cluster[o] # NoObj => ~cluster[o].applied
Unstranded(o) == cluster[o] # NoObj /\ cluster[o].applied => ~cluster[o].finalizer

\* There is no version of this operation, and none in the snapshot.
New(o) == Unapplied(o) /\ (live[o] # NoObj => ~live[o].applied)

\* The snapshot shows the finalizer that the object carries, or does so when it
\* shows a version of this operation.
Shown(o) == cluster[o] # NoObj /\ cluster[o].finalizer => live[o] # NoObj /\ live[o].finalizer
Knows(o) == live[o] # NoObj /\ live[o].applied => Shown(o)

\* A hook that succeeded, and that this part of the call is done with.
Over(t) == /\ Phase[t] # "SyncFail"
           /\ OpState(t) = "Succeeded"
           /\ t \notin (IF pc = "unhook" THEN todo ELSE batch)

\* What becomes of the object of a hook that is pending, running, or succeeded.
HookViews ==
    UnderWay => \A t \in Hooks :
        /\ Pending(t) => New(Obj[t])
        /\ Phase[t] # "SyncFail" /\ Running(t) => Knows(Obj[t])
        /\ Phase[t] # "SyncFail" /\ OpState(t) = "Succeeded" =>
              Shown(Obj[t]) \/ Unstranded(Obj[t])

\* Sync() knows the finalizers of the hooks that succeeded, removes them, and
\* goes on when they are removed.
Stripped ==
    /\ dryRun => \A o \in Objects : Unapplied(o)
    /\ crashes = 0 =>
          /\ HookViews
          /\ pc = "unhook" \/ InWetRun => \A t \in Hooks : Over(t) => Unstranded(Obj[t])
          /\ pc = "cleanSucceeded" \/ opPhase = "Succeeded" =>
                \A t \in Hooks : Unstranded(Obj[t])

StrippedInv == /\ SuccessInv /\ FinalInv /\ PrunesOnly /\ AllSeen /\ StillOpen
               /\ BatchPending /\ Stripped

\* A hook is judged by the version that this operation applied.  (A snapshot may
\* still show the object that an earlier operation left, without its finalizer:
\* then nothing tells Sync() that there is one to remove.)
HooksFresh == pc = "update" =>
                  \A t \in Hooks : Running(t) /\ HasLive(t) => LiveObj(t).applied

NeverRestarted == crashes = 0

\* What fades stays unapplied, unstranded, new and known.
LEMMA FadingStays ==
    ASSUME NEW o, Fades(cluster', o)
    PROVE  /\ Unapplied(o) => Unapplied(o)'
           /\ Unstranded(o) => Unstranded(o)'
           /\ live'[o] = live[o] => /\ New(o) => New(o)'
                                    /\ Shown(o) => Shown(o)'
                                    /\ Knows(o) => Knows(o)'
BY DEF Fades, Unapplied, Unstranded, New, Shown, Knows

\* A hook's object is applied by that hook only,
LEMMA OwnObject ==
    ASSUME HooksAlone, HooksApart, LoopTodo, NEW t \in Hooks, NEW u \in Tasks,
           CreateStep(u), Obj[u] = Obj[t]
    PROVE  u = t
BY DEF HooksAlone, HooksApart, LoopTodo, CreateStep

\* and only when the hook is pending, or is a SyncFail hook.
LEMMA AppliedOnce ==
    ASSUME StrippedInv, NEW t \in Hooks, Phase[t] # "SyncFail", CreateStep(t)
    PROVE  Pending(t)
<1>1. pc = "create" /\ t \in todo /\ t \in batch /\ pc \in RunStages
  BY DEF CreateStep, StrippedInv, SuccessInv, LoopInv, GateInv, TodoInBatch, RunStages
<1>2. site \in {"none", "ns", "wet", "fail"} /\ RunBatch
  BY TypeParts DEF StrippedInv, SuccessInv, LoopInv, GateInv, ControlType
<1>3. site = "wet"
  BY <1>1, <1>2, KindAssumption DEF RunBatch
<1> QED
  BY <1>1, <1>3 DEF StrippedInv, BatchPending

\* Its result is not the one of a pending task, nor a success of a real run.
LEMMA CreateResult ==
    ASSUME ResType, NEW t \in Tasks, CreateStep(t)
    PROVE  /\ ~Pending(t)'
           /\ ~dryRun => OpState(t)' # "Succeeded"
           /\ \A u \in Tasks \ {t} : syncRes'[u] = syncRes[u]
           /\ live' = live
<1>1. /\ live' = live
      /\ \E s \in {"Synced", "SyncFailed"}, p \in {"Succeeded", "Running", "Failed"} :
            SetResourceResult(t, s, p) /\ (~dryRun => p # "Succeeded")
  BY DEF CreateStep
<1>2. PICK s \in {"Synced", "SyncFailed"}, p \in {"Succeeded", "Running", "Failed"} :
         SetResourceResult(t, s, p) /\ (~dryRun => p # "Succeeded")
  BY <1>1
<1>3. s \in Codes /\ p \in OpPhases /\ p # ""
  BY DEF Codes, OpPhases
<1>4. /\ \A u \in Tasks \ {t} : syncRes'[u] = syncRes[u]
      /\ ~Pending(t)'
  BY <1>2, <1>3, Recorded, PendingMeans
<1>5. OpState(t)' \in {"", p}
  <2>1. syncRes'[t] = [status |-> s, phase |-> p]
    BY <1>2 DEF SetResourceResult, ResType
  <2> QED
    BY <2>1 DEF OpState
<1> QED
  BY <1>1, <1>2, <1>4, <1>5

\* During an operation the snapshot of a hook's object is taken anew between two
\* calls, and loses the finalizer in the call about that hook.
LEMMA OwnLive ==
    ASSUME HooksAlone, StrippedInv, [Next]_vars, UnderWay, NEW t \in Hooks
    PROVE  \/ live'[Obj[t]] = live[Obj[t]]
           \/ pc = "idle" /\ live'[Obj[t]] = cluster[Obj[t]] /\ cluster' = cluster
           \/ /\ Unhook(t) \/ FinalizerStep(t)
              /\ live' = WithoutFinalizer(live, Obj[t])
<1>1. /\ ObjType /\ HookLoops /\ Hooks \subseteq Tasks /\ Obj \in [Tasks -> Objects]
  BY TypeParts, KindAssumption, TaskAssumption DEF StrippedInv, SuccessInv, LoopInv, GateInv
<1>2. CASE pc = "idle"
  BY <1>1, <1>2, SnapshotTaken
<1>3. CASE pc # "idle" /\ live' # live
  <2>1. PICK u \in Tasks : /\ Unhook(u) \/ FinalizerStep(u) \/ TerminateFinalizer(u)
                           /\ live' = WithoutFinalizer(live, Obj[u])
    BY <1>3, SnapshotShape
  <2>2. ~TerminateFinalizer(u)
    BY DEF TerminateFinalizer, UnderWay, Terminating
  <2>3. u \in Hooks
    BY <1>1, <2>1, <2>2 DEF Unhook, FinalizerStep, HookLoops, HookSteps
  <2>4. CASE Obj[u] = Obj[t]
    BY <2>1, <2>2, <2>3, <2>4 DEF HooksAlone
  <2>5. CASE Obj[u] # Obj[t]
    BY <1>1, <2>1, <2>5 DEF WithoutFinalizer, ObjType
  <2> QED
    BY <2>4, <2>5
<1> QED
  BY <1>2, <1>3

\* A hook that is still successful after the removal of its finalizer was so
\* before, and the removal went well.
LEMMA UnhookKeeps ==
    ASSUME ResType, NEW t \in Tasks, Unhook(t), OpState(t)' = "Succeeded"
    PROVE  RemoveFinalizer(Obj[t]) /\ syncRes' = syncRes
<1>1. ASSUME NEW s, SetResourceResult(t, s, "Error")
      PROVE  FALSE
  <2>1. syncRes'[t].phase = "Error"
    BY <1>1 DEF SetResourceResult, ResType
  <2> QED
    BY <2>1 DEF OpState
<1> QED
  BY <1>1 DEF Unhook

\* The removal of the finalizer that the snapshot shows does away with it.
LEMMA UnhookStrips ==
    ASSUME ResType, ObjType, NEW t \in Tasks, Unhook(t), OpState(t)' = "Succeeded",
           Shown(Obj[t]) \/ Unstranded(Obj[t])
    PROVE  Unstranded(Obj[t])'
<1>1. RemoveFinalizer(Obj[t]) /\ Obj[t] \in Objects
  BY UnhookKeeps, TaskAssumption
<1>2. CASE cluster' = WithoutFinalizer(cluster, Obj[t])
  <2>1. cluster'[Obj[t]] # NoObj => ~cluster'[Obj[t]].finalizer
    BY <1>1, <1>2 DEF WithoutFinalizer, ObjType
  <2> QED
    BY <2>1 DEF Unstranded
<1>3. CASE cluster' = cluster /\ ~live[Obj[t]].finalizer
  BY <1>3 DEF Shown, Unstranded
<1> QED
  BY <1>1, <1>2, <1>3 DEF RemoveFinalizer, ApiDone

\* Of a hook that runs or succeeded, Sync() knows the finalizer of the version
\* that it applied.
LEMMA ViewsStep ==
    ASSUME HooksAlone, HooksApart, HooksFresh, StrippedInv, HookViews, [Next]_vars, ~Crash,
           crashes = 0, dryRun => \A o \in Objects : Unapplied(o)'
    PROVE  HookViews'
<1> SUFFICES ASSUME UnderWay', NEW t \in Hooks
             PROVE  /\ Pending(t)' => New(Obj[t])'
                    /\ Phase[t] # "SyncFail" /\ Running(t)' => Knows(Obj[t])'
                    /\ Phase[t] # "SyncFail" /\ OpState(t)' = "Succeeded" =>
                          (Shown(Obj[t]) \/ Unstranded(Obj[t]))'
  BY DEF HookViews
<1>1. /\ ResType /\ ObjType /\ LoopTodo /\ HooksAtRest /\ PrunesOnly
      /\ t \in Tasks /\ Obj[t] \in Objects
  BY TypeParts, KindAssumption, TaskAssumption DEF StrippedInv, SuccessInv, LoopInv, GateInv
<1>2. /\ UnderWay
      /\ Pending(t) => New(Obj[t])
      /\ Phase[t] # "SyncFail" /\ Running(t) => Knows(Obj[t])
      /\ Phase[t] # "SyncFail" /\ OpState(t) = "Succeeded" =>
            Shown(Obj[t]) \/ Unstranded(Obj[t])
  BY UnderWayBefore DEF HookViews
<1>3. ~CreateStep(t) => Fades(cluster', Obj[t])
  BY <1>1, OwnObject, ClusterFades
<1>4. \/ live'[Obj[t]] = live[Obj[t]]
      \/ live'[Obj[t]] = cluster[Obj[t]] /\ cluster' = cluster
      \/ /\ Unhook(t) \/ FinalizerStep(t)
         /\ live' = WithoutFinalizer(live, Obj[t])
  BY <1>2, OwnLive
<1>5. /\ Unhook(t) => Completed(t)
      /\ FinalizerStep(t) => Pending(t)
  BY <1>1 DEF HooksAtRest, Unhook, FinalizerStep
<1>6. live'[Obj[t]] = cluster[Obj[t]] /\ cluster' = cluster =>
         Shown(Obj[t])' /\ Knows(Obj[t])'
  BY DEF Shown, Knows
<1>7. ASSUME Pending(t)'
      PROVE  New(Obj[t])'
  <2>1. New(Obj[t]) /\ ~CreateStep(t)
    BY <1>1, <1>2, <1>7, PendingStays, CreateResult
  <2>2. CASE live'[Obj[t]] = cluster[Obj[t]] /\ cluster' = cluster
    BY <2>1, <2>2 DEF New, Unapplied
  <2>3. CASE live' = WithoutFinalizer(live, Obj[t])
    <3>1. live'[Obj[t]] # NoObj => live[Obj[t]] # NoObj
                                   /\ live'[Obj[t]].applied = live[Obj[t]].applied
      BY <1>1, <2>3 DEF WithoutFinalizer, ObjType
    <3>2. Unapplied(Obj[t])'
      BY <1>3, <2>1, FadingStays DEF New
    <3> QED
      BY <2>1, <3>1, <3>2 DEF New
  <2> QED
    BY <1>3, <1>4, <2>1, <2>2, <2>3, FadingStays
<1>8. ASSUME Phase[t] # "SyncFail", Running(t)'
      PROVE  Knows(Obj[t])'
  <2>1. CASE CreateStep(t)
    <3>1. New(Obj[t]) /\ live' = live
      BY <1>1, <1>2, <1>8, <2>1, AppliedOnce, CreateResult
    <3> QED
      BY <3>1 DEF New, Knows
  <2>2. CASE ~CreateStep(t)
    <3>1. Running(t)
      <4>1. \A u \in Tasks : CreateStep(u) => Running(t)
        BY <1>1, <1>8, <2>2, CreateResult DEF Running, OpState
      <4> QED
        BY <1>1, <1>8, <4>1, StartsOnlyByCreate DEF NoneStarted
    <3>2. ~Pending(t) /\ ~Completed(t)
      BY <3>1 DEF Running, Pending, Completed, Completions
    <3> QED
      BY <1>2, <1>3, <1>4, <1>5, <1>6, <1>8, <2>2, <3>1, <3>2, FadingStays
  <2> QED
    BY <2>1, <2>2
<1>9. ASSUME Phase[t] # "SyncFail", OpState(t)' = "Succeeded"
      PROVE  (Shown(Obj[t]) \/ Unstranded(Obj[t]))'
  <2>1. CASE dryRun
    BY <1>1, <2>1 DEF Unapplied, Unstranded
  <2>2. CASE ~dryRun /\ OpState(t) # "Succeeded"
    <3>1. pc = "update" /\ Running(t) /\ HasLive(t) /\ UNCHANGED <<cluster, live>>
      BY <1>1, <1>2, <1>9, <2>2, NewSuccess
    <3>2. LiveObj(t).applied /\ live[Obj[t]] # NoObj
      BY <3>1 DEF HooksFresh, HasLive, LiveObj
    <3>3. Shown(Obj[t])
      BY <1>2, <1>9, <3>1, <3>2 DEF Knows, LiveObj
    <3> QED
      BY <3>1, <3>3 DEF Shown
  <2>3. CASE ~dryRun /\ OpState(t) = "Succeeded"
    <3>1. Fades(cluster', Obj[t]) /\ ~Pending(t)
      BY <1>1, <1>3, <1>9, <2>3, CreateResult DEF Pending
    <3>2. CASE Unhook(t)
      BY <1>1, <1>2, <1>9, <2>3, <3>2, UnhookStrips
    <3>3. CASE ~Unhook(t)
      BY <1>2, <1>4, <1>5, <1>6, <1>9, <2>3, <3>1, <3>3, FadingStays
    <3> QED
      BY <3>2, <3>3
  <2> QED
    BY <2>1, <2>2, <2>3
<1> QED
  BY <1>7, <1>8, <1>9

\* The update of the tasks hands the completed hooks to the removal of
\* finalizers, and each of its calls does away with one.
LEMMA UnhookedStep ==
    ASSUME HooksAlone, HooksApart, StrippedInv, HookViews, [Next]_vars, crashes = 0,
           AllSeen', ~Crash, pc' = "unhook", NEW t \in Hooks, Over(t)'
    PROVE  Unstranded(Obj[t])'
<1>1. /\ ResType /\ ObjType /\ Hooks \subseteq Tasks /\ Obj \in [Tasks -> Objects]
  BY TypeParts, KindAssumption, TaskAssumption DEF StrippedInv, SuccessInv, LoopInv, GateInv
<1>2. CASE pc = "unhook" /\ (World \/ Finished \/ UNCHANGED vars)
  <2>1. UNCHANGED <<syncRes, pc, todo, batch>>
    BY <1>2, WorldShape
  <2>2. Fades(cluster', Obj[t]) /\ Over(t)
    BY <1>1, <1>2, <2>1, ClusterFades DEF CreateStep, Over, OpState
  <2> QED
    BY <1>2, <2>2, FadingStays DEF StrippedInv, Stripped
<1>3. ASSUME NEW u \in Tasks, Unhook(u)
      PROVE  Unstranded(Obj[t])'
  <2>1. /\ pc = "unhook" /\ pc' = pc /\ todo' = todo \ {u}
        /\ \A v \in Tasks \ {u} : syncRes'[v] = syncRes[v]
    BY <1>1, <1>3 DEF Unhook, SetResourceResult, ResType
  <2>2. Fades(cluster', Obj[t]) /\ UnderWay
    BY <1>1, <2>1, ClusterFades DEF CreateStep, UnderWay, Terminating
  <2>3. CASE t = u
    <3>1. Phase[t] # "SyncFail" /\ OpState(t)' = "Succeeded" /\ syncRes'[t] = syncRes[t]
      BY <1>1, <1>3, <2>3, UnhookKeeps DEF Over
    <3>2. Shown(Obj[t]) \/ Unstranded(Obj[t])
      BY <2>2, <3>1 DEF HookViews, OpState
    <3> QED
      BY <1>1, <1>3, <2>3, <3>1, <3>2, UnhookStrips
  <2>4. CASE t # u
    <3>1. Over(t)
      BY <1>1, <2>1, <2>4 DEF Over, OpState
    <3> QED
      BY <2>1, <2>2, <3>1, FadingStays DEF StrippedInv, Stripped
  <2> QED
    BY <2>3, <2>4
<1>4. CASE UpdateStep /\ StillRunning \cup Pruning = {}
  <2>1. /\ pc = "update" /\ todo' = CompletedHooks /\ syncRes' = UpdateResults
        /\ UNCHANGED <<cluster, live, crashes>>
    BY <1>4 DEF UpdateStep, GoTo, Return
  <2>2. UpdateResults[t] # NoResult /\ UpdateResults[t].phase = "Succeeded"
    BY <2>1 DEF Over, OpState
  <2>3. t \in CurTasks
    BY KindAssumption DEF CurTasks
  <2>4. ~HasLive(t)
    BY <2>1, <2>2, <2>3 DEF CompletedHooks, Over, Completions
  <2>5. HooksSeen'
    BY <2>1 DEF AllSeen, UnderWay, Terminating
  <2>6. cluster[Obj[t]] = NoObj
    BY <2>1, <2>4, <2>5 DEF HooksSeen, Seen, Over, HasLive, LiveObj
  <2> QED
    BY <2>1, <2>6 DEF Unstranded
<1> QED
  BY <1>2, <1>3, <1>4, UnhookShape

\* A batch applies its own hooks only.
LEMMA WetStrips ==
    ASSUME HooksAlone, HooksApart, StrippedInv, crashes = 0, [Next]_vars, InWetRun',
           ~dryRun, NEW t \in Hooks, Over(t)'
    PROVE  Unstranded(Obj[t])'
<1>1. /\ ResType /\ ObjType /\ TodoInBatch /\ LoopTodo /\ Hooks \subseteq Tasks
      /\ Obj \in [Tasks -> Objects]
  BY TypeParts, KindAssumption, TaskAssumption DEF StrippedInv, SuccessInv, LoopInv, GateInv
<1>2. CASE InWetRun /\ batch' = batch
  <2>1. UnderWay /\ ~Crash /\ pc # "unhook" /\ pc' # "unhook"
    BY <1>2 DEF UnderWay, InWetRun, RunStages, Terminating, Crash, Return
  <2>2. OpState(t) = "Succeeded"
    BY <1>1, <1>2, <2>1, NewSuccess DEF Over, InWetRun, RunStages, StrippedInv
  <2>3. Over(t)
    BY <1>2, <2>1, <2>2 DEF Over
  <2>4. \A u \in Tasks : CreateStep(u) => Obj[u] # Obj[t]
    BY <1>1, <1>2, <2>1, <2>3, OwnObject DEF CreateStep, TodoInBatch, RunStages, Over
  <2> QED
    BY <1>1, <1>2, <2>3, <2>4, ClusterFades, FadingStays DEF StrippedInv, Stripped
<1>3. CASE Decide /\ NextTasks # {}
  <2>1. pc = "unhook" /\ todo = {} /\ UNCHANGED <<cluster, syncRes>>
    BY <1>3 DEF Decide
  <2>2. Over(t)
    BY <2>1 DEF Over, OpState
  <2> QED
    BY <2>1, <2>2 DEF StrippedInv, Stripped, Unstranded
<1> QED
  BY <1>2, <1>3, WetShape

\* Without a failed task no SyncFail hook has been started.
LEMMA NoFailure ==
    ASSUME FailuresStay, pc = "unhook", Reasoned(syncRes), ~HasFailed
    PROVE  NoSyncFailYet(syncRes)
<1> SUFFICES ASSUME FailedIn(syncRes) PROVE FALSE
  BY DEF Reasoned
<1>1. PICK t \in Tasks : Phase[t] # "SyncFail" /\ Unsuccessful(t)
  BY FailedInResults DEF MainFailed, IsFailedMain
<1> QED
  BY <1>1 DEF FailuresStay, HasFailed, MainTasks

\* When Sync() decides on success, each hook has succeeded, and lost its
\* finalizer, or did not start.
LEMMA DecisionStrips ==
    ASSUME StrippedInv, FailuresStay, [Next]_vars, ~dryRun, crashes = 0,
           Decide \/ WetRan, pc' = "cleanSucceeded", NEW t \in Hooks
    PROVE  Unstranded(Obj[t])'
<1>1. ResType /\ Hooks \subseteq Tasks /\ GateInv
  BY TypeParts, KindAssumption DEF StrippedInv, SuccessInv, LoopInv, GateInv
<1>2. cluster' = cluster /\ UnderWay
  BY DEF Decide, WetRan, UnderWay, Terminating
<1>3. t \in CurTasks /\ ~Skipped(t)
  BY KindAssumption DEF CurTasks, Skipped
<1>4. OpState(t) \in OpPhases
  BY <1>1, ViewType
<1>5. ASSUME syncRes[t] = NoResult
      PROVE  Unstranded(Obj[t])'
  BY <1>2, <1>5
  DEF StrippedInv, Stripped, HookViews, Pending, OpState, New, Unapplied, Unstranded
<1>6. CASE Decide
  <2>1. pc = "unhook" /\ todo = {} /\ ~HasFailed /\ NextTasks = {}
    BY <1>6 DEF Decide, GoTo, RunTasks
  <2>2. Reasoned(syncRes)
    BY <2>1 DEF StrippedInv, FinalInv, Final, UnderWay, Terminating
  <2>3. CASE Phase[t] = "SyncFail"
    BY <1>1, <1>5, <2>1, <2>2, <2>3, NoFailure DEF NoSyncFailYet
  <2>4. CASE Phase[t] # "SyncFail"
    <3>1. ~Unsuccessful(t) /\ ~Pending(t) /\ ~Running(t)
      BY <1>1, <1>3, <2>1, <2>4 DEF HasFailed, NextTasks, MainTasks, GateInv, Quiet
    <3>2. OpState(t) = "Succeeded"
      BY <1>4, <3>1 DEF Unsuccessful, Pending, Running, OpPhases
    <3> QED
      BY <1>2, <2>1, <2>4, <3>2 DEF StrippedInv, Stripped, Over, Unstranded
  <2> QED
    BY <2>3, <2>4
<1>7. CASE WetRan
  <2>1. InWetRun /\ pc # "unhook" /\ Remaining = {}
    BY <1>7 DEF WetRan, Return, GoTo, InWetRun, RunStages
  <2>2. t \notin batch
    BY <2>1 DEF Remaining
  <2>3. CASE Phase[t] = "SyncFail"
    BY <1>1, <1>5, <2>1, <2>3 DEF StrippedInv, FinalInv, Final, InWetRun, NoSyncFailYet
  <2>4. CASE Phase[t] # "SyncFail"
    <3>1. ~Unsuccessful(t) /\ ~Pending(t) /\ ~Running(t)
      BY <1>3, <2>1, <2>2, <2>4
      DEF Remaining, NextTasks, MainTasks, StrippedInv, SuccessInv, OthersFine
    <3>2. OpState(t) = "Succeeded"
      BY <1>4, <3>1 DEF Unsuccessful, Pending, Running, OpPhases
    <3> QED
      BY <1>2, <2>1, <2>2, <2>4, <3>2 DEF StrippedInv, Stripped, Over, Unstranded
  <2> QED
    BY <2>3, <2>4
<1> QED
  BY <1>6, <1>7

\* Each step of a process that does not restart strips hooks of finalizers
\* before the operation succeeds.
LEMMA StrippedStep ==
    ASSUME HooksAlone, HooksApart, StrippedInv, FailuresStay, HooksFresh, [Next]_vars
    PROVE  StrippedInv'
<1>1. /\ SuccessInv' /\ FinalInv' /\ PrunesOnly' /\ AllSeen' /\ StillOpen' /\ BatchPending'
  BY SuccessStep, CauseStep, FinalStep, PrunesOnlyStep, AllSeenStep, StillOpenStep,
     DryRunRigid, BatchPendingStep
  DEF StrippedInv, FinalInv, SuccessInv
<1>2. /\ ResType /\ ObjType /\ crashes \in Nat /\ Hooks \subseteq Tasks
      /\ Obj \in [Tasks -> Objects]
  BY TypeParts, KindAssumption, TaskAssumption, BoundAssumption
  DEF StrippedInv, SuccessInv, LoopInv, GateInv, CountType
<1>3. dryRun' = dryRun /\ (crashes' = 0 => crashes = 0 /\ ~Crash)
  BY <1>2, DryRunRigid DEF Crash
<1>4. dryRun' => \A o \in Objects : Unapplied(o)'
  <2> SUFFICES ASSUME dryRun, NEW o \in Objects
               PROVE  Unapplied(o)'
    BY <1>3
  <2>1. ASSUME NEW t \in Tasks, CreateStep(t)
        PROVE  cluster' = cluster
    BY <2>1 DEF CreateStep, CreateEffect, ApiDone, ApiError
  <2>2. Fades(cluster', o)
    BY <1>2, <2>1, ClusterFades DEF Fades
  <2> QED
    BY <2>2, FadingStays DEF StrippedInv, Stripped
<1>5. dryRun' => \A t \in Hooks : Unstranded(Obj[t])'
  BY <1>2, <1>4 DEF Unapplied, Unstranded
<1>6. crashes' = 0 => HookViews'
  BY <1>3, <1>4, ViewsStep DEF StrippedInv, Stripped
<1>7. crashes' = 0 /\ (pc' = "unhook" \/ InWetRun') =>
         \A t \in Hooks : Over(t)' => Unstranded(Obj[t])'
  BY <1>1, <1>3, <1>5, UnhookedStep, WetStrips DEF StrippedInv, Stripped
<1>8. ASSUME crashes' = 0, pc' = "cleanSucceeded" \/ opPhase' = "Succeeded", NEW t \in Hooks
      PROVE  Unstranded(Obj[t])'
  <2>1. crashes = 0
    BY <1>3, <1>8
  <2>2. CASE dryRun
    BY <1>3, <1>5, <2>2
  <2>3. CASE pc # "create" /\ (pc = "cleanSucceeded" \/ opPhase = "Succeeded")
    BY <1>2, <2>1, <2>3, ClusterFades, FadingStays DEF CreateStep, StrippedInv, Stripped
  <2>4. CASE ~dryRun /\ pc' = "cleanSucceeded"
    BY <2>1, <2>3, <2>4, CleanShape, DecisionStrips
  <2>5. CASE opPhase' = "Succeeded"
    <3>1. pc = "cleanSucceeded" \/ (pc = "idle" /\ opPhase = "Succeeded")
      BY <2>5, StillOpenStep DEF StrippedInv, Succeed
    <3> QED
      BY <2>3, <3>1
  <2> QED
    BY <1>8, <2>2, <2>4, <2>5
<1> QED
  BY <1>1, <1>4, <1>6, <1>7, <1>8 DEF StrippedInv, Stripped

\* The operation starts with no object of its own.
LEMMA StrippedInit == Init => StrippedInv
<1> SUFFICES ASSUME Init PROVE StrippedInv
  OBVIOUS
<1>1. PICK old \in [Existing -> OldObjects \cup {NoObj}] :
         cluster = [o \in Objects |-> IF o \in Existing THEN old[o] ELSE NoObj]
  BY DEF Init
<1>2. \A o \in Objects : Unapplied(o)
  BY <1>1 DEF Unapplied, OldObjects
<1>3. /\ pc = "idle" /\ opPhase = "" /\ live = cluster
      /\ \A t \in Tasks : syncRes[t] = NoResult
  BY DEF Init
<1>4. HookViews
  <2>1. \A o \in Objects : New(o)
    BY <1>2, <1>3 DEF New, Unapplied
  <2>2. \A t \in Tasks : ~Running(t) /\ OpState(t) # "Succeeded"
    BY <1>3 DEF Running, OpState
  <2> QED
    BY <2>1, <2>2, KindAssumption, TaskAssumption DEF HookViews
<1> QED
  BY <1>2, <1>3, <1>4, CleanedInit, FinalInit
  DEF StrippedInv, CleanedInv, Stripped, BatchPending, InWetRun, RunStages

\* A successful operation leaves no finalizer on the hooks it created, however far
\* the snapshots lag behind, and for any errors and deletions by others: as long as
\* hooks have objects of their own, none is judged by a version that an earlier
\* operation left, no failed task is lost and the process does not restart.  (A
\* restart forgets that a SyncFail hook started.)
THEOREM StrippedCorrect ==
    HooksAlone /\ HooksApart =>
        (Spec /\ []FailuresStay /\ []HooksFresh => [](NeverRestarted => NoStrandedFinalizer))
<1> SUFFICES ASSUME HooksAlone, HooksApart
             PROVE  Spec /\ []FailuresStay /\ []HooksFresh =>
                       [](NeverRestarted => NoStrandedFinalizer)
  OBVIOUS
<1>1. StrippedInv /\ FailuresStay /\ HooksFresh /\ [Next]_vars => StrippedInv'
  BY StrippedStep
<1>2. StrippedInv => (NeverRestarted => NoStrandedFinalizer)
  BY DEF StrippedInv, Stripped, NeverRestarted, NoStrandedFinalizer, HookObjects, Unstranded
<1> QED
  BY <1>1, <1>2, StrippedInit, PTL DEF Spec

=============================================================================
