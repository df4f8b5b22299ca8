---------------------------- MODULE SyncContext ----------------------------
(***************************************************************************)
(* One sync operation of gitops-engine: pkg/sync/sync_context.go with the  *)
(* task views of sync_task.go and sync_tasks.go.                           *)
(*                                                                         *)
(* A caller invokes Sync() again and again; each invocation reads the      *)
(* snapshot of live objects it was given, advances the results of the      *)
(* tasks, runs at most one batch of tasks (one phase and wave) against the *)
(* cluster and returns.  The steps of one invocation are separate actions, *)
(* so that controllers, users, other API clients and a crash of the        *)
(* process can act between two of its API calls.                           *)
(***************************************************************************)
EXTENDS Integers, FiniteSets, FiniteSetsExt

CONSTANTS
    Tasks,              \* sync tasks: one per resource, and per hook and phase
    Objects,            \* Kubernetes objects the tasks are about
    Obj,                \* [Tasks -> Objects]
    Phase,              \* [Tasks -> Phases]
    BaseWave,           \* [Tasks -> Int], the sync-wave annotation
    Group,              \* [Tasks -> Nat], rank of the task's kind in the sort order
    Hooks,              \* tasks whose object has a hook annotation
    Prunes,             \* tasks with no target object
    PruneLast,          \* prune tasks under the PruneLast option
    ConfirmPrune,       \* prune tasks with Prune=confirm
    KeepPrune,          \* prune tasks with Prune=false
    NsTasks,            \* tasks whose target is the application namespace
    AutoNs,             \* those of them added by autoCreateNamespace
    SkipDryRun,         \* tasks whose CRD is not yet served
    HookSucceeded,      \* hooks with each delete policy
    HookFailed,
    BeforeHookCreation,
    Unmodified,         \* tasks whose diff says "not modified"
    NoHealth,           \* objects of a kind without health check
    Existing,           \* objects that may exist before the operation
    PruneEnabled, PruneConfirmed, OutOfSyncOnly, HasWaveHook, \* options
    DryRuns,            \* the values of the dry-run option
    Snapshot,           \* how the live snapshot follows the cluster
    HealthOutcomes,     \* health values a controller may report
    CanTerminate,       \* whether the operation may be cancelled
    ExternalDeletes,    \* whether others delete objects meanwhile
    MaxFaults,          \* bound on API errors and external interference
    MaxCrashes,         \* bound on restarts of the process
    NoObj, NoResult

Phases == {"PreSync", "Sync", "PostSync", "SyncFail"}

Healths == {"None", "Progressing", "Healthy", "Degraded", "Unknown", "Error"}

\* common.ResultCode and common.OperationPhase
Codes == {"", "Synced", "SyncFailed", "Pruned", "PruneSkipped"}
OpPhases == {"", "Running", "Succeeded", "Failed", "Error"}
Completions == {"Succeeded", "Failed", "Error"}

Results == [status : Codes, phase : OpPhases]

\* What the engine can tell about an object: its health, whether it has a
\* deletionTimestamp, whether it carries hook.HookFinalizer, and (history)
\* whether its current version was written by this operation.
KubeObjects == [health : Healths, deleting : BOOLEAN,
                finalizer : BOOLEAN, applied : BOOLEAN]

Snapshots == {"fixed",    \* one context for the whole operation (pkg/engine)
              "lagging",  \* rebuilt for every Sync() from a cache that may lag
              "current"}  \* rebuilt from a cache that has caught up

ASSUME TaskAssumption ==
    /\ Obj \in [Tasks -> Objects]
    /\ Phase \in [Tasks -> Phases]
    /\ BaseWave \in [Tasks -> Int]
    /\ Group \in [Tasks -> Nat]

ASSUME KindAssumption ==
    /\ Hooks \subseteq Tasks
    /\ Prunes \subseteq Tasks \ Hooks
    /\ \A t \in Tasks : Phase[t] = "SyncFail" => t \in Hooks
    /\ PruneLast \cup ConfirmPrune \cup KeepPrune \subseteq Prunes
    /\ AutoNs \subseteq NsTasks
    /\ NsTasks \subseteq Tasks \ (Hooks \cup Prunes)
    /\ SkipDryRun \cup Unmodified \subseteq Tasks \ Prunes
    /\ HookSucceeded \cup HookFailed \cup BeforeHookCreation \subseteq Hooks

ASSUME ObjectAssumption ==
    /\ NoHealth \subseteq Objects
    /\ Existing \subseteq Objects
    /\ NoObj \notin KubeObjects
    /\ HealthOutcomes \subseteq Healths \ {"None"}

ASSUME OptionAssumption ==
    /\ {PruneEnabled, PruneConfirmed, OutOfSyncOnly, HasWaveHook,
        CanTerminate, ExternalDeletes} \subseteq BOOLEAN
    /\ DryRuns \subseteq BOOLEAN
    /\ Snapshot \in Snapshots
    /\ NoResult \notin Results

ASSUME BoundAssumption == MaxFaults \in Nat /\ MaxCrashes \in Nat

VARIABLES
    cluster,    \* the objects in the API server
    live,       \* the live objects the context was built with (sc.resources)
    syncRes,    \* sc.syncRes: the result of each task, if there is one
    opPhase,    \* sc.phase
    pc,         \* the step of Sync() or Terminate() that comes next
    site,       \* who called runTasks: "ns", "wet", "fail" or nobody
    batch,      \* the tasks runTasks was called with
    todo,       \* the tasks the current loop still has to handle
    run,        \* runTasks' state
    saved,      \* phase and results as the caller persisted them
    validated,  \* history: tasks whose dry run was performed
    faults, crashes,
    dryRun,     \* whether the operation is a dry run; never changes
    nsTasks     \* the tasks autoCreateNamespace has added to this call's

vars == <<cluster, live, syncRes, opPhase, pc, site, batch, todo, run,
          saved, validated, faults, crashes, dryRun, nsTasks>>

-----------------------------------------------------------------------------
(* The tasks and their views (getSyncTasks, sync_task.go, sync_tasks.go)    *)

PhaseOrder == [p \in Phases |-> CASE p = "PreSync"  -> 0
                                  [] p = "Sync"     -> 1
                                  [] p = "PostSync" -> 2
                                  [] p = "SyncFail" -> 3]

LiveObj(t) == live[Obj[t]]
HasLive(t) == LiveObj(t) # NoObj

\* A resource that is neither in the target nor live yields no task, nor does a
\* namespace that the namespace modifier does not want to change.
CurTasks == {t \in Tasks : /\ t \in Prunes => HasLive(t)
                           /\ t \in AutoNs => t \in nsTasks}
CurPrunes == CurTasks \cap Prunes
MainTasks == {t \in CurTasks : Phase[t] # "SyncFail"}
SyncFailTasks == CurTasks \ MainTasks

\* Prune tasks run in the reverse order of their waves: the lowest wave in
\* use is swapped with the highest one, and so on inwards.
PruneWaves == {BaseWave[t] : t \in CurPrunes}
Mirrored(w) == CHOOSE v \in PruneWaves :
                  Cardinality({x \in PruneWaves : x > v})
                    = Cardinality({x \in PruneWaves : x < w})
PruneWave(t) == IF t \in CurPrunes THEN Mirrored(BaseWave[t]) ELSE BaseWave[t]
SyncPhaseLastWave ==
    1 + Max({0} \cup {PruneWave(t) : t \in {u \in CurTasks : Phase[u] = "Sync"}})
Wave(t) == IF t \in CurPrunes \cap PruneLast THEN SyncPhaseLastWave
                                             ELSE PruneWave(t)

Earlier(t, u) ==
    \/ PhaseOrder[Phase[t]] < PhaseOrder[Phase[u]]
    \/ Phase[t] = Phase[u] /\ Wave(t) < Wave(u)

MultiStep == \E t, u \in CurTasks : Earlier(t, u)

OpState(t) == IF syncRes[t] = NoResult THEN "" ELSE syncRes[t].phase
SyncStatus(t) == IF syncRes[t] = NoResult THEN "" ELSE syncRes[t].status
FaultyPending(t) == SyncStatus(t) = ""
Pending(t) == OpState(t) = ""
Running(t) == OpState(t) = "Running"
Completed(t) == OpState(t) \in Completions
Unsuccessful(t) == OpState(t) \in {"Failed", "Error"}

Started == \E t \in Tasks : syncRes[t] # NoResult

\* filterOutOfSyncTasks drops these
Skipped(t) == /\ OutOfSyncOnly
              /\ t \in Unmodified \ Hooks
              /\ HasLive(t)

NextTasks == {t \in MainTasks : Pending(t) /\ ~Skipped(t)}
FaultyFirstStep(ts) ==
    {t \in ts : \A u \in ts : PhaseOrder[Phase[t]] <= PhaseOrder[Phase[u]]}
FirstStep(ts) == {t \in ts : \A u \in ts : ~Earlier(u, t)}

FaultyDeletedOnSuccess == {t \in HookFailed \cap CurTasks : HasLive(t)}
DeletedOnSuccess == {t \in HookSucceeded \cap CurTasks : HasLive(t)}
DeletedOnFailure == {t \in HookFailed \cap CurTasks : HasLive(t)}

-----------------------------------------------------------------------------
(* The API server                                                           *)

NewHealth(o) == IF o \in NoHealth THEN "None" ELSE "Progressing"

FaultyApplied(t) ==
    [cluster EXCEPT ![Obj[t]] =
        [health |-> NewHealth(Obj[t]),
         deleting |-> cluster[Obj[t]] # NoObj /\ cluster[Obj[t]].deleting,
         finalizer |-> cluster[Obj[t]] # NoObj /\ cluster[Obj[t]].finalizer,
         applied |-> TRUE]]

\* kubectl apply: the object is created or gets a new version.
Applied(t) ==
    LET o == Obj[t]
        exists == cluster[o] # NoObj
    IN [cluster EXCEPT ![o] =
          [health |-> NewHealth(o),
           deleting |-> exists /\ cluster[o].deleting,
           finalizer |-> t \in Hooks \/ (exists /\ cluster[o].finalizer),
           applied |-> TRUE]]

\* A finalizer cannot be added to an object that is being deleted.
Rejected(t) == /\ t \in Hooks
               /\ cluster[Obj[t]] # NoObj
               /\ cluster[Obj[t]].deleting
               /\ ~cluster[Obj[t]].finalizer

MarkedDeleted(o) ==
    IF cluster[o] = NoObj THEN cluster ELSE [cluster EXCEPT ![o].deleting = TRUE]

WithoutFinalizer(objs, o) ==
    IF objs[o] = NoObj THEN objs ELSE [objs EXCEPT ![o].finalizer = FALSE]

\* A call that fails: it costs one unit of the bound, and the caller cannot
\* tell whether the server carried it out (after) or not.
ApiError(after) == /\ faults < MaxFaults
                   /\ faults' = faults + 1
                   /\ cluster' \in {cluster, after}

ApiDone(after) == cluster' = after /\ faults' = faults

-----------------------------------------------------------------------------
(* What several steps do                                                    *)

FaultySetResourceResult(t, status, phase) ==
    syncRes' = [syncRes EXCEPT ![t] = [status |-> phase, phase |-> status]]
SetResourceResult(t, status, phase) ==
    syncRes' = [syncRes EXCEPT ![t] = [status |-> status, phase |-> phase]]

Worse(s, r) == IF "failed" \in {s, r} THEN "failed"
               ELSE IF "pending" \in {s, r} THEN "pending" ELSE "successful"

\* Sync() or Terminate() returns, and the caller saves GetState().
Return(phase, res) ==
    /\ opPhase' = phase
    /\ syncRes' = res
    /\ saved' = [phase |-> phase, res |-> res]
    /\ pc' = "idle"
    /\ site' = "none"
    /\ batch' = {}
    /\ todo' = {}
    /\ run' = "successful"

GoTo(step, tasks) ==
    /\ pc' = step
    /\ todo' = tasks
    /\ UNCHANGED <<opPhase, saved>>

\* The call of runTasks(ts, false) by s, up to its first loop.
RunTasks(s, ts) ==
    /\ site' = s
    /\ batch' = ts
    /\ run' = "successful"
    /\ pc' = "finalizers"
    /\ todo' = IF dryRun THEN {}
               ELSE {t \in ts \cap Hooks : Pending(t) /\ HasLive(t)}

-----------------------------------------------------------------------------
(* Sync(), until it knows the state of its tasks                            *)

\* The objects the caller reads from the API server, not from its snapshot.
FreshObjects == IF Snapshot = "current" THEN Objects
                                        ELSE {Obj[t] : t \in AutoNs}

Callable == /\ pc = "idle"
            /\ opPhase \notin Completions
            /\ \A o \in FreshObjects : live[o] = cluster[o]

\* syncNamespace, the caller's callback, says each time whether the namespace is
\* to be created or changed.
autoCreateNamespace == nsTasks' \in SUBSET AutoNs

\* getSyncTasks: a kind is not served, or permissionValidator objects.
StartInvalid ==
    /\ Callable
    /\ faults < MaxFaults
    /\ faults' = faults + 1
    /\ autoCreateNamespace
    /\ UNCHANGED <<cluster, live, validated, crashes, dryRun>>
    /\ \E t \in CurTasks' :
          Return("Failed", [syncRes EXCEPT ![t] =
                               [status |-> "SyncFailed", phase |-> ""]])

\* The namespace cannot be looked up, or syncNamespace fails.
appendFailedNsTask(t) == nsTasks' = {t} /\ SetResourceResult(t, "SyncFailed", "Error")

StartNsUnknown ==
    /\ Callable
    /\ faults < MaxFaults
    /\ faults' = faults + 1
    /\ \E t \in AutoNs : appendFailedNsTask(t)
    /\ GoTo("update", {})
    /\ UNCHANGED <<cluster, live, site, batch, run, validated, crashes, dryRun>>

StartAgain ==
    /\ Callable
    /\ Started
    /\ autoCreateNamespace
    /\ GoTo("update", {})
    /\ UNCHANGED <<cluster, live, syncRes, site, batch, run, validated,
                   faults, crashes, dryRun>>

StartFirst ==
    /\ Callable
    /\ ~Started
    /\ autoCreateNamespace
    /\ UNCHANGED <<cluster, live, syncRes, validated, faults, crashes, dryRun>>
    /\ LET missing == {t \in NsTasks \cap CurTasks' : ~HasLive(t)} IN
       \/ /\ missing = {}
          /\ GoTo("dryrun", {})
          /\ UNCHANGED <<site, batch, run>>
       \/ /\ \E t \in missing : RunTasks("ns", {t})
          /\ UNCHANGED <<opPhase, saved>>

\* runTasks(dryRunTasks, true); batch holds the namespace task, if it ran.
DryRunTasks == {t \in CurTasks \ batch : ~Skipped(t)}
DryRunCreates == DryRunTasks \ (Prunes \cup SkipDryRun)

NeedsConfirmation(ts) == ~PruneConfirmed /\ ts \cap ConfirmPrune # {}

PruneResult(t) == [status |-> IF PruneEnabled /\ t \notin KeepPrune
                              THEN "Pruned" ELSE "PruneSkipped",
                   phase |-> "Succeeded"]

FaultyDryRunResults(bad) ==
    [t \in Tasks |->
        IF t \in bad THEN [status |-> "SyncFailed", phase |-> "Failed"]
        ELSE IF t \in DryRunTasks \cap Prunes THEN PruneResult(t)
        ELSE IF t \in DryRunCreates
             THEN [status |-> "Synced",
                   phase |-> IF dryRun THEN "Succeeded" ELSE "Running"]
        ELSE syncRes[t]]

\* Only a dry-run operation records what its dry run did.
DryRunResults(bad) ==
    [t \in Tasks |->
        IF t \in bad THEN [status |-> "SyncFailed", phase |-> "Failed"]
        ELSE IF dryRun /\ t \in DryRunTasks \cap Prunes THEN PruneResult(t)
        ELSE IF dryRun /\ t \in DryRunCreates
             THEN [status |-> "Synced", phase |-> "Succeeded"]
        ELSE syncRes[t]]

DryRunStep ==
    /\ pc = "dryrun"
    /\ \/ /\ NeedsConfirmation(DryRunTasks)  \* pending, before any create
          /\ GoTo("update", {})
          /\ UNCHANGED <<syncRes, validated, faults>>
       \/ /\ ~NeedsConfirmation(DryRunTasks)
          /\ validated' = validated \cup DryRunCreates
          /\ \/ /\ syncRes' = DryRunResults({})
                /\ GoTo("update", {})
                /\ UNCHANGED faults
             \/ /\ faults < MaxFaults
                /\ faults' = faults + 1
                /\ \E t \in DryRunCreates : Return("Failed", DryRunResults({t}))
    /\ run' = "successful"
    /\ site' = "none"
    /\ batch' = {}
    /\ UNCHANGED <<cluster, live, crashes, dryRun, nsTasks>>

\* health.GetResourceHealth: an object being deleted is progressing, unless
\* the hook finalizer holds it.
ResourceHealth(obj) ==
    IF obj.deleting /\ ~obj.finalizer THEN "Progressing" ELSE obj.health

FaultyHookPhase(obj) ==
    CASE ResourceHealth(obj) = "Unknown" -> "Failed"
      [] ResourceHealth(obj) \in {"Progressing", "Degraded"} -> "Running"
      [] ResourceHealth(obj) \in {"Healthy", "None"} -> "Succeeded"
      [] ResourceHealth(obj) = "Error" -> "Error"

\* getOperationPhase; "Error" stands for the error it returns.
HookPhase(obj) ==
    CASE ResourceHealth(obj) \in {"Unknown", "Degraded"} -> "Failed"
      [] ResourceHealth(obj) = "Progressing" -> "Running"
      [] ResourceHealth(obj) \in {"Healthy", "None"} -> "Succeeded"
      [] ResourceHealth(obj) = "Error" -> "Error"

\* The result of a running task with a live object.
Updated(t) ==
    IF t \in Hooks THEN [status |-> "", phase |-> HookPhase(LiveObj(t))]
    ELSE [status |-> SyncStatus(t),
          phase |-> CASE ResourceHealth(LiveObj(t)) \in {"Healthy", "None"} -> "Succeeded"
                      [] ResourceHealth(LiveObj(t)) = "Degraded" -> "Failed"
                      [] OTHER -> "Running"]

UpdateResults == [t \in Tasks |->
    IF t \in CurTasks /\ Running(t) /\ HasLive(t) THEN Updated(t) ELSE syncRes[t]]

\* The tasks whose results keep Sync() waiting.
StillRunning == {t \in CurTasks : /\ MultiStep \/ t \in Hooks
                                 /\ UpdateResults[t] # NoResult
                                 /\ UpdateResults[t].phase = "Running"}

FaultyPruning == {}

\* prunedTasksPendingDelete
Pruning == {t \in CurTasks : /\ SyncStatus(t) = "Pruned"
                            /\ HasLive(t)
                            /\ LiveObj(t).deleting}

FaultyCompletedHooks == {t \in CurTasks \cap HookSucceeded :
                            /\ UpdateResults[t] # NoResult
                            /\ UpdateResults[t].phase \in Completions
                            /\ HasLive(t)}

\* hooksCompleted, those with a live object
CompletedHooks == {t \in CurTasks \cap Hooks :
                      /\ UpdateResults[t] # NoResult
                      /\ UpdateResults[t].phase \in Completions
                      /\ HasLive(t)}

\* Update the running tasks; then wait for them, or for pruned objects.
UpdateStep ==
    /\ pc = "update"
    /\ syncRes' = UpdateResults
    /\ IF StillRunning \cup Pruning # {}
       THEN Return("Running", UpdateResults)
       ELSE /\ GoTo("unhook", CompletedHooks)
            /\ UNCHANGED <<site, batch, run>>
    /\ UNCHANGED <<cluster, live, validated, faults, crashes, dryRun, nsTasks>>

\* removeHookFinalizer changes its copy first and retries on a conflict;
\* the call ends well also when the object is gone.
RemoveFinalizer(o) == /\ live' = WithoutFinalizer(live, o)
                      /\ ApiDone(IF live[o].finalizer
                                 THEN WithoutFinalizer(cluster, o) ELSE cluster)

FailToRemoveFinalizer(o) == /\ live[o].finalizer
                            /\ live' = WithoutFinalizer(live, o)
                            /\ ApiError(WithoutFinalizer(cluster, o))

\* Remove the finalizer of a completed hook.
Unhook(t) ==
    /\ pc = "unhook"
    /\ t \in todo
    /\ todo' = todo \ {t}
    /\ \/ RemoveFinalizer(Obj[t]) /\ UNCHANGED syncRes
       \/ /\ FailToRemoveFinalizer(Obj[t])
          /\ SetResourceResult(t, SyncStatus(t), "Error")
    /\ UNCHANGED <<opPhase, pc, site, batch, run, saved, validated,
                   crashes, dryRun, nsTasks>>

\* "if there are any completed but unsuccessful tasks, sync is a failure"
FaultyHasFailed == \E t \in MainTasks : SyncStatus(t) = "SyncFailed"
HasFailed == \E t \in MainTasks : Unsuccessful(t)

\* All running tasks are done: fail, succeed, or run the next step's tasks.
Decide ==
    /\ pc = "unhook"
    /\ todo = {}
    /\ \/ /\ HasFailed
          /\ GoTo("cleanFailed", DeletedOnFailure)
          /\ UNCHANGED <<site, batch, run>>
       \/ /\ ~HasFailed
          /\ NextTasks = {}
          /\ GoTo("cleanSucceeded", DeletedOnSuccess)
          /\ UNCHANGED <<site, batch, run>>
       \/ /\ ~HasFailed
          /\ NextTasks # {}
          /\ opPhase' = "Running"
          /\ RunTasks("wet", FirstStep(NextTasks))
          /\ UNCHANGED saved
    /\ UNCHANGED <<cluster, live, syncRes, validated, faults, crashes, dryRun,
                   nsTasks>>

-----------------------------------------------------------------------------
(* runTasks: four loops of parallel calls, each ended by stateSync.Wait     *)

\* The finalizers an earlier operation left on hooks that will run now.
FinalizerStep(t) ==
    /\ pc = "finalizers"
    /\ t \in todo
    /\ todo' = todo \ {t}
    /\ \/ RemoveFinalizer(Obj[t]) /\ UNCHANGED <<syncRes, run>>
       \/ /\ FailToRemoveFinalizer(Obj[t])
          /\ SetResourceResult(t, SyncStatus(t), "Error")
          /\ run' = "failed"
    /\ UNCHANGED <<opPhase, pc, site, batch, saved, validated, crashes, dryRun,
                   nsTasks>>

FinalizersDone ==
    /\ pc = "finalizers"
    /\ todo = {}
    /\ IF run # "successful" THEN GoTo("ran", {}) /\ UNCHANGED run
       ELSE IF NeedsConfirmation(batch) THEN GoTo("ran", {}) /\ run' = "pending"
       ELSE GoTo("prune", batch \cap Prunes) /\ UNCHANGED run
    /\ UNCHANGED <<cluster, live, syncRes, site, batch, validated, faults,
                   crashes, dryRun, nsTasks>>

Deletes(t) == PruneResult(t).status = "Pruned" /\ ~dryRun /\ ~LiveObj(t).deleting

\* pruneObject.  The DELETE of an object that is gone is an error, too.
PruneStep(t) ==
    LET o == Obj[t] IN
    /\ pc = "prune"
    /\ t \in todo
    /\ todo' = todo \ {t}
    /\ \/ /\ Deletes(t) => cluster[o] # NoObj
          /\ ApiDone(IF Deletes(t) THEN MarkedDeleted(o) ELSE cluster)
          /\ syncRes' = [syncRes EXCEPT ![t] = PruneResult(t)]
          /\ UNCHANGED run
       \/ /\ Deletes(t)
          /\ \/ cluster[o] = NoObj /\ ApiDone(cluster)
             \/ ApiError(MarkedDeleted(o))
          /\ SetResourceResult(t, "SyncFailed", "Failed")
          /\ run' = "failed"
    /\ UNCHANGED <<live, opPhase, pc, site, batch, saved, validated,
                   crashes, dryRun, nsTasks>>

PruneDone ==
    /\ pc = "prune"
    /\ todo = {}
    /\ IF run # "successful" THEN GoTo("ran", {})
       ELSE GoTo("delete",
                 IF dryRun THEN {}
                 ELSE {t \in batch \cap BeforeHookCreation :
                          HasLive(t) /\ Pending(t)})
    /\ UNCHANGED <<cluster, live, syncRes, site, batch, run, validated,
                   faults, crashes, dryRun, nsTasks>>

\* Delete the previous instance of a hook.  Not found: nothing to wait for.
DeleteStep(t) ==
    LET o == Obj[t] IN
    /\ pc = "delete"
    /\ t \in todo
    /\ todo' = todo \ {t}
    /\ \/ /\ ApiDone(MarkedDeleted(o))
          /\ run' = IF cluster[o] = NoObj THEN run ELSE Worse(run, "pending")
          /\ UNCHANGED syncRes
       \/ /\ ApiError(MarkedDeleted(o))
          /\ SetResourceResult(t, SyncStatus(t), "Error")
          /\ run' = "failed"
    /\ UNCHANGED <<live, opPhase, pc, site, batch, saved, validated,
                   crashes, dryRun, nsTasks>>

DeleteDone ==
    /\ pc = "delete"
    /\ todo = {}
    /\ IF run # "successful" THEN GoTo("ran", {})
       ELSE GoTo("create", batch \ (Prunes \cup (IF dryRun THEN SkipDryRun ELSE {})))
    /\ UNCHANGED <<cluster, live, syncRes, site, batch, run, validated,
                   faults, crashes, dryRun, nsTasks>>

FaultyCreateEffect(t) == IF dryRun /\ t \notin NsTasks THEN cluster ELSE Applied(t)
CreateEffect(t) == IF dryRun THEN cluster ELSE Applied(t)

\* processCreateTasks: one kind at a time, also after a failed one.
CreateStep(t) ==
    /\ pc = "create"
    /\ t \in todo
    /\ \A u \in todo : Group[t] <= Group[u]
    /\ todo' = todo \ {t}
    /\ \/ /\ dryRun \/ ~Rejected(t)
          /\ ApiDone(CreateEffect(t))
          /\ SetResourceResult(t, "Synced", IF dryRun THEN "Succeeded" ELSE "Running")
          /\ UNCHANGED run
       \/ /\ \/ ~dryRun /\ Rejected(t) /\ ApiDone(cluster)
             \/ ApiError(IF Rejected(t) THEN cluster ELSE CreateEffect(t))
          /\ SetResourceResult(t, "SyncFailed", "Failed")
          /\ run' = "failed"
    /\ UNCHANGED <<live, opPhase, pc, site, batch, saved, validated,
                   crashes, dryRun, nsTasks>>

CreateDone ==
    /\ pc = "create"
    /\ todo = {}
    /\ GoTo("ran", {})
    /\ UNCHANGED <<cluster, live, syncRes, site, batch, run, validated,
                   faults, crashes, dryRun, nsTasks>>

-----------------------------------------------------------------------------
(* Sync(), after runTasks                                                   *)

\* The namespace task: its failure ends the operation (no SyncFail hooks).
NsRan ==
    /\ pc = "ran" /\ site = "ns"
    /\ IF run = "failed" THEN Return("Failed", syncRes)
       ELSE GoTo("dryrun", {}) /\ UNCHANGED <<syncRes, site, batch, run>>
    /\ UNCHANGED <<cluster, live, validated, faults, crashes, dryRun, nsTasks>>

\* What is left when the batch is done: later steps, and its own hooks.
Remaining == (NextTasks \ batch) \cup (batch \cap Hooks)

WetRan ==
    /\ pc = "ran" /\ site = "wet"
    /\ \/ run = "failed" /\ GoTo("cleanFailed", DeletedOnFailure)
          /\ UNCHANGED <<syncRes, site, batch, run>>
       \/ run = "pending" /\ Return("Running", syncRes)
       \/ run = "successful" /\ Remaining # {} /\ Return("Running", syncRes)
       \/ run = "successful" /\ Remaining = {}
          /\ GoTo("cleanSucceeded", DeletedOnSuccess)
          /\ UNCHANGED <<syncRes, site, batch, run>>
    /\ UNCHANGED <<cluster, live, validated, faults, crashes, dryRun, nsTasks>>

FaultyWaveHookFails ==
    /\ pc = "ran" /\ site = "wet" /\ run # "failed"
    /\ HasWaveHook
    /\ faults < MaxFaults
    /\ faults' = faults + 1
    /\ GoTo("cleanFailed", DeletedOnFailure)
    /\ UNCHANGED <<cluster, live, syncRes, site, batch, run, validated,
                   crashes, dryRun, nsTasks>>

\* The caller's SyncWaveHook returns an error.
WaveHookFails ==
    /\ pc = "ran" /\ site = "wet" /\ run # "failed"
    /\ HasWaveHook
    /\ faults < MaxFaults
    /\ faults' = faults + 1
    /\ GoTo("cleanWaveHook", DeletedOnFailure)
    /\ UNCHANGED <<cluster, live, syncRes, site, batch, run, validated,
                   crashes, dryRun, nsTasks>>

\* deleteHooks, called before the operation's phase is set.
Cleaning == {"cleanFailed", "cleanSucceeded", "cleanWaveHook"}

DeleteHook(t) ==
    /\ pc \in Cleaning
    /\ t \in todo
    /\ todo' = todo \ {t}
    /\ \/ ApiDone(MarkedDeleted(Obj[t])) /\ UNCHANGED syncRes
       \/ ApiError(MarkedDeleted(Obj[t])) /\ SetResourceResult(t, "", "Error")
    /\ UNCHANGED <<live, opPhase, pc, site, batch, run, saved, validated,
                   crashes, dryRun, nsTasks>>

Succeed ==
    /\ pc = "cleanSucceeded"
    /\ todo = {}
    /\ Return("Succeeded", syncRes)
    /\ UNCHANGED <<cluster, live, validated, faults, crashes, dryRun, nsTasks>>

FailWaveHook ==
    /\ pc = "cleanWaveHook"
    /\ todo = {}
    /\ Return("Failed", syncRes)
    /\ UNCHANGED <<cluster, live, validated, faults, crashes, dryRun, nsTasks>>

\* setOperationFailed: run the SyncFail hooks once, then fail.
SetOperationFailed ==
    /\ pc = "cleanFailed"
    /\ todo = {}
    /\ IF \A t \in SyncFailTasks : Completed(t)
       THEN Return("Failed", syncRes)
       ELSE RunTasks("fail", SyncFailTasks) /\ UNCHANGED <<opPhase, syncRes, saved>>
    /\ UNCHANGED <<cluster, live, validated, faults, crashes, dryRun, nsTasks>>

SyncFailRan ==
    /\ pc = "ran" /\ site = "fail"
    /\ Return(IF run = "failed" THEN "Failed" ELSE opPhase, syncRes)
    /\ UNCHANGED <<cluster, live, validated, faults, crashes, dryRun, nsTasks>>

-----------------------------------------------------------------------------
(* Terminate()                                                              *)

\* Its own getSyncTasks records what is wrong with a task, and it goes on.
TerminateTasks ==
    \/ autoCreateNamespace /\ UNCHANGED <<syncRes, faults>>
    \/ /\ faults < MaxFaults
       /\ faults' = faults + 1
       /\ \/ /\ autoCreateNamespace
             /\ \E t \in CurTasks' : SetResourceResult(t, "SyncFailed", "")
          \/ \E t \in AutoNs : appendFailedNsTask(t)

FaultyStartTerminate ==
    /\ CanTerminate
    /\ Callable
    /\ GoTo("terminate", {t \in HookSucceeded \cup HookFailed : HasLive(t)})
    /\ UNCHANGED <<cluster, live, site, batch, run, validated, crashes, dryRun>>
    /\ TerminateTasks
StartTerminate ==
    /\ CanTerminate
    /\ Callable
    /\ GoTo("terminate", {t \in Hooks : HasLive(t)})
    /\ UNCHANGED <<cluster, live, site, batch, run, validated, crashes, dryRun>>
    /\ TerminateTasks

\* After a conflict the phase is read from the refetched object.
TerminateFinalizer(t) ==
    LET o == Obj[t]
        seen == IF live[o].finalizer /\ cluster[o] # NoObj THEN cluster[o] ELSE live[o]
        phase == HookPhase([seen EXCEPT !.finalizer = FALSE])
    IN
    /\ pc = "terminate"
    /\ t \in todo
    /\ \/ /\ RemoveFinalizer(o)
          /\ \/ /\ phase = "Error"
                /\ Return("Error", syncRes)
             \/ /\ phase = "Running"
                /\ GoTo("terminateRunning", todo)
                /\ batch' = {t}
                /\ UNCHANGED <<syncRes, site, run>>
             \/ /\ phase \in {"Succeeded", "Failed"}
                /\ GoTo("terminate", todo \ {t})
                /\ SetResourceResult(t, "", phase)
                /\ UNCHANGED <<site, batch, run>>
       \/ /\ FailToRemoveFinalizer(o)
          /\ GoTo("terminate", todo \ {t})
          /\ SetResourceResult(t, SyncStatus(t), "Error")
          /\ run' = "failed"
          /\ UNCHANGED <<site, batch>>
    /\ UNCHANGED <<validated, crashes, dryRun, nsTasks>>

TerminateDelete(t) ==
    /\ pc = "terminateRunning"
    /\ t \in batch
    /\ \/ /\ ApiDone(MarkedDeleted(Obj[t]))
          /\ SetResourceResult(t, "", "Succeeded")
          /\ UNCHANGED run
       \/ /\ ApiError(MarkedDeleted(Obj[t]))
          /\ SetResourceResult(t, "", "Failed")
          /\ run' = "failed"
    /\ GoTo("terminate", todo \ {t})
    /\ batch' = {}
    /\ UNCHANGED <<live, site, validated, crashes, dryRun, nsTasks>>

TerminateDone ==
    /\ pc = "terminate"
    /\ todo = {}
    /\ Return(IF run = "failed" THEN "Error" ELSE "Failed", syncRes)
    /\ UNCHANGED <<cluster, live, validated, faults, crashes, dryRun, nsTasks>>

-----------------------------------------------------------------------------
(* The world around the operation                                           *)

unlessCluster == <<live, syncRes, opPhase, pc, site, batch, todo, run, saved,
                   validated, crashes, dryRun, nsTasks>>

\* A controller brings an object to rest, also one that is being deleted but
\* held by a finalizer (a killed Pod gets a final phase); it may later
\* change its mind.
Settle(o) ==
    /\ cluster[o] # NoObj
    /\ cluster[o].health = "Progressing"
    /\ \E h \in HealthOutcomes \ {"Progressing"} :
          cluster' = [cluster EXCEPT ![o].health = h]
    /\ UNCHANGED <<faults, unlessCluster>>

Relapse(o) ==
    /\ cluster[o] # NoObj
    /\ ~cluster[o].deleting
    /\ cluster[o].health \notin {"None", "Progressing"}
    /\ faults < MaxFaults
    /\ faults' = faults + 1
    /\ \E h \in HealthOutcomes \ {cluster[o].health} :
          cluster' = [cluster EXCEPT ![o].health = h]
    /\ UNCHANGED unlessCluster

\* Somebody else deletes an object, such as a TTL controller a finished Job.
ExternalDelete(o) ==
    /\ ExternalDeletes
    /\ cluster[o] # NoObj
    /\ ~cluster[o].deleting
    /\ faults < MaxFaults
    /\ faults' = faults + 1
    /\ cluster' = MarkedDeleted(o)
    /\ UNCHANGED unlessCluster

DeletionCompletes(o) ==
    /\ cluster[o] # NoObj
    /\ cluster[o].deleting
    /\ ~cluster[o].finalizer
    /\ cluster' = [cluster EXCEPT ![o] = NoObj]
    /\ UNCHANGED <<faults, unlessCluster>>

unlessLive == <<cluster, syncRes, opPhase, pc, site, batch, todo, run, saved,
                validated, faults, crashes, dryRun, nsTasks>>

\* The context for the next call is built from newer live objects.
Refresh ==
    /\ pc = "idle"
    /\ \E o \in FreshObjects : live[o] # cluster[o]
    /\ live' = [o \in Objects |-> IF o \in FreshObjects THEN cluster[o] ELSE live[o]]
    /\ UNCHANGED unlessLive

Observe(o) ==
    /\ pc = "idle"
    /\ Snapshot = "lagging"
    /\ live[o] # cluster[o]
    /\ live' = [live EXCEPT ![o] = cluster[o]]
    /\ UNCHANGED unlessLive

\* The process restarts: the next context starts from what was saved
\* (WithInitialState).
Crash ==
    /\ pc # "idle"
    /\ crashes < MaxCrashes
    /\ crashes' = crashes + 1
    /\ Return(saved.phase, saved.res)
    /\ UNCHANGED <<cluster, live, validated, faults, dryRun, nsTasks>>

Finished == pc = "idle" /\ opPhase \in Completions /\ UNCHANGED vars

-----------------------------------------------------------------------------
HookObjects == {Obj[t] : t \in Hooks}

\* An object left by an earlier operation; only a hook may still carry the
\* hook finalizer.
OldObjects == {obj \in KubeObjects : ~obj.deleting /\ ~obj.applied}

PlausibleOld(o) ==
    {obj \in OldObjects :
        /\ obj.health \in (IF o \in NoHealth THEN {"None"} ELSE HealthOutcomes)
        /\ obj.finalizer => o \in HookObjects}

Init ==
    /\ \E old \in [Existing -> OldObjects \cup {NoObj}] :
          /\ \A o \in Existing : old[o] \in PlausibleOld(o) \cup {NoObj}
          /\ cluster = [o \in Objects |-> IF o \in Existing THEN old[o] ELSE NoObj]
    /\ live = cluster
    /\ syncRes = [t \in Tasks |-> NoResult]
    /\ opPhase = ""
    /\ pc = "idle"
    /\ site = "none"
    /\ batch = {}
    /\ todo = {}
    /\ run = "successful"
    /\ saved = [phase |-> "", res |-> syncRes]
    /\ validated = {}
    /\ faults = 0
    /\ crashes = 0
    /\ dryRun \in DryRuns
    /\ nsTasks = {}

RunStep ==
    \/ \E t \in Tasks : FinalizerStep(t) \/ PruneStep(t) \/ DeleteStep(t)
                        \/ CreateStep(t)
    \/ FinalizersDone \/ PruneDone \/ DeleteDone \/ CreateDone

SyncStep ==
    \/ StartInvalid \/ StartNsUnknown \/ StartAgain \/ StartFirst
    \/ DryRunStep \/ UpdateStep \/ Decide
    \/ \E t \in Tasks : Unhook(t) \/ DeleteHook(t)
    \/ RunStep
    \/ NsRan \/ WetRan \/ WaveHookFails \/ SyncFailRan
    \/ Succeed \/ FailWaveHook \/ SetOperationFailed

TerminateStep ==
    \/ \E t \in Tasks : TerminateFinalizer(t) \/ TerminateDelete(t)
    \/ TerminateDone

World ==
    \E o \in Objects : Settle(o) \/ Relapse(o) \/ ExternalDelete(o)
                       \/ DeletionCompletes(o) \/ Observe(o)

Next == SyncStep \/ StartTerminate \/ TerminateStep \/ World \/ Refresh
        \/ Crash \/ Finished

Spec == Init /\ [][Next]_vars

\* The caller keeps calling (the engine's ticker, the controller's queue), its
\* cache catches up between two calls, controllers come to rest and deletions
\* end.
Fairness ==
    /\ WF_vars(SyncStep \/ TerminateStep)
    /\ WF_vars(Refresh)
    /\ \A o \in Objects : /\ WF_vars(Settle(o))
                          /\ WF_vars(DeletionCompletes(o))
                          /\ SF_vars(Observe(o))

FairSpec == Spec /\ Fairness

-----------------------------------------------------------------------------
(* Correctness                                                              *)

RunStages == {"finalizers", "prune", "delete", "create", "ran"}

\* Every variable holds a value the code can produce.
TypeOK ==
    /\ cluster \in [Objects -> KubeObjects \cup {NoObj}]
    /\ live \in [Objects -> KubeObjects \cup {NoObj}]
    /\ syncRes \in [Tasks -> Results \cup {NoResult}]
    /\ opPhase \in OpPhases
    /\ pc \in RunStages \cup Cleaning \cup
             {"idle", "dryrun", "update", "unhook", "terminate", "terminateRunning"}
    /\ site \in {"none", "ns", "wet", "fail"}
    /\ batch \subseteq Tasks
    /\ todo \subseteq Tasks
    /\ run \in {"successful", "pending", "failed"}
    /\ saved \in [phase : OpPhases, res : [Tasks -> Results \cup {NoResult}]]
    /\ validated \subseteq Tasks
    /\ faults \in 0..MaxFaults
    /\ crashes \in 0..MaxCrashes
    /\ dryRun \in BOOLEAN
    /\ nsTasks \subseteq AutoNs

InWetRun == pc \in RunStages /\ site = "wet"

Settled(t) == OpState(t) = "Succeeded" \/ (Pending(t) /\ Skipped(t))

\* While Sync() runs a batch, every task of an earlier phase or wave has
\* succeeded or is left out as in sync: no wave starts on unfinished work.
WaveGate ==
    InWetRun => \A t \in batch, u \in MainTasks : Earlier(u, t) => Settled(u)

\* The snapshot of this call does not show that an object is being deleted.
Unmarked(o) == live[o] # NoObj /\ ~live[o].deleting

\* While a later batch runs, what was pruned before it is really gone, not
\* just marked for deletion (prunedTasksPendingDelete), unless the snapshot is
\* older than the mark: then nothing tells the code to wait.
PrunedIsGone ==
    InWetRun /\ ~dryRun => \A t \in Prunes \ batch :
        SyncStatus(t) = "Pruned" => cluster[Obj[t]] = NoObj \/ Unmarked(Obj[t])

\* Sync() decides on success only when no task failed, none is left out that
\* should run, and what still runs is a resource that nothing waits for.  A dry
\* run leaves out what it cannot try.
NoFalseSuccess ==
    pc = "cleanSucceeded" =>
        \A t \in MainTasks :
            \/ Settled(t)
            \/ Running(t) /\ t \notin Hooks /\ (t \in batch \/ ~MultiStep)
            \/ OpState(t) = "Error" /\ t \in HookSucceeded
            \/ dryRun /\ t \in SkipDryRun

\* Once a SyncFail hook has been started, no other task is started.  (A dry
\* run records a result for the SyncFail hooks that it validates.)
FailureIsFinal ==
    InWetRun /\ ~dryRun => \A t \in SyncFailTasks : syncRes[t] = NoResult

\* SyncFail hooks run only in an operation that has a failed task.
SyncFailAfterFailure ==
    site = "fail" => \E t \in Tasks : Phase[t] # "SyncFail" /\ Unsuccessful(t)

Terminating == {"terminate", "terminateRunning"}

\* Neither over nor being terminated.
UnderWay == pc \notin Terminating /\ (pc = "idle" => opPhase \notin Completions)

\* The objects of running hooks stay, whoever deletes them: the finalizer
\* keeps them until the operation has seen how they ended.  (A Terminate()
\* that cannot read a hook's health ends the operation with the hook running.)
RunningHookStays ==
    UnderWay => \A t \in Hooks : Running(t) => cluster[Obj[t]] # NoObj

\* A successful operation has deleted its HookSucceeded hooks (or recorded
\* that it could not).
HooksCleanedUp ==
    opPhase = "Succeeded" =>
        \A t \in HookSucceeded :
            OpState(t) = "Succeeded" =>
                cluster[Obj[t]] = NoObj \/ cluster[Obj[t]].deleting

\* A successful operation leaves no finalizer on the hooks it created, so
\* that they can be deleted.
NoStrandedFinalizer ==
    opPhase = "Succeeded" =>
        \A o \in HookObjects :
            cluster[o] # NoObj /\ cluster[o].applied => ~cluster[o].finalizer

\* No step of a dry-run operation changes an object, except that it finalizes
\* and deletes hooks of earlier operations: not the namespace that is created
\* before the dry run, nor a resource whose own dry run had to be skipped.
DryRunIsHarmless ==
    [][dryRun /\ <<pc, todo>>' # <<pc, todo>> =>
        \A o \in Objects \ HookObjects : cluster'[o] = cluster[o]]_vars

\* A hook that completed is not started a second time in the operation.
HookRunsOnce ==
    [][crashes' = crashes =>
        \A t \in Hooks : Completed(t) => OpState(t)' # "Running"]_vars

\* What Sync() waits for is its own doing: as long as a task runs its object is
\* the version that this operation applied, or gone, through dry runs, failed
\* calls, restarts and the namespace that is created ahead of the others.
RunningIsApplied ==
    \A t \in Tasks : Running(t) => cluster[Obj[t]] = NoObj \/ cluster[Obj[t]].applied

\* A Terminate() that reports no error leaves no hook running that its snapshot
\* shows.
TerminateStopsHooks ==
    [][pc = "terminate" /\ opPhase' = "Failed" =>
        \A t \in Hooks : Running(t) => ~HasLive(t)]_vars

\* "if there are any completed but unsuccessful tasks, sync is a failure"
SuccessWithoutFailure ==
    opPhase = "Succeeded" => \A t \in Tasks : ~Unsuccessful(t)

\* The operation ends.
Completes == <>(opPhase \in Completions)
============================================================================
