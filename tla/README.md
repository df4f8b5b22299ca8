# A TLA+ development of gitops-engine

gitops-engine turns a list of Kubernetes manifests into a cluster that looks
like them. The modules in this directory model its logic: the *sync operation*
that applies, prunes and waits in phases and waves, the *cluster cache* that
follows a whole cluster with one goroutine per watched kind, the *engine loop*
that joins the two, and the algorithms they are made of (the plan of an
operation, the order of its tasks, the diff, the owner graph, health, the kubectl
commands). TLC checks their properties on small instances; TLAPS proves most of the safety
properties for instances of any size, some of them under hypotheses that have names
and that section 4 lists with the reason for each.

Paths are relative to the repository; `sync_context.go` is
`pkg/sync/sync_context.go`, `cluster.go` is `pkg/cache/cluster.go`.

## 1. The system

| component | state | operations | interacts with | module |
|---|---|---|---|---|
| Sync operation, `sync_context.go`, `sync_task.go` | phase, message, results by resource and phase; the tasks, made anew in every call | `Sync()`, `Terminate()`, `GetState()` | API server, the caller (saves the results, calls again), snapshot of live objects | `SyncContext` |
| Plan, `reconcile.go`, `getSyncTasks`, `sync_tasks.go` | none | pair manifests with live objects, make tasks, order them | cache, engine | `Plan` |
| Annotations, `pkg/sync/hook`, `syncwaves`, `resource` | none | hook or not, phases, wave, delete policies | plan, sync operation | `Annotations` |
| Parallel batch, `stateSync` | result channel, wait group | `Go`, `Wait` | sync operation | `StateSync`, `Batch` |
| Engine, `engine.go` | channels and subscription of one operation | `Run`, `Sync` | cache (handler under its lock), sync operation, agent | `Engine` |
| Cluster cache, `cluster.go` | `resources`, `nsIndex`, `apisMeta`, `namespacedResources`, `eventMetaCh`, `syncStatus`, locks, list semaphore | `EnsureSynced`, `Invalidate`, `GetManagedLiveObjs`; goroutines `watchEvents`, `processEvents` | API server (discovery, list, watch), handlers | `ClusterCache`, `Listing`, `Plan` |
| Hierarchy, `references.go`, `resource.go` | owner references of the cached resources | `setNode`, `buildGraph`, `IterateHierarchyV2` | cache | `Hierarchy` |
| Diff and apply, `pkg/diff`, `applyObject` | the last-applied annotation, field managers | three diffs, four ways to apply | engine, API server | `Apply` |
| Hiding of Secrets, `diff.go` | none | `HideSecretData` | users of a diff | `HideSecret` |
| Health, `pkg/health` | none | `GetResourceHealth`, one function per kind | sync operation | `Health` |
| kubectl commands, `resource_ops.go` | manifest files, slots of `OnKubectlRun` | apply, create, replace, `auth reconcile` | API server | `Kubectl` |
| OpenAPI models, `uniqueprotomodels.go` | none | `newUniqueModels` | typed diff | `UniqueModels` |
| Agent, `agent/main.go` | resync channel | main loop | engine | `Engine` |

### What is hard here

* **Sync operation.** One call of `Sync()` makes many API calls while
  controllers change health, others delete objects, finalizers delay deletions,
  and every call may fail, with or without effect. The live objects it decides
  on may be older than what it applied itself. The process may stop between two
  steps. Tasks vanish with their objects. `Terminate()` comes at any moment.
* **Cluster cache.** A synchronization holds `c.lock` over a long sequence of
  API calls and competes for list permits with goroutines that want that lock.
  An event, a list or a "not found" that was received under one state of the
  cache is applied under another. CRDs, and with them whole kinds, come and go.
* **Engine.** The cache calls the engine's handler with its lock held, and the
  handler sends on an unbuffered channel.
* **Plan.** What a manifest is paired with depends on scopes of kinds the cache
  learns meanwhile; the order is the result of sorting with keys that depend on
  the other tasks.
* **Diff, commands, health.** Each looks at one moment of an object that git,
  the engine, controllers and other clients change in turns.

`PROJECT.json` lists these hazards one by one, at the line where each bites, with
the properties about it.

### What makes each component correct

* Sync operation: waves and phases start on finished work only; success means
  that nothing failed and nothing is left, and what it waits for is the version it
  applied; failure hooks run after a failure and nothing else does; hooks live until
  their result is known and are cleaned up after; an operation ends.
* Plan: each manifest and each managed object has its tasks and no other; the
  order respects phases, waves and dependencies.
* Batch: the result is the worst of its members; nothing is left running.
* Engine: the handler never blocks the cache for ever; every request is served.
* Cache: once everything received is processed it shows the server; the index
  and the map agree; every watch can be stopped; nobody waits for ever.
* Hierarchy: the graph is that of the owner references, in whatever order the
  objects arrived; a walk meets each resource once.
* Diff: no difference means that an apply would change nothing; nothing another
  client wrote is lost unseen; repeated syncs converge.
* Health: healthy means that the current specification is up; the verdict that
  ends a hook is final.
* Commands: they do what the manifest says, leave nothing behind that they have
  managed to write, and converge.

## 2. Modules

`MC...` modules give the constants of an instance; `..._proofs` hold theorems.
Definitions named `Faulty...` are deliberately wrong variants of the definition
that follows them (a dropped guard, a swapped order). Nothing refers to them:
putting one in the place of the right one breaks the property it is listed with
in `PROJECT.json`, which shows that the property can fail.

Composition: `Engine` instantiates `StateSync` for its batches, which implements
`Batch`; `MCAlgorithms` instantiates `Plan`, `Hierarchy` and `HideSecret`, extends
`UniqueModels`, and takes the hooks and waves of `Plan`'s manifests from
`Annotations`. `SyncContext` starts from what `Plan` ends with (tasks with phase,
wave and live object); its result is what `Engine` sees as a batch.

### SyncContext

A task is what `getSyncTasks` makes of a resource, or of a hook in one phase; which
tasks exist *now* (`CurTasks`) depends on the snapshot, as in the code.

| variable | code |
|---|---|
| `cluster` | the API server's objects: finalizer, deletion timestamp, health, whether this operation applied the version |
| `live` | the live objects `Sync()` is given |
| `syncRes`, `opPhase` | `sc.syncRes`, `sc.phase` |
| `pc`, `site` | where the running call is, and which of the three calls of `runTasks` it is in |
| `batch`, `todo`, `run` | the tasks of that `runTasks`, those left in the current stage, the joined `runState` |
| `saved` | what the caller saved last (`WithInitialState`) |
| `dryRun` | `sc.dryRun`, which never changes |
| `nsTasks` | whether `autoCreateNamespace` makes a task of the namespace, as its callback `syncNamespace` said in the last call of `getSyncTasks` |
| `validated`, `faults`, `crashes` | history and bounds |

`Sync()` is `StartInvalid`, `StartNsUnknown`, `StartFirst` or `StartAgain` (task
generation, each with `autoCreateNamespace` or `appendFailedNsTask`), `DryRunStep`, `UpdateStep` (health of running tasks), `Decide` (the
chain of early returns), `Unhook`, the stages of `runTasks` (`FinalizerStep`,
`PruneStep`, `DeleteStep`, `CreateStep`, one step per API call, and a `...Done` that
joins them), and what follows the batch (`NsRan`, `WetRan`, `SyncFailRan`,
`WaveHookFails`, `DeleteHook`, `Succeed`, `FailWaveHook`, `SetOperationFailed`).
`StartTerminate` (with the task generation of its own, `TerminateTasks`, whose errors
are recorded and passed over), `TerminateFinalizer`, `TerminateDelete` and
`TerminateDone` are `Terminate()`. The world acts in `Settle`, `Relapse`, `ExternalDelete`, `DeletionCompletes`, `Observe`,
`Refresh` and `Crash`. `Snapshot` says how `live` follows the cluster: `"current"`
(read when a call starts), `"lagging"` (an informer that may be behind) or
`"fixed"` (`engine.go` reads it once).

### Plan and Annotations

`Plan` is straight-line code with the cache changing under it:
`GetManagedLiveObjs` (or `...Fails`), `DedupLiveResources`, `Match` (`Reconcile`),
`GroupResources`, `ListTasks` (`getSyncTasks` with `autoCreateNamespace`), `SetWaves`
(mirrored prune waves, PruneLast) and `Sort` (with `adjustDeps`); `Discover` and
`Invalidate` may come in between. `stage` says how far it is, `known` and `cached`
are the cache's kinds and objects. `PlanIsFaithful` and `OrderIsSound` compare the
result with what git and the server hold, not with the intermediate steps.

`Annotations` reads hook, phases, wave and delete policies off Argo CD's and
Helm's annotations; a value is the set of its items. `MCPlan` builds its catalogue
with it, with unknown types, `Skip`, several Helm types and Helm's `crd-install`.

### StateSync, Batch and Engine

`StateSync` is `stateSync`: `goroutine` and `returned` of each task, the wait group
`wg`, the `channel`, the goroutine that closes it (`closer`) and the caller in
`Wait` (`waiter`). `Batch` is what a caller may rely on: a batch begins, has members,
and ends with the worst of its start and their outcomes. `ImplementsBatch` is the
refinement (`Abstract` in `StateSync`).

`Engine` is `gitOpsEngine.Sync` called by the agent again and again: `Start`,
`ReadLive`, `Subscribe`, `StartBatch`, `SyncBatch`, `EndBatch`, `EndStep`, the `select` of
the loop (`Terminate`, `RefreshTimeout`, `WakeEngine`), and the defers `Unsubscribe`
and `CloseIgnore`. A watch goroutine of the cache (`Emit`, `TakeLock`,
`WatcherStep`) holds `lock` while it calls the handlers of `managed` resources.

### ClusterCache and Listing

| variable | code |
|---|---|
| `log` | the API server: every change is an event, its position is the `resourceVersion` |
| `resources`, `index` | `c.resources`, `c.nsIndex` |
| `apis`, `apisNil`, `gen`, `cancelled` | `c.apisMeta` and the contexts behind `watchCancel` |
| `locked`, `toList`, `status` | `sync()` is running with `c.lock`, what it has still to list, and what `synced()` says |
| `watchers` | the goroutines in `watchEvents`: what they hold, their version, their RetryWatcher |
| `channel`, `closed`, `procs` | `c.eventMetaCh` and the goroutines in `processEvents` with their batch |

`SyncStart`, `SyncList`, `SyncSucceeds` and `SyncFails` are `sync()`; `Expire` and
`Invalidate` make it necessary again. A watch goroutine does `List`, `Replace`,
`Receive`, `Record` (`Send` in batch mode), `Relist`, `Stop`, `NotFound`,
`StopWatching` and, for CRDs, `CrdEvent` and `StartMissingWatches`. Event processors do
`ProcStart`, `Flush` (one event at a time with the lock held, as `processEvents` does
for its whole buffer) and `ProcEnd`. What a goroutine received before it gets the lock
is part of its own state. `Free` says who may take the lock, `Replaced` what
`replaceResourceCache` does to the keys in the scope of a list, with the events it
sends as the difference; `Watchable` are the pairs of a kind and a namespace for which
`processApi` is called (only those can be `Forbidden`).

`MCClusterCache` checks two instances in one run, told apart by the rigid variable
`part`: `"crds"` and `"live"`.

`Listing` looks inside `sync()`: `RunAll` (`RunAllAsync`'s error group, which stops
spawning after a failure), the `listSemaphore` (`holders`, `waiting`),
`checkPermission` in its modes (`rbac`), and the goroutines of `startMissingWatches`
that list again under a permit and then need `c.lock`.

### Hierarchy

`server` holds the objects with owner references, `events` what each watch has
still to deliver, `resources` the cache. `Process` and `Relist` are `setNode`,
`onNodeRemoved` and `replaceResourceCache` with `resolveResourceReferences` (claims
of StatefulSets, Endpoints owned by name). The loop of `setNode` over the namespace is
`WithInferred`, a set of references instead of a sequence of updates: each update is about
another owner or another child. A kind has one of the special cases, as in the switch of
`references.go` (`HierarchyAssumption`). `WalkStart`, `WalkRoot`, `WalkChild`,
`WalkReturn` and `WalkEnd` are `IterateHierarchyV2` with its colours.

### Apply and HideSecret

`Apply` is one manifest of two fields in git (`config`), the object (`live`, with
last-applied annotation and the owner of each field), and a sync that reads, diffs
(two-way, three-way, structured merge or server-side; `setup` says which, and whether
a server-side diff calls `removeWebhookMutation`, whose fields of the manager are
`Owned`) and applies (`ApplyResource`, `CreateResource`, `ReplaceResource`, `UpdateResource`,
`performClientSideApplyMigration`), while users, other clients and the API server
(`Refused`, `ApiError`) act. `HideSecret` is `HideSecretData` on the triple target,
live and last applied: `Collect`, `HideData` per key, `HideAnnotation`, `Restore`.

### Kubectl

The commands of one object each: `Start`, `CreateManifestFile`, `ProcessKubectlRun`
(the slots), `CheckNamespace`, `Reconcile` and `Recreate` (`kubectl auth reconcile`,
which deletes and creates a binding whose role changed) and `Run`; every step may
`Fail`, and `SpoilFile` is `createManifestFile` failing after it has created the file.
A return deletes the file (`DeleteFile`) once that function has returned one. Users change git, other clients the cluster, and the namespace may go.

### Health

A workload has a specification (`spec`), a controller that has `seen` an older one,
`pods` and a `status` with what was counted; a Pod has `containers`, a Job
`conditions`; volumes, addresses, API services and workflows are provided by
somebody (`Proceed`, `Break`), and an autoscaler writes its condition list
(`Autoscale`). `GetResourceHealth` and the function per kind are operators over
`spec`, `status` and `conditions` only; the properties compare their verdict with
the state the status was made of.

### UniqueModels

`newUniqueModels` model by model (`Process`): gvks seen (`gvks`), those to warn about
(`tainted`), the models kept (`models`).

### MCAlgorithms

Four independent parts checked in one run, since each is small and none waits for
another: the rigid variable `part` says which one a behaviour is about, and the
variables of the others keep one value.

## 3. What is checked

All runs are exhaustive for their instance.

| run | instance | shows |
|---|---|---|
| `sync_waves` | hook, wave 0 with a prune, wave 1, hook; wave hook, lagging snapshot, 1 fault; dry and in earnest; fairness | `WaveGate`, hooks run once and are cleaned up, the operation ends |
| `sync_fail` | a resource beside a hook, a second wave, two SyncFail waves, wave hook, deletions by others, `Terminate()`, 1 fault | failure is final and only follows a failure, running hooks stay, no finalizer is stranded, a `Terminate()` without errors leaves no hook running that it was shown |
| `sync_options` | a namespace to create or not, missing CRD, in-sync resource without health, prunes of waves 1 and 0 that are mirrored, the second one PruneLast, lagging snapshot, `Terminate()`, 1 fault, 1 restart; dry and in earnest | no success too early, what runs is what was applied, what was pruned is gone or not yet seen to be marked, a dry run is harmless |
| `sync_lost` | a prune and a SyncFail hook, 1 fault | a violation, see below |
| `cache` | `"crds"`: a CRD and its resource coming and going, a kind forbidden in its scope, relists, 1 fault; `"live"`: 2 objects, batched events, relists, `Invalidate()`, 2 synchronizations, fairness | index and map agree, quiet means current, watches can be stopped, a stopped kind is purged; the cache recovers |
| `cache_stale` | the first instance again | a violation, see below |
| `engine` | 2 tasks, 1 key, 1 watcher with batched events, 2 calls, 2 events, 2 batches, fairness | a notifying handler has a receiver, batches leave nothing behind and implement `Batch`; locks are released, calls go on, a cancelled call returns, requests are served while operations end |
| `listing` | 2 APIs, one of them forbidden, 1 permit, 2 contexts, fairness | success is complete, nobody starves |
| `apply` | 2 fields, 2 values, 2 commits, 1 foreign write, 1 fault, all kinds of diff, the server-side one with webhook mutations hidden and shown, fairness | diffs are honest, predictions hold, no update is lost, syncs converge |
| `kubectl` | a role binding and a plain object, 1 slot, 2 roles, 1 change, 1 fault, every initial cluster, fairness | no slot and no file is left over but that of a failed write, commands are exact, they end and converge |
| `health` | 12 kinds, up to 2 replicas, 2 changes (3 of a StatefulSet), 1 fault, 2 containers, fairness | healthy is earned, verdicts settle |
| `algorithms` | scenarios of up to 4 manifests and objects out of a catalogue; 4 keys, 4 writes, 2 incarnations and walks from 2 roots; Secrets of all forms; 4 models of at most 2 gvks | plan, order, graph, walk, hiding and choice of models |

**Bounds.** `MaxFaults` and `MaxCrashes` of 1 are enough where a property is about
what one failure leads to, wherever it occurs. Six tasks make two waves beside hooks
of an earlier and a later phase. `MaxWrites` of 4 lets a CRD with its resource come
and go while one actor is stopped anywhere; 2 contexts or synchronizations give old
goroutines a new one to interfere with. Two calls of the engine show what the first
leaves to the second. Two replicas and a surge slot tell old, new and condemned pods
apart; a StatefulSet gets three changes, for that is what it takes until a partition
covers the wrong pods (`Overtaken`). Two fields give a diff something to keep and something to change. A plan's
scenario of four holds every pair of objects with two more to depend on.

**Deadlock** is checked in `SyncContext`, `ClusterCache`, `Listing`, `Apply` and
`Kubectl`, where a state without a successor is a defect; the only steps that change
nothing there are those of an operation that has ended and a world that is out of
its bounds. `Engine`, `Health` and `MCAlgorithms` stop where nothing is left to do
(requests used up, a verdict, the end of a function), and their liveness
properties say what has to be reached before.

**Fairness.** `SyncContext`: the caller calls again (the engine has a ticker),
controllers come to rest and deletions end (weak), and an object whose cached version
differs again and again is refreshed at last (strong: calls of `Sync()` come in
between). `ClusterCache` and `Listing`: goroutines run and get locks and permits
(Go's mutexes and the semaphore queue), `EnsureSynced` is called again, timers fire.
`Engine`: the engine's and the watchers' steps and the timer are weakly fair, the
choices of `select` strongly, for Go chooses at random among what is ready. Nobody is
assumed to cancel a call: the agent passes `context.Background()` (`agent/main.go:193`), so
with it an operation that waits for ever keeps its call. That a call returns is
therefore stated of a cancelled one (`CancelIsNoticed`), and that a request is served of
behaviours in which calls return (`RequestsAreServed`); that locks are released and that
a call always comes back to its `select` (`LockIsReleased`, `CallsGoOn`) holds of all.
`Apply`, `Kubectl`: syncs go on, an object that stays out of sync is tried again
(strong: other objects take the slot), the namespace is made. `Health`: controllers
and kubelet work. Nobody is assumed to write, invalidate, fail, crash or succeed.

**Exceptions**, named in the modules and part of the properties: `Unmarked`
(`SyncContext`: a pruned object that the snapshot of the call still shows without a
deletion mark); `Refilled`, `Revealed`, `SameWay`, `Foretells` (`Apply`: fields the API
server fills again, which a server-side diff takes back; fields whose mutation by a
webhook it takes for a difference, because mutations are shown or because a
client-side apply with the manager's name still owns them; a server-side diff of what is
applied on the client; diffs that do not predict the apply they are combined with); `Ambiguous` (`Plan`: manifests whose namespace or
group does not say which object is meant); `CreatedTwice` (`Kubectl`); `ByHand` (a DaemonSet with
`OnDelete` is healthy at once), `Condemned` (counts of a StatefulSet include pods a
scale-down is removing), `Overtaken` (they include updated pods below the partition, which
stand for old ones above), `Resumed` (a resumed Job keeps its Suspended condition and
counts as complete, `health_job.go:52`); a cached owner UID that a later owner of the
same name does not replace, and an ignored kind, in `GraphIsTrue`.

### Where code and documentation differ

Two runs end in a violation; the quotations are in `PROJECT.json`. `sync_lost`: a failed
prune is forgotten when its object vanishes, and the operation succeeds
(`sync_context.go:540`). `cache_stale`: `sync()` makes a new `c.resources` and keeps
`c.nsIndex` (`cluster.go:886`), so what is deleted between two synchronizations stays in
the index for good, and `FindResources` of its namespace (`cluster.go:130`) returns it.
TLC also shows these when a constant or a property is changed as said:

| where | change | what happens |
|---|---|---|
| `sync_waves` | `ExternalDeletes = TRUE`, `Snapshot = "fixed"` | with live objects read once (`engine.go:77`) an operation of several waves never ends (`Completes`); `sync/doc.go:97` has it wait for health |
| `sync_fail` | `MaxCrashes = 1` | a restart in the middle of `Terminate()` finds a hook it has deleted still marked running (`RunningHookStays`) |
| `cache` | check `QuietMeansCurrent` in the part `"live"` | an event waits in the buffer of `processEvents` while its watch lists again, and is then applied over the newer list, where it stays until the next one (`cluster.go:1272`, against `cache/doc.go:6`) |
| `cache`, `"crds"` | two namespaces, one forbidden | the kind loses its entry while the other namespace is watched, and nothing can stop that watch (`cluster.go:967`, against the comment at `cluster.go:73`): `WatchesAreStoppable` |
| `kubectl` | drop `CreatedTwice` | with `Replace=true` a new RBAC object is reconciled into existence, and the `kubectl create` that follows fails (`resource_ops.go:123`, `common/types.go:29`) |
| `health` | drop `Overtaken` in `HealthyMeansRolledOut` | a pod that was deleted for one revision comes back at the next while a higher ordinal is still old; then a partition is set above the new pod, and the count of updated pods suffices: the StatefulSet is healthy with an old pod that the partition does not keep (`health_statefulset.go:43`) |
| `algorithms` | drop the exceptions of `PlanIsFaithful` | a manifest without a namespace prunes its own twin under another group (`reconcile.go:29`); a stray namespace on a cluster-scoped kind whose scope becomes known in between makes it a prune candidate (`reconcile.go:85`); an unmanaged object with a hook's name is planned for pruning and shares its result |

And these follow from the code. An older snapshot, which `engine.go:77` has from the first
wave on, is taken at its word: a resource that changes is judged by the health of the
version before; a later wave starts while a pruned object is only marked for deletion; a
hook that an earlier operation left in its place is judged in the stead of the new one,
whose finalizer then stays; `Terminate()` passes over a hook that the snapshot does not
have. The failure of the namespace task is forgotten once `syncNamespace` has nothing to
change (`sync_context.go:1021`), like that of the prune in `sync_lost`. A manifest whose
writing fails stays in the temporary directory (`resource_ops.go:100`; the deletion is
deferred in line 119). A field that an earlier client-side apply of the same manager owns
and a webhook changes makes a server-side diff report a difference that no apply removes
(`diff.go:237`). Moreover, a failing wave hook fails the
operation without its SyncFail hooks; HookSucceeded hooks stay when the operation
fails later; a namespace declared as a hook is overlooked by `autoCreateNamespace`
(`sync_context.go:979` copies into a nil slice); `hasCRDOfGroupKind` ignores the
resource filter; `ensureCRDReady` stops at the first error of a Get
(`sync_context.go:1078`); a matched resource never wakes the engine, since
`Reconcile` removes it from the map the handler looks at, only the timer does; a list
that fails because its kind is gone is tried again for ever; an autoscaler that cannot
read its metrics is healthy once it was able to scale, for the first condition
decides and controllers write `AbleToScale` first (`health_hpa.go:133`);
`return resourceVersion, callback(listPager)` (`cluster.go:627`) reads a variable the
call assigns, an order Go does not specify: the models take the version of the list,
which is what a watch needs and what the usual compiler yields.

What goes wrong in the cache heals with the next list of the watch (10 minutes by
default) or the next synchronization (24 hours), except the watch that cannot be
stopped, the list that fails for ever and the stale index; the part `"live"` of `cache`
shows the healing.

## 4. What is proved

Every theorem is about all values of the constants: any number of tasks, kinds, keys,
namespaces, goroutines and calls, any bound on faults, restarts and writes, under the
assumptions the modules state of their constants (`TaskAssumption` to
`BoundAssumption`, `CacheAssumption`, `EngineAssumption`, ...), and nothing else unless
it is said here. Each one is also a property of a run, or rests on invariants that TLC
checked on the instances before they were proved.

### The sync operation

**`SyncContext_proofs`**

* `TypeCorrect`: `Spec => []TypeOK`. `TypeOK` is inductive; one lemma per group of
  actions (`TypeStart`, `TypeEvaluate`, `TypeRun`, `TypeEnd`, `TypeTerminate`,
  `TypeWorld`) over lemmas on the operators that build objects and results.
* `GateCorrect`: `Spec => []WaveGate`. No task is started before every task of an
  earlier phase or wave has succeeded or is left out as in sync.

`WaveGate` is not inductive: nothing in it says that the results of the other tasks
stand still while a batch runs. The inductive invariant is

    GateInv == TypeOK /\ Quiet /\ TodoInBatch /\ Flat /\ WaveGate

`Quiet` (while `Sync()` unhooks completed hooks, nothing it waits for is running),
`TodoInBatch` (`runTasks` handles only the tasks it was called with) and `Flat` (the
tasks of a batch belong to one phase and wave) tie the control state to the results.
`ViewStable` says that the order of the tasks depends only on which objects are live,
`GateKept` that a step which changes results only within the batch, and the presence
of no live object, keeps the gate, `GateDecide` that `Decide` establishes it.

The other results rest on it. `LoopInv` adds to `GateInv` what the loops of
`runTasks` are about: SyncFail tasks have a batch of their own (`RunBatch`), the loops on
finalizers and deletions handle hooks (`HookLoops`), and those that ended or have not
begun (`HooksAtRest`). On top of `LoopInv` each result has an invariant of its own. The
first four follow from what one call does; the others follow hooks and objects through
several calls, in the second half of the module:

| theorem | statement | invariant | what it adds |
|---|---|---|---|
| `SuccessCorrect` | `Spec => []NoFalseSuccess` | `SuccessInv` | nobody outside a running batch has failed or is waited for (`OthersFine`); each loop leaves its tasks done (`LoopsDone`) |
| `CauseCorrect` | `Spec => []SyncFailAfterFailure` | `CauseInv` | whoever sets out to fail has a failed task (`FailureKnown`) |
| `FinalCorrect` | `Spec /\ []FailuresStay => []FailureIsFinal` | `FinalInv` | results of SyncFail tasks come with a failed task, also in what was saved (`Final`) |
| `DryRunCorrect` | `Spec => DryRunIsHarmless` | `LoopInv` | |
| `AppliedCorrect` | `Spec => []RunningIsApplied` | `ApplyingInv` | the object of a running task is the applied version, or gone, and what was saved says no more (`Applying`) |
| `PrunedCorrect` | `PrunesAlone => (Spec => []PrunedIsGone)` | `GoneInv` | an object to prune that the call does not see does not exist (`Seen`), and `Sync()` goes on only when each pruned one is gone or shows no mark (`Gone`) |
| `TerminateCorrect` | `Spec => TerminateStopsHooks` | `StopInv` | while `Terminate()` has no error, each running hook that its snapshot shows is still to be handled (`HooksToStop`) |
| `HookStays` | `HooksAlone => (Spec => [](crashes = 0 => RunningHookStays))` | `HeldInv` | the object of a running hook has the hook finalizer |
| `CleanedUpCorrect` | `HooksApart => (Spec => [](Trusted => HooksCleanedUp))` | `CleanedInv` | only hooks go through the deletion of hooks and only prunes through the prune (`PrunesOnly`); what the call does not see does not exist (`AllSeen`); the operation is open until it is decided (`StillOpen`); the hooks the deletion is done with are going (`Swept`) |
| `StrippedCorrect` | `HooksAlone /\ HooksApart => (Spec /\ []FailuresStay /\ []HooksFresh => [](NeverRestarted => NoStrandedFinalizer))` | `StrippedInv` | the hooks of a batch are pending until they are created (`BatchPending`); what is known of the object of a hook that is pending, running or has succeeded: not created yet, or shown with its finalizer once it is over, or without one (`HookViews`, `Stripped`); with `FinalInv`, a success has started no SyncFail hook |
| `HookOnceCorrect` | `FailedHooksApart => (Spec => HookRunsOnce)` | `OnceInv` | the SyncFail hooks are started in one batch: none has a result, or all have (`Together`), in the results and in the batch |

The hypotheses are needed, and each is about something the code does not prevent:

* `FailuresStay` (a failed task is still a task when `Sync()` decides): a failed prune is
  forgotten when another client deletes its object, which is the violation of `sync_lost`,
  and the failure of the namespace task when `syncNamespace` has nothing to change in a
  later call. The next wave then starts after a SyncFail hook has run.
* `HooksFresh` (a running hook that a call sees is seen in the version that was applied):
  an older snapshot may show the finished object of an earlier operation, which has no
  finalizer any more. `Sync()` ends the hook on that evidence and finds nothing to remove.
* `PrunesAlone` (no other task is about the object of a prune task): a live resource
  that is not matched and has the name of a hook of the operation is pruned and created
  again (`algorithms` shows how such a plan comes about).
* `HooksAlone` (no two hooks share an object): of a hook with two phases the first
  completes and gives up the finalizer while the second may be running.
* `HooksApart` (no hook shares its object with a resource that is applied): the resource
  is applied again after the hook was deleted.
* `Trusted` (`Snapshot = "current"`, or `HooksAlone` and no restart): of two hooks with one
  object, or after a restart, an older snapshot says that the object is gone, and the
  deletion passes over one that has been created since.
* `FailedHooksApart` (no SyncFail hook has the policy HookFailed): the deletion of failed
  hooks takes place before the failure hooks run. A SyncFail hook that it cannot delete is
  recorded as failed, and `runTasks` starts it all the same. TLC confirms the
  counterexample when `sync_fail` is given such a hook.
* `crashes = 0` (`NeverRestarted`): between the removal of a finalizer and the return that saves the result
  a restart forgets what has been seen, and the hook counts as running without an object.

No theorem but `CleanedUpCorrect` (in `Trusted`) assumes how `live` follows the cluster:
they hold with `"current"`, `"lagging"` and `"fixed"` snapshots. What an old snapshot does
is in the properties (`Unmarked`, "that its snapshot shows") or in a named hypothesis
(`HooksFresh`). `HooksFresh` and `FailuresStay` are conditions on behaviours; the
behaviours of the instance of `sync_waves` that satisfy them include prunes, hooks that
fail and calls with lagging snapshots.

Two properties had to be corrected when their proofs failed, and TLC confirmed both
counterexamples: a dry run records results for SyncFail hooks that it validates, so
`FailureIsFinal` is about operations in earnest; and a `Terminate()` that cannot read the
health of a hook returns with the hook marked running and its finalizer removed, so
`RunningHookStays` is about operations that are not being terminated.

`ClusterAges` (an object only ages: what is applied or being deleted stays so, and only
an apply creates one), `LiveShape` (a call changes finalizers only in its snapshot),
`SavedShape`, `CallShape` and `StartsOnlyByCreate` are the lemmas that these proofs share.

### The cluster cache

**`ClusterCache_proofs`**

* `CacheTypeCorrect`: `Spec => []CacheTypeOK`, with what the goroutines hold
  (`WatchersOK`: each watches a pair it may, and has an event while it handles one).
* `IndexCorrect`: `Spec => []IndexAgrees`. `c.nsIndex` has whatever `c.resources` has, and
  until a second synchronization nothing else. `IndexInv` adds that before the first
  synchronization both are empty (`Starting`).
* `StopCorrect`: `Uniform => (Spec => []WatchesAreStoppable)`. `StopInv` adds that no
  goroutine watches what is forbidden (`Allowed`) and that a synchronization lists each
  pair once (`Listing`). `Uniform` says that an account may list a kind in all watched
  namespaces or in none; without it `processApi` drops the entry of a kind at the first
  forbidden namespace while the others are watched.
* `PurgeCorrect`: `OneScope => (Spec => StoppedIsPurged)`. `OneScope` says that a watch
  of a kind sees all its resources (one namespace, or the whole cluster): `stopWatching`
  empties only the namespace of the goroutine that finds the kind gone.
* `QuietCorrect`: `~Batch /\ OneWatch => (Spec => []QuietMeansCurrent)`, and
  `PartsCorrect`, the same of the model-checked system (`PartsSpec`, `QuietIsCurrent`):
  when nothing is under way the cache shows the server. `OneWatch` says that a resource is
  seen by one watch of its kind. `CurrentInv` is about the *steady* kinds, those that may
  be listed and of which no context was ever cancelled: each has one goroutine for every
  namespace once `sync()` or `startMissingWatches` has come to it (`Manned`), what is
  still to be listed is empty (`Emptied`), and the cache has each resource in the version
  that its goroutine knows, but for the one whose event it holds or when it is about to
  list (`Accounted`). Between that version and the server's there are only events which
  the watch has still to deliver (`NothingNew`, `EventSays`). With `Batch` it is false
  (section 3): the buffer of `processEvents` is a second place where news wait, and a
  list overtakes them.

### The engine and its batches

**`Engine_proofs`**

* `EngineTypeCorrect`: `Spec => []EngineTypeOK`.
* `NothingLeftCorrect`: `Spec => []NothingLeftBehind`. `SyncInv` says that the wait group
  counts the goroutines that have not sent (`wg = Cardinality(Alive)`), what the batch can
  be doing at each point of its caller (`Stages`), and that `Wait` has joined what it has
  received (`Joining`).
* `ReceiverCorrect`: `Spec => []HandlersHaveAReceiver`. `EngineInv` adds that only the
  call that has not run its defers is subscribed.
* `BatchImplemented`: `Spec => ImplementsBatch`. `stateSync` implements `Batch` under the
  refinement mapping of `StateSync`: the start of a batch, the addition of a member and
  its end are steps of `Batch`, every other step of the engine is a stutter.

### Lists and commands

**`Listing_proofs`**

* `ListingTypeCorrect`: `Spec => []ListingTypeOK`, with the two facts about
  `listSemaphore` in it: never more lists than permits, and the queue is exactly those
  that wait. The queue needs more than its type: `Queued` adds that nobody is in it
  twice, without which a goroutine that is woken could still be waiting.
* `SyncedCorrect`: `Spec => []SyncedIsComplete`. `ListingInv` follows each API through
  its list (`Progress`): the cache has what its lister has received, its watcher has not
  begun, and a lister that is done has failed, was refused, or is complete; cancelled
  watchers belong to former contexts only, so the watch that begins is not stopped.

**`Kubectl_proofs`**

* `KubectlTypeCorrect` and `NothingLeftCorrect`: `Spec => []KubectlTypeOK` and
  `Spec => []NothingLeftOver`. `Holding` says at which steps a command holds its file
  and its slot: besides the files of commands under way there are those that were spoilt
  in the writing.
* `CommandsCorrect`: `Spec => CommandsAreExact`. `CommandInv` adds where a command can be
  and what it knows of the namespace (`Path`), and that as long as no other client came
  between, the object is what its caller saw, or what the reconciliation made it
  (`Foreseen`).

### Diff and apply

**`Apply_proofs`**, for all fields, manifests, options, defaults and bounds, without
further hypotheses. All four theorems follow from one inductive invariant,

    IInv == ObjectsInv /\ NoServerOwner /\ CleanInv /\ Annotated /\ DroppedAreGone /\ DiffInv

* `TypeCorrect`: `Spec => []ApplyTypeOK`. `ObjectsInv` adds that objects are well formed
  (defaults are filled in, owners own fields that are there, and every field that is no
  default has an owner) and that `fresh` means what it says, `live = snap`.
* `DiffCorrect`: `Spec => []DiffIsHonest`. A quiet diff hides neither a field of the
  manifest nor a leftover (`QuietTrue`: a lemma about the diffs); an apply that nothing came
  after leaves no difference for any mutation by webhooks but those it reveals (`CleanInv`:
  what the apply leaves is `Settled`; `SettledQuiet`), and what git dropped is gone (`Annotated`: what this engine has set and may
  drop is in the annotation; `NoServerOwner`: only server-side apply has a manager to
  tell).
* `UpdateCorrect`: `Spec => NoLostUpdate`.
* `PredictionCorrect`: `Spec => PredictionHolds`. `DiffInv` carries from the diff to the
  apply that the prediction is what some mutation would yield (`Foreseen`), through the
  migration of fields, which touches neither object nor diff for who is fresh
  (`DiffStays`).

The proof corrected the model once. Where the last-applied annotation is lost before and
after the migration of client-side fields, server-side apply cannot take over what
`kubectl` still owns, and these fields stay when git drops them. `Shared` now counts them
among the fields that others keep. TLC shows the behaviour with `MaxWrites = 2`; `Converges`
takes too long there, so the run keeps one foreign write.

### Algorithms

**`Algorithms_proofs`**, about the parts of `MCAlgorithms` but the plan, without further
hypotheses. A theorem `PartSpec => []P` is about the behaviours of the part that `P`
belongs to, for every value of its constants.

* Annotations, for all of them: `PhasesAreTold` (an object has no phase exactly if it is
  skipped or an unknown kind of hook, which is what `Reconcile` tests), `ArgoDecides` (a
  supported Argo CD hook type makes Helm's annotation irrelevant for hook and phases) and
  `SomePolicy` (hooks and only hooks have a delete policy).
* OpenAPI models, for every document: `NoKindTwice` (no gvk is served by two models) and
  `FirstOneStays` (a model is left out only for one with an earlier name that stays and
  shares a gvk). The inductive invariant is `Inv == Known /\ NoSharedKind /\ FirstStays`:
  `Known` says that `gvks` are exactly those of the models kept, without which neither of
  the others survives a step.
* `SecretsCorrect`: `PartSpec => []DifferencesKept`. `SecretInv` adds what the copies hold
  meanwhile: an object is as it was until it is normalized, its data is then what it
  said until the key is hidden, and at every moment two values are equal exactly if they
  were (`DataInv`, `NotesInv`). `SignsTell` is the lemma about signs: at the length of the
  values seen so far, two of three values get one sign exactly if they are equal.
* `WalksCorrect`: `PartSpec => []WalkIsExact`. The recursion of `iterateChildrenV2` is the
  `stack` of the model, so it needs no induction over data: what is accepted was called
  once if it was visited (`Marks`), the stack is what is being visited (`StackInv`), the
  children of what was visited were called or are on the stack (`KidsInv`), and what was
  called is in every closed set of resources (`ReachInv`), the least of which is `Reached`.
* `GraphCorrect`: `PartSpec => []GraphIsTrue`. `FeedInv` says that the events a watch has
  still to deliver lead from what is cached to what the server has, life by life and
  version by version. `RefsInv` says what `OwnerRefs` holds of the cached objects *now*,
  whatever came first: between a StatefulSet and a claim that are both cached the
  templates decide (`Inferred`), a child that names its owner has one reference, to it,
  unless it declares others, and every other reference is one that was declared.
  `WithInferredIs` and `BackfilledIs` are the lemmas about `setNode` and `buildGraph`.

### Health

**`Health_proofs`**, for every kind, any number of replicas, containers, changes and
faults, without further hypotheses.

* `HealthyCorrect`: `Spec => []HealthyIsEarned`. `HealthInv` has a part for each family
  of kinds. Of workloads it says that a status for the present generation counts what the
  pods were when it was written, against the revision and the replicas of now (`Counts`),
  for what the controller has seen is either older or the same (`Sight`), and that the
  pods of a DaemonSet are on its nodes (`OnNodes`). From counts to pods lead `AllOfThem`
  and `FullHouse`: as many pods as there can be are all there can be; that is where a
  StatefulSet needs the exceptions `Condemned` and `Overtaken`. Of an autoscaler it says
  that `AbleToScale` is the first of its conditions and explains the last failure
  (`ScalerInv`), of a Job which conditions there are (`JobInv`).
* `VerdictCorrect`: `Spec => VerdictIsFinal`, the safety half of `VerdictsSettle`. A Pod
  that is never restarted has no container that has run before (`NoRestart`).
* `HealthTypeCorrect`: `Spec => []HealthTypeOK`.

The attempt corrected the property: the count of updated pods says less about a
partitioned rollout than two changes could show, and `Overtaken` names what it leaves out
(section 3).

### Only model-checked

* Liveness under fairness is out of the prover's reach: `Completes`, `EventuallyHealed`,
  `NobodyStarves`, `NobodyWaitsForEver`, `Converges` and `VerdictsSettle`.
* `PlanIsFaithful` and `OrderIsSound` of `Plan`: lists are built by folds, `SortSeq` and
  recursive functions over sequences, and what those compute for every input needs an
  induction over data, for which the prover has no rule it can apply.
* The type invariants `PlanTypeOK` and `HierarchyTypeOK` hold in the instances.

## 5. What is not modelled

* Generated and copied code: `scheme/parser.go`, one literal of more than 15,000
  lines, and `borrowed_managedfields.go`, copied from Kubernetes. They are three
  fifths of all lines of the implementation and have no logic of this program.
* `pkg/diff`: schemas, lists and composite keys of a merge, the normalisation of Role
  and Endpoints, remarshalling, the workaround for StatefulSets, `DiffArray`.
* `pkg/cache`: a `startMissingWatches` that fails in the middle (`cluster.go:548`, a permission
  check under `RespectRbacStrict`; modelled as all or nothing: in the code the kind keeps an
  entry without a goroutine and later kinds are not started), pagination and retries inside
  one list, `GetClusterInfo`,
  `FindResources`, `OnEvent`, the settings, owners of operator CSVs and of token Secrets.
* `pkg/utils/kube`: conversions, `SplitYAML`, kubeconfig files, loading of OpenAPI,
  `WatchWithRetry`, options of kubectl; single API calls are one step of whoever makes
  them. `--force` recreation.
* `pkg/health`: overrides by a caller, errors of conversion (Unknown), a workflow that
  is retried by hand. Pods become ready and available at once (`minReadySeconds` is 0), so
  that the ready pods of a StatefulSet (`health_statefulset.go:36`) are its available ones;
  its comparison of revisions (lines 63 to 68) is reached only without the rolling update
  that the API server fills in. Of the autoscaler's four API versions, which carry the same
  conditions, one is modelled.
* `pkg/sync`: messages, images, the order of reported results, permission validators
  beyond yes and no; manifests that describe one object twice.
* The engine's parsing of manifests, the agent's flags, git, HTTP and marks, tracing,
  mocks, helpers for tests.
* Data races (the map behind `IsNamespaced`, the owner slice two walks write): the
  models give each read one of the values written.

## 6. Plan

1. `QuietMeansCurrent` with batched events, as a property of the behaviours in which a buffer
   is flushed before its watch lists again.
2. `OrderIsSound` of `Plan`: that sorting with the keys of a snapshot yields an order that
   respects them, as lemmas on sequences without induction.
3. Pagination and retry of lists, `FindResources` and handlers in `ClusterCache`.
4. `startMissingWatches` that stops in the middle of its loop, as steps of its own in
   `ClusterCache`.
