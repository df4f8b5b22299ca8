SPECIFICATION Spec
CONSTANTS
    Tasks <- FTasks
    Objects <- FTasks
    Obj <- FObj
    Phase <- FPhase
    BaseWave <- FWave
    Group <- FGroup
    Hooks = {"hook", "sf0", "sf1"}
    Prunes = {}
    PruneLast = {}
    ConfirmPrune = {}
    KeepPrune = {}
    NsTasks = {}
    AutoNs = {}
    SkipDryRun = {}
    HookSucceeded = {"sf0"}
    HookFailed = {"hook"}
    BeforeHookCreation = {"sf1"}
    Unmodified = {}
    NoHealth = {}
    Existing = {"hook"}
    DryRuns = {FALSE}
    PruneEnabled = TRUE
    PruneConfirmed = FALSE
    OutOfSyncOnly = FALSE
    HasWaveHook = TRUE
    Snapshot = "current"
    HealthOutcomes = {"Healthy", "Degraded"}
    CanTerminate = TRUE
    ExternalDeletes = TRUE
    MaxFaults = 1
    MaxCrashes = 0
    NoObj = NoObj
    NoResult = NoResult
INVARIANTS
    RunningHookStays
    FailureIsFinal
    SyncFailAfterFailure
    NoStrandedFinalizer
PROPERTIES
    TerminateStopsHooks
