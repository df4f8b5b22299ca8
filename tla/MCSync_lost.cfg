SPECIFICATION Spec
CONSTANTS
    Tasks <- LTasks
    Objects <- LTasks
    Obj <- LObj
    Phase <- LPhase
    BaseWave <- LWave
    Group <- LGroup
    Hooks = {"sf"}
    Prunes = {"p0"}
    PruneLast = {}
    ConfirmPrune = {}
    KeepPrune = {}
    NsTasks = {}
    AutoNs = {}
    SkipDryRun = {}
    HookSucceeded = {}
    HookFailed = {}
    BeforeHookCreation = {}
    Unmodified = {}
    NoHealth = {}
    Existing = {"p0"}
    DryRuns = {FALSE}
    PruneEnabled = TRUE
    PruneConfirmed = FALSE
    OutOfSyncOnly = FALSE
    HasWaveHook = FALSE
    Snapshot = "current"
    HealthOutcomes = {"Healthy", "Degraded"}
    CanTerminate = FALSE
    ExternalDeletes = TRUE
    MaxFaults = 1
    MaxCrashes = 0
    NoObj = NoObj
    NoResult = NoResult
INVARIANTS
    SuccessWithoutFailure
