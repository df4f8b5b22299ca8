SPECIFICATION FairSpec
CONSTANTS
    Tasks <- WTasks
    Objects <- WTasks
    Obj <- WObj
    Phase <- WPhase
    BaseWave <- WWave
    Group <- WGroup
    Hooks = {"pre", "post"}
    Prunes = {"p0"}
    PruneLast = {}
    ConfirmPrune = {}
    KeepPrune = {}
    NsTasks = {}
    AutoNs = {}
    SkipDryRun = {}
    HookSucceeded = {"pre"}
    HookFailed = {}
    BeforeHookCreation = {"post"}
    Unmodified = {}
    NoHealth = {}
    Existing = {"p0", "post"}
    DryRuns = {TRUE, FALSE}
    PruneEnabled = TRUE
    PruneConfirmed = FALSE
    OutOfSyncOnly = FALSE
    HasWaveHook = TRUE
    Snapshot = "lagging"
    HealthOutcomes = {"Healthy", "Degraded"}
    CanTerminate = FALSE
    ExternalDeletes = FALSE
    MaxFaults = 1
    MaxCrashes = 0
    NoObj = NoObj
    NoResult = NoResult
INVARIANTS
    TypeOK
    WaveGate
    HooksCleanedUp
PROPERTIES
    HookRunsOnce
    Completes
