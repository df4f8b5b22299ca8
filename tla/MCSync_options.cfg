SPECIFICATION Spec
CONSTANTS
    Tasks <- OTasks
    Objects <- OTasks
    Obj <- OObj
    Phase <- OPhase
    BaseWave <- OWave
    Group <- OGroup
    Hooks = {}
    Prunes = {"p0", "pl"}
    PruneLast = {"pl"}
    ConfirmPrune = {}
    KeepPrune = {}
    NsTasks = {"ns"}
    AutoNs = {"ns"}
    SkipDryRun = {"cr"}
    HookSucceeded = {}
    HookFailed = {}
    BeforeHookCreation = {}
    Unmodified = {"same"}
    NoHealth = {"ns", "same", "p0", "pl"}
    Existing = {"ns", "same", "p0", "pl"}
    DryRuns = {TRUE, FALSE}
    PruneEnabled = TRUE
    PruneConfirmed = FALSE
    OutOfSyncOnly = TRUE
    HasWaveHook = FALSE
    Snapshot = "lagging"
    HealthOutcomes = {"Healthy", "Degraded"}
    CanTerminate = TRUE
    ExternalDeletes = TRUE
    MaxFaults = 1
    MaxCrashes = 1
    NoObj = NoObj
    NoResult = NoResult
INVARIANTS
    PrunedIsGone
    NoFalseSuccess
    RunningIsApplied
PROPERTIES
    DryRunIsHarmless
