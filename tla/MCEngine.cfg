SPECIFICATION FairSpec
CONSTANTS
    Tasks = {"t1", "t2"}
    Keys = {"k"}
    Watchers = {"w"}
    BatchEvents = TRUE
    MaxCalls = 2
    MaxEvents = 2
    MaxBatches = 2
    NoState = NoState
    NoOne = NoOne
INVARIANTS
    HandlersHaveAReceiver
    NothingLeftBehind
PROPERTIES
    ImplementsBatch
    NobodyWaitsForEver
CHECK_DEADLOCK FALSE
