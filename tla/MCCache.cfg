SPECIFICATION PartsFairSpec
CONSTANTS
    AllNs = AllNs
    Forbidden <- CrForbidden
    Ignored = {}
    Batch = FALSE
    WatchResync = TRUE
    CanInvalidate = FALSE
    MaxWrites = 4
    MaxSyncs = 1
    MaxFaults = 1
    NoKey = NoKey
    Gks = {"CRD", "CR", "Secret"}
    Keys <- CrKeys
    Gk <- CrGk
    Ns <- CrNs
    Scopes <- CrScopes
    Crd <- CrCrd
    Mutations = {"crd", "cr"}
    Deletions = {"crd", "cr"}
INVARIANTS
    IndexAgrees
    QuietIsCurrent
    WatchesAreStoppable
PROPERTIES
    StoppedIsPurged
    EventuallyHealed
