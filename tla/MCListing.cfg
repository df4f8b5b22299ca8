SPECIFICATION FairSpec
CONSTANTS
    Apis = {"Pod", "Secret"}
    Permitted = {"Pod"}
    Permits = 1
    Items = 1
    Contexts = {1, 2}
INVARIANTS
    SyncedIsComplete
PROPERTIES
    NobodyStarves
