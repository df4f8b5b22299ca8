SPECIFICATION PartSpec
CONSTANTS
    Models = 4
    Kinds = {"a", "b"}
    Kindless = Kindless
    MaxScenario = 4
    GraphKeys = {"sts", "pvc", "svc", "ep"}
    StatefulSets = {"sts"}
    Claims = {"pvc"}
    Named <- MCNamed
    MayOwn <- MCMayOwn
    Ignored = {"ep"}
    Refused = {"sts", "svc"}
    MaxWrites = 4
    MaxLives = 2
    MaxRoots = 2
    SecretKeys = {"a", "b"}
    SecretNotes = {"note"}
    Values = {"", "x", "y"}
    Secrets <- MCSecrets
    Absent = Absent
    Null = Null
    None = None
INVARIANTS
    PlanIsFaithful
    OrderIsSound
    GraphIsTrue
    WalkIsExact
    DifferencesKept
    NoSharedKind
CHECK_DEADLOCK FALSE
