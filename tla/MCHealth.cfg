SPECIFICATION FairSpec
CONSTANTS
    Kinds <- MCKinds
    MaxReplicas = 2
    MaxEdits <- MCEdits
    MaxFaults = 1
    Containers = {"c1", "c2"}
    None = None
INVARIANTS
    HealthyIsEarned
PROPERTIES
    VerdictsSettle
CHECK_DEADLOCK FALSE
