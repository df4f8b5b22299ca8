SPECIFICATION FairSpec
CONSTANTS
    Fields = {"a", "b"}
    Values = {1, 2}
    Manifests <- MCManifests
    Defaults <- MCDefaults
    Setups <- MCSetups
    MaxEdits = 2
    MaxWrites = 1
    MaxFaults = 1
    Absent = Absent
    None = None
INVARIANTS
    DiffIsHonest
PROPERTIES
    PredictionHolds
    NoLostUpdate
    Converges
