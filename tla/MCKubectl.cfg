SPECIFICATION FairSpec
CONSTANTS
    Objects = {"binding", "map"}
    Rbac = {"binding"}
    Refs = {"r1", "r2"}
    Subjects = {"s"}
    Slots = 1
    MaxEdits = 1
    MaxFaults = 1
    None = None
INVARIANTS
    NothingLeftOver
PROPERTIES
    CommandsAreExact
    Converges
