SPECIFICATION Spec
CONSTANTS
    k1 = k1
    k2 = k2
    Keys = {k1, k2}
    BlockCount = 2
    Levels = {1, 2, 3, 4}
    Faults = {"value", "log", "snapshot"}
    Crashes = {"power", "kill"}
    MaxOps = 3
    MaxLives = 3
    MaxFaults = 1
SYMMETRY KeySymmetry
INVARIANTS
    BlocksPartitioned
    ReplayAgrees
    RefusesOnlyHaunted
    ValuesKept
PROPERTY ImplementsVersionedMap
CHECK_DEADLOCK FALSE
