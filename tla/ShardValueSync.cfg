SPECIFICATION Spec
CONSTANTS
    k1 = k1
    k2 = k2
    Keys = {k1, k2}
    BlockCount = 2
    Levels = {2}
    Faults = {}
    Crashes = {"power"}
    MaxOps = 3
    MaxLives = 2
    MaxFaults = 1
SYMMETRY KeySymmetry
INVARIANT NoCorruptRead
CHECK_DEADLOCK FALSE
