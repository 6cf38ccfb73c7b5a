SPECIFICATION Spec
CONSTANTS
    Threads = {t1, t2}
    SlotCount = 2
    Keys = {k1, k2}
    MaxCalls = 3
SYMMETRY Symmetry
CHECK_DEADLOCK FALSE
INVARIANTS
    SlotsAccounted
    PutSourceRight
    CloseWaits
    NoSleepingCloser
