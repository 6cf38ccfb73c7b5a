SPECIFICATION FairSpec
CONSTANTS
    c1 = c1
    c2 = c2
    d1 = d1
    d2 = d2
    Callers = {c1, c2}
    Devices = {d1, d2}
    MaxOps = 2
INVARIANTS
    NodesAlive
    InArrivalOrder
    NoSleepingReactor
    NoSleepingCaller
PROPERTIES
    EveryCallReturns
    CloseReturns
