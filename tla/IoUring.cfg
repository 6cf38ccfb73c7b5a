SPECIFICATION FairSpec
CONSTANTS
    BlockCount = 2
    SlotCount = 1
    QueueDepth = 2
    MaxFaults = 3
INVARIANTS
    SuccessIsOwn
    CleanBetweenCalls
PROPERTY
    EveryCallReturns
