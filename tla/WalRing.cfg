SPECIFICATION Spec
CONSTANTS
    BlockFrames = 2
    RingBlocks = 3
    BufBlocks = 2
    Levels = {"sync", "batch"}
    MaxBatch = 1
    MaxSeq = 8
    MaxLives = 3
    MaxFaults = 1
INVARIANTS
    RefusesOnlyLostHead
    PromisesSurvive
    ReplayFaithful
    RescueMakesRoom
    WindowInRing
