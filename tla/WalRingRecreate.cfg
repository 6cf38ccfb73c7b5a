SPECIFICATION RecreateSpec
CONSTANTS
    BlockFrames = 1
    RingBlocks = 3
    BufBlocks = 1
    Levels = {"sync"}
    MaxFaults = 0
    MaxBatch = 1
    MaxSeq = 4
    MaxLives = 3
INVARIANTS
    ReplayFaithful
