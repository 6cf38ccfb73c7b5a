SPECIFICATION Spec
CONSTANTS
    BlockFrames = 2
    RingBlocks = 4
    BufBlocks = 3
    Levels = {"batch"}
    MaxBatch = 1
    MaxSeq = 10
    MaxLives = 1
    MaxFaults = 0
INVARIANT ErasesOnlyUnpromised
