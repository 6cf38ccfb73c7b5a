SPECIFICATION FairSpec
CONSTANTS
    Writers = {w1, w2}
    MaxCalls = 4
    BlockFrames = 2
    BufBlocks = 1
    Faults = TRUE
INVARIANTS
    LeaderExclusion
    NoAbandonedWriter
    LastTouch
    LeaderExitsFinal
    DurableBeforeReturn
    BufferBound
    WallLeavesNoDirtyFrame
    NoLostWakeup
PROPERTY
    EveryCallAnswered
