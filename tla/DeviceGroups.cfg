SPECIFICATION Spec
CONSTANTS
    N = 2
    Lists <- AllLists
    NewLists <- NewOnes
    Sizes = {0, 1, 2}
    MaxOpens = 3
    MaxEvents = 3
INVARIANTS
    GroupOfOneCreate
    SurvivesOneHarm
    NoMixOfFinished
    SnapshotOfThisCreate
