SPECIFICATION Spec
CONSTANTS
    Faults = TRUE
    MaxSeq = 2
    MaxWrites = 4
    MaxOpens = 3
INVARIANTS
    CoverageKept
    ActiveIntact
    GenerationsDiffer
    RefusesOnlyFirst
