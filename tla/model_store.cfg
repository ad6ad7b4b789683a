SPECIFICATION FairSpec
CONSTANTS
    Procs = {p1, p2}
    MaxVersion = 2
    MaxFaults = 1
INVARIANTS
    PointerNamesGeneration
    PairServedTogether
PROPERTIES
    NewerCommitKept
    ComesUpToDate
