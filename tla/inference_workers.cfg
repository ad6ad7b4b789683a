CONSTANTS
    Generations = {g1, g2}
    Workers = {w1, w2}
    Predictors = {p1, p2}
    Refresher = refresher
    Closer = closer
    Nobody = nobody
    MaxFaults = 1
SPECIFICATION Spec
INVARIANTS TypeOK LeasesAccounted RequestNotCutOff UsableCanAnswer CloseLeavesNothing SupersededIsReaped
SYMMETRY Interchangeable
CHECK_DEADLOCK FALSE
