SPECIFICATION Spec
CONSTANTS
    Relentless = FALSE
    MaxBattles = 1
INVARIANTS
    UnreadyIsNotMissing
\* A terminal result ends run_current.
CHECK_DEADLOCK FALSE
