SPECIFICATION FairSpec
CONSTANTS
    Relentless = FALSE
    MaxBattles = 2
INVARIANTS
    ResultTellsMutations
    OneRecoveryPerReceipt
    SettledBeforeActing
    CompletedMeansLeft
PROPERTIES
    GivesUp
\* A terminal result ends run_current.
CHECK_DEADLOCK FALSE
