SPECIFICATION FairSpec
CONSTANTS
    MaxActions = 1
    MaxDocs = 3
    MaxRound = 2
    MaxForeign = 1
    Kinds = {"turn", "floor"}
CONSTRAINT Unfinished
INVARIANTS
    ClickedOnceUnderIntent
    ConfirmedFloorAdvanced
    DuplicateNeverAccepted
    NoOpenIntent
PROPERTIES
    OperationEnds
\* The environment may stop answering, and the last action may end the run.
CHECK_DEADLOCK FALSE
