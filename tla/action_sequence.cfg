SPECIFICATION Spec
CONSTANTS
    MaxActions = 2
    MaxDocs = 2
    MaxRound = 2
    MaxForeign = 0
    Kinds = {"turn", "floor"}
CONSTRAINT TurnFirst
INVARIANTS
    ConfirmedTurnExecutedOnce
    NoStrayClick
PROPERTIES
    ImplementsLifecycle
\* The environment may stop answering, and the last action may end the run.
CHECK_DEADLOCK FALSE
