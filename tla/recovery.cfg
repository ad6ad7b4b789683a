SPECIFICATION FairSpec
CONSTANTS
    Kinds = {"shell", "active", "complete"}
    AutoChecks = 2
    StableChecks = 2
    MaxDocs = 3
    MaxRevision = 1
INVARIANTS
    AcceptedWasStable
PROPERTIES
    AcceptedIsCurrent
    RecoveryEnds
\* A recovery ends.
CHECK_DEADLOCK FALSE
