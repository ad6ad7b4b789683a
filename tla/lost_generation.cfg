SPECIFICATION Spec
CONSTANTS
    Procs = {p1, p2}
    MaxVersion = 1
    MaxFaults = 1
INVARIANTS
    PowerLossKeepsGeneration
