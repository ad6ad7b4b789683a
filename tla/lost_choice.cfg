SPECIFICATION Spec
CONSTANTS
    Callers = {c1}
    Closers = {d1}
    Choices = {k1, k2}
    MaxRequests = 4
    MaxDestroys = 1
    MaxTicks = 2
INVARIANTS UnreadChoiceKept
SYMMETRY Alike
CHECK_DEADLOCK FALSE
