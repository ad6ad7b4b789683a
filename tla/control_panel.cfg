SPECIFICATION Spec
CONSTANTS
    Callers = {c1, c2}
    Closers = {d1, d2}
    Choices = {k1, k2}
    MaxRequests = 3
    MaxDestroys = 1
    MaxTicks = 1
INVARIANTS ClosedIsProven StreamClean PauseHonoured UnseenChoiceKept
SYMMETRY Alike
CHECK_DEADLOCK FALSE
