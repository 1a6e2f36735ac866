SPECIFICATION Spec
SYMMETRY Symmetry
CONSTANTS
    Cadence = 1
    Lead = 1
    RetryCap = 3
    AuthThreshold = 1
    AuthCap = 3
    RetryAfters = {4}
    ResetTimes = {1}
    Contexts = {c1, c2}
    MaxTime = 2
    MaxAttempts = 3
INVARIANTS
    SlotIsSpentOnce
    OrdinaryGridKeepsItsPace
    CoverageExcusesOnlyHolds
CHECK_DEADLOCK FALSE
