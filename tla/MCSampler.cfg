SPECIFICATION SamplerSpec
CONSTANTS
    Invocations = {timer, hook}
    NoOne = nobody
    Ttl = 2
    Cadence = 1
    Lead = 1
    RetryCap = 2
    AuthThreshold = 1
    AuthCap = 2
    RetryAfters = {3}
    ResetTimes = {2}
    Contexts = {"none"}
    MaxTime = 3
    MaxAttempts = 2
SYMMETRY Symmetry
INVARIANTS
    SlotIsSpentOnce
    HistoryIsOrderedByStart
CHECK_DEADLOCK FALSE
