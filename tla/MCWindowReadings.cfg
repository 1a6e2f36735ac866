SPECIFICATION Spec
CONSTANTS
    Sessions = {s1}
    None = None
    Length = 3
    Jitter = 2
    Wobble = 1
    Horizon = 1
    Cap = 2
    Offers <- SmallOffers
    Begun = {3}
    MaxUsed = 1
    MaxTime = 3
    MaxReadings = 3
CHECK_DEADLOCK FALSE
INVARIANTS
    NoInventedAnomaly
    SetChangeHasACause
    RenderedIsNewest
    SubsetOnlyAfterOutage
