CONSTANTS
    Attempts = {a1}
    Drainers = {d1}
    Backups = {b1}
    Fragile = {a1}
    NoAttempt = none
SPECIFICATION FairSpec
INVARIANT DrainedCutIsComplete
PROPERTIES
    KeptIsSettled
    ProjectionCatchesUp
CHECK_DEADLOCK FALSE
