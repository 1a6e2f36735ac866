CONSTANTS
    Samplers = {timer}
    Others = {claude}
    NoOne = nobody
    Lead = 1
    Lifetime = 2
    LockTries = 2
    MaxTime = 2
    MaxIssued = 3
SPECIFICATION FairSpec
INVARIANTS
    DeadPairHasACause
    RejectionHasACause
    MaterialIsFresh
PROPERTIES
    PreflightEnds
CHECK_DEADLOCK FALSE
