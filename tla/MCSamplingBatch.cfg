SPECIFICATION FairSpec
CONSTANTS
    N = 4
    MaxConcurrent = 2
INVARIANTS
    SlotIsRunOnce
    JoinLeavesNoHole
    EveryAccountIsReported
    LeasesAreReturned
PROPERTIES
    RunReturns
CHECK_DEADLOCK FALSE
