CONSTANTS
    Accounts = {work}
    Holders = {timer, hook, operator}
    NoHolder = nobody
    NoAccount = none
    Ttl = 2
    MaxTime = 5
SYMMETRY Symmetry
SPECIFICATION LeaseSpec
INVARIANTS
    ExclusiveWhileLive
    BlockIsBounded
PROPERTIES
    OnlyTheHolderEndsALiveRow
CHECK_DEADLOCK FALSE
