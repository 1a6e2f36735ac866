SPECIFICATION Spec
CONSTANTS
    Runs = {r1, r2}
    NoArchive = NoArchive
    Torn = Torn
    Tiers <- SmallTiers
    MaxTime = 3
SYMMETRY Symmetry
CHECK_DEADLOCK FALSE
INVARIANTS
    NewestArchiveSurvives
    PrunedWasRedundant
    PointerIsEarned
