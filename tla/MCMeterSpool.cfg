CONSTANTS
    Attempts = {a1, a2}
    Drainers = {d1, d2}
    Backups = {}
    Fragile = {}
    NoAttempt = none
SYMMETRY Symmetry
SPECIFICATION Spec
INVARIANTS
    NoReadingLost
    ProjectionNeverAhead
    ProjectionIsOneInstant
    ReportIsTrue
PROPERTIES
    ImplementsLifecycle
CHECK_DEADLOCK FALSE
