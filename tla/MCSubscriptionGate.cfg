CONSTANTS
    Attempts = {a1, a2, a3, a4}
    Identities = {x, y}
    NoIdentity = none
    MaxLive = 2
SYMMETRY Symmetry
SPECIFICATION Spec
INVARIANTS
    EstablishmentIsEarned
    StoredUnderItsIdentity
    RefusalIsRecordedAlone
    DoctorFailsOnARecordedRefusal
CHECK_DEADLOCK FALSE
