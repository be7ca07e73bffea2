SPECIFICATION Spec
CONSTANTS
    Ids = {p1, p2}
    Answers = {yes, no}
    NoAnswer = NoAnswer
    NoRecord = NoRecord
    Damage = Damage
    MaxVersions = 1
    MaxStops = 3
    MaxDamages = 1
SYMMETRY Symmetry
CHECK_DEADLOCK FALSE
INVARIANTS
    TypeOK
    AcknowledgedSurvives
    QuarantinedSeenIsOnDisk
    BadLinesAreSetAside
    NothingDangles
