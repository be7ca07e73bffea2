SPECIFICATION Spec
CONSTANTS
    Ids = {p1, p2}
    Answers = {yes, no}
    NoAnswer = NoAnswer
    NoRecord = NoRecord
    Damage = Damage
    MaxVersions = 2
    MaxStops = 1
    MaxDamages = 0
CHECK_DEADLOCK FALSE
INVARIANTS
    SeenIsOnDisk
