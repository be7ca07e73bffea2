SPECIFICATION FairSpec
CONSTANTS
    RetireOnFailure = TRUE
    WithPayload = TRUE
    Capacity = 2
    MaxCalls = 4
CHECK_DEADLOCK FALSE
INVARIANTS
    TypeOK
    HandledWhole
PROPERTIES
    KeepsAtMostOnce
    ReceiverLetsGo
