SPECIFICATION FairSpec
CONSTANTS
    Connections = {c1, c2, c3, c4}
    NoConnection = NoConnection
    MaxConnections = 2
    Backlog = 2
CHECK_DEADLOCK FALSE
INVARIANTS
    TypeOK
    SlotsConserved
PROPERTIES
    NobodyWaitsForEver
    StopEndsTheServer
