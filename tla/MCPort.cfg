SPECIFICATION FairSpec
CONSTANTS
    Connections = {c1, c2, c3, c4}
    NoOne = NoOne
    Dip = Dip
    MaxScrapes = 3
    MaxConcurrent = 2
INVARIANTS
    TypeOK
    Conserved
PROPERTY
    PortStaysOpen
