SPECIFICATION FairSpec
CONSTANTS
    Processes = {worker}
    Order <- TwoFiles
    Sized = {weights}
    Objects = {o1, o2, o3, o4, o5, o6}
    NoObject = NoObject
    Mtimes = {m1, m2, m3, m4, m5, m6, m7, m8, m9}
    NoMtime = NoMtime
    MaxStops = 2
    MaxRewrites = 1
    weights = weights
    vocabulary = vocabulary
INVARIANTS
    TypeOK
    PinnedWhenEnsured
    OnlyTheEndpointFails
PROPERTIES
    GoodFilesStay
    CallsEnd
