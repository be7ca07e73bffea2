SPECIFICATION FairSpec
CONSTANTS
    Threads = {t1, t2, t3}
    Models = {mA, mB}
    Engines = {e1, e2}
    NoThread = NoThread
    NoModel = NoModel
    NoEngine = NoEngine
INVARIANTS
    TypeOK
    MemoryBudget
    ServedByTheModelItNames
    FieldsAgree
PROPERTIES
    FetchBeforeEvict
    OnlyOvertakingStarves
    KeepsPromise
