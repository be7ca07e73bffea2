SPECIFICATION Spec
CONSTANTS
    Threads = {t1, t2}
    Models = {mA, mB}
    Engines = {e1, e2}
    NoThread = NoThread
    NoModel = NoModel
    NoEngine = NoEngine
PROPERTIES
    ColdLoadKeepsReady
