SPECIFICATION Spec
CONSTANTS
    NoThread = NoThread
    Threads = {t1, t2}
INVARIANTS
    StoresAllOrNothing
    DebugAgrees
    TestTrustJustified
PROPERTIES
    InitReturns
