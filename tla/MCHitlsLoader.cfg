SPECIFICATION LoaderSpec
CONSTANTS
    Users = {t1, t2, t3}
    Delay = 3
INVARIANTS
    HoldersAreReady
PROPERTIES
    ClosedAfterDelay
    UnusedIsClosed
    DestructorReturns
