SPECIFICATION Spec
CONSTANTS
    CHUNK_SIZE = 2
    SMALL_FILE_SIZE = 4
    ZIP_UPDATE_DIGEST_THREADS_NUM = 4
    MaxChunks = 9
    Packages <- MCPackages
    MaxCalls = 2
    MaxFaults = 1
INVARIANTS
    SlotsHoldTheirChunk
    HandedOutComplete
    RefusalExplained
PROPERTIES
    NoSlotTwice
    CallReturns
CHECK_DEADLOCK FALSE
