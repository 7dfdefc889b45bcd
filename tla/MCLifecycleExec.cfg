SPECIFICATION FairSpec
CONSTANTS
    MaxProcs = 3
    MaxPid = 3
    MaxPipes = 1
    PoolSize = 1
    Forkers = {1}
    Kinds = {"exec"}
    BridgeSlow = FALSE
    WasmFails = FALSE
INVARIANTS CacheIsOwn LiveKeepsEntry
PROPERTY ForkedIsReaped
CHECK_DEADLOCK FALSE
