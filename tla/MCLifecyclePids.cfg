SPECIFICATION Spec
CONSTANTS
    MaxProcs = 3
    MaxPid = 4
    MaxPipes = 0
    PoolSize = 1
    Forkers = {1, 2}
    Kinds = {"exec"}
    BridgeSlow = FALSE
    WasmFails = FALSE
INVARIANTS PidsUnique
CHECK_DEADLOCK FALSE
