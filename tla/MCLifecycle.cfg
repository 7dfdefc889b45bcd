SPECIFICATION Spec
CONSTANTS
    MaxProcs = 3
    MaxPid = 4
    MaxPipes = 0
    PoolSize = 1
    Forkers = {1, 2}
    Kinds = {"exec", "full"}
    BridgeSlow = TRUE
    WasmFails = TRUE
INVARIANTS PoolSound
CHECK_DEADLOCK FALSE
