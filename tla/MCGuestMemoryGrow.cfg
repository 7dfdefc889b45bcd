CONSTANTS
    PerTable = 2
    TlbSize = 1
    Chunk = 3
    PoolSize = 6
    MaxPool = 12
    MaxSteps = 4
    MaxRss = 6
    MaxVss = 4
    Ranges <- MCAligned
    Mmaps <- MCMmaps
    Prots <- MCProts
SPECIFICATION Spec
CHECK_DEADLOCK FALSE
PROPERTIES TouchedStaysTouched
