CONSTANTS
    PerTable = 2
    TlbSize = 1
    Chunk = 3
    PoolSize = 12
    MaxPool = 12
    MaxSteps = 5
    MaxRss = 6
    MaxVss = 4
    Ranges <- MCAligned
    Mmaps <- MCMmaps
    Prots <- MCProts
    NumSignals = 3
    DefaultIgnored = {3}
    Hands <- MCHands
    FirstHands <- MCFirstHands
    Masks <- MCMasks
    MaxSigDepth = 8
    SigCalls = 5
SPECIFICATION GuestSpec
CHECK_DEADLOCK FALSE
INVARIANTS BooksExact CachesCoherent ContextKept AttentionKept
PROPERTIES ImplementsFlatMemory ReturnsWhole SignalTaken
