CONSTANTS
    MaxCalls = 4
    MaxPid = 2
    MaxFd = 9
    MaxOpens = 2
    MaxPipes = 2
    PipeBase = 6
    Targets = {4}
    SlotsBelow = 1
    etc = etc
    tmp = tmp
    Names = {etc, tmp}
    BaseFile <- MCBase
    Args <- MCArgs
    Flags <- MCFlags
    MaxDepth = 2
    MaxOpen = 2
    MaxLen = 2
    MaxLink = 1
    MaxFsCalls = 4
    Cap = 3
    Counts = {1, 3}
    MaxBytes = 5
    Copies = TRUE
SPECIFICATION FilesSpec
CHECK_DEADLOCK FALSE
INVARIANTS PipeInv InOrder NeverAnotherFile NumbersSound PathsSound
PROPERTIES LateEofIsFinal Implements AllDelivered EofSeen BuffersSound
