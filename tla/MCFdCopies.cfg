CONSTANTS
    MaxCalls = 3
    MaxPid = 2
    MaxFd = 9
    MaxOpens = 1
    MaxPipes = 1
    PipeBase = 6
    Targets = {4}
    SlotsBelow = 1
SPECIFICATION Spec
CHECK_DEADLOCK FALSE
INVARIANTS CopiesKeepFile
