CONSTANTS
    RingSlots = 3
    MaxCalls = 7
    MaxStall = 1
    Size = 3
    MaxTyped = 5
    Lens = {1, 3}
    MaxWait = 2
    Pids = {1, 2, 3}
    Children = {2, 3}
    MaxTraps <- MCTraps
SPECIFICATION RingsSpec
CHECK_DEADLOCK FALSE
INVARIANTS OwnAnswer IInv InputSound TrapAnswerOwn HandledOnce ExitsKept
PROPERTIES DispatchInOrder PostedReturns AllButLostRead TrapReturns
