CONSTANTS
    Pids = {1, 2, 3}
    Children = {2, 3}
    MaxTraps <- MCTraps
SPECIFICATION TrapSpec
CHECK_DEADLOCK FALSE
INVARIANTS WaitersStayBlocked
