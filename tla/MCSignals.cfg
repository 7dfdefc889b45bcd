SPECIFICATION SignalsSpec
CONSTANTS
    NumSignals = 3
    DefaultIgnored = {3}
    Hands <- MCMainHands
    FirstHands <- MCMainFirst
    Masks <- MCMasks
    MaxSigDepth = 8
    SigCalls = 4
INVARIANTS EveryContextKept
CHECK_DEADLOCK FALSE
