SPECIFICATION VectorSpec
CONSTANTS
    PageSize = 3
    LowSize = 5
    Top = 7
    MaxCx = 6
    Xs <- MCBytes
    Ys <- MCBytes
    W = 3
    As <- MCFew
    Bs <- MCMany
    Counts <- MCCounts
INVARIANTS OrderAndCarryExact ShiftsCompose EncodingsSurvive DoubleWordsExact StringsMatch LanesAgree MovesAgree
CHECK_DEADLOCK FALSE
