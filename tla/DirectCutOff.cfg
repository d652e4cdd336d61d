CONSTANTS
    Files <- MCCutOff
    BufLens <- TruncBufLens
    RetireWindow = 4
    PageSize = 2
    OsPage = 2
    MapShift = 0
    MaxStall = 2
    Shrinking <- Unshared
SPECIFICATION Spec
INVARIANTS
    TruncatedIsInvalid
CHECK_DEADLOCK FALSE
