CONSTANTS
    Files <- MCDry
    BufLens <- TruncBufLens
    RetireWindow = 4
    PageSize = 2
    OsPage = 2
    MapShift = 0
    MaxStall = 2
    Shrinking <- Unshared
SPECIFICATION Spec
INVARIANTS
    EofMeansAll
CHECK_DEADLOCK FALSE
