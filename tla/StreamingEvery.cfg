CONSTANTS
    Files <- MCEvery
    BufLens <- EveryBufLens
    Capacity = 2
    PageSize = 1
    OsPage = 1
    Zero = Zero
    MayTruncate = FALSE
SPECIFICATION FairSpec
INVARIANTS
    EofMeansAll
PROPERTIES
    DeliversAll
    DamageReported
    ReadReturns
    IsAReader
CHECK_DEADLOCK FALSE
