CONSTANTS
    Files <- MCCut
    BufLens <- TruncBufLens
    Capacity = 4
    PageSize = 2
    OsPage = 2
    Zero = Zero
    MayTruncate = FALSE
SPECIFICATION Spec
INVARIANTS
    TruncatedIsInvalid
CHECK_DEADLOCK FALSE
