CONSTANTS
    Files <- MCTrailing
    BufLens <- TruncBufLens
    Capacity = 4
    PageSize = 2
    OsPage = 2
    Zero = Zero
    MayTruncate = FALSE
SPECIFICATION Spec
INVARIANTS
    TrailingIsEnd
CHECK_DEADLOCK FALSE
