CONSTANTS
    Files <- MCFiles
    BufLens <- MCBufLens
    Capacity = 4
    PageSize = 2
    OsPage = 4
    Zero = Zero
    MayTruncate = TRUE
SPECIFICATION Spec
INVARIANTS
    IInv
    FedInOrder
    NeverEmptyInput
    ResidentBounded
PROPERTIES
    NoRefault
    PeakBounded
CHECK_DEADLOCK FALSE
