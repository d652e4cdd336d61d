CONSTANTS
    FileLens = {0, 1, 2, 5, 6, 7}
    chunk_size = 3
    AllocLen = 2
    DstLens = {0, 1, 2, 4}
    Zero = Zero
    Interrupts = TRUE
SPECIFICATION FairSpec
INVARIANTS
    Accounted
    HandedOutInOrder
PROPERTIES
    DeliversAll
    IsAReader
CHECK_DEADLOCK FALSE
