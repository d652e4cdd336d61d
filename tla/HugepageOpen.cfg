CONSTANTS
    p1 = p1
    p2 = p2
    Process <- Both
    Huge = 2
    Width = 4
    PoolSize = 3
    Sizes = {0, 2, 3, 15}
    Windows = {1, 2}
    Modes = {"anon", "memfd", "streaming", "mmap", "slice"}
    Absent = Absent
    Faults <- AllFaults
SPECIFICATION Spec
INVARIANTS
    IInv
    PoolConserved
    SliceIsBacked
    DelegatesWhenCovered
PROPERTIES
    OomMeansScarce
    LosesOnlyRaw
    RestoredIfOpened
    WindowHolds
CHECK_DEADLOCK FALSE
