CONSTANTS
    p1 = p1
    p2 = p2
    Process <- Both
    Bench = p1
    Huge = 2
    Width = 4
    PoolSize = 3
    Sizes = {3, 7}
    Windows = {2}
    Modes = {"anon", "memfd", "streaming"}
    Absent = Absent
    Faults = {"resize", "remove", "open", "zstd"}
    RunCounts = {0, 2}
    Warmups = {0, 1}
    Damaged = TRUE
SPECIFICATION FairSpec
INVARIANTS
    AllOrNothing
    LeavesNothing
PROPERTIES
    PreflightSuffices
    Ends
CHECK_DEADLOCK FALSE
