CONSTANTS
    p1 = p1
    p2 = p2
    Process <- Alone
    Huge = 2
    Width = 4
    PoolSize = 3
    Sizes = {3}
    Windows = {1}
    Modes = {"memfd"}
    Absent = Absent
    Faults = {"remove"}
SPECIFICATION Spec
INVARIANTS
    PoolRestored
CHECK_DEADLOCK FALSE
