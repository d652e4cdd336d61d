CONSTANTS
    Huge = 2
    Absent = Absent
    Full = 3
    TotalRuns = 2
    Cuts = {2}
    Pools = {1, 2, 3}
    Rewrites = 1
SPECIFICATION FairSpec
PROPERTIES
    EnoughForBoth
    CheckSuffices
    SecondNotStarved
    Ends
CHECK_DEADLOCK FALSE
