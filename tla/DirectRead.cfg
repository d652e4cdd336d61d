CONSTANTS
    Files <- MCFiles
    BufLens <- MCBufLens
    RetireWindow = 4
    PageSize = 2
    OsPage = 4
    MapShift = 3
    MaxStall = 3
    Shrinking <- MCShrinking
SPECIFICATION FairSpec
INVARIANTS
    IInv
    ResidentBounded
    EofBetweenFrames
PROPERTIES
    NoRefault
    IsAReader
    DeliversAll
    DamageReported
CHECK_DEADLOCK FALSE
