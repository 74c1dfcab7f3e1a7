SPECIFICATION FairSpec
CONSTANTS
    Vol = 2
    Window = 2
    InitCounts <- Counted
    MaxCount = 2
    Stages <- Day
    MaxMishaps = 1
INVARIANTS
    TypeOK
    OneOpenPerTick
    OneSidedBound
    FlagsFollowPosition
PROPERTIES
    OrdersKeepHours
    GetsFlat
    Quiets
