\* Two SmartOrders of one instrument, no loss.
SPECIFICATION Spec
CONSTANTS
    s1 = s1
    s2 = s2
    o1 = o1
    o2 = o2
    SmartOrder = {s1, s2}
    NoOrder = NoOrder
    OrderIds = {o1, o2}
    FailedId = FailedId
    NoId = NoId
    Requests <- InAndOut
    InitPositions <- Flat
    InitStatuses = {"UNKOWN"}
    SendMayFail = FALSE
    MayDrop = FALSE
    SplitTrades = FALSE
SYMMETRY Symmetry
INVARIANTS
    TypeOK
    ActiveMeansOutstanding
    NoEventIsStale
    BookFollowsExchange
PROPERTY
    ReleaseOnlyWhenDone
