\* The API may refuse an insert request.
SPECIFICATION Spec
CONSTANTS
    s1 = s1
    s2 = s2
    o1 = o1
    o2 = o2
    SmartOrder = {s1, s2}
    NoOrder = NoOrder
    OrderIds = {o1, o2}
    FailedId = FailedId
    NoId = NoId
    Requests <- InAndOut
    InitPositions <- Flat
    InitStatuses = {"UNKOWN"}
    SendMayFail = TRUE
    MayDrop = FALSE
    SplitTrades = FALSE
SYMMETRY Symmetry
INVARIANT
    ActiveMeansOutstanding
