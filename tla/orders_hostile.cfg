\* Refused sends, lost events and fills reported in several trades, with a holding carried
\* over from yesterday or none.
SPECIFICATION Spec
CONSTANTS
    s1 = s1
    s2 = s2
    o1 = o1
    o2 = o2
    SmartOrder = {s1}
    NoOrder = NoOrder
    OrderIds = {o1, o2}
    FailedId = FailedId
    NoId = NoId
    Requests <- RoundTrip
    InitPositions <- Holdings
    InitStatuses = {"UNKOWN"}
    SendMayFail = TRUE
    MayDrop = TRUE
    SplitTrades = TRUE
SYMMETRY IdSymmetry
INVARIANTS
    OneOutstanding
    KillTimesExact
    BookFollowsExchange
