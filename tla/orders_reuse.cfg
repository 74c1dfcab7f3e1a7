\* One SmartOrder used for two orders in turn, starting with a stale status_ and a
\* holding carried over from yesterday.
SPECIFICATION FairSpec
CONSTANTS
    s1 = s1
    s2 = s2
    o1 = o1
    o2 = o2
    SmartOrder = {s1}
    NoOrder = NoOrder
    OrderIds = {o1, o2}
    FailedId = FailedId
    NoId = NoId
    Requests <- RoundTrip
    InitPositions <- Holdings
    InitStatuses = {"UNKOWN", "FILLED"}
    SendMayFail = FALSE
    MayDrop = FALSE
    SplitTrades = FALSE
PROPERTIES
    ImplementsFairSlots
    KillReleases
