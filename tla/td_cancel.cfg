\* One break of the connection while an order is out.
SPECIFICATION Spec
CONSTANTS
    SessionOf <- TwoLogins
    Garbage = {0}
    MayReject = FALSE
    MaxBreaks = 1
    MaxSends = 1
INVARIANT
    KillNamesOrder
CHECK_DEADLOCK FALSE
