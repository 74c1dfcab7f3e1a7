\* Two breaks, so three sessions, and two orders sent and cancelled at any moment.
SPECIFICATION FairSpec
CONSTANTS
    SessionOf <- Logins
    Garbage = {0, 20}
    MayReject = TRUE
    MaxBreaks = 2
    MaxSends = 2
INVARIANTS
    TypeOK
    IdsAreFresh
    NoWrongCancel
    SessionCanCancel
    NotStranded
PROPERTY
    LogsIn
CHECK_DEADLOCK FALSE
