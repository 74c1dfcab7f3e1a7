\* Two breaks of the connection, refused requests and rejected logins at any moment; fair.
SPECIFICATION FairSpec
CONSTANTS
    a = a
    b = b
    au = au
    ag = ag
    Strategy = {a, b}
    Symbol = {au, ag}
    Wanted <- ThreeCalls
    MayRefuse = TRUE
    MayReject = TRUE
    MaxBreaks = 2
INVARIANTS
    TypeOK
    QuotesFollow
    FlagsTellSession
PROPERTIES
    QuotesReturn
    StartReturns
