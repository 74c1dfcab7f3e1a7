\* No breaks and no refusals: only the order in which the two connections come up.
SPECIFICATION Spec
CONSTANTS
    a = a
    b = b
    au = au
    ag = ag
    Strategy = {a, b}
    Symbol = {au, ag}
    Wanted <- ThreeCalls
    MayRefuse = FALSE
    MayReject = FALSE
    MaxBreaks = 0
INVARIANT
    SubscribeReturnsInstrument
