\* Two calls in init, two more in on_event; two ticks of CTP and one of the Level-2 gateway.
SPECIFICATION Spec
CONSTANTS
    a = a
    b = b
    future = future
    index = index
    other = other
    Strategy = {a, b}
    Symbol = {future, index, other}
    Wanted <- FourCalls
    InInit = 2
    Matching <- Prefixes
    MaxQuotes <- TwoAndOne
INVARIANTS
    TypeOK
    OrdersGoHome
    CancelNamesExchange
    EachSubscriptionTold
CHECK_DEADLOCK FALSE
