\* A queue of two places, two API threads and two timers.
SPECIFICATION Spec
CONSTANTS
    md = md
    td = td
    t1 = t1
    t2 = t2
    Producer = {md, td}
    Timer = {t1, t2}
    Latency <- Latencies
    Size = 2
    MaxHandlers = 2
    MaxPush = 2
    MaxTime = 1
INVARIANTS
    TypeOK
    EveryHandlerOnce
    HandledInOrder
    OneAfterStop
CHECK_DEADLOCK FALSE
