\* The same, with the event thread, the clock and the timers scheduled fairly.
SPECIFICATION FairSpec
CONSTANTS
    md = md
    td = td
    t1 = t1
    t2 = t2
    Producer = {md, td}
    Timer = {t1, t2}
    Latency <- Latencies
    Size = 2
    MaxHandlers = 1
    MaxPush = 1
    MaxTime = 1
PROPERTIES
    Drains
    StopReturns
    TimerFires
CHECK_DEADLOCK FALSE
