----------------------------- MODULE EventEngine -----------------------------
(***************************************************************************)
(* EventEngine: the queue between the API threads and the event thread,    *)
(* the loop of the event thread, start and stop, and add_timer.            *)
(*                                                                         *)
(* Threads.  Every API thread of a gateway pushes events.  Every add_timer *)
(* call starts a detached thread that sleeps, pushes one event and ends.   *)
(* The event thread runs the loop of run().  The main thread registers the *)
(* handlers and calls start; any thread may call stop (AlgoEngine's        *)
(* destructor does).                                                       *)
(*                                                                         *)
(* The queue is a library (moodycamel): it keeps the order of the events   *)
(* of one thread and promises nothing about events of different threads.   *)
(* So it is one FIFO per thread, and a dequeue takes the head of any.      *)
(*                                                                         *)
(* is_active_ is a plain bool that stop writes and run reads on different  *)
(* threads.  The read cannot leave the loop (wait_dequeue synchronises),   *)
(* so the race means that a read sees a stop or does not see it yet, which *)
(* are the two orders of the steps Stop and Test.                          *)
(***************************************************************************)
EXTENDS Integers, Sequences, FiniteSets

CONSTANTS
    Producer,    \* the API threads of the gateways
    Timer,       \* the add_timer calls of a run, each a thread of its own
    Latency,     \* the latency each add_timer call asks for
    Size,        \* the events the queue holds, EventEngine's argument
    MaxHandlers, \* bound: callbacks registered for one event type
    MaxPush,     \* bound: events one API thread pushes
    MaxTime      \* bound: the clock

Source == Producer \cup Timer

NoSource == "none"

ASSUME SourcesAssumption == Producer \cap Timer = {} /\ NoSource \notin Source
ASSUME LatencyAssumption == Latency \in [Timer -> Nat]
ASSUME BoundsAssumption  ==
    Size \in Nat /\ MaxHandlers \in Nat /\ MaxPush \in Nat /\ MaxTime \in Nat

\* Event types, as far as they decide which handlers run.
Kinds == {"api", "timer"}
Kind(s) == IF s \in Timer THEN "timer" ELSE "api"

VARIABLES
    queue,     \* the numbers of the waiting events, per thread
    pushed,    \* how many events the thread has pushed, lost ones included
    handlers,  \* handlers_: how many callbacks are registered
    active,    \* is_active_
    loop,      \* where the event thread is
    current,   \* the event it has taken: [from, n]
    left,      \* the callbacks that have yet to be called with it
    due,       \* when a sleeping timer wakes up
    asleep,    \* the timers that have been added and sleep
    now,       \* the clock
    ran,       \* history: the events callbacks were called with, per thread
    lost,      \* history: the events a full queue did not take
    late       \* history: the events taken when is_active_ was false already

queueVars == <<queue, pushed, lost>>
loopVars  == <<active, loop, current, left, ran, late>>
timerVars == <<due, asleep>>
vars == <<queueVars, loopVars, timerVars, handlers, now>>

NoEvent == [from |-> NoSource, n |-> 0]

Init ==
    /\ queue = [s \in Source |-> <<>>]
    /\ pushed = [s \in Source |-> 0]
    /\ handlers = [k \in Kinds |-> 0]
    /\ active \in BOOLEAN            \* the constructor leaves it uninitialised
    /\ loop = "new"
    /\ current = NoEvent
    /\ left = 0
    /\ due = [t \in Timer |-> 0]
    /\ asleep = {}
    /\ now = 0
    /\ ran = [s \in Source |-> <<>>]
    /\ lost = [s \in Source |-> {}]
    /\ late = 0

----------------------------------------------------------------------------
(* The queue.                                                               *)

InQueue(q) == UNION {{<<s, i>> : i \in 1 .. Len(q[s])} : s \in Source}

Full(q) == Cardinality(InQueue(q)) >= Size

\* Two slips: only the latest event is kept, and the latest event goes first.
EnqueueLatest(q, n) == <<n>>
EnqueueFirst(q, n)  == <<n>> \o q

\* try_enqueue into the sub-queue of the calling thread.
Enqueue(q, n) == Append(q, n)

\* EventEngine::push: the result of try_enqueue is ignored.
Push(s) ==
    LET n == pushed[s] + 1
    IN  /\ pushed' = [pushed EXCEPT ![s] = n]
        /\ \/ /\ ~Full(queue)
              /\ queue' = [queue EXCEPT ![s] = Enqueue(@, n)]
              /\ UNCHANGED lost
           \/ /\ Full(queue)
              /\ lost' = [lost EXCEPT ![s] = @ \cup {n}]
              /\ UNCHANGED queue

\* A callback of a gateway's API: on_tick, on_order, on_trade.
ApiEvent(p) ==
    /\ pushed[p] < MaxPush
    /\ Push(p)
    /\ UNCHANGED <<loopVars, timerVars, handlers, now>>

----------------------------------------------------------------------------
(* The main thread, and whoever stops the engine.                           *)

RegisterHandler(k) ==
    /\ loop = "new"
    /\ handlers[k] < MaxHandlers
    /\ handlers' = [handlers EXCEPT ![k] = @ + 1]
    /\ UNCHANGED <<queueVars, loopVars, timerVars, now>>

\* start() joins the event thread: it is called once and blocks until run ends.
Start ==
    /\ loop = "new"
    /\ active' = TRUE
    /\ loop' = "test"
    /\ UNCHANGED <<queueVars, current, left, ran, late, timerVars, handlers, now>>

\* Nothing wakes the event thread.
Stop ==
    /\ active' = FALSE
    /\ UNCHANGED <<queueVars, loop, current, left, ran, late, timerVars, handlers, now>>

----------------------------------------------------------------------------
(* The event thread.                                                        *)

\* Two slips: the loop never looks at is_active_, and the loop ends with the queue.
GoesOnAlways == TRUE
GoesOnWhileBusy == \E s \in Source : queue[s] # <<>>

\* while(is_active_)
GoesOn == active

Test ==
    /\ loop = "test"
    /\ loop' = IF GoesOn THEN "waiting" ELSE "returned"
    /\ UNCHANGED <<queueVars, active, current, left, ran, late, timerVars, handlers, now>>

\* wait_dequeue, blocked while there is no event.
Dequeue(s) ==
    /\ loop = "waiting"
    /\ queue[s] # <<>>
    /\ queue' = [queue EXCEPT ![s] = Tail(@)]
    /\ current' = [from |-> s, n |-> Head(queue[s])]
    /\ left' = handlers[Kind(s)]
    /\ loop' = "handling"
    /\ late' = IF active THEN late ELSE late + 1
    /\ UNCHANGED <<pushed, lost, active, ran, timerVars, handlers, now>>

\* One callback of handlers_; the loop goes on after the last one.
Callback ==
    /\ loop = "handling"
    /\ left > 0
    /\ left' = left - 1
    /\ ran' = [ran EXCEPT ![current.from] = Append(@, current.n)]
    /\ UNCHANGED <<queueVars, active, loop, current, late, timerVars, handlers, now>>

AllCalled ==
    /\ loop = "handling"
    /\ left = 0
    /\ current' = NoEvent
    /\ loop' = "test"
    /\ UNCHANGED <<queueVars, active, left, ran, late, timerVars, handlers, now>>

----------------------------------------------------------------------------
(* Timers.                                                                  *)

\* A slip: the clock subtracted.
WakeBefore(t) == Latency[t] - now

WakeAt(t) == now + Latency[t]

\* From a strategy's init, before start, or from a callback.
AddTimer(t) ==
    /\ loop \in {"new", "handling"}
    /\ t \notin asleep
    /\ pushed[t] = 0
    /\ WakeAt(t) <= MaxTime
    /\ due' = [due EXCEPT ![t] = WakeAt(t)]
    /\ asleep' = asleep \cup {t}
    /\ UNCHANGED <<queueVars, loopVars, handlers, now>>

\* sleep_for returns some time after the latency.
Slept(t) == now >= due[t]

\* The end of _add_timer.
Expire(t) ==
    /\ t \in asleep
    /\ Slept(t)
    /\ Push(t)
    /\ asleep' = asleep \ {t}
    /\ UNCHANGED <<loopVars, due, handlers, now>>

Tick ==
    /\ now < MaxTime
    /\ now' = now + 1
    /\ UNCHANGED <<queueVars, loopVars, timerVars, handlers>>

----------------------------------------------------------------------------

EventThread == Test \/ (\E s \in Source : Dequeue(s)) \/ Callback \/ AllCalled

Next ==
    \/ \E p \in Producer : ApiEvent(p)
    \/ \E k \in Kinds : RegisterHandler(k)
    \/ Start
    \/ Stop
    \/ EventThread
    \/ \E t \in Timer : AddTimer(t) \/ Expire(t)
    \/ Tick

Spec == Init /\ [][Next]_vars

(* The event thread is scheduled, a dequeue returns when there is an event, *)
(* time passes and a sleep ends.  Nobody has to push, start or stop.        *)
Fairness ==
    /\ WF_vars(EventThread)
    /\ WF_vars(Tick)
    /\ \A t \in Timer : WF_vars(Expire(t))

FairSpec == Spec /\ Fairness

----------------------------------------------------------------------------
(* Correctness.                                                             *)

\* The types of the queue, of the loop's state and of the timers.
TypeOK ==
    /\ queue \in [Source -> Seq(Nat)]
    /\ pushed \in [Source -> Nat]
    /\ handlers \in [Kinds -> Nat]
    /\ active \in BOOLEAN
    /\ loop \in {"new", "test", "waiting", "handling", "returned"}
    /\ current \in [from : Source, n : Nat] \cup {NoEvent}
    /\ left \in Nat
    /\ due \in [Timer -> Nat]
    /\ asleep \subseteq Timer
    /\ now \in Nat
    /\ ran \in [Source -> Seq(Nat)]
    /\ lost \in [Source -> SUBSET Nat]
    /\ late \in Nat

Waits(s, n) == \E i \in 1 .. Len(queue[s]) : queue[s][i] = n

Calls(s, n) == Cardinality({i \in 1 .. Len(ran[s]) : ran[s][i] = n})

\* Every pushed event is lost, or waits, or is given to every handler of its type
\* exactly once, whatever pushes, timers and stops come in between.
EveryHandlerOnce ==
    \A s \in Source : \A n \in 1 .. pushed[s] :
        Calls(s, n) =
            CASE n \in lost[s] \/ Waits(s, n)   -> 0
              [] current = [from |-> s, n |-> n] -> handlers[Kind(s)] - left
              [] OTHER                           -> handlers[Kind(s)]

\* The handlers see the events of one thread in the order that thread pushed them.
\* process_on_trade relies on it: the report of a match must come before its trade.
HandledInOrder ==
    \A s \in Source : \A i, j \in 1 .. Len(ran[s]) : i < j => ran[s][i] <= ran[s][j]

\* After stop() at most one more event is taken, wherever in the loop stop found the
\* event thread.
OneAfterStop == late <= 1

\* While the engine is not stopped, what is in the queue is taken from it.
Drains ==
    \A s \in Source : (loop # "new" /\ queue[s] # <<>>) ~> (queue[s] = <<>> \/ ~active)

\* stop() takes effect as soon as there is an event to wake the event thread.
StopReturns ==
    (loop # "new" /\ ~active /\ \E s \in Source : queue[s] # <<>>) ~> (loop = "returned")

\* A timer that was added is handled in the end, unless the queue was full or the engine
\* does not run.
TimerFires ==
    \A t \in Timer : t \in asleep ~> (loop = "new" \/ ~active \/ lost[t] # {}
                                        \/ (pushed[t] = 1 /\ queue[t] = <<>>))
=============================================================================
