--------------------------- MODULE EventEngine_proofs ---------------------------
(* What holds of EventEngine for any number of threads, timers and events    *)
(* and for a queue of any size.                                              *)
EXTENDS EventEngine, Counting

USE SourcesAssumption, LatencyAssumption, BoundsAssumption

\* A push appends a number to one queue, or notes it as lost.
LEMMA PushType ==
    ASSUME TypeOK, NEW s \in Source, Push(s)
    PROVE  /\ queue' \in [Source -> Seq(Nat)]
           /\ pushed' \in [Source -> Nat]
           /\ lost' \in [Source -> SUBSET Nat]
<1> USE DEF TypeOK
<1>1. pushed[s] + 1 \in Nat
    OBVIOUS
<1>2. pushed' \in [Source -> Nat]
    BY <1>1 DEF Push
<1>3. CASE queue' = queue /\ lost' = [lost EXCEPT ![s] = @ \cup {pushed[s] + 1}]
    BY <1>1, <1>2, <1>3
<1>4. CASE queue' = [queue EXCEPT ![s] = Append(@, pushed[s] + 1)] /\ lost' = lost
    BY <1>1, <1>2, <1>4
<1>5. QED BY <1>3, <1>4 DEF Push, Enqueue

\* Every step of every thread keeps the types.
LEMMA TypeInductive == TypeOK /\ [Next]_vars => TypeOK'
<1> SUFFICES ASSUME TypeOK, [Next]_vars PROVE TypeOK'
    OBVIOUS
<1> USE DEF TypeOK
<1>1. ASSUME NEW p \in Producer, ApiEvent(p) PROVE TypeOK'
    BY <1>1, PushType DEF ApiEvent, Source, loopVars, timerVars
<1>2. ASSUME NEW k \in Kinds, RegisterHandler(k) PROVE TypeOK'
    BY <1>2 DEF RegisterHandler, queueVars, loopVars, timerVars
<1>3. CASE Start
    BY <1>3 DEF Start, queueVars, timerVars
<1>4. CASE Stop
    BY <1>4 DEF Stop, queueVars, timerVars
<1>5. CASE Test
    BY <1>5 DEF Test, queueVars, timerVars
<1>6. ASSUME NEW s \in Source, Dequeue(s) PROVE TypeOK'
    <2>1. queue[s] \in Seq(Nat) /\ queue[s] # <<>>
        BY <1>6 DEF Dequeue
    <2>2. Head(queue[s]) \in Nat /\ Tail(queue[s]) \in Seq(Nat)
        BY <2>1
    <2>3. queue' \in [Source -> Seq(Nat)]
        BY <1>6, <2>2 DEF Dequeue
    <2>4. current' \in [from : Source, n : Nat]
        BY <1>6, <2>2 DEF Dequeue
    <2>5. left' \in Nat /\ late' \in Nat
        BY <1>6 DEF Dequeue, Kind, Kinds
    <2>6. QED BY <1>6, <2>3, <2>4, <2>5 DEF Dequeue, timerVars
<1>7. CASE Callback
    <2>1. left' \in Nat
        BY <1>7 DEF Callback
    <2>2. ran' \in [Source -> Seq(Nat)]
        <3>1. CASE current = NoEvent
            <4>1. current.from \notin Source
                BY <3>1 DEF NoEvent
            <4>2. ran' = ran
                BY <1>7, <4>1 DEF Callback
            <4>3. QED BY <4>2
        <3>2. CASE current \in [from : Source, n : Nat]
            <4>1. Append(ran[current.from], current.n) \in Seq(Nat)
                BY <3>2
            <4>2. QED BY <1>7, <3>2, <4>1 DEF Callback
        <3>3. QED BY <3>1, <3>2
    <2>3. QED BY <1>7, <2>1, <2>2 DEF Callback, queueVars, timerVars
<1>8. CASE AllCalled
    BY <1>8 DEF AllCalled, queueVars, timerVars
<1>9. ASSUME NEW t \in Timer, AddTimer(t) PROVE TypeOK'
    <2>1. WakeAt(t) \in Nat
        BY DEF WakeAt
    <2>2. QED BY <1>9, <2>1 DEF AddTimer, queueVars, loopVars
<1>10. ASSUME NEW t \in Timer, Expire(t) PROVE TypeOK'
    BY <1>10, PushType DEF Expire, Source, loopVars
<1>11. CASE Tick
    BY <1>11 DEF Tick, queueVars, loopVars, timerVars
<1>12. CASE UNCHANGED vars
    BY <1>12 DEF vars, queueVars, loopVars, timerVars
<1>13. QED
    BY <1>1, <1>2, <1>3, <1>4, <1>5, <1>6, <1>7, <1>8, <1>9, <1>10, <1>11, <1>12
    DEF Next, EventThread

\* The queue, the loop and the timers keep their types in every run.
THEOREM TypeCorrect == Spec => []TypeOK
<1>1. Init => TypeOK
    BY DEF Init, TypeOK, NoEvent
<1>2. QED BY <1>1, TypeInductive, PTL DEF Spec

----------------------------------------------------------------------------

\* An event taken after stop() is the last one: the loop tests is_active_ before it takes
\* another.
LastEvent ==
    \/ late = 0
    \/ late = 1 /\ ~active /\ loop \in {"handling", "test", "returned"}

\* Stop takes effect after at most one event, in whatever part of the loop it finds the
\* event thread.
THEOREM OneAfterStopCorrect == Spec => []OneAfterStop
<1>1. Init => LastEvent
    BY DEF Init, LastEvent
<1>2. LastEvent /\ [Next]_vars => LastEvent'
    <2> SUFFICES ASSUME LastEvent, [Next]_vars PROVE LastEvent'
        OBVIOUS
    <2> USE DEF LastEvent
    <2>1. CASE Test
        BY <2>1 DEF Test, GoesOn
    <2>2. ASSUME NEW s \in Source, Dequeue(s) PROVE LastEvent'
        BY <2>2 DEF Dequeue
    <2>3. QED
        BY <2>1, <2>2
        DEF Next, EventThread, ApiEvent, RegisterHandler, Start, Stop, Callback, AllCalled,
            AddTimer, Expire, Tick, vars, loopVars
<1>3. LastEvent => OneAfterStop
    BY DEF LastEvent, OneAfterStop
<1>4. QED BY <1>1, <1>2, <1>3, PTL DEF Spec

----------------------------------------------------------------------------

\* The numbers of one thread's events grow: from those the callbacks have seen, over the
\* one in hand, through the queue, to the last one pushed.
Ordered(s) ==
    /\ \A i, j \in 1 .. Len(queue[s]) : i < j => queue[s][i] < queue[s][j]
    /\ \A i, j \in 1 .. Len(ran[s]) : i < j => ran[s][i] <= ran[s][j]
    /\ \A i \in 1 .. Len(ran[s]), j \in 1 .. Len(queue[s]) : ran[s][i] < queue[s][j]
    /\ \A i \in 1 .. Len(queue[s]) : queue[s][i] <= pushed[s]
    /\ \A i \in 1 .. Len(ran[s]) : ran[s][i] <= pushed[s]
    /\ current.from = s =>
          /\ \A i \in 1 .. Len(ran[s]) : ran[s][i] <= current.n
          /\ \A i \in 1 .. Len(queue[s]) : current.n < queue[s][i]
          /\ current.n <= pushed[s]

\* The numbers in the queue, in hand and seen are natural numbers.
LEMMA NumbersType ==
    ASSUME TypeOK, NEW s \in Source
    PROVE  /\ queue[s] \in Seq(Nat) /\ ran[s] \in Seq(Nat)
           /\ \A i \in 1 .. Len(queue[s]) : queue[s][i] \in Nat
           /\ \A i \in 1 .. Len(ran[s]) : ran[s][i] \in Nat
           /\ pushed[s] \in Nat
           /\ current.from = s => current.n \in Nat
<1>1. queue[s] \in Seq(Nat) /\ ran[s] \in Seq(Nat) /\ pushed[s] \in Nat
    BY DEF TypeOK
<1>2. \A i \in 1 .. Len(queue[s]) : queue[s][i] \in Nat
    BY <1>1
<1>3. \A i \in 1 .. Len(ran[s]) : ran[s][i] \in Nat
    BY <1>1
<1>4. ASSUME current.from = s PROVE current.n \in Nat
    <2>1. current \in [from : Source, n : Nat] \/ current = NoEvent
        BY DEF TypeOK
    <2>2. CASE current = NoEvent
        BY <1>4, <2>2, SourcesAssumption DEF NoEvent
    <2>3. CASE current \in [from : Source, n : Nat]
        BY <2>3
    <2>4. QED BY <2>1, <2>2, <2>3
<1>5. QED BY <1>1, <1>2, <1>3, <1>4

\* A push puts the largest number of its thread at the tail.
LEMMA PushOrdered ==
    ASSUME TypeOK, NEW p \in Source, Push(p), UNCHANGED <<ran, current>>,
           NEW s \in Source, Ordered(s)
    PROVE  Ordered(s)'
<1>1. /\ queue \in [Source -> Seq(Nat)] /\ pushed \in [Source -> Nat]
      /\ ran \in [Source -> Seq(Nat)]
      /\ current \in [from : Source, n : Nat] \cup {NoEvent}
    BY DEF TypeOK
<1>2. CASE queue'[s] = queue[s] /\ pushed'[s] = pushed[s]
    BY <1>2 DEF Ordered
<1>3. CASE queue'[s] = queue[s] /\ pushed'[s] = pushed[s] + 1
    <2>1. /\ \A i \in 1 .. Len(queue[s]) : queue[s][i] \in Nat
          /\ \A i \in 1 .. Len(ran[s]) : ran[s][i] \in Nat
          /\ pushed[s] \in Nat
          /\ current.from = s => current.n \in Nat
        BY NumbersType
    <2>2. ran'[s] = ran[s] /\ current' = current
        OBVIOUS
    <2>3. QED BY <1>3, <2>1, <2>2 DEF Ordered
<1>4. CASE queue'[s] = Append(queue[s], pushed[s] + 1) /\ pushed'[s] = pushed[s] + 1
    <2>1. PICK len \in Nat : len = Len(queue[s])
        BY NumbersType
    <2>2. /\ Len(queue'[s]) = len + 1
          /\ \A i \in 1 .. len : queue'[s][i] = queue[s][i]
          /\ queue'[s][len + 1] = pushed[s] + 1
        <3>1. queue[s] \in Seq(Nat) /\ pushed[s] + 1 \in Nat
            BY NumbersType
        <3>2. QED BY <1>4, <2>1, <3>1
    <2>3. /\ \A i \in 1 .. len : queue[s][i] \in Nat
          /\ \A i \in 1 .. Len(ran[s]) : ran[s][i] \in Nat
          /\ pushed[s] \in Nat
          /\ current.from = s => current.n \in Nat
        BY <2>1, NumbersType
    <2>4. \A i \in 1 .. len + 1 : i \in 1 .. len \/ i = len + 1
        BY <2>1
    <2>5. /\ \A i, j \in 1 .. len : i < j => queue[s][i] < queue[s][j]
          /\ \A i \in 1 .. Len(ran[s]), j \in 1 .. len : ran[s][i] < queue[s][j]
          /\ \A i \in 1 .. len : queue[s][i] <= pushed[s]
          /\ \A i \in 1 .. Len(ran[s]) : ran[s][i] <= pushed[s]
          /\ current.from = s => /\ \A i \in 1 .. len : current.n < queue[s][i]
                                 /\ current.n <= pushed[s]
        BY <2>1 DEF Ordered
    <2>6. ASSUME NEW i \in 1 .. len + 1, NEW j \in 1 .. len + 1, i < j
          PROVE  queue'[s][i] < queue'[s][j]
        <3>1. i \in 1 .. len
            BY <2>1, <2>6
        <3>2. CASE j \in 1 .. len
            BY <2>2, <2>5, <2>6, <3>1, <3>2
        <3>3. CASE j = len + 1
            <4>1. queue[s][i] \in Nat /\ queue[s][i] <= pushed[s]
                BY <2>3, <2>5, <3>1
            <4>2. queue'[s][i] = queue[s][i] /\ queue'[s][j] = pushed[s] + 1
                BY <2>2, <3>1, <3>3
            <4>3. PICK a \in Nat, b \in Nat : a = queue[s][i] /\ b = pushed[s]
                BY <2>3, <4>1
            <4>4. QED BY <4>1, <4>2, <4>3
        <3>4. QED BY <2>4, <3>2, <3>3
    <2>7. ASSUME NEW i \in 1 .. Len(ran[s]), NEW j \in 1 .. len + 1
          PROVE  ran[s][i] < queue'[s][j]
        <3>1. CASE j \in 1 .. len
            BY <2>2, <2>5, <3>1
        <3>2. CASE j = len + 1
            <4>1. ran[s][i] \in Nat /\ ran[s][i] <= pushed[s]
                BY <2>3, <2>5
            <4>2. QED BY <2>2, <2>3, <3>2, <4>1
        <3>3. QED BY <2>4, <3>1, <3>2
    <2>8. ASSUME NEW i \in 1 .. len + 1
          PROVE  queue'[s][i] <= pushed'[s]
        <3>1. CASE i \in 1 .. len
            <4>1. queue[s][i] \in Nat /\ queue[s][i] <= pushed[s]
                BY <2>3, <2>5, <3>1
            <4>2. QED BY <1>4, <2>2, <2>3, <3>1, <4>1
        <3>2. CASE i = len + 1
            BY <1>4, <2>2, <2>3, <3>2
        <3>3. QED BY <2>4, <3>1, <3>2
    <2>9. \A i \in 1 .. Len(ran[s]) : ran[s][i] <= pushed'[s]
        BY <1>4, <2>3, <2>5
    <2>10. current.from = s => /\ \A i \in 1 .. len + 1 : current.n < queue'[s][i]
                               /\ current.n <= pushed'[s]
        BY <1>4, <2>2, <2>3, <2>4, <2>5
    <2>11. QED
        BY <2>2, <2>6, <2>7, <2>8, <2>9, <2>10 DEF Ordered
<1>5. QED BY <1>1, <1>2, <1>3, <1>4 DEF Push, Enqueue

\* A dequeue takes the smallest number that waits.
LEMMA DequeueOrdered ==
    ASSUME TypeOK, NEW p \in Source, Dequeue(p), NEW s \in Source, Ordered(s)
    PROVE  Ordered(s)'
<1>1. /\ queue \in [Source -> Seq(Nat)] /\ ran \in [Source -> Seq(Nat)]
      /\ ran' = ran /\ pushed' = pushed
      /\ queue[p] # <<>> /\ queue' = [queue EXCEPT ![p] = Tail(@)]
      /\ current' = [from |-> p, n |-> Head(queue[p])]
    BY DEF TypeOK, Dequeue
<1>2. CASE s # p
    BY <1>1, <1>2 DEF Ordered
<1>3. CASE s = p
    <2>1. PICK len \in Nat \ {0} : len = Len(queue[s])
        BY <1>1, <1>3
    <2>2. /\ Len(queue'[s]) = len - 1
          /\ \A i \in 1 .. len - 1 : queue'[s][i] = queue[s][i + 1]
          /\ current'.n = queue[s][1] /\ 1 \in 1 .. len
        BY <1>1, <1>3, <2>1
    <2>3. \A i \in 1 .. len - 1 : i + 1 \in 1 .. len /\ 1 < i + 1
        BY <2>1
    <2>4. /\ \A i \in 1 .. len : queue[s][i] \in Nat
          /\ \A i \in 1 .. Len(ran[s]) : ran[s][i] \in Nat
        BY <2>1, NumbersType
    <2>5. /\ \A i, j \in 1 .. len : i < j => queue[s][i] < queue[s][j]
          /\ \A i, j \in 1 .. Len(ran[s]) : i < j => ran[s][i] <= ran[s][j]
          /\ \A i \in 1 .. Len(ran[s]), j \in 1 .. len : ran[s][i] < queue[s][j]
          /\ \A i \in 1 .. len : queue[s][i] <= pushed[s]
          /\ \A i \in 1 .. Len(ran[s]) : ran[s][i] <= pushed[s]
        BY <2>1 DEF Ordered
    <2>6. ASSUME NEW i \in 1 .. len - 1, NEW j \in 1 .. len - 1, i < j
          PROVE  queue'[s][i] < queue'[s][j]
        <3>1. i + 1 < j + 1 /\ i + 1 \in 1 .. len /\ j + 1 \in 1 .. len
            BY <2>1, <2>6
        <3>2. QED BY <2>2, <2>5, <3>1
    <2>7. \A i \in 1 .. Len(ran[s]), j \in 1 .. len - 1 : ran[s][i] < queue'[s][j]
        BY <2>2, <2>3, <2>5
    <2>8. \A i \in 1 .. len - 1 : queue'[s][i] <= pushed[s] /\ current'.n < queue'[s][i]
        BY <2>2, <2>3, <2>5
    <2>9. current'.n <= pushed[s] /\ \A i \in 1 .. Len(ran[s]) : ran[s][i] <= current'.n
        BY <2>2, <2>4, <2>5
    <2>10. QED
        BY <1>1, <2>2, <2>5, <2>6, <2>7, <2>8, <2>9 DEF Ordered
<1>4. QED BY <1>2, <1>3

\* A callback sees the event in hand, which is past all that were seen before.
LEMMA CallbackOrdered ==
    ASSUME TypeOK, Callback, NEW s \in Source, Ordered(s)
    PROVE  Ordered(s)'
<1>1. /\ ran \in [Source -> Seq(Nat)] /\ queue' = queue /\ pushed' = pushed
      /\ current' = current /\ ran' = [ran EXCEPT ![current.from] = Append(@, current.n)]
    BY DEF TypeOK, Callback, queueVars
<1>2. CASE s # current.from
    BY <1>1, <1>2 DEF Ordered
<1>3. CASE s = current.from
    <2>1. current.n \in Nat /\ ran[s] \in Seq(Nat) /\ ran'[s] = Append(ran[s], current.n)
        BY <1>1, <1>3 DEF TypeOK, NoEvent
    <2>2. PICK len \in Nat : len = Len(ran[s])
        BY <2>1
    <2>3. /\ Len(ran'[s]) = len + 1
          /\ \A i \in 1 .. len : ran'[s][i] = ran[s][i]
          /\ ran'[s][len + 1] = current.n
        BY <2>1, <2>2
    <2>4. \A i \in 1 .. len + 1 : i \in 1 .. len \/ i = len + 1
        BY <2>2
    <2>5. QED
        <3>1. /\ \A i, j \in 1 .. len : i < j => ran[s][i] <= ran[s][j]
              /\ \A i \in 1 .. len, j \in 1 .. Len(queue[s]) : ran[s][i] < queue[s][j]
              /\ \A i \in 1 .. len : ran[s][i] <= pushed[s]
              /\ \A i \in 1 .. len : ran[s][i] <= current.n
              /\ \A i \in 1 .. Len(queue[s]) : current.n < queue[s][i]
              /\ current.n <= pushed[s]
            BY <1>3, <2>2 DEF Ordered
        <3>2. \A i, j \in 1 .. len + 1 : i < j => ran'[s][i] <= ran'[s][j]
            BY <2>2, <2>3, <2>4, <3>1
        <3>3. \A i \in 1 .. len + 1, j \in 1 .. Len(queue[s]) : ran'[s][i] < queue[s][j]
            BY <2>3, <2>4, <3>1
        <3>4. \A i \in 1 .. len + 1 : ran'[s][i] <= pushed[s] /\ ran'[s][i] <= current.n
            BY <2>1, <2>3, <2>4, <3>1
        <3>5. QED
            BY <1>1, <2>3, <3>1, <3>2, <3>3, <3>4 DEF Ordered
<1>4. QED BY <1>2, <1>3

\* The handlers see the events of each thread in the order in which it pushed them,
\* whatever other threads push in between and however many events are lost.
THEOREM HandledInOrderCorrect == Spec => []HandledInOrder
<1> DEFINE AllOrdered == \A s \in Source : Ordered(s)
<1>1. Init => AllOrdered
    BY DEF Init, Ordered, NoEvent
<1>2. TypeOK /\ AllOrdered /\ [Next]_vars => AllOrdered'
    <2> SUFFICES ASSUME TypeOK, AllOrdered, [Next]_vars, NEW s \in Source PROVE Ordered(s)'
        OBVIOUS
    <2>1. ASSUME NEW p \in Source, Push(p), UNCHANGED <<ran, current>> PROVE Ordered(s)'
        BY <2>1, PushOrdered
    <2>2. ASSUME NEW p \in Source, Dequeue(p) PROVE Ordered(s)'
        BY <2>2, DequeueOrdered
    <2>3. CASE Callback
        BY <2>3, CallbackOrdered
    <2>4. CASE AllCalled
        BY <2>4 DEF AllCalled, Ordered, NoEvent, queueVars
    <2>5. CASE UNCHANGED <<queue, pushed, ran, current>>
        BY <2>5 DEF Ordered
    <2>6. QED
        BY <2>1, <2>2, <2>3, <2>4, <2>5
        DEF Next, EventThread, ApiEvent, RegisterHandler, Start, Stop, Test, AddTimer,
            Expire, Tick, Source, vars, queueVars, loopVars
<1>3. AllOrdered => HandledInOrder
    BY DEF Ordered, HandledInOrder
<1>4. QED BY <1>1, <1>2, <1>3, TypeCorrect, PTL DEF Spec

----------------------------------------------------------------------------
(* Every event reaches every handler once.                                  *)

\* How often the handlers must have seen event n of s.
Given(s, n) ==
    IF n \in lost[s] \/ Waits(s, n) THEN 0
    ELSE IF current = [from |-> s, n |-> n] THEN handlers[Kind(s)] - left
    ELSE handlers[Kind(s)]

\* Every event of s is in one place, and was given to as many handlers as that place says.
\* As long as handlers may be registered, none has been taken from the queue.
Accounted(s) ==
    /\ \A n \in lost[s] : n \in 1 .. pushed[s] /\ ~Waits(s, n) /\ current # [from |-> s, n |-> n]
    /\ \A i \in 1 .. Len(queue[s]) : queue[s][i] >= 1
    /\ \A n \in 1 .. pushed[s] : Times(ran[s], n) = Given(s, n)
    /\ loop = "new" => \A n \in 1 .. pushed[s] : n \in lost[s] \/ Waits(s, n)

\* An event is in hand exactly while it is handled.
InHand == loop = "handling" <=> current # NoEvent

\* A push adds an event that waits or is lost.
LEMMA PushAccounted ==
    ASSUME TypeOK, NEW p \in Source, Push(p), UNCHANGED <<ran, current, loop, left, handlers>>,
           NEW s \in Source, Ordered(s), Accounted(s)
    PROVE  Accounted(s)'
<1>1. /\ queue[s] \in Seq(Nat) /\ ran[s] \in Seq(Nat) /\ pushed[s] \in Nat
      /\ \A i \in 1 .. Len(queue[s]) : queue[s][i] \in Nat
      /\ \A i \in 1 .. Len(ran[s]) : ran[s][i] \in Nat
      /\ current.from = s => current.n \in Nat
    BY NumbersType
<1>2. queue \in [Source -> Seq(Nat)] /\ pushed \in [Source -> Nat] /\ lost \in [Source -> SUBSET Nat]
    BY DEF TypeOK
<1>3. CASE s # p
    <2>1. UNCHANGED <<queue[s], pushed[s], lost[s]>>
        BY <1>2, <1>3 DEF Push
    <2>. QED BY <2>1 DEF Accounted, Given, Waits
<1>4. CASE s = p
    <2>1. PICK m \in Nat : m = pushed[s] + 1
        BY <1>1
    <2>2. pushed'[s] = m
        BY <1>2, <1>4, <2>1 DEF Push
    <2>3. \A n \in 1 .. m : n \in 1 .. pushed[s] \/ n = m
        BY <1>1, <2>1
    <2>4. Times(ran[s], m) = 0
        <3>1. \A i \in 1 .. Len(ran[s]) : ran[s][i] # m
            BY <1>1, <2>1 DEF Ordered
        <3>. QED BY <1>1, <3>1, TimesAbsent
    <2>5. ~Waits(s, m) /\ current # [from |-> s, n |-> m] /\ m \notin lost[s]
        <3>1. \A i \in 1 .. Len(queue[s]) : queue[s][i] # m
            BY <1>1, <2>1 DEF Ordered
        <3>2. current.from = s => current.n # m
            BY <1>1, <2>1 DEF Ordered
        <3>3. m \notin 1 .. pushed[s]
            BY <1>1, <2>1
        <3>. QED BY <3>1, <3>2, <3>3 DEF Waits, Accounted
    <2>6. CASE queue'[s] = Append(queue[s], m) /\ lost'[s] = lost[s]
        <3>1. /\ Len(queue[s]) \in Nat /\ Len(queue'[s]) = Len(queue[s]) + 1
              /\ \A i \in 1 .. Len(queue[s]) : queue'[s][i] = queue[s][i]
              /\ queue'[s][Len(queue[s]) + 1] = m
            BY <1>1, <2>6
        <3>2. \A n \in Nat : Waits(s, n)' <=> Waits(s, n) \/ n = m
            <4>1. PICK len \in Nat : len = Len(queue[s])
                BY <3>1
            <4>2. 1 .. len + 1 = 1 .. len \cup {len + 1} /\ Len(queue'[s]) = len + 1
                BY <3>1, <4>1
            <4>. QED BY <3>1, <4>1, <4>2 DEF Waits
        <3>3. \A n \in 1 .. pushed[s] : n # m /\ n \in Nat /\ n \in 1 .. m
            BY <1>1, <2>1
        <3>4. \A n \in 1 .. pushed[s] : Given(s, n)' = Given(s, n)
            BY <2>6, <3>2, <3>3 DEF Given
        <3>5. Given(s, m)' = 0
            BY <3>2 DEF Given
        <3>6. \A i \in 1 .. Len(queue'[s]) : queue'[s][i] >= 1
            <4>1. PICK len \in Nat : len = Len(queue[s])
                BY <3>1
            <4>2. 1 .. len + 1 = 1 .. len \cup {len + 1} /\ Len(queue'[s]) = len + 1
                BY <3>1, <4>1
            <4>3. m >= 1 /\ \A i \in 1 .. len : queue[s][i] >= 1
                BY <1>1, <2>1, <4>1 DEF Accounted
            <4>. QED BY <3>1, <4>1, <4>2, <4>3
        <3>7. \A n \in lost'[s] : n \in 1 .. m /\ ~Waits(s, n)' /\ current' # [from |-> s, n |-> n]
            BY <2>6, <3>2, <3>3 DEF Accounted
        <3>8. loop' = "new" => \A n \in 1 .. m : n \in lost'[s] \/ Waits(s, n)'
            BY <2>3, <2>6, <3>2, <3>3 DEF Accounted
        <3>9. \A n \in 1 .. m : Times(ran'[s], n) = Given(s, n)'
            BY <2>3, <2>4, <3>4, <3>5 DEF Accounted
        <3>. QED BY <2>2, <3>6, <3>7, <3>8, <3>9 DEF Accounted
    <2>7. CASE queue'[s] = queue[s] /\ lost'[s] = lost[s] \cup {m}
        <3>1. \A n : Waits(s, n)' <=> Waits(s, n)
            BY <2>7 DEF Waits
        <3>2. \A n \in 1 .. pushed[s] : n # m /\ n \in 1 .. m
            BY <1>1, <2>1
        <3>3. \A n \in 1 .. pushed[s] : Given(s, n)' = Given(s, n)
            BY <2>7, <3>1, <3>2 DEF Given
        <3>4. Given(s, m)' = 0
            BY <2>7 DEF Given
        <3>5. \A n \in lost'[s] : n \in 1 .. m /\ ~Waits(s, n)' /\ current' # [from |-> s, n |-> n]
            BY <2>1, <1>1, <2>5, <2>7, <3>1, <3>2 DEF Accounted
        <3>6. loop' = "new" => \A n \in 1 .. m : n \in lost'[s] \/ Waits(s, n)'
            BY <2>3, <2>7, <3>1 DEF Accounted
        <3>7. \A n \in 1 .. m : Times(ran'[s], n) = Given(s, n)'
            BY <2>3, <2>4, <3>3, <3>4 DEF Accounted
        <3>. QED BY <2>2, <2>7, <3>5, <3>6, <3>7 DEF Accounted
    <2>8. \/ queue'[s] = Append(queue[s], m) /\ lost'[s] = lost[s]
          \/ queue'[s] = queue[s] /\ lost'[s] = lost[s] \cup {m}
        BY <1>2, <1>4, <2>1 DEF Push, Enqueue
    <2>. QED BY <2>6, <2>7, <2>8
<1>. QED BY <1>3, <1>4

\* The event that is taken has been given to nobody, and every handler is still to come.
LEMMA DequeueAccounted ==
    ASSUME TypeOK, InHand, NEW p \in Source, Dequeue(p), UNCHANGED handlers,
           NEW s \in Source, Ordered(s), Accounted(s)
    PROVE  Accounted(s)'
<1>1. /\ queue \in [Source -> Seq(Nat)] /\ pushed' = pushed /\ lost' = lost /\ ran' = ran
      /\ queue[p] # <<>> /\ queue' = [queue EXCEPT ![p] = Tail(@)] /\ loop' = "handling"
      /\ current' = [from |-> p, n |-> Head(queue[p])] /\ left' = handlers[Kind(p)]
      /\ current = NoEvent
    BY DEF TypeOK, Dequeue, InHand
<1>2. \A n : current # [from |-> s, n |-> n]
    BY <1>1 DEF NoEvent
<1>3. CASE s # p
    <2>1. queue'[s] = queue[s] /\ \A n : current' # [from |-> s, n |-> n]
        BY <1>1, <1>3
    <2>. QED BY <1>1, <1>2, <2>1 DEF Accounted, Given, Waits
<1>4. CASE s = p
    <2>1. PICK len \in Nat \ {0} : len = Len(queue[s])
        BY <1>1, <1>4
    <2>2. /\ Len(queue'[s]) = len - 1 /\ 1 \in 1 .. len
          /\ \A i \in 1 .. len - 1 : queue'[s][i] = queue[s][i + 1] /\ i + 1 \in 1 .. len /\ 1 < i + 1
          /\ queue[s] \in Seq(Nat)
        BY <1>1, <1>4, <2>1
    <2>3. PICK m \in Nat : m = queue[s][1] /\ m = Head(queue[s])
        BY <1>1, <1>4, <2>2
    <2>4. ~Waits(s, m)'
        <3>1. \A i \in 1 .. len - 1 : queue[s][1] < queue[s][i + 1]
            BY <2>1, <2>2 DEF Ordered
        <3>. QED BY <2>2, <2>3, <3>1 DEF Waits
    <2>5. Waits(s, m) /\ m \notin lost[s]
        BY <2>1, <2>2, <2>3 DEF Waits, Accounted
    <2>6. \A n : n # m => (Waits(s, n)' <=> Waits(s, n))
        <3>1. \A i \in 1 .. len : i = 1 \/ \E j \in 1 .. len - 1 : i = j + 1
            <4>1. \A i \in 1 .. len : i # 1 => i - 1 \in 1 .. len - 1 /\ i = (i - 1) + 1
                BY <2>1
            <4>. QED BY <4>1
        <3>2. ASSUME NEW n, n # m, Waits(s, n) PROVE Waits(s, n)'
            <4>1. PICK i \in 1 .. len : queue[s][i] = n
                BY <2>1, <3>2 DEF Waits
            <4>2. PICK j \in 1 .. len - 1 : i = j + 1
                BY <2>3, <3>1, <3>2, <4>1
            <4>. QED BY <2>2, <4>1, <4>2 DEF Waits
        <3>3. ASSUME NEW n, Waits(s, n)' PROVE Waits(s, n)
            BY <2>1, <2>2, <3>3 DEF Waits
        <3>. QED BY <3>2, <3>3
    <2>7. current' = [from |-> s, n |-> m] /\ left' = handlers[Kind(s)]
        BY <1>1, <1>4, <2>3
    <2>8. \A n : n # m => current' # [from |-> s, n |-> n]
        BY <2>7
    <2>9. \A n : n # m => Given(s, n)' = Given(s, n)
        BY <1>1, <1>2, <2>6, <2>8 DEF Given
    <2>10. Given(s, m)' = 0 /\ Given(s, m) = 0
        <3>1. handlers[Kind(s)] \in Nat
            BY DEF TypeOK, Kind, Kinds
        <3>2. Given(s, m)' = handlers'[Kind(s)] - left'
            BY <1>1, <2>4, <2>5, <2>7 DEF Given
        <3>3. Given(s, m) = 0
            BY <2>5 DEF Given
        <3>. QED BY <2>7, <3>1, <3>2, <3>3
    <2>11. \A n \in lost'[s] : n \in 1 .. pushed'[s] /\ ~Waits(s, n)' /\ current' # [from |-> s, n |-> n]
        BY <1>1, <2>5, <2>6, <2>8 DEF Accounted
    <2>12. \A i \in 1 .. Len(queue'[s]) : queue'[s][i] >= 1
        BY <2>1, <2>2 DEF Accounted
    <2>13. \A n \in 1 .. pushed'[s] : Times(ran'[s], n) = Given(s, n)'
        BY <1>1, <2>9, <2>10 DEF Accounted
    <2>. QED BY <1>1, <2>11, <2>12, <2>13 DEF Accounted
<1>. QED BY <1>3, <1>4

\* A callback gives the event in hand to one more handler.
LEMMA CallbackAccounted ==
    ASSUME TypeOK, InHand, Callback, UNCHANGED handlers,
           NEW s \in Source, Ordered(s), Accounted(s)
    PROVE  Accounted(s)'
<1>1. /\ ran \in [Source -> Seq(Nat)] /\ queue' = queue /\ pushed' = pushed /\ lost' = lost
      /\ current' = current /\ ran' = [ran EXCEPT ![current.from] = Append(@, current.n)]
      /\ left' = left - 1 /\ loop' = loop /\ loop = "handling"
      /\ current \in [from : Source, n : Nat]
    BY DEF TypeOK, Callback, InHand, queueVars
<1>2. \A n : Waits(s, n)' <=> Waits(s, n)
    BY <1>1 DEF Waits
<1>3. CASE s # current.from
    <2>1. ran'[s] = ran[s] /\ \A n : current # [from |-> s, n |-> n]
        BY <1>1, <1>3
    <2>2. \A n : Given(s, n)' = Given(s, n)
        BY <1>1, <1>2, <2>1 DEF Given
    <2>. QED BY <1>1, <1>2, <2>1, <2>2 DEF Accounted
<1>4. CASE s = current.from
    <2>1. PICK m \in Nat : current = [from |-> s, n |-> m]
        BY <1>1, <1>4
    <2>2. ran'[s] = Append(ran[s], m) /\ ran[s] \in Seq(Nat) /\ pushed[s] \in Nat
        BY <1>1, <1>4, <2>1 DEF TypeOK
    <2>3. ~Waits(s, m) /\ m \notin lost[s]
        <3>1. \A i \in 1 .. Len(queue[s]) : m < queue[s][i] /\ queue[s][i] \in Nat
            BY <2>1, NumbersType DEF Ordered
        <3>. QED BY <2>1, <3>1 DEF Waits, Accounted
    <2>4. PICK h \in Nat, l \in Nat : h = handlers[Kind(s)] /\ l = left
        BY DEF TypeOK, Kind, Kinds
    <2>5. Given(s, m) = h - l /\ Given(s, m)' = h - (l - 1)
        BY <1>1, <1>2, <2>1, <2>3, <2>4 DEF Given
    <2>6. \A n : n # m => Given(s, n)' = Given(s, n)
        BY <1>1, <1>2, <2>1 DEF Given
    <2>7. ASSUME NEW n \in 1 .. pushed[s] PROVE Times(ran'[s], n) = Given(s, n)'
        <3>1. n \in Nat /\ Times(ran[s], n) = Given(s, n)
            BY <2>2 DEF Accounted
        <3>2. CASE n = m
            <4>1. Times(ran'[s], n) = Times(ran[s], n) + 1 /\ Times(ran[s], n) \in Nat
                <5>1. Times(ran[s], n) \in Nat
                    BY <2>2, TimesType
                <5>2. Times(Append(ran[s], m), n) = Times(ran[s], n) + 1
                    BY <2>2, <3>2, TimesAppend
                <5>. QED BY <2>2, <5>1, <5>2
            <4>2. Given(s, n) = h - l /\ Given(s, n)' = h - (l - 1)
                BY <2>5, <3>2, Zenon
            <4>3. h - l + 1 = h - (l - 1)
                BY SMT
            <4>4. Times(ran'[s], n) = h - l + 1
                BY <3>1, <4>1, <4>2, Zenon
            <4>. QED BY <4>2, <4>3, <4>4, Zenon
        <3>3. CASE n # m
            <4>1. Times(ran'[s], n) = Times(ran[s], n)
                BY <2>2, <3>1, <3>3, TimesAppend
            <4>. QED BY <2>6, <3>1, <3>3, <4>1
        <3>. QED BY <3>2, <3>3
    <2>. QED BY <1>1, <1>2, <2>7 DEF Accounted
<1>. QED BY <1>3, <1>4

\* The event in hand is put aside once every handler has seen it.
LEMMA AllCalledAccounted ==
    ASSUME TypeOK, AllCalled, UNCHANGED handlers, NEW s \in Source, Accounted(s)
    PROVE  Accounted(s)'
<1>1. /\ UNCHANGED <<queue, pushed, lost, ran, left>> /\ current' = NoEvent
      /\ left = 0 /\ loop' = "test"
    BY DEF AllCalled, queueVars
<1>2. \A n : (Waits(s, n)' <=> Waits(s, n)) /\ current' # [from |-> s, n |-> n]
    BY <1>1 DEF Waits, NoEvent
<1>3. handlers[Kind(s)] \in Nat
    BY DEF TypeOK, Kind, Kinds
<1>4. \A n : Given(s, n)' = Given(s, n)
    BY <1>1, <1>2, <1>3 DEF Given
<1>. QED BY <1>1, <1>2, <1>4 DEF Accounted

\* Every event is given to every handler exactly once, or lost (EveryHandlerOnce): the push
\* of a full queue, a stop at any point and the timers' threads included.
THEOREM EveryHandlerOnceCorrect == Spec => []EveryHandlerOnce
<1> DEFINE Inv == InHand /\ \A s \in Source : Ordered(s) /\ Accounted(s)
<1>1. Init => Inv
    BY DEF Init, Ordered, Accounted, InHand, NoEvent, Waits
<1>2. TypeOK /\ Inv /\ [Next]_vars => Inv'
    <2> SUFFICES ASSUME TypeOK, Inv, [Next]_vars
                 PROVE  InHand' /\ \A s \in Source : Ordered(s)' /\ Accounted(s)'
        OBVIOUS
    <2>1. ASSUME NEW p \in Source, Push(p), UNCHANGED <<ran, current, loop, left, handlers>>
          PROVE  InHand' /\ \A s \in Source : Ordered(s)' /\ Accounted(s)'
        BY <2>1, PushOrdered, PushAccounted DEF InHand
    <2>2. ASSUME NEW p \in Source, Dequeue(p)
          PROVE  InHand' /\ \A s \in Source : Ordered(s)' /\ Accounted(s)'
        <3>1. InHand'
            BY <2>2 DEF Dequeue, InHand, NoEvent
        <3>2. UNCHANGED handlers
            BY <2>2 DEF Dequeue
        <3>. QED BY <2>2, <3>1, <3>2, DequeueOrdered, DequeueAccounted
    <2>3. CASE Callback
        <3>1. InHand' /\ UNCHANGED handlers
            BY <2>3 DEF Callback, InHand
        <3>. QED BY <2>3, <3>1, CallbackOrdered, CallbackAccounted
    <2>4. CASE AllCalled
        <3>1. InHand' /\ UNCHANGED handlers
            BY <2>4 DEF AllCalled, InHand
        <3>2. \A s \in Source : Ordered(s)'
            BY <2>4 DEF AllCalled, Ordered, NoEvent, queueVars
        <3>. QED BY <2>4, <3>1, <3>2, AllCalledAccounted
    <2>5. ASSUME NEW k \in Kinds, RegisterHandler(k)
          PROVE  InHand' /\ \A s \in Source : Ordered(s)' /\ Accounted(s)'
        <3>1. loop = "new" /\ UNCHANGED <<queue, pushed, ran, current, lost, loop, left>>
            BY <2>5 DEF RegisterHandler, queueVars, loopVars
        <3>2. ASSUME NEW s \in Source PROVE Accounted(s)'
            <4>1. \A n : Waits(s, n)' <=> Waits(s, n)
                BY <3>1 DEF Waits
            <4>2. \A n \in 1 .. pushed[s] : n \in lost[s] \/ Waits(s, n)
                BY <3>1 DEF Accounted
            <4>3. \A n \in 1 .. pushed[s] : Given(s, n)' = Given(s, n)
                BY <3>1, <4>1, <4>2 DEF Given
            <4>. QED BY <3>1, <4>1, <4>3 DEF Accounted
        <3>. QED BY <3>1, <3>2 DEF InHand, Ordered
    <2>6. CASE UNCHANGED <<queue, pushed, ran, current, lost, left, handlers>>
               /\ (loop' = loop \/ ({loop, loop'} \cap {"handling"} = {} /\ loop' # "new"))
        <3>1. InHand'
            BY <2>6 DEF InHand
        <3>2. ASSUME NEW s \in Source PROVE Accounted(s)'
            BY <2>6 DEF Accounted, Given, Waits
        <3>. QED BY <2>6, <3>1, <3>2 DEF Ordered
    <2>7. QED
        <3>1. ASSUME NEW p \in Producer, ApiEvent(p) PROVE p \in Source /\ Push(p) /\ UNCHANGED <<ran, current, loop, left, handlers>>
            BY <3>1 DEF ApiEvent, Source, loopVars
        <3>2. ASSUME NEW t \in Timer, Expire(t) PROVE t \in Source /\ Push(t) /\ UNCHANGED <<ran, current, loop, left, handlers>>
            BY <3>2 DEF Expire, Source, loopVars
        <3>3. CASE Start \/ Stop \/ Test \/ Tick \/ (\E t \in Timer : AddTimer(t)) \/ UNCHANGED vars
            BY <2>6, <3>3 DEF Start, Stop, Test, Tick, AddTimer, vars, queueVars, loopVars, timerVars
        <3>. QED BY <2>1, <2>2, <2>3, <2>4, <2>5, <3>1, <3>2, <3>3 DEF Next, EventThread
<1>3. TypeOK /\ Inv => EveryHandlerOnce
    <2>1. ASSUME NEW s \in Source, NEW n \in 1 .. pushed[s], Accounted(s)
          PROVE  Calls(s, n) = Given(s, n)
        BY <2>1 DEF Accounted, Calls, Times
    <2>2. ASSUME NEW s \in Source, NEW n \in 1 .. pushed[s], TypeOK, Ordered(s), Accounted(s)
          PROVE  Given(s, n) = CASE n \in lost[s] \/ Waits(s, n)   -> 0
                                 [] current = [from |-> s, n |-> n] -> handlers[Kind(s)] - left
                                 [] OTHER                           -> handlers[Kind(s)]
        <3>1. CASE n \in lost[s] \/ Waits(s, n)
            <4>1. ASSUME current = [from |-> s, n |-> n] PROVE FALSE
                <5>1. \A i \in 1 .. Len(queue[s]) : n < queue[s][i] /\ queue[s][i] \in Nat
                    BY <2>2, <4>1, NumbersType DEF Ordered
                <5>. QED BY <2>2, <3>1, <4>1, <5>1 DEF Waits, Accounted
            <4>. QED BY <3>1, <4>1 DEF Given
        <3>2. CASE ~(n \in lost[s] \/ Waits(s, n)) /\ current = [from |-> s, n |-> n]
            BY <3>2 DEF Given
        <3>3. CASE ~(n \in lost[s] \/ Waits(s, n)) /\ current # [from |-> s, n |-> n]
            BY <3>3 DEF Given
        <3>. QED BY <3>1, <3>2, <3>3
    <2>. SUFFICES ASSUME TypeOK, Inv PROVE EveryHandlerOnce
        OBVIOUS
    <2>. QED BY <2>1, <2>2 DEF EveryHandlerOnce
<1>4. QED BY <1>1, <1>2, <1>3, TypeCorrect, PTL DEF Spec
=================================================================================
