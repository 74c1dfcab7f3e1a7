---------------------------- MODULE SmartOrders_slots ----------------------------
(***************************************************************************)
(* When a SmartOrder gives up its order, for any number of SmartOrders,    *)
(* ids and requests: never before the order is over, and always after it;  *)
(* what kill_times makes of it; and that SmartOrders implements OrderSlots *)
(* as long as no send is refused and no event lost.                        *)
(***************************************************************************)
EXTENDS SmartOrders_proofs, Counting

USE NoOrderAssumption, IdsAssumption

\* A dispatched event releases a SmartOrder only after the exchange is done with its
\* order; no other step releases one.
LEMMA ReleaseStep ==
    ASSUME TypeOK, Bookkeeping, Tracking, ~dropped, [Next]_vars,
           NEW s \in SmartOrder, orders[s].active, ~orders'[s].active
    PROVE  /\ ProcessOnOrder \/ ProcessOnTrade
           /\ orders[s].id \in OrderIds
           /\ Over(orders[s].id)
           /\ call' = call /\ counter' = counter
<1>1. orders \in [SmartOrder -> SmartOrderState]
    BY DEF TypeOK
<1>2. ~SendEnd
    <2>1. SUFFICES ASSUME SendEnd PROVE FALSE
        OBVIOUS
    <2>2. PICK o \in SmartOrder, id \in OrderIds \cup {FailedId} : o = call.so /\ id = call.id
        BY <2>1 DEF SendEnd, TypeOK
    <2>3. orders' = [orders EXCEPT ![o] = [@ EXCEPT !.id = id, !.active = TRUE]]
        BY <2>1, <2>2 DEF SendEnd
    <2>4. CASE o = s
        <3>1. orders'[s] = [orders[s] EXCEPT !.id = id, !.active = TRUE]
            BY <1>1, <2>3, <2>4
        <3>2. orders'[s].active
            BY <1>1, <3>1 DEF SmartOrderState
        <3>3. QED BY <3>2
    <2>5. CASE o # s
        BY <1>1, <2>3, <2>5
    <2>6. QED BY <2>4, <2>5
<1>3. ProcessOnOrder \/ ProcessOnTrade
    BY <1>2 DEF Next, Strategy, SendBegin, Kill, SetTradable, Dispatch, Counter, Acknowledge,
        Refuse, Withdraw, Match, ReportTrade, RefuseCancel, vars, engineVars, counterVars
<1>4. PICK e : e = queue[1]
    OBVIOUS
<1>5. PICK o : o = counter[e.id].owner
    OBVIOUS
<1>6. /\ o \in SmartOrder
      /\ \A x \in SmartOrder \ {o} : orders'[x] = orders[x]
      /\ ~Holds(o, e.id) => orders'[o].active = orders[o].active
      /\ Holds(o, e.id) => orders[o].id = e.id /\ (~Final(e) => orders'[o].active)
    BY <1>3, <1>4, <1>5, DispatchEffect
<1>7. s = o /\ orders[s].id = e.id /\ Final(e)
    BY <1>6
<1>8. queue # <<>> /\ call' = call /\ counter' = counter
    BY <1>3 DEF ProcessOnOrder, ProcessOnTrade, counterVars
<1>9. 1 \in 1 .. Len(queue)
    BY <1>8, HeadType
<1>10. /\ e.id \in OrderIds /\ counter[e.id].state # "unused"
       /\ counter[e.id] \in CounterOrder
    BY <1>4, <1>9, QueuedEvent DEF TypeOK
<1>11. ~Live(e.id)
    BY <1>4, <1>7, <1>9 DEF Tracking, FinalIsLast
<1>12. Over(e.id)
    BY <1>10, <1>11 DEF Over, Live, LiveStates, CounterOrder
<1>13. QED
    BY <1>3, <1>6, <1>7, <1>8, <1>10, <1>12

\* While no event is lost, is_active is only cleared for an order that is filled, cancelled
\* or refused.
THEOREM ReleaseOnlyWhenDoneCorrect == Spec => ReleaseOnlyWhenDone
<1> DEFINE IInv == TypeOK /\ Bookkeeping /\ Tracking
           Step == \A s \in SmartOrder :
                      ~dropped /\ orders[s].active /\ ~orders'[s].active
                         => orders[s].id \in OrderIds /\ Over(orders[s].id)
<1>1. IInv /\ [Next]_vars => [Step]_vars
    BY ReleaseStep
<1>2. Spec => []IInv
    BY TrackingCorrect
<1>3. Spec => [][Step]_vars
    BY <1>1, <1>2, PTL DEF Spec
<1>4. QED BY <1>3 DEF ReleaseOnlyWhenDone

----------------------------------------------------------------------------
(* The refinement.                                                          *)

\* A slot's market is the one order its SmartOrder waits for, if that is still live.
LEMMA MarketIsHeld ==
    ASSUME TypeOK, Tracking, ~dropped, NEW s \in SmartOrder, NEW id \in OrderIds,
           id \in InMarket(s)
    PROVE  Holds(s, id) /\ (call.so = s \/ orders[s].active) /\ InMarket(s) = {id}
<1>1. \A x \in InMarket(s) : Holds(s, x)
    BY DEF Tracking, AllHeld, InMarket
<1>2. \A x \in InMarket(s) : x = id
    BY <1>1 DEF Holds
<1>3. QED BY <1>1, <1>2 DEF Holds

\* A step that neither adds to nor takes from the orders that can trade, and gives back
\* no SmartOrder, is a stutter of the slots.
LEMMA SlotStutter ==
    ASSUME \A s \in SmartOrder : /\ (call.so = s \/ orders[s].active)'
                                       = (call.so = s \/ orders[s].active)
                                 /\ InMarket(s)' = InMarket(s)
    PROVE  UNCHANGED Slots!vars
BY DEF Slots!vars

\* A send that reached the exchange places an order in a free slot.
LEMMA SendPlaces ==
    ASSUME TypeOK, Bookkeeping, Tracking, ~dropped, ~SendMayFail,
           NEW s \in SmartOrder, NEW r \in Requests, SendBegin(s, r)
    PROVE  Slots!Place(s)
<1>1. PICK id \in OrderIds :
          /\ counter[id].state = "unused"
          /\ counter' = [counter EXCEPT ![id] =
                [state |-> "inserted", owner |-> s,
                 direction |-> ToCtpDirection(r.side),
                 flag |-> ToCtpCombOffset(RequestOffset(pos, r.side, r.offset)),
                 left |-> r.volume]]
          /\ call' = [so |-> s, id |-> id]
    BY DEF SendBegin
<1>2. /\ call = NoCall /\ ~orders[s].active /\ orders' = orders
      /\ counter \in [OrderIds -> CounterOrder]
    BY DEF SendBegin, TypeOK
<1>3. /\ counter'[id].state = "inserted" /\ counter'[id].owner = s
      /\ \A x \in OrderIds \ {id} : counter'[x] = counter[x]
    BY <1>1, <1>2
<1>4. ~(call.so = s \/ orders[s].active) /\ call'.so = s
      /\ \A o \in SmartOrder \ {s} : call.so # o /\ call'.so # o
    BY <1>1, <1>2 DEF NoCall
<1>5. InMarket(s) = {}
    <2>1. \A x \in OrderIds : x \notin InMarket(s)
        BY <1>4, MarketIsHeld
    <2>2. QED BY <2>1 DEF InMarket
<1>6. InMarket(s)' = {id}
    BY <1>3, <1>5 DEF InMarket, Live, LiveStates
<1>7. ASSUME NEW o \in SmartOrder \ {s} PROVE InMarket(o)' = InMarket(o)
    BY <1>1, <1>3, <1>7 DEF InMarket, Live, LiveStates
<1>8. [o \in SmartOrder |-> call.so = o \/ orders[o].active]'
          = [[o \in SmartOrder |-> call.so = o \/ orders[o].active] EXCEPT ![s] = TRUE]
    BY <1>2, <1>4
<1>9. [o \in SmartOrder |-> InMarket(o)]'
          = [[o \in SmartOrder |-> InMarket(o)] EXCEPT ![s] = {id}]
    BY <1>6, <1>7
<1>10. QED
    BY <1>4, <1>5, <1>8, <1>9 DEF Slots!Place

\* A refusal, a cancellation and a match that leaves nothing finish the slot's order.
LEMMA EndFinishes ==
    ASSUME TypeOK, Bookkeeping, Tracking, ~dropped, NEW id \in OrderIds,
           Live(id), ~Live(id)', UNCHANGED <<orders, call>>,
           counter'[id].owner = counter[id].owner,
           \A x \in OrderIds \ {id} : counter'[x] = counter[x]
    PROVE  Slots!Next
<1>1. PICK s \in SmartOrder : s = counter[id].owner
    BY DEF Bookkeeping, Live, LiveStates
<1>2. id \in InMarket(s)
    BY <1>1 DEF InMarket
<1>3. (call.so = s \/ orders[s].active) /\ InMarket(s) = {id}
    BY <1>2, MarketIsHeld
<1>4. InMarket(s)' = {}
    BY <1>3 DEF InMarket, Live
<1>5. ASSUME NEW o \in SmartOrder \ {s} PROVE InMarket(o)' = InMarket(o)
    BY <1>1, <1>5 DEF InMarket, Live
<1>6. [o \in SmartOrder |-> call.so = o \/ orders[o].active]'
          = [o \in SmartOrder |-> call.so = o \/ orders[o].active]
    OBVIOUS
<1>7. [o \in SmartOrder |-> InMarket(o)]'
          = [[o \in SmartOrder |-> InMarket(o)] EXCEPT ![s] = {}]
    BY <1>4, <1>5
<1>8. Slots!Finish(s)
    BY <1>3, <1>6, <1>7 DEF Slots!Finish
<1>9. QED BY <1>8 DEF Slots!Next

\* A dispatch gives back the slot of a final event, and only a slot whose order is over.
LEMMA DispatchReleases ==
    ASSUME TypeOK, Bookkeeping, Tracking, ~dropped, [Next]_vars,
           ProcessOnOrder \/ ProcessOnTrade
    PROVE  [Slots!Next]_(Slots!vars)
<1>1. PICK s \in SmartOrder :
          /\ orders'[s].active => orders[s].active
          /\ \A o \in SmartOrder \ {s} : orders'[o] = orders[o]
    <2>1. PICK e : e = queue[1]
        OBVIOUS
    <2>2. PICK o : o = counter[e.id].owner
        OBVIOUS
    <2>3. QED BY <2>1, <2>2, DispatchEffect
<1>2. call = NoCall /\ call' = call /\ counter' = counter
    BY DEF ProcessOnOrder, ProcessOnTrade, counterVars
<1>3. \A o \in SmartOrder : call.so # o /\ call'.so # o
    BY <1>2 DEF NoCall
<1>4. \A o \in SmartOrder : InMarket(o)' = InMarket(o)
    BY <1>2 DEF InMarket, Live
<1>5. CASE orders'[s].active \/ ~orders[s].active
    <2>1. orders'[s].active = orders[s].active
        <3>1. orders'[s].active \in BOOLEAN /\ orders[s].active \in BOOLEAN
            BY TypeInductive DEF TypeOK, SmartOrderState
        <3>2. QED BY <1>1, <1>5, <3>1
    <2>2. QED BY <1>1, <1>2, <1>4, <2>1, SlotStutter
<1>6. CASE ~orders'[s].active /\ orders[s].active
    <2>1. orders[s].id \in OrderIds /\ Over(orders[s].id)
        BY <1>1, <1>6, ReleaseStep
    <2>2. InMarket(s) = {}
        <3>1. ASSUME NEW x \in OrderIds, x \in InMarket(s) PROVE FALSE
            <4>1. orders[s].id = x
                BY <1>3, <3>1, MarketIsHeld DEF Holds
            <4>2. QED BY <2>1, <3>1, <4>1 DEF InMarket, Over, Live, LiveStates
        <3>2. QED BY <3>1 DEF InMarket
    <2>3. [o \in SmartOrder |-> call.so = o \/ orders[o].active]'
              = [[o \in SmartOrder |-> call.so = o \/ orders[o].active] EXCEPT ![s] = FALSE]
        <3>1. ASSUME NEW o \in SmartOrder
              PROVE  (call.so = o \/ orders[o].active)'
                         = IF o = s THEN FALSE ELSE (call.so = o \/ orders[o].active)
            <4>1. CASE o = s
                BY <1>3, <1>6, <4>1
            <4>2. CASE o # s
                BY <1>1, <1>3, <4>2
            <4>3. QED BY <4>1, <4>2
        <3>2. QED BY <3>1
    <2>4. [o \in SmartOrder |-> InMarket(o)]' = [o \in SmartOrder |-> InMarket(o)]
        BY <1>4
    <2>5. Slots!Release(s)
        BY <1>6, <2>2, <2>3, <2>4 DEF Slots!Release
    <2>6. QED BY <2>5 DEF Slots!Next
<1>7. QED BY <1>5, <1>6

\* Every step of SmartOrders is a step of the slots or changes none of them.
LEMMA SlotStep ==
    ASSUME ~SendMayFail, TypeOK, Bookkeeping, Tracking, ~dropped, [Next]_vars
    PROVE  [Slots!Next]_(Slots!vars)
<1>1. counter \in [OrderIds -> CounterOrder]
    BY DEF TypeOK
<1>2. ASSUME NEW s \in SmartOrder, NEW r \in Requests, SendBegin(s, r) PROVE Slots!Next
    BY <1>2, SendPlaces DEF Slots!Next
<1>3. CASE SendEnd
    <2>1. PICK s \in SmartOrder, id \in OrderIds \cup {FailedId} : s = call.so /\ id = call.id
        BY <1>3 DEF SendEnd, TypeOK
    <2>2. /\ orders' = [orders EXCEPT ![s] = [@ EXCEPT !.id = id, !.active = TRUE]]
          /\ call' = NoCall /\ counter' = counter
          /\ orders \in [SmartOrder -> SmartOrderState]
        BY <1>3, <2>1 DEF SendEnd, counterVars, TypeOK
    <2>3. /\ orders'[s].active
          /\ \A o \in SmartOrder \ {s} : orders'[o] = orders[o]
        <3>1. orders'[s] = [orders[s] EXCEPT !.id = id, !.active = TRUE]
            BY <2>2
        <3>2. orders'[s].active
            BY <2>2, <3>1 DEF SmartOrderState
        <3>3. QED BY <2>2, <3>2
    <2>4. ASSUME NEW o \in SmartOrder
          PROVE  (call.so = o \/ orders[o].active)' = (call.so = o \/ orders[o].active)
        <3>1. CASE o = s
            BY <2>1, <2>3, <3>1
        <3>2. CASE o # s
            BY <2>1, <2>2, <2>3, <3>2 DEF NoCall
        <3>3. QED BY <3>1, <3>2
    <2>5. \A o \in SmartOrder : InMarket(o)' = InMarket(o)
        BY <2>2 DEF InMarket, Live
    <2>6. QED BY <2>4, <2>5, SlotStutter
<1>4. CASE UNCHANGED <<orders, call, counter>>
    <2>1. \A o \in SmartOrder : InMarket(o)' = InMarket(o)
        BY <1>4 DEF InMarket, Live
    <2>2. QED BY <1>4, <2>1, SlotStutter
<1>5. CASE Dispatch
    BY <1>5, DispatchReleases DEF Dispatch
<1>6. ASSUME NEW id \in OrderIds, Live(id), UNCHANGED <<orders, call>>,
             \A x \in OrderIds \ {id} : counter'[x] = counter[x]
      PROVE  [Slots!Next]_(Slots!vars)
    <2>1. counter'[id].owner = counter[id].owner
        BY <1>6, CounterStable DEF Live, LiveStates
    <2>2. CASE ~Live(id)'
        BY <1>6, <2>1, <2>2, EndFinishes
    <2>3. CASE Live(id)'
        <3>1. \A o \in SmartOrder : InMarket(o)' = InMarket(o)
            BY <1>6, <2>1, <2>3 DEF InMarket, Live
        <3>2. QED BY <1>6, <3>1, SlotStutter
    <2>4. QED BY <2>2, <2>3
<1>7. ASSUME NEW id \in OrderIds, Acknowledge(id) \/ Refuse(id) \/ Withdraw(id)
      PROVE  [Slots!Next]_(Slots!vars)
    <2>1. /\ Live(id) /\ UNCHANGED <<orders, call>>
          /\ \A x \in OrderIds \ {id} : counter'[x] = counter[x]
        BY <1>1, <1>7 DEF Acknowledge, Refuse, Withdraw, engineVars, Live, LiveStates
    <2>2. QED BY <1>6, <2>1
<1>8. ASSUME NEW id \in OrderIds, NEW volume \in 1 .. counter[id].left, Match(id, volume)
      PROVE  [Slots!Next]_(Slots!vars)
    <2>1. /\ Live(id) /\ UNCHANGED <<orders, call>>
          /\ \A x \in OrderIds \ {id} : counter'[x] = counter[x]
        BY <1>1, <1>8 DEF Match, engineVars
    <2>2. QED BY <1>6, <2>1
<1>9. QED
    BY <1>2, <1>3, <1>4, <1>5, <1>7, <1>8
    DEF Next, Strategy, Counter, Kill, SetTradable, RefuseCancel, ReportTrade, vars,
        engineVars, counterVars

\* At the start every slot is free and nothing is in the market.
LEMMA SlotsInitially == Init => Slots!Init
<1> SUFFICES ASSUME Init PROVE Slots!Init
    OBVIOUS
<1>1. ASSUME NEW s \in SmartOrder PROVE ~(call.so = s \/ orders[s].active)
    BY <1>1 DEF Init, NoCall
<1>2. ASSUME NEW s \in SmartOrder PROVE InMarket(s) = {}
    BY <1>2 DEF Init, InMarket, Live, LiveStates, UnusedOrder
<1>3. [s \in SmartOrder |-> call.so = s \/ orders[s].active] = [s \in SmartOrder |-> FALSE]
    BY <1>1
<1>4. [s \in SmartOrder |-> InMarket(s)] = [s \in SmartOrder |-> {}]
    BY <1>2
<1>5. QED BY <1>3, <1>4 DEF Slots!Init

\* SmartOrders with a gateway that takes every order and a queue that takes every event
\* implements OrderSlots: one order per SmartOrder at a time.
THEOREM ImplementsSlotsCorrect ==
    ASSUME ~SendMayFail, ~MayDrop PROVE Spec => ImplementsSlots
<1> DEFINE IInv == TypeOK /\ Bookkeeping /\ Tracking
<1>1. Init => ~dropped
    BY DEF Init
<1>2. ~dropped /\ [Next]_vars => ~dropped'
    BY DEF Next, Strategy, SendBegin, Kill, SetTradable, SendEnd, Dispatch, ProcessOnOrder,
        ProcessOnTrade, Counter, Acknowledge, Refuse, Withdraw, Match, ReportTrade,
        RefuseCancel, Push, vars, engineVars, counterVars
<1>3. IInv /\ ~dropped /\ [Next]_vars => [Slots!Next]_(Slots!vars)
    BY SlotStep
<1>4. Spec => []IInv
    BY TrackingCorrect
<1>5. Spec => Slots!Init /\ [][Slots!Next]_(Slots!vars)
    BY <1>1, <1>2, <1>3, <1>4, SlotsInitially, PTL DEF Spec
<1>6. QED BY <1>5 DEF ImplementsSlots, Slots!Spec

----------------------------------------------------------------------------
(* is_active does not outlive the order.                                    *)

\* The end of order id is still to come, or on its way.
Coming(id) ==
    \/ Live(id)
    \/ owed # NoTrade /\ owed.id = id /\ owed.status \in ClosingMatch
    \/ \E i \in 1 .. Len(queue) : queue[i].id = id /\ Final(queue[i])

\* Every order that is in the gateway, or that a SmartOrder is active with, will end.
Awaited == ~dropped => \A s \in SmartOrder :
    /\ call.so = s => call.id \in OrderIds /\ Coming(call.id)
    /\ orders[s].active => orders[s].id \in OrderIds /\ Coming(orders[s].id)

\* An event that is pushed and not lost comes after all the others.
LEMMA PushComing ==
    ASSUME TypeOK, NEW e \in Event, Push(e), ~dropped'
    PROVE  /\ \A i \in 1 .. Len(queue) : i \in 1 .. Len(queue') /\ queue'[i] = queue[i]
           /\ \E i \in 1 .. Len(queue') : queue'[i] = e
<1>1. PICK len \in Nat : len = Len(queue)
    BY DEF TypeOK
<1>2. /\ Len(queue') = len + 1 /\ queue'[len + 1] = e
      /\ \A i \in 1 .. len : queue'[i] = queue[i]
    BY <1>1, PushShape
<1>. QED BY <1>1, <1>2

\* The end of an order is announced before the exchange forgets the order, and stays in
\* the queue until it is dispatched.
LEMMA ComingStays ==
    ASSUME TypeOK, Bookkeeping, [Next]_vars, ~dropped',
           NEW id \in OrderIds, Coming(id)
    PROVE  \/ Coming(id)'
           \/ ProcessOnOrder \/ ProcessOnTrade
<1>1. counter \in [OrderIds -> CounterOrder]
    BY DEF TypeOK
<1>2. ASSUME UNCHANGED <<queue, owed>>, Live(id) => Live(id)' PROVE Coming(id)'
    BY <1>2 DEF Coming, Final
<1>3. ASSUME NEW e \in Event, Push(e), owed' = owed, Live(id) => Live(id)' \/ (e.id = id /\ Final(e))
      PROVE  Coming(id)'
    <2>1. ASSUME NEW i \in 1 .. Len(queue), queue[i].id = id, Final(queue[i]) PROVE Coming(id)'
        BY <1>3, <2>1, PushComing DEF Coming, Final
    <2>2. CASE e.id = id /\ Final(e)
        BY <1>3, <2>2, PushComing DEF Coming, Final
    <2>. QED BY <1>3, <2>1, <2>2 DEF Coming
<1>4. ASSUME NEW s \in SmartOrder, NEW r \in Requests, SendBegin(s, r) PROVE Coming(id)'
    <2>1. Live(id) => Live(id)'
        BY <1>1, <1>4 DEF SendBegin, Live, LiveStates
    <2>. QED BY <1>2, <1>4, <2>1 DEF SendBegin
<1>5. ASSUME NEW x \in OrderIds, Acknowledge(x) PROVE Coming(id)'
    <2>1. PICK status \in {"SUBMITTED", "PENDING"} : Push(OrderEvent(x, status))
        BY <1>5, DecodedReports DEF Acknowledge
    <2>2. Live(id) => Live(id)'
        BY <1>1, <1>5 DEF Acknowledge, Live, LiveStates, CounterOrder
    <2>3. OrderEvent(x, status) \in Event /\ owed' = owed
        BY <1>5, OrderEventType DEF Acknowledge, Status
    <2>. QED BY <1>3, <2>1, <2>2, <2>3
<1>6. ASSUME NEW x \in OrderIds, NEW status \in ClosingReport, Push(OrderEvent(x, status)),
             owed' = owed, \A y \in OrderIds \ {x} : counter'[y] = counter[y]
      PROVE  Coming(id)'
    <2>1. /\ OrderEvent(x, status) \in Event /\ OrderEvent(x, status).id = x
          /\ Final(OrderEvent(x, status))
        BY OrderEventType DEF OrderEvent, Final, ClosingReport, Status
    <2>2. Live(id) => Live(id)' \/ id = x
        BY <1>6 DEF Live
    <2>. QED BY <1>3, <1>6, <2>1, <2>2
<1>7. ASSUME NEW x \in OrderIds, Refuse(x) \/ Withdraw(x) PROVE Coming(id)'
    <2>1. \E status \in ClosingReport : Push(OrderEvent(x, status))
        BY <1>7, DecodedReports DEF Refuse, Withdraw, ClosingReport
    <2>2. owed' = owed /\ \A y \in OrderIds \ {x} : counter'[y] = counter[y]
        BY <1>1, <1>7 DEF Refuse, Withdraw
    <2>. QED BY <1>6, <2>1, <2>2
<1>8. ASSUME NEW x \in OrderIds, NEW volume \in 1 .. counter[x].left, Match(x, volume)
      PROVE  Coming(id)'
    <2>1. PICK report \in MatchReports, status \in MatchStatuses :
              /\ counter' = [counter EXCEPT ![x] = AfterMatch(@, volume, report)]
              /\ owed' = [id |-> x, volume |-> volume, status |-> status]
              /\ Push(OrderEvent(x, status))
              /\ status \in ClosingMatch <=> report # "PartTradedQueueing"
        BY <1>8, MatchEffect
    <2>2. owed = NoTrade /\ OrderEvent(x, status) \in Event
        BY <1>8, OrderEventType DEF Match, MatchStatuses, Status
    <2>3. CASE Live(id) /\ id # x
        BY <1>1, <2>1, <2>3 DEF Live, Coming
    <2>4. CASE Live(id) /\ id = x
        <3>1. counter'[x] = AfterMatch(counter[x], volume, report) /\ counter[x] \in CounterOrder
            BY <1>1, <2>1
        <3>2. report = "PartTradedQueueing" => counter'[x].state = "queued"
            BY <3>1 DEF AfterMatch, CounterOrder
        <3>3. status \in ClosingMatch => owed'.id = id /\ owed'.status \in ClosingMatch /\ owed' # NoTrade
            BY <2>1, <2>4 DEF NoTrade
        <3>. QED BY <2>1, <2>4, <3>2, <3>3 DEF Coming, Live, LiveStates
    <2>5. ASSUME NEW i \in 1 .. Len(queue), queue[i].id = id, Final(queue[i]) PROVE Coming(id)'
        BY <2>1, <2>2, <2>5, PushComing DEF Coming, Final
    <2>. QED BY <2>2, <2>3, <2>4, <2>5 DEF Coming
<1>9. ASSUME NEW volume \in 1 .. owed.volume, ReportTrade(volume) PROVE Coming(id)'
    <2>1. owed \in [id : OrderIds, volume : Nat \ {0}, status : Status] /\ owed # NoTrade
        BY <1>9 DEF ReportTrade, TypeOK
    <2>2. account' \in Position
        BY TypeInductive DEF TypeOK
    <2>3. PICK e \in Event : /\ e = TradeEvent(owed.id, owed.status, volume, account')
                             /\ Push(e) /\ e.id = owed.id
                             /\ owed.status \in ClosingMatch => Final(e)
        BY <1>9, <2>1, <2>2 DEF TradeEvent, Event, ReportTrade, Final
    <2>4. ASSUME NEW i \in 1 .. Len(queue), queue[i].id = id, Final(queue[i]) PROVE Coming(id)'
        BY <2>3, <2>4, PushComing DEF Coming, Final
    <2>5. CASE owed.id = id /\ owed.status \in ClosingMatch
        BY <2>3, <2>5, PushComing DEF Coming, Final
    <2>6. CASE Live(id)
        BY <1>9, <2>6 DEF ReportTrade, Live, Coming
    <2>. QED BY <2>4, <2>5, <2>6 DEF Coming
<1>10. CASE UNCHANGED <<queue, owed, counter>>
    BY <1>2, <1>10 DEF Live
<1>. QED
    BY <1>4, <1>5, <1>7, <1>8, <1>9, <1>10
    DEF Next, Strategy, SendEnd, Kill, SetTradable, Dispatch, Counter, RefuseCancel, vars,
        counterVars

\* A dispatch releases the SmartOrder of the end it takes from the queue, and no other.
LEMMA DispatchAwaited ==
    ASSUME TypeOK, Bookkeeping, Tracking, Awaited, ~dropped, ProcessOnOrder \/ ProcessOnTrade
    PROVE  Awaited'
<1>1. /\ queue # <<>> /\ queue' = Tail(queue) /\ call = NoCall /\ call' = call
      /\ counter' = counter /\ owed' = owed
    BY DEF ProcessOnOrder, ProcessOnTrade, counterVars
<1>2. PICK e, s : e = queue[1] /\ s = counter[e.id].owner
    OBVIOUS
<1>3. /\ s \in SmartOrder /\ orders'[s].id = orders[s].id
      /\ \A x \in SmartOrder \ {s} : orders'[x] = orders[x]
      /\ orders'[s].active => orders[s].active
      /\ Holds(s, e.id) => (Final(e) => ~orders'[s].active)
    BY <1>2, DispatchEffect
<1>4. ASSUME NEW id, Coming(id), id = e.id => ~Final(e) PROVE Coming(id)'
    <2>1. PICK len \in Nat \ {0} : len = Len(queue)
        BY <1>1, TailShape
    <2>2. Len(queue') = len - 1 /\ \A i \in 1 .. len - 1 : queue'[i] = queue[i + 1]
        BY <1>1, <2>1, TailShape
    <2>3. ASSUME NEW i \in 1 .. len, queue[i].id = id, Final(queue[i]) PROVE Coming(id)'
        <3>1. i # 1
            BY <1>2, <1>4, <2>3
        <3>2. PICK j \in 1 .. len - 1 : i = j + 1
            <4>1. i - 1 \in 1 .. len - 1 /\ i = (i - 1) + 1
                BY <2>1, <3>1
            <4>. QED BY <4>1
        <3>. QED BY <2>2, <2>3, <3>2 DEF Coming, Final
    <2>. QED BY <1>1, <1>4, <2>1, <2>3 DEF Coming, Live
<1>5. ASSUME NEW x \in SmartOrder, orders'[x].active
      PROVE  (orders[x].id \in OrderIds /\ Coming(orders[x].id))'
    <2>1. orders[x].active /\ orders'[x].id = orders[x].id
        BY <1>3, <1>5
    <2>2. orders[x].id \in OrderIds /\ Coming(orders[x].id)
        BY <2>1 DEF Awaited
    <2>3. x # s => orders[x].id # e.id
        <3>1. counter[orders[x].id].owner = x
            BY <2>2 DEF Bookkeeping
        <3>. QED BY <1>2, <3>1
    <2>4. orders[x].id = e.id => ~Final(e)
        <3>1. Holds(s, e.id) <=> orders[s].active /\ orders[s].id = e.id
            BY <1>1, <1>3 DEF Holds, NoCall
        <3>. QED BY <1>3, <1>5, <2>1, <2>3, <3>1
    <2>5. PICK y : y = orders[x].id /\ y = orders'[x].id
        BY <2>1
    <2>6. Coming(y)'
        BY <1>4, <2>2, <2>4, <2>5
    <2>. QED BY <2>2, <2>5, <2>6
<1>6. \A x \in SmartOrder : call'.so # x
    BY <1>1 DEF NoCall
<1>. QED BY <1>5, <1>6 DEF Awaited

\* No step leaves a SmartOrder active with an order whose end has been dispatched.
LEMMA AwaitedInductive ==
    ASSUME ~SendMayFail, TypeOK, Bookkeeping, Tracking, Awaited, [Next]_vars
    PROVE  Awaited'
<1> SUFFICES ASSUME ~dropped' PROVE Awaited'
    BY DEF Awaited
<1>1. ~dropped
    BY DEF Next, Strategy, SendBegin, SendEnd, Kill, SetTradable, Dispatch, ProcessOnOrder,
        ProcessOnTrade, Counter, Acknowledge, Refuse, Withdraw, Match, ReportTrade,
        RefuseCancel, Push, vars
<1>2. CASE ProcessOnOrder \/ ProcessOnTrade
    BY <1>1, <1>2, DispatchAwaited
<1>3. CASE ~(ProcessOnOrder \/ ProcessOnTrade)
    <2>1. \A id \in OrderIds : Coming(id) => Coming(id)'
        BY <1>3, ComingStays
    <2>2. ASSUME NEW s \in SmartOrder, NEW r \in Requests, SendBegin(s, r) PROVE Awaited'
        <3>1. PICK id \in OrderIds :
                 /\ counter' = [counter EXCEPT ![id] =
                       [state |-> "inserted", owner |-> s,
                        direction |-> ToCtpDirection(r.side),
                        flag |-> ToCtpCombOffset(RequestOffset(pos, r.side, r.offset)),
                        left |-> r.volume]]
                 /\ call' = [so |-> s, id |-> id]
            BY <2>2 DEF SendBegin
        <3>2. Live(id)' /\ orders' = orders
            BY <2>2, <3>1 DEF SendBegin, Live, LiveStates, TypeOK
        <3>. QED BY <1>1, <2>1, <3>1, <3>2 DEF Awaited, Coming
    <2>3. CASE SendEnd
        <3>1. PICK s \in SmartOrder, id \in OrderIds \cup {FailedId} :
                  call.so = s /\ call.id = id
            BY <2>3 DEF SendEnd, TypeOK
        <3>2. /\ orders' = [orders EXCEPT ![s] = [@ EXCEPT !.id = id, !.active = TRUE]]
              /\ call' = NoCall /\ orders \in [SmartOrder -> SmartOrderState]
            BY <2>3, <3>1 DEF SendEnd, TypeOK
        <3>3. /\ orders'[s].id = id
              /\ \A x \in SmartOrder \ {s} : orders'[x] = orders[x]
            BY <3>2 DEF SmartOrderState
        <3>4. id \in OrderIds /\ Coming(id)
            BY <1>1, <3>1 DEF Awaited
        <3>5. \A x \in SmartOrder : call'.so # x
            BY <3>2 DEF NoCall
        <3>. QED BY <1>1, <2>1, <3>3, <3>4, <3>5 DEF Awaited
    <2>4. CASE UNCHANGED <<orders, call>>
        BY <1>1, <2>1, <2>4 DEF Awaited
    <2>. QED
        BY <1>3, <2>2, <2>3, <2>4
        DEF Next, Strategy, Kill, SetTradable, Dispatch, Counter, Acknowledge, Refuse, Withdraw,
            Match, ReportTrade, RefuseCancel, vars, engineVars
<1>. QED BY <1>2, <1>3

\* is_active never outlives the order for good (ActiveMeansOutstanding).
THEOREM ActiveMeansOutstandingCorrect ==
    ASSUME ~SendMayFail PROVE Spec => []ActiveMeansOutstanding
<1>1. Init => Awaited
    BY DEF Init, Awaited, NoCall
<1>2. TypeOK /\ Bookkeeping /\ Tracking /\ Awaited /\ [Next]_vars => Awaited'
    BY AwaitedInductive
<1>3. Awaited => ActiveMeansOutstanding
    BY DEF Awaited, Coming, ActiveMeansOutstanding
<1>4. QED BY <1>1, <1>2, <1>3, TrackingCorrect, PTL DEF Spec

----------------------------------------------------------------------------
(* Counting cancellations.                                                  *)

Statuses(q) == [i \in 1 .. Len(q) |-> q[i].status]

\* The cancellations that the exchange made, and those that wait in the queue.
Withdrawn == {id \in OrderIds : counter[id].state = "withdrawn"}

Cancelled == Times(Statuses(queue), "CANCELLED")

Tally ==
    /\ IsFiniteSet(Withdrawn)
    /\ kills + Cancelled <= Cardinality(Withdrawn)
    /\ ~dropped => kills + Cancelled = Cardinality(Withdrawn)

\* The statuses of a queue that grows or shrinks grow and shrink with it.
LEMMA StatusesShape ==
    ASSUME NEW q \in Seq(Event)
    PROVE  /\ Statuses(q) \in Seq(Status)
           /\ \A e \in Event : Statuses(Append(q, e)) = Append(Statuses(q), e.status)
           /\ q # <<>> => /\ Statuses(q) # <<>> /\ Head(Statuses(q)) = Head(q).status
                          /\ Statuses(Tail(q)) = Tail(Statuses(q))
<1>1. PICK len \in Nat : len = Len(q)
    OBVIOUS
<1>2. \A i \in 1 .. len : q[i] \in Event /\ q[i].status \in Status
    <2>1. \A i \in 1 .. len : q[i] \in Event
        BY <1>1
    <2>2. \A e \in Event : e.status \in Status
        BY DEF Event
    <2>. QED BY <2>1, <2>2
<1>3. Statuses(q) \in Seq(Status) /\ Len(Statuses(q)) = len
    BY <1>1, <1>2 DEF Statuses
<1>4. ASSUME NEW e \in Event PROVE Statuses(Append(q, e)) = Append(Statuses(q), e.status)
    BY <1>1, <1>3 DEF Statuses
<1>5. ASSUME q # <<>>
      PROVE  /\ Statuses(q) # <<>> /\ Head(Statuses(q)) = Head(q).status
             /\ Statuses(Tail(q)) = Tail(Statuses(q))
    <2>1. len > 0 /\ Len(Tail(q)) = len - 1 /\ Len(Tail(Statuses(q))) = len - 1
          /\ Head(q) = q[1] /\ 1 \in 1 .. len /\ Statuses(q) # <<>>
          /\ Head(Statuses(q)) = Statuses(q)[1]
        BY <1>1, <1>3, <1>5
    <2>2. Tail(Statuses(q)) \in Seq(Status) /\ Statuses(Tail(q)) \in Seq(Status)
        <3>1. Tail(q) \in Seq(Event)
            BY <1>5
        <3>2. \A i \in 1 .. len - 1 : Tail(q)[i].status \in Status
            <4>1. \A i \in 1 .. len - 1 : Tail(q)[i] = q[i + 1] /\ i + 1 \in 1 .. len
                BY <1>1, <1>5
            <4>. QED BY <1>2, <4>1
        <3>. QED BY <1>3, <2>1, <3>1, <3>2 DEF Statuses
    <2>3. \A i \in 1 .. len - 1 : Tail(Statuses(q))[i] = Statuses(Tail(q))[i]
        BY <1>1, <1>3, <1>5, <2>1 DEF Statuses
    <2>4. Len(Statuses(Tail(q))) = len - 1
        BY <1>1, <2>1 DEF Statuses
    <2>. QED BY <1>1, <2>1, <2>2, <2>3, <2>4 DEF Statuses
<1>. QED BY <1>3, <1>4, <1>5

\* A queue holds a natural number of cancellations.
LEMMA CancelledType == ASSUME TypeOK PROVE Cancelled \in Nat /\ kills \in Nat
BY StatusesShape, TimesType DEF Cancelled, TypeOK

\* A push adds the report of a cancellation, or nothing that counts, or is lost.
LEMMA PushTally ==
    ASSUME TypeOK, NEW e \in Event, Push(e)
    PROVE  \/ dropped' /\ Cancelled' = Cancelled
           \/ dropped' = dropped /\ Cancelled' = IF e.status = "CANCELLED" THEN Cancelled + 1
                                                                         ELSE Cancelled
<1>1. CASE queue' = Append(queue, e) /\ dropped' = dropped
    <2>1. Statuses(queue') = Append(Statuses(queue), e.status)
          /\ Statuses(queue) \in Seq(Status) /\ e.status \in Status
        BY <1>1, StatusesShape DEF TypeOK, Event
    <2>. QED BY <1>1, <2>1, TimesAppend DEF Cancelled
<1>2. CASE queue' = queue /\ dropped' = TRUE
    BY <1>2 DEF Cancelled
<1>. QED BY <1>1, <1>2 DEF Push

\* A dispatch takes one cancellation from the queue, or none.
LEMMA TailTally ==
    ASSUME TypeOK, queue # <<>>, queue' = Tail(queue)
    PROVE  Cancelled = IF Head(queue).status = "CANCELLED" THEN Cancelled' + 1 ELSE Cancelled'
<1>1. /\ Statuses(queue) \in Seq(Status) /\ Statuses(queue) # <<>>
      /\ Head(Statuses(queue)) = Head(queue).status
      /\ Statuses(queue') = Tail(Statuses(queue))
    BY StatusesShape DEF TypeOK
<1>. QED BY <1>1, TimesTail DEF Cancelled

\* Only a withdrawal by the exchange adds to the withdrawn orders.
LEMMA WithdrawnSame ==
    ASSUME TypeOK, [Next]_vars, \A id \in OrderIds : ~Withdraw(id)
    PROVE  Withdrawn' = Withdrawn
<1>1. counter \in [OrderIds -> CounterOrder]
    BY DEF TypeOK
<1>2. ASSUME counter' = counter PROVE Withdrawn' = Withdrawn
    BY <1>2 DEF Withdrawn
<1>3. ASSUME NEW id \in OrderIds, NEW o \in CounterOrder, counter' = [counter EXCEPT ![id] = o],
             counter[id].state # "withdrawn", o.state # "withdrawn"
      PROVE  Withdrawn' = Withdrawn
    BY <1>1, <1>3 DEF Withdrawn
<1>4. ASSUME NEW s \in SmartOrder, NEW r \in Requests, SendBegin(s, r)
      PROVE  \A id \in OrderIds : counter'[id].state = "withdrawn" <=> counter[id].state = "withdrawn"
    BY <1>1, <1>4 DEF SendBegin
<1>5. ASSUME NEW x \in OrderIds, Acknowledge(x) \/ Refuse(x)
      PROVE  \A id \in OrderIds : counter'[id].state = "withdrawn" <=> counter[id].state = "withdrawn"
    <2>1. PICK state \in {"submitted", "queued", "done"} :
             counter[x].state # "withdrawn" /\ counter' = [counter EXCEPT ![x].state = state]
        BY <1>5 DEF Acknowledge, Refuse
    <2>. QED BY <1>1, <2>1 DEF CounterOrder
<1>6. ASSUME NEW x \in OrderIds, NEW volume \in 1 .. counter[x].left, Match(x, volume)
      PROVE  \A id \in OrderIds : counter'[id].state = "withdrawn" <=> counter[id].state = "withdrawn"
    <2>1. PICK report \in MatchReports :
             /\ counter[x].state # "withdrawn"
             /\ counter' = [counter EXCEPT ![x] = AfterMatch(@, volume, report)]
        BY <1>6 DEF Match, Live, LiveStates
    <2>2. counter[x] \in CounterOrder /\ counter'[x] = AfterMatch(counter[x], volume, report)
        BY <1>1, <2>1
    <2>3. counter'[x].state \in {"queued", "done"}
        BY <2>2 DEF AfterMatch, CounterOrder
    <2>. QED BY <1>1, <2>1, <2>3
<1>. QED
    BY <1>2, <1>4, <1>5, <1>6
    DEF Next, Strategy, SendEnd, Kill, SetTradable, Dispatch, ProcessOnOrder, ProcessOnTrade,
        Counter, ReportTrade, RefuseCancel, vars, counterVars, Withdrawn

\* Whatever is pushed, the count of cancellations stays right.
LEMMA ReportTally ==
    ASSUME TypeOK, Tally, NEW e \in Event, Push(e), kills' = kills,
           \/ e.status # "CANCELLED" /\ Withdrawn' = Withdrawn
           \/ /\ e.status = "CANCELLED"
              /\ \E id : id \notin Withdrawn /\ Withdrawn' = Withdrawn \cup {id}
    PROVE  Tally'
<1>1. PICK k \in Nat, c \in Nat, w \in Nat :
         k = kills /\ c = Cancelled /\ w = Cardinality(Withdrawn) /\ IsFiniteSet(Withdrawn)
    BY CancelledType, FS_CardinalityType DEF Tally
<1>2. k + c <= w /\ (~dropped => k + c = w)
    BY <1>1 DEF Tally
<1>3. CASE e.status # "CANCELLED" /\ Withdrawn' = Withdrawn
    <2>1. Cancelled' = c /\ (dropped' \/ dropped' = dropped)
        BY <1>1, <1>3, PushTally
    <2>. QED BY <1>1, <1>2, <1>3, <2>1 DEF Tally
<1>4. CASE e.status = "CANCELLED" /\ \E id : id \notin Withdrawn /\ Withdrawn' = Withdrawn \cup {id}
    <2>1. IsFiniteSet(Withdrawn') /\ Cardinality(Withdrawn') = w + 1
        BY <1>1, <1>4, FS_AddElement
    <2>2. CASE dropped' /\ Cancelled' = c
        BY <1>1, <1>2, <2>1, <2>2 DEF Tally
    <2>3. CASE dropped' = dropped /\ Cancelled' = c + 1
        BY <1>1, <1>2, <2>1, <2>3 DEF Tally
    <2>. QED BY <1>1, <1>4, <2>2, <2>3, PushTally
<1>. QED BY <1>3, <1>4

\* A dispatched cancellation is counted once, unless its order was forgotten because an
\* earlier event was lost.
LEMMA DispatchTally ==
    ASSUME TypeOK, Bookkeeping, Tracking, Tally, ProcessOnOrder \/ ProcessOnTrade
    PROVE  Tally'
<1>1. /\ queue # <<>> /\ queue' = Tail(queue) /\ dropped' = dropped
      /\ Withdrawn' = Withdrawn
    BY DEF ProcessOnOrder, ProcessOnTrade, counterVars, Withdrawn
<1>2. PICK k \in Nat, c \in Nat, d \in Nat, w \in Nat :
         k = kills /\ c = Cancelled /\ d = Cancelled' /\ w = Cardinality(Withdrawn)
    <2>1. Cancelled' \in Nat
        <3>1. queue' \in Seq(Event)
            BY <1>1 DEF TypeOK
        <3>2. Statuses(queue') \in Seq(Status)
            BY <3>1, StatusesShape
        <3>. QED BY <3>2, TimesType DEF Cancelled
    <2>. QED BY <2>1, CancelledType, FS_CardinalityType DEF Tally
<1>3. k + c <= w /\ (~dropped => k + c = w)
    BY <1>2 DEF Tally
<1>4. c = IF Head(queue).status = "CANCELLED" THEN d + 1 ELSE d
    BY <1>1, <1>2, TailTally
<1>5. kills' \in {k, k + 1} /\ (kills' = k + 1 => Head(queue).status = "CANCELLED")
    BY <1>2 DEF ProcessOnOrder, ProcessOnTrade, KillsAfterReport
<1>6. ~dropped /\ Head(queue).status = "CANCELLED" => kills' = k + 1
    <2> SUFFICES ASSUME ~dropped, Head(queue).status = "CANCELLED" PROVE kills' = k + 1
        OBVIOUS
    <2>1. Head(queue) = queue[1] /\ 1 \in 1 .. Len(queue)
        BY <1>1, HeadType
    <2>2. Head(queue).kind # "trade"
        BY <2>1 DEF Tracking, AllAnnounced, MatchStatuses
    <2>3. Addressed(Head(queue))
        BY <2>1, <2>2, DispatchEffect DEF Trailing
    <2>. QED BY <1>2, <2>2, <2>3 DEF ProcessOnOrder, ProcessOnTrade, KillsAfterReport
<1>7. /\ kills' + d <= w /\ (~dropped => kills' + d = w)
    <2>1. CASE Head(queue).status = "CANCELLED" /\ kills' = k + 1
        <3>1. k + (d + 1) <= w /\ (~dropped => k + (d + 1) = w)
            BY <1>3, <1>4, <2>1
        <3>. QED BY <2>1, <3>1
    <2>2. CASE Head(queue).status = "CANCELLED" /\ kills' = k /\ dropped
        <3>1. k + (d + 1) <= w
            BY <1>3, <1>4, <2>2
        <3>. QED BY <2>2, <3>1
    <2>3. CASE Head(queue).status # "CANCELLED" /\ kills' = k
        BY <1>3, <1>4, <2>3
    <2>. QED BY <1>5, <1>6, <2>1, <2>2, <2>3
<1>. QED BY <1>1, <1>2, <1>7 DEF Tally

\* Each action adds to both sides of the balance, or to none.
LEMMA TallyInductive ==
    ASSUME TypeOK, Bookkeeping, Tracking, Tally, [Next]_vars
    PROVE  Tally'
<1>1. ASSUME NEW id \in OrderIds, Withdraw(id) PROVE Tally'
    <2>1. Push(OrderEvent(id, "CANCELLED")) /\ OrderEvent(id, "CANCELLED") \in Event
        BY <1>1, DecodedReports, OrderEventType DEF Withdraw, Status
    <2>2. id \notin Withdrawn /\ Withdrawn' = Withdrawn \cup {id} /\ kills' = kills
        BY <1>1 DEF Withdraw, Withdrawn, Live, LiveStates, TypeOK, CounterOrder, engineVars
    <2>. QED BY <2>1, <2>2, ReportTally DEF OrderEvent
<1>2. SUFFICES ASSUME \A id \in OrderIds : ~Withdraw(id) PROVE Tally'
    BY <1>1
<1>3. Withdrawn' = Withdrawn
    BY <1>2, WithdrawnSame
<1>4. ASSUME NEW id \in OrderIds, NEW status \in Status \ {"CANCELLED"},
             Push(OrderEvent(id, status)), kills' = kills
      PROVE  Tally'
    BY <1>3, <1>4, OrderEventType, ReportTally DEF OrderEvent
<1>5. ASSUME NEW id \in OrderIds, Acknowledge(id) \/ Refuse(id) PROVE Tally'
    <2>1. \E status \in {"SUBMITTED", "PENDING", "ERROR"} : Push(OrderEvent(id, status))
        BY <1>5, DecodedReports DEF Acknowledge, Refuse
    <2>. QED BY <1>4, <1>5, <2>1 DEF Acknowledge, Refuse, engineVars, Status
<1>6. ASSUME NEW id \in OrderIds, NEW volume \in 1 .. counter[id].left, Match(id, volume)
      PROVE  Tally'
    BY <1>4, <1>6, MatchEffect DEF Match, engineVars, MatchStatuses, Status
<1>7. ASSUME NEW volume \in 1 .. owed.volume, ReportTrade(volume) PROVE Tally'
    <2>1. owed \in [id : OrderIds, volume : Nat \ {0}, status : Status] /\ owed # NoTrade
        BY <1>7 DEF ReportTrade, TypeOK
    <2>2. account' \in Position
        BY TypeInductive DEF TypeOK
    <2>3. TradeEvent(owed.id, owed.status, volume, account') \in Event
        BY <2>1, <2>2 DEF TradeEvent, Event
    <2>4. owed.status # "CANCELLED"
        BY <2>1 DEF Bookkeeping, MatchStatuses
    <2>. QED BY <1>3, <1>7, <2>3, <2>4, ReportTally DEF ReportTrade, TradeEvent, engineVars
<1>8. CASE ProcessOnOrder \/ ProcessOnTrade
    BY <1>8, DispatchTally
<1>9. CASE UNCHANGED <<queue, dropped, kills>>
    BY <1>3, <1>9 DEF Tally, Cancelled
<1>. QED
    BY <1>2, <1>5, <1>6, <1>7, <1>8, <1>9
    DEF Next, Strategy, SendBegin, SendEnd, Kill, SetTradable, Dispatch, Counter, RefuseCancel,
        vars, engineVars

\* kill_times counts cancellations, each once (KillTimesExact).
THEOREM KillTimesExactCorrect == Spec => []KillTimesExact
<1> DEFINE IInv == TypeOK /\ Bookkeeping /\ Tracking /\ Tally
<1>1. Init => Tally
    <2> SUFFICES ASSUME Init PROVE Tally
        OBVIOUS
    <2>1. Withdrawn = {}
        BY DEF Init, Withdrawn, UnusedOrder
    <2>2. Cancelled = 0
        <3>1. queue = <<>>
            BY DEF Init
        <3>2. \A i \in 1 .. Len(Statuses(queue)) : Statuses(queue)[i] # "CANCELLED"
            BY <3>1 DEF Statuses
        <3>. QED BY <3>2, TimesAbsent DEF Cancelled
    <2>. QED BY <2>1, <2>2, FS_EmptySet DEF Init, Tally
<1>2. TypeOK /\ Bookkeeping /\ Tracking /\ Tally /\ [Next]_vars => Tally'
    BY TallyInductive
<1>3. TypeOK /\ Tally => KillTimesExact
    <2> SUFFICES ASSUME TypeOK, Tally PROVE KillTimesExact
        OBVIOUS
    <2>1. Cancelled = Cardinality({i \in 1 .. Len(queue) : queue[i].status = "CANCELLED"})
        <3>1. Len(Statuses(queue)) = Len(queue)
            BY DEF Statuses, TypeOK
        <3>2. {i \in 1 .. Len(Statuses(queue)) : Statuses(queue)[i] = "CANCELLED"}
                = {i \in 1 .. Len(queue) : queue[i].status = "CANCELLED"}
            BY <3>1 DEF Statuses
        <3>. QED BY <3>2 DEF Cancelled, Times
    <2>. QED BY <2>1 DEF Tally, KillTimesExact, Withdrawn
<1>4. QED BY <1>1, <1>2, <1>3, TrackingCorrect, PTL DEF Spec
=================================================================================
