-------------------------- MODULE SmartOrders_proofs --------------------------
(***************************************************************************)
(* The safety of SmartOrders for any number of SmartOrders, orders and     *)
(* requests: type correctness, then the inductive invariant in its three   *)
(* parts (who owns an id; what a SmartOrder waits for; what the book lags  *)
(* the account by), then the properties that follow from it.               *)
(***************************************************************************)
EXTENDS SmartOrders, TLAPS

----------------------------------------------------------------------------
(* What the position arithmetic of process_on_trade computes, for all       *)
(* positions and volumes.                                                   *)

\* The settlement of the reference also leaves four integers.
LEMMA SettleType ==
    ASSUME NEW p \in Position, NEW direction \in Directions, NEW flag \in SentFlags,
           NEW volume \in Int
    PROVE  Settle(p, direction, flag, volume) \in Position
BY DEF Settle, FromYesterday, Least, Position, Directions, SentFlags

\* A trade that comes back from CTP, decoded and put through the two nested switches of
\* process_on_trade, is settled exactly as the reference settles it: closes take
\* yesterday's holding first, on the opposite side.
THEOREM ApplyTradeIsSettle ==
    ASSUME NEW p \in Position, NEW direction \in Directions, NEW flag \in SentFlags,
           NEW volume \in Int
    PROVE  ApplyTrade(p, FromCtpDirection(direction), FromCtpOffset(flag), volume)
               = Settle(p, direction, flag, volume)
<1> DEFINE side   == FromCtpDirection(direction)
           offset == FromCtpOffset(flag)
<1>1. CASE direction = "Buy"
    <2>1. side = "LONG"
        BY <1>1 DEF FromCtpDirection
    <2>2. CASE flag = "Open"
        <3>1. offset = "OPEN"
            BY <2>2 DEF FromCtpOffset
        <3>2. QED
            BY <1>1, <2>1, <2>2, <3>1 DEF ApplyTrade, Buy, Settle, Position
    <2>3. CASE flag = "CloseToday"
        <3>1. offset = "CLOSETODAY"
            BY <2>3 DEF FromCtpOffset
        <3>2. QED
            BY <1>1, <2>1, <2>3, <3>1 DEF ApplyTrade, Buy, Settle, FromYesterday, Position
    <2>4. CASE flag = "CloseYesterday"
        <3>1. offset = "CLOSEYESTERDAY"
            BY <2>4 DEF FromCtpOffset
        <3>2. QED
            BY <1>1, <2>1, <2>4, <3>1 DEF ApplyTrade, Buy, Settle, FromYesterday, Position
    <2>5. CASE flag = "Close"
        <3>1. offset = "CLOSE"
            BY <2>5 DEF FromCtpOffset
        <3>2. ApplyTrade(p, side, offset, volume) = CloseShort(p, volume)
            BY <2>1, <3>1 DEF ApplyTrade, Buy
        <3>3. CASE p.ystShort >= volume
            BY <1>1, <2>5, <3>2, <3>3 DEF CloseShort, Settle, FromYesterday, Least, Position
        <3>4. CASE ~(p.ystShort >= volume)
            <4>1. FromYesterday(p.ystShort, flag, volume) = p.ystShort
                BY <2>5, <3>4 DEF FromYesterday, Least, Position
            <4>2. CloseShort(p, volume) =
                    [todayLong |-> p.todayLong, todayShort |-> p.todayShort - (volume - p.ystShort),
                     ystLong |-> p.ystLong, ystShort |-> 0]
                BY <3>4 DEF CloseShort, Position
            <4>3. QED
                BY <1>1, <2>5, <3>2, <4>1, <4>2 DEF Settle, Position
        <3>5. QED BY <3>3, <3>4
    <2>6. QED BY <2>2, <2>3, <2>4, <2>5 DEF SentFlags
<1>2. CASE direction = "Sell"
    <2>1. side = "SHORT"
        BY <1>2 DEF FromCtpDirection
    <2>2. CASE flag = "Open"
        <3>1. offset = "OPEN"
            BY <2>2 DEF FromCtpOffset
        <3>2. QED
            BY <1>2, <2>1, <2>2, <3>1 DEF ApplyTrade, Sell, Settle, Position
    <2>3. CASE flag = "CloseToday"
        <3>1. offset = "CLOSETODAY"
            BY <2>3 DEF FromCtpOffset
        <3>2. QED
            BY <1>2, <2>1, <2>3, <3>1 DEF ApplyTrade, Sell, Settle, FromYesterday, Position
    <2>4. CASE flag = "CloseYesterday"
        <3>1. offset = "CLOSEYESTERDAY"
            BY <2>4 DEF FromCtpOffset
        <3>2. QED
            BY <1>2, <2>1, <2>4, <3>1 DEF ApplyTrade, Sell, Settle, FromYesterday, Position
    <2>5. CASE flag = "Close"
        <3>1. offset = "CLOSE"
            BY <2>5 DEF FromCtpOffset
        <3>2. ApplyTrade(p, side, offset, volume) = CloseLong(p, volume)
            BY <2>1, <3>1 DEF ApplyTrade, Sell
        <3>3. CASE p.ystLong >= volume
            BY <1>2, <2>5, <3>2, <3>3 DEF CloseLong, Settle, FromYesterday, Least, Position
        <3>4. CASE ~(p.ystLong >= volume)
            <4>1. FromYesterday(p.ystLong, flag, volume) = p.ystLong
                BY <2>5, <3>4 DEF FromYesterday, Least, Position
            <4>2. CloseLong(p, volume) =
                    [todayLong |-> p.todayLong - (volume - p.ystLong), todayShort |-> p.todayShort,
                     ystLong |-> 0, ystShort |-> p.ystShort]
                BY <3>4 DEF CloseLong, Position
            <4>3. QED
                BY <1>2, <2>5, <3>2, <4>1, <4>2 DEF Settle, Position
        <3>5. QED BY <3>3, <3>4
    <2>6. QED BY <2>2, <2>3, <2>4, <2>5 DEF SentFlags
<1>3. QED BY <1>1, <1>2 DEF Directions

\* A trade leaves four counters that are still integers.
LEMMA ApplyTradeType ==
    ASSUME NEW p \in Position, NEW direction \in Directions, NEW flag \in SentFlags,
           NEW volume \in Int
    PROVE  ApplyTrade(p, FromCtpDirection(direction), FromCtpOffset(flag), volume) \in Position
BY ApplyTradeIsSettle, SettleType

\* Whatever the offset, a trade moves net_pos() by exactly its signed volume.
THEOREM TradeMovesNetPos ==
    ASSUME NEW p \in Position, NEW side \in Sides, NEW offset \in TradeOffsets,
           NEW volume \in Int
    PROVE  NetPos(ApplyTrade(p, side, offset, volume))
               = NetPos(p) + (IF side = "LONG" THEN volume ELSE -volume)
<1>1. CASE side = "LONG"
    BY <1>1 DEF ApplyTrade, Buy, CloseShort, NetPos, Position, TradeOffsets
<1>2. CASE side = "SHORT"
    BY <1>2 DEF ApplyTrade, Sell, CloseLong, NetPos, Position, TradeOffsets
<1>3. QED BY <1>1, <1>2 DEF Sides

\* A CLOSE trade no larger than the holding it closes leaves no counter negative,
\* however the holding is split between yesterday and today.
THEOREM CloseKeepsCovered ==
    ASSUME NEW p \in Position, Covered(p), NEW side \in Sides, NEW volume \in Nat,
           volume <= (IF side = "LONG" THEN ShortPos(p) ELSE LongPos(p))
    PROVE  Covered(ApplyTrade(p, side, "CLOSE", volume))
BY DEF ApplyTrade, Buy, Sell, CloseShort, CloseLong, ShortPos, LongPos, Covered,
       Position, Sides

\* A match settled in two trades is settled like one trade of all its lots: the lots that
\* the first takes from yesterday's holding are no longer there for the second.
THEOREM SettleInParts ==
    ASSUME NEW p \in Position, NEW direction \in Directions, NEW flag \in SentFlags,
           NEW first \in Nat, NEW rest \in Nat
    PROVE  Settle(Settle(p, direction, flag, first), direction, flag, rest)
               = Settle(p, direction, flag, first + rest)
<1>1. CASE direction = "Buy"
    BY <1>1 DEF Settle, FromYesterday, Least, Position
<1>2. CASE direction = "Sell"
    BY <1>2 DEF Settle, FromYesterday, Least, Position
<1>3. QED BY <1>1, <1>2 DEF Directions

\* What covers a match covers the first of its trades.
LEMMA PartIsCovered ==
    ASSUME NEW p \in Position, NEW direction \in Directions, NEW flag \in SentFlags,
           NEW first \in Nat, NEW rest \in Nat,
           Covered(p), Covered(Settle(p, direction, flag, first + rest))
    PROVE  Covered(Settle(p, direction, flag, first))
<1>1. CASE direction = "Buy"
    BY <1>1 DEF Settle, FromYesterday, Least, Position, Covered
<1>2. CASE direction = "Sell"
    BY <1>2 DEF Settle, FromYesterday, Least, Position, Covered
<1>3. QED BY <1>1, <1>2 DEF Directions

\* send() never passes AUTO on to the gateway, whose conversion has no case for it.
LEMMA RequestOffsetType ==
    ASSUME NEW p \in Position, NEW side \in Sides, NEW offset \in Offsets
    PROVE  RequestOffset(p, side, offset) \in TradeOffsets
BY DEF RequestOffset, AutoOffset, Offsets, TradeOffsets

----------------------------------------------------------------------------
(* What survives the way to CTP and back, and what the handlers of          *)
(* AlgoEngine make of the order statuses that CTP reports.                  *)

\* Whatever send is asked for, AUTO included, the order that CTP reports back is decoded
\* to the side, the offset and the type that were sent.
THEOREM IntentSurvives ==
    ASSUME NEW p \in Position, NEW side \in Sides, NEW asked \in Offsets,
           NEW type \in OrderTypes
    PROVE  LET offset == RequestOffset(p, side, asked)
           IN  /\ FromCtpDirection(ToCtpDirection(side)) = side
               /\ FromCtpOffset(ToCtpCombOffset(offset)) = offset
               /\ FromCtpPriceType(ToCtpPriceType(type)) = type
<1>1. FromCtpDirection(ToCtpDirection(side)) = side
    BY DEF FromCtpDirection, ToCtpDirection, Sides
<1>2. ASSUME NEW offset \in TradeOffsets
      PROVE  FromCtpOffset(ToCtpCombOffset(offset)) = offset
    BY DEF FromCtpOffset, ToCtpCombOffset, TradeOffsets
<1>3. RequestOffset(p, side, asked) \in TradeOffsets
    BY RequestOffsetType
<1>4. FromCtpPriceType(ToCtpPriceType(type)) = type
    BY DEF FromCtpPriceType, ToCtpPriceType, OrderTypes
<1>5. QED BY <1>1, <1>2, <1>3, <1>4

\* The statuses of an order without a trigger, and those with which it is over.  CTP has
\* one more, NoTradeNotQueueing, which from_ctp_order_status has no case for.
PlainStatuses == {"AllTraded", "PartTradedQueueing", "PartTradedNotQueueing",
                  "NoTradeQueueing", "Canceled", "Unknown"}

Ends(status, submit) ==
    \/ status \in {"AllTraded", "PartTradedNotQueueing", "Canceled"}
    \/ status = "Unknown" /\ submit = "InsertRejected"

\* An active SmartOrder is released, by a report or by the trade that follows it, exactly
\* when the report says that the order is over, whatever status_ was left over from the
\* order before: a report overwrites it before any trade of the order reads it.
THEOREM ReleasedIffEnded ==
    ASSUME NEW o \in SmartOrderState, o.active,
           NEW status \in PlainStatuses, NEW submit \in SubmitStatuses
    PROVE  LET reported == AfterReport(o, FromCtpOrderStatus(status, submit))
           IN  /\ ~reported.active => Ends(status, submit)
               /\ Ends(status, submit) => ~AfterTrade(reported).active
               /\ ~Ends(status, submit) => AfterTrade(reported).active
<1> DEFINE decoded  == FromCtpOrderStatus(status, submit)
           reported == AfterReport(o, decoded)
           Goal     == /\ ~reported.active => Ends(status, submit)
                       /\ Ends(status, submit) => ~AfterTrade(reported).active
                       /\ ~Ends(status, submit) => AfterTrade(reported).active
<1>0. SUFFICES Goal
    OBVIOUS
<1>1. CASE status = "Canceled"
    <2>1. decoded = "CANCELLED"
        BY <1>1 DEF FromCtpOrderStatus
    <2>2. reported = [o EXCEPT !.active = FALSE]
        BY <2>1 DEF AfterReport
    <2>3. QED BY <1>1, <2>2 DEF AfterTrade, Ends, SmartOrderState
<1>2. CASE status = "Unknown" /\ submit = "InsertRejected"
    <2>1. decoded = "ERROR"
        BY <1>2 DEF FromCtpOrderStatus, WithoutOrderStatus
    <2>2. reported = [o EXCEPT !.status = "ERROR", !.active = FALSE]
        BY <2>1 DEF AfterReport
    <2>3. QED BY <1>2, <2>2 DEF AfterTrade, Ends, SmartOrderState
<1>3. CASE status \in {"AllTraded", "PartTradedNotQueueing"}
    <2>1. decoded \in {"FILLED", "PARTIALFILLEDNOTACTIVE"}
        BY <1>3 DEF FromCtpOrderStatus
    <2>2. reported = [o EXCEPT !.status = decoded]
        BY <2>1 DEF AfterReport
    <2>3. QED BY <1>3, <2>1, <2>2 DEF AfterTrade, Ends, SmartOrderState
<1>4. CASE \/ status \in {"PartTradedQueueing", "NoTradeQueueing"}
           \/ status = "Unknown" /\ submit # "InsertRejected"
    <2>1. decoded \in {"SUBMITTED", "PENDING", "PARTIALFILLEDACTIVE"}
        BY <1>4 DEF FromCtpOrderStatus, WithoutOrderStatus
    <2>2. reported = [o EXCEPT !.status = decoded]
        BY <2>1 DEF AfterReport
    <2>3. QED BY <1>4, <2>1, <2>2 DEF AfterTrade, Ends, SmartOrderState
<1> HIDE DEF Goal
<1>5. QED BY <1>1, <1>2, <1>3, <1>4 DEF PlainStatuses

USE NoOrderAssumption, IdsAssumption, FlagsAssumption

----------------------------------------------------------------------------
(* Type correctness.                                                        *)

\* Whether push keeps or loses an event, the queue stays a sequence of events.
LEMMA PushType ==
    ASSUME TypeOK, NEW e \in Event, Push(e)
    PROVE  queue' \in Seq(Event) /\ dropped' \in BOOLEAN
<1>1. queue \in Seq(Event) /\ dropped \in BOOLEAN
    BY DEF TypeOK
<1>2. Append(queue, e) \in Seq(Event)
    BY <1>1
<1>3. CASE queue' = Append(queue, e) /\ dropped' = dropped
    BY <1>1, <1>2, <1>3
<1>4. CASE queue' = queue /\ dropped' = TRUE
    BY <1>1, <1>4
<1>5. QED BY <1>3, <1>4 DEF Push

\* A report of a known status is an event of the queue.
LEMMA OrderEventType ==
    ASSUME TypeOK, NEW id \in OrderIds, NEW status \in Status
    PROVE  OrderEvent(id, status) \in Event
BY DEF OrderEvent, Event, TypeOK

\* What from_ctp_order_status makes of the reports of the counter.
LEMMA DecodedReports ==
    /\ FromCtpOrderStatus("Unknown", "InsertSubmitted") = "SUBMITTED"
    /\ FromCtpOrderStatus("NoTradeQueueing", "Accepted") = "PENDING"
    /\ FromCtpOrderStatus("Unknown", "InsertRejected") = "ERROR"
    /\ FromCtpInputOrder = "ERROR"
    /\ \A submit : FromCtpOrderStatus("Canceled", submit) = "CANCELLED"
    /\ FromCtpOrderStatus("AllTraded", "Accepted") = "FILLED"
    /\ FromCtpOrderStatus("PartTradedQueueing", "Accepted") = "PARTIALFILLEDACTIVE"
    /\ FromCtpOrderStatus("PartTradedNotQueueing", "Accepted") = "PARTIALFILLEDNOTACTIVE"
BY DEF FromCtpOrderStatus, WithoutOrderStatus, FromCtpInputOrder

\* A match changes one order, owes its trade and reports a status by which the
\* program can tell whether the order goes on.
LEMMA MatchEffect ==
    ASSUME NEW id \in OrderIds, NEW volume, Match(id, volume)
    PROVE  \E report \in MatchReports, status \in MatchStatuses :
              /\ counter' = [counter EXCEPT ![id] = AfterMatch(@, volume, report)]
              /\ owed' = [id |-> id, volume |-> volume, status |-> status]
              /\ Push(OrderEvent(id, status))
              /\ status \in ClosingMatch <=> report # "PartTradedQueueing"
<1>1. PICK report \in MatchReports :
        /\ counter' = [counter EXCEPT ![id] = AfterMatch(@, volume, report)]
        /\ owed' = [id |-> id, volume |-> volume,
                    status |-> FromCtpOrderStatus(report, "Accepted")]
        /\ Push(OrderEvent(id, FromCtpOrderStatus(report, "Accepted")))
    BY DEF Match
<1>2. /\ FromCtpOrderStatus(report, "Accepted") \in MatchStatuses
      /\ FromCtpOrderStatus(report, "Accepted") \in ClosingMatch <=> report # "PartTradedQueueing"
    BY DecodedReports DEF MatchReports, MatchStatuses, ClosingMatch
<1>3. QED BY <1>1, <1>2

\* The head of a queue that is not empty is an event, what follows it a queue.
LEMMA HeadType ==
    ASSUME TypeOK, queue # <<>>
    PROVE  /\ Head(queue) \in Event
           /\ Head(queue) = queue[1]
           /\ Tail(queue) \in Seq(Event)
           /\ Len(queue) \in Nat \ {0}
BY DEF TypeOK

\* send leaves a SmartOrder with the id it was given, active.
LEMMA AfterSendType ==
    ASSUME NEW o \in SmartOrderState, NEW id \in OrderIds \cup {FailedId}
    PROVE  [o EXCEPT !.id = id, !.active = TRUE] \in SmartOrderState
BY DEF SmartOrderState

\* Whatever status is reported, process_on_order leaves a well-formed SmartOrder.
LEMMA AfterReportType ==
    ASSUME NEW o \in SmartOrderState, NEW status \in Status
    PROVE  AfterReport(o, status) \in SmartOrderState
BY DEF AfterReport, SmartOrderState

\* A trade only ever touches is_active_.
LEMMA AfterTradeType ==
    ASSUME NEW o \in SmartOrderState
    PROVE  AfterTrade(o) \in SmartOrderState
BY DEF AfterTrade, SmartOrderState

\* An event passes the id guards only if the id map names a SmartOrder for it.
LEMMA AddressedType ==
    ASSUME TypeOK, NEW e \in Event, Addressed(e)
    PROVE  registered[e.id] \in SmartOrder
BY DEF Addressed, TypeOK, Event

\* An order of the counter may go through any of its states.
LEMMA CounterStateType ==
    ASSUME TypeOK, NEW id \in OrderIds,
           NEW state \in {"submitted", "queued", "done", "withdrawn"}
    PROVE  [counter[id] EXCEPT !.state = state] \in CounterOrder
<1>1. counter[id] \in CounterOrder
    BY DEF TypeOK
<1>2. state \in LiveStates \cup {"unused", "done", "withdrawn"}
    BY DEF LiveStates
<1>3. QED BY <1>1, <1>2 DEF CounterOrder

\* send gives the counter one well-formed order of the SmartOrder, or none.
LEMMA SendCounter ==
    ASSUME TypeOK, NEW s \in SmartOrder, NEW r \in Requests, SendBegin(s, r)
    PROVE  \/ counter' = counter
           \/ \E x \in OrderIds, o \in CounterOrder :
                 counter' = [counter EXCEPT ![x] = o] /\ o.owner = s
<1> DEFINE o == [state |-> "inserted", owner |-> s, direction |-> ToCtpDirection(r.side),
                 flag |-> ToCtpCombOffset(RequestOffset(pos, r.side, r.offset)),
                 left |-> r.volume]
<1>1. r \in Request
    BY RequestsAssumption
<1>2. /\ ToCtpDirection(r.side) \in Directions
      /\ ToCtpCombOffset(RequestOffset(pos, r.side, r.offset)) \in SentFlags
    BY DEF ToCtpDirection, ToCtpCombOffset, Directions, SentFlags
<1>3. o \in CounterOrder /\ o.owner = s
    <2>1. r.volume \in Nat
        BY <1>1 DEF SendBegin, Request
    <2>2. QED BY <1>2, <2>1 DEF CounterOrder, LiveStates
<1>4. counter' = counter \/ \E x \in OrderIds : counter' = [counter EXCEPT ![x] = o]
    BY DEF SendBegin
<1> HIDE DEF o
<1>5. QED BY <1>3, <1>4

\* Every action of the event thread, of the gateway and of the counter keeps the
\* types.
LEMMA TypeInductive == TypeOK /\ [Next]_vars => TypeOK'
<1> SUFFICES ASSUME TypeOK, [Next]_vars PROVE TypeOK'
    OBVIOUS
<1> USE DEF TypeOK
<1>1. ASSUME NEW s \in SmartOrder, NEW r \in Requests, SendBegin(s, r) PROVE TypeOK'
    <2>1. r \in Request
        BY RequestsAssumption
    <2>3. counter' \in [OrderIds -> CounterOrder]
        BY <1>1, SendCounter
    <2>4. sent' \in [Sides -> Nat]
        BY <1>1, <2>1 DEF SendBegin, Request
    <2>5. call' \in [so : SmartOrder, id : OrderIds \cup {FailedId}]
        BY <1>1 DEF SendBegin
    <2>6. tradable' \in BOOLEAN
        BY <1>1, Zenon DEF SendBegin
    <2>7. QED
        BY <1>1, <2>3, <2>4, <2>5, <2>6 DEF SendBegin
<1>2. ASSUME SendEnd PROVE TypeOK'
    <2>1. call.so \in SmartOrder /\ call.id \in OrderIds \cup {FailedId}
        BY <1>2 DEF SendEnd
    <2>2. [orders[call.so] EXCEPT !.id = call.id, !.active = TRUE] \in SmartOrderState
        BY <2>1, AfterSendType
    <2>3. orders' \in [SmartOrder -> SmartOrderState]
        BY <1>2, <2>1, <2>2 DEF SendEnd
    <2>4. registered' \in [OrderIds \cup {FailedId} -> SmartOrder \cup {NoOrder}]
        BY <1>2, <2>1 DEF SendEnd
    <2>5. QED
        BY <1>2, <2>3, <2>4 DEF SendEnd, counterVars
<1>3. ASSUME NEW s \in SmartOrder, Kill(s) PROVE TypeOK'
    <2>1. orders[s].id \in OrderIds \cup {FailedId, NoId}
        BY DEF SmartOrderState
    <2>2. QED
        BY <1>3, <2>1 DEF Kill, engineVars
<1>4. ASSUME SetTradable PROVE TypeOK'
    <2>1. tradable' \in BOOLEAN
        BY <1>4, Zenon DEF SetTradable
    <2>2. QED
        BY <1>4, <2>1 DEF SetTradable, counterVars
<1>5. ASSUME ProcessOnOrder PROVE TypeOK'
    <2>1. Head(queue) \in Event /\ Tail(queue) \in Seq(Event)
        BY <1>5, HeadType DEF ProcessOnOrder
    <2>2. orders' \in [SmartOrder -> SmartOrderState] /\ kills' \in Nat
        <3>1. CASE Addressed(Head(queue))
            <4>1. registered[Head(queue).id] \in SmartOrder
                BY <2>1, <3>1, AddressedType
            <4>2. AfterReport(orders[registered[Head(queue).id]], Head(queue).status)
                      \in SmartOrderState
                BY <2>1, <4>1, AfterReportType DEF Event
            <4>3. /\ orders' = [orders EXCEPT ![registered[Head(queue).id]] =
                                    AfterReport(@, Head(queue).status)]
                  /\ kills' = KillsAfterReport(kills, Head(queue).status)
                BY <1>5, <3>1 DEF ProcessOnOrder
            <4>4. QED
                BY <4>1, <4>2, <4>3 DEF KillsAfterReport
        <3>2. CASE ~Addressed(Head(queue))
            BY <1>5, <3>2 DEF ProcessOnOrder
        <3>3. QED BY <3>1, <3>2
    <2>3. QED
        BY <1>5, <2>1, <2>2 DEF ProcessOnOrder, counterVars
<1>6. ASSUME ProcessOnTrade PROVE TypeOK'
    <2>1. Head(queue) \in Event /\ Tail(queue) \in Seq(Event)
        BY <1>6, HeadType DEF ProcessOnTrade
    <2>2. orders' \in [SmartOrder -> SmartOrderState] /\ pos' \in Position
        <3>1. CASE Addressed(Head(queue))
            <4>1. registered[Head(queue).id] \in SmartOrder
                BY <2>1, <3>1, AddressedType
            <4>2. AfterTrade(orders[registered[Head(queue).id]]) \in SmartOrderState
                BY <4>1, AfterTradeType
            <4>3. ApplyTrade(pos, FromCtpDirection(counter[Head(queue).id].direction),
                             FromCtpOffset(counter[Head(queue).id].flag), Head(queue).volume)
                      \in Position
                BY <2>1, ApplyTradeType DEF Event, CounterOrder
            <4>4. /\ orders' = [orders EXCEPT ![registered[Head(queue).id]] = AfterTrade(@)]
                  /\ pos' = ApplyTrade(pos, FromCtpDirection(counter[Head(queue).id].direction),
                                       FromCtpOffset(counter[Head(queue).id].flag),
                                       Head(queue).volume)
                BY <1>6, <3>1 DEF ProcessOnTrade
            <4>5. QED
                BY <4>1, <4>2, <4>3, <4>4
        <3>2. CASE ~Addressed(Head(queue))
            BY <1>6, <3>2 DEF ProcessOnTrade
        <3>3. QED BY <3>1, <3>2
    <2>3. QED
        BY <1>6, <2>1, <2>2 DEF ProcessOnTrade, counterVars
<1>7. ASSUME NEW id \in OrderIds, Acknowledge(id) PROVE TypeOK'
    <2>1. queue' \in Seq(Event) /\ dropped' \in BOOLEAN
        BY <1>7, PushType, OrderEventType, DecodedReports DEF Acknowledge, Status
    <2>2. counter' \in [OrderIds -> CounterOrder]
        <3>1. /\ [counter[id] EXCEPT !.state = "submitted"] \in CounterOrder
              /\ [counter[id] EXCEPT !.state = "queued"] \in CounterOrder
            BY CounterStateType
        <3>2. QED BY <1>7, <3>1 DEF Acknowledge
    <2>3. QED
        BY <1>7, <2>1, <2>2 DEF Acknowledge, engineVars
<1>8. ASSUME NEW id \in OrderIds, Refuse(id) PROVE TypeOK'
    <2>1. queue' \in Seq(Event) /\ dropped' \in BOOLEAN
        BY <1>8, PushType, OrderEventType, DecodedReports DEF Refuse, Status
    <2>2. counter' \in [OrderIds -> CounterOrder]
        <3>1. [counter[id] EXCEPT !.state = "done"] \in CounterOrder
            BY CounterStateType
        <3>2. QED BY <1>8, <3>1 DEF Refuse
    <2>3. QED
        BY <1>8, <2>1, <2>2 DEF Refuse, engineVars
<1>9. ASSUME NEW id \in OrderIds, Withdraw(id) PROVE TypeOK'
    <2>1. queue' \in Seq(Event) /\ dropped' \in BOOLEAN
        BY <1>9, PushType, OrderEventType, DecodedReports DEF Withdraw, Status
    <2>2. counter' \in [OrderIds -> CounterOrder]
        <3>1. [counter[id] EXCEPT !.state = "withdrawn"] \in CounterOrder
            BY CounterStateType
        <3>2. QED BY <1>9, <3>1 DEF Withdraw
    <2>3. QED
        BY <1>9, <2>1, <2>2 DEF Withdraw, engineVars
<1>10. ASSUME NEW id \in OrderIds, NEW volume \in 1 .. counter[id].left, Match(id, volume)
       PROVE  TypeOK'
    <2>1. PICK report \in MatchReports, status \in MatchStatuses :
            /\ counter' = [counter EXCEPT ![id] = AfterMatch(@, volume, report)]
            /\ owed' = [id |-> id, volume |-> volume, status |-> status]
            /\ Push(OrderEvent(id, status))
        BY <1>10, MatchEffect
    <2>2. queue' \in Seq(Event) /\ dropped' \in BOOLEAN
        BY <2>1, PushType, OrderEventType DEF MatchStatuses, Status
    <2>3. counter[id].left \in Nat
        BY DEF CounterOrder
    <2>4. counter' \in [OrderIds -> CounterOrder]
        <3>1. counter[id] \in CounterOrder /\ counter[id].left - volume \in Nat
            BY <2>3
        <3>2. AfterMatch(counter[id], volume, report) \in CounterOrder
            BY <3>1 DEF AfterMatch, CounterOrder, LiveStates
        <3>3. QED BY <2>1, <3>2
    <2>5. owed' \in [id : OrderIds, volume : Nat \ {0}, status : Status]
        BY <2>1, <2>3 DEF MatchStatuses, Status
    <2>6. QED
        BY <1>10, <2>2, <2>4, <2>5 DEF Match, engineVars
<1>11. ASSUME NEW volume \in 1 .. owed.volume, ReportTrade(volume) PROVE TypeOK'
    <2>1. owed \in [id : OrderIds, volume : Nat \ {0}, status : Status]
        BY <1>11 DEF ReportTrade
    <2>2. account' \in Position
        BY <1>11, <2>1, SettleType DEF ReportTrade, CounterOrder
    <2>3. TradeEvent(owed.id, owed.status, volume, account') \in Event
        BY <2>1, <2>2 DEF TradeEvent, Event
    <2>4. queue' \in Seq(Event) /\ dropped' \in BOOLEAN
        BY <1>11, <2>3, PushType DEF ReportTrade
    <2>5. owed' \in [id : OrderIds, volume : Nat \ {0}, status : Status] \cup {NoTrade}
        BY <1>11, <2>1 DEF ReportTrade
    <2>6. QED
        BY <1>11, <2>2, <2>4, <2>5 DEF ReportTrade, engineVars
<1>12. ASSUME NEW id \in cancels, RefuseCancel(id) PROVE TypeOK'
    BY <1>12 DEF RefuseCancel, engineVars
<1>13. CASE UNCHANGED vars
    BY <1>13 DEF vars, engineVars, counterVars
<1>14. QED
    BY <1>1, <1>2, <1>3, <1>4, <1>5, <1>6, <1>7, <1>8, <1>9, <1>10, <1>11, <1>12, <1>13
    DEF Next, Strategy, Dispatch, Counter

\* The members of SmartOrder, AlgoEngine and Instrument, the queue and the
\* exchange keep their types, whatever is lost, refused or split.
THEOREM TypeCorrect == Spec => []TypeOK
<1>1. Init => TypeOK
    <2> SUFFICES ASSUME Init PROVE TypeOK
        OBVIOUS
    <2>1. orders \in [SmartOrder -> SmartOrderState]
        <3>1. \A st \in InitStatuses : [id |-> NoId, status |-> st, active |-> FALSE]
                                           \in SmartOrderState
            BY InitStatusesAssumption DEF SmartOrderState
        <3>2. QED BY <3>1 DEF Init
    <2>2. counter \in [OrderIds -> CounterOrder]
        <3>1. UnusedOrder \in CounterOrder
            BY DEF UnusedOrder, CounterOrder, Directions, SentFlags
        <3>2. QED BY <3>1 DEF Init
    <2>3. pos \in Position /\ account \in Position
        BY InitPositionsAssumption DEF Init
    <2>4. sent \in [Sides -> Nat] /\ queue \in Seq(Event)
        BY DEF Init
    <2>5. QED
        BY <2>1, <2>2, <2>3, <2>4 DEF Init, TypeOK
<1>2. QED
    BY <1>1, TypeInductive, PTL DEF Spec

----------------------------------------------------------------------------
(* Who owns which id.                                                       *)

\* An id is handed out once: from then on its owner, direction and flag are fixed.
LEMMA CounterStable ==
    ASSUME TypeOK, [Next]_vars, NEW id \in OrderIds, counter[id].state # "unused"
    PROVE  /\ counter'[id].state # "unused"
           /\ counter'[id].owner = counter[id].owner
           /\ counter'[id].direction = counter[id].direction
           /\ counter'[id].flag = counter[id].flag
<1>1. counter \in [OrderIds -> CounterOrder]
    BY DEF TypeOK
<1>2. ASSUME NEW s \in SmartOrder, NEW r \in Requests, SendBegin(s, r)
      PROVE  counter'[id] = counter[id]
    BY <1>1, <1>2 DEF SendBegin
<1>3. ASSUME NEW x \in OrderIds, Acknowledge(x)
      PROVE  counter'[id] \in {counter[id], [counter[id] EXCEPT !.state = "submitted"],
                               [counter[id] EXCEPT !.state = "queued"]}
    BY <1>1, <1>3 DEF Acknowledge
<1>4. ASSUME NEW x \in OrderIds, Refuse(x)
      PROVE  counter'[id] \in {counter[id], [counter[id] EXCEPT !.state = "done"]}
    BY <1>1, <1>4 DEF Refuse
<1>5. ASSUME NEW x \in OrderIds, Withdraw(x)
      PROVE  counter'[id] \in {counter[id], [counter[id] EXCEPT !.state = "withdrawn"]}
    BY <1>1, <1>5 DEF Withdraw
<1>6. ASSUME NEW x \in OrderIds, NEW volume \in 1 .. counter[x].left, Match(x, volume)
      PROVE  \/ counter'[id] = counter[id]
             \/ \E report \in MatchReports :
                   counter'[id] = AfterMatch(counter[id], volume, report)
    BY <1>1, <1>6 DEF Match
<1>7. ASSUME counter' = counter PROVE counter'[id] = counter[id]
    BY <1>7
<1>8. \/ counter'[id] = counter[id]
      \/ \E st \in {"submitted", "queued", "done", "withdrawn"} :
            counter'[id] = [counter[id] EXCEPT !.state = st]
      \/ \E volume \in Int, report \in MatchReports :
            counter'[id] = AfterMatch(counter[id], volume, report)
    <2>1. CASE Strategy
        <3>1. CASE \E s \in SmartOrder, r \in Requests : SendBegin(s, r)
            BY <1>2, <3>1
        <3>2. CASE SetTradable \/ \E s \in SmartOrder : Kill(s)
            BY <1>7, <3>2 DEF SetTradable, Kill, counterVars
        <3>3. QED BY <2>1, <3>1, <3>2 DEF Strategy
    <2>2. CASE SendEnd \/ Dispatch
        BY <1>7, <2>2 DEF SendEnd, Dispatch, ProcessOnOrder, ProcessOnTrade, counterVars
    <2>3. CASE Counter
        <3>1. CASE \E x \in OrderIds : Acknowledge(x)
            BY <1>3, <3>1
        <3>2. CASE \E x \in OrderIds : Refuse(x)
            BY <1>4, <3>2
        <3>3. CASE \E x \in OrderIds : Withdraw(x)
            BY <1>5, <3>3
        <3>4. CASE \E x \in OrderIds : \E volume \in 1 .. counter[x].left : Match(x, volume)
            BY <1>6, <3>4
        <3>5. CASE \/ \E volume \in 1 .. owed.volume : ReportTrade(volume)
                   \/ \E x \in cancels : RefuseCancel(x)
            BY <1>7, <3>5 DEF ReportTrade, RefuseCancel
        <3>6. QED BY <2>3, <3>1, <3>2, <3>3, <3>4, <3>5 DEF Counter
    <2>4. CASE UNCHANGED vars
        BY <1>7, <2>4 DEF vars, counterVars
    <2>5. QED BY <2>1, <2>2, <2>3, <2>4 DEF Next
<1>9. counter[id] \in CounterOrder
    BY <1>1
<1>10. QED
    BY <1>8, <1>9 DEF AfterMatch, CounterOrder

\* What a push leaves in the queue, position by position.
LEMMA PushShape ==
    ASSUME TypeOK, NEW e \in Event, Push(e)
    PROVE  \/ /\ queue' = queue
              /\ dropped'
           \/ /\ Len(queue') = Len(queue) + 1
              /\ \A i \in 1 .. Len(queue) : queue'[i] = queue[i]
              /\ queue'[Len(queue) + 1] = e
              /\ dropped' = dropped
<1>1. queue \in Seq(Event)
    BY DEF TypeOK
<1>2. CASE queue' = Append(queue, e) /\ dropped' = dropped
    BY <1>1, <1>2
<1>3. CASE queue' = queue /\ dropped' = TRUE
    BY <1>3
<1>4. QED BY <1>2, <1>3 DEF Push

\* What a dispatch leaves in the queue.
LEMMA TailShape ==
    ASSUME TypeOK, queue # <<>>, queue' = Tail(queue)
    PROVE  /\ Len(queue') = Len(queue) - 1
           /\ Len(queue) \in Nat \ {0}
           /\ \A i \in 1 .. Len(queue) - 1 : queue'[i] = queue[i + 1]
BY DEF TypeOK

\* Each step leaves the queue alone, takes its head, or puts one event of an order
\* the exchange knows at its tail.
LEMMA QueueStep ==
    ASSUME TypeOK, Bookkeeping, [Next]_vars
    PROVE  \A i \in 1 .. Len(queue') :
              /\ queue'[i].id \in OrderIds
              /\ \/ \E j \in 1 .. Len(queue) : queue'[i] = queue[j]
                 \/ counter[queue'[i].id].state # "unused"
<1> DEFINE Goal == \A i \in 1 .. Len(queue') :
              /\ queue'[i].id \in OrderIds
              /\ \/ \E j \in 1 .. Len(queue) : queue'[i] = queue[j]
                 \/ counter[queue'[i].id].state # "unused"
<1>1. queue \in Seq(Event) /\ \A i \in 1 .. Len(queue) : queue[i].id \in OrderIds
    <2>1. queue \in Seq(Event)
        BY DEF TypeOK
    <2>2. \A i \in 1 .. Len(queue) : queue[i] \in Event
        BY <2>1
    <2>3. QED BY <2>1, <2>2 DEF Event
<1>2. ASSUME queue' = queue PROVE Goal
    BY <1>1, <1>2
<1>3. ASSUME queue # <<>>, queue' = Tail(queue) PROVE Goal
    BY <1>1, <1>3, TailShape
<1>4. ASSUME NEW e \in Event, Push(e), counter[e.id].state # "unused" PROVE Goal
    BY <1>1, <1>4, PushShape DEF Event
<1>5. CASE Strategy \/ SendEnd \/ UNCHANGED vars
    BY <1>2, <1>5 DEF Strategy, SendBegin, Kill, SetTradable, SendEnd, vars
<1>6. CASE Dispatch
    BY <1>3, <1>6 DEF Dispatch, ProcessOnOrder, ProcessOnTrade
<1>7. ASSUME NEW id \in OrderIds, NEW status \in Status, Push(OrderEvent(id, status)),
             counter[id].state # "unused"
      PROVE  Goal
    BY <1>4, <1>7, OrderEventType DEF OrderEvent
<1>8. ASSUME NEW id \in OrderIds, Acknowledge(id) \/ Refuse(id) \/ Withdraw(id)
      PROVE  Goal
    <2>1. counter[id].state # "unused"
        BY <1>8 DEF Acknowledge, Refuse, Withdraw, Live, LiveStates
    <2>2. \E status \in Status : Push(OrderEvent(id, status))
        BY <1>8, DecodedReports DEF Acknowledge, Refuse, Withdraw, Status
    <2>3. QED
        BY <1>7, <2>1, <2>2
<1>9. ASSUME NEW id \in OrderIds, NEW volume \in 1 .. counter[id].left, Match(id, volume)
      PROVE  Goal
    BY <1>7, <1>9, MatchEffect DEF Match, MatchStatuses, Status, Live, LiveStates
<1>10. ASSUME NEW volume \in 1 .. owed.volume, ReportTrade(volume) PROVE Goal
    <2>1. owed \in [id : OrderIds, volume : Nat \ {0}, status : Status] /\ owed # NoTrade
        BY <1>10 DEF ReportTrade, TypeOK
    <2>2. account' \in Position
        BY TypeInductive DEF TypeOK
    <2>3. TradeEvent(owed.id, owed.status, volume, account') \in Event
        BY <2>1, <2>2 DEF TradeEvent, Event
    <2>4. counter[owed.id].state # "unused"
        BY <2>1 DEF Bookkeeping
    <2>5. QED
        BY <1>4, <1>10, <2>3, <2>4 DEF ReportTrade, TradeEvent
<1>11. ASSUME NEW id \in cancels, RefuseCancel(id) PROVE Goal
    BY <1>2, <1>11 DEF RefuseCancel
<1>12. QED
    BY <1>5, <1>6, <1>8, <1>9, <1>10, <1>11 DEF Next, Counter

\* SmartOrder, id map and exchange never disagree on the owner of an id.
LEMMA BookkeepingInductive ==
    ASSUME TypeOK, Bookkeeping, [Next]_vars
    PROVE  Bookkeeping'
<1> DEFINE Owned(s) ==
        /\ call.so = s => ~orders[s].active
        /\ orders[s].id \in OrderIds =>
              /\ counter[orders[s].id].state # "unused"
              /\ counter[orders[s].id].owner = s
              /\ registered[orders[s].id] = s
<1> DEFINE Called ==
        call.id \in OrderIds =>
              /\ counter[call.id].state # "unused"
              /\ counter[call.id].owner = call.so
<1>1. (\A s \in SmartOrder : Owned(s)) /\ Called
    BY DEF Bookkeeping
<1>2. ASSUME UNCHANGED <<orders, registered, call>>
      PROVE  (\A s \in SmartOrder : Owned(s)') /\ Called'
    BY <1>1, <1>2, CounterStable
<1>3. (\A s \in SmartOrder : Owned(s)') /\ Called'
    <2>1. ASSUME NEW s \in SmartOrder, NEW r \in Requests, SendBegin(s, r)
          PROVE  (\A x \in SmartOrder : Owned(x)') /\ Called'
        <3>1. orders' = orders /\ registered' = registered /\ ~orders[s].active
            BY <2>1 DEF SendBegin
        <3>2. call'.so = s
            BY <2>1 DEF SendBegin
        <3>3. \A x \in SmartOrder : Owned(x)'
            BY <1>1, <3>1, <3>2, CounterStable
        <3>4. Called'
            <4>1. CASE \E id \in OrderIds :
                        /\ counter' = [counter EXCEPT ![id] =
                             [state |-> "inserted", owner |-> s,
                              direction |-> ToCtpDirection(r.side),
                              flag |-> ToCtpCombOffset(RequestOffset(pos, r.side, r.offset)),
                              left |-> r.volume]]
                        /\ call' = [so |-> s, id |-> id]
                BY <4>1 DEF TypeOK
            <4>2. CASE call' = [so |-> s, id |-> FailedId]
                BY <4>2
            <4>3. QED BY <2>1, <4>1, <4>2 DEF SendBegin
        <3>5. QED BY <3>3, <3>4
    <2>2. CASE SendEnd
        <3>1. call.so \in SmartOrder /\ call.id \in OrderIds \cup {FailedId}
            BY <2>2 DEF SendEnd, TypeOK
        <3>2. /\ orders' = [orders EXCEPT ![call.so] = [@ EXCEPT !.id = call.id, !.active = TRUE]]
              /\ registered' = [registered EXCEPT ![call.id] = call.so]
              /\ call' = NoCall
              /\ counter' = counter
            BY <2>2 DEF SendEnd, counterVars
        <3>3. PICK so \in SmartOrder : so = call.so
            BY <3>1
        <3>4. \A s \in SmartOrder : call'.so # s
            BY <3>2 DEF NoCall
        <3>5. Owned(so)'
            <4>1. orders'[so].id = call.id
                BY <3>1, <3>2, <3>3 DEF TypeOK, SmartOrderState
            <4>2. registered'[call.id] = so
                BY <3>1, <3>2, <3>3 DEF TypeOK
            <4>3. QED BY <1>1, <3>2, <3>3, <3>4, <4>1, <4>2
        <3>6. ASSUME NEW s \in SmartOrder, s # so PROVE Owned(s)'
            <4>1. orders'[s] = orders[s]
                BY <3>1, <3>2, <3>3, <3>6 DEF TypeOK
            <4>2. orders[s].id \in OrderIds => orders[s].id # call.id
                BY <1>1, <3>3, <3>6
            <4>3. orders[s].id \in OrderIds => registered'[orders[s].id] = registered[orders[s].id]
                BY <3>1, <3>2, <4>2 DEF TypeOK
            <4>4. QED
                BY <1>1, <3>2, <3>4, <4>1, <4>3
        <3>7. QED
            BY <3>2, <3>5, <3>6 DEF NoCall
    <2>3. CASE ProcessOnOrder \/ ProcessOnTrade
        <3>1. UNCHANGED <<registered, call, counter>> /\ call = NoCall
            BY <2>3 DEF ProcessOnOrder, ProcessOnTrade, counterVars
        <3>2. \A s \in SmartOrder : orders'[s].id = orders[s].id
            <4>1. CASE orders' = orders
                BY <4>1
            <4>2. ASSUME NEW s \in SmartOrder, NEW st \in Status,
                         orders' = [orders EXCEPT ![s] = AfterReport(@, st)]
                  PROVE  \A x \in SmartOrder : orders'[x].id = orders[x].id
                BY <4>2 DEF AfterReport, TypeOK, SmartOrderState
            <4>3. ASSUME NEW s \in SmartOrder, orders' = [orders EXCEPT ![s] = AfterTrade(@)]
                  PROVE  \A x \in SmartOrder : orders'[x].id = orders[x].id
                BY <4>3 DEF AfterTrade, TypeOK, SmartOrderState
            <4>4. queue # <<>>
                BY <2>3 DEF ProcessOnOrder, ProcessOnTrade
            <4>5. Head(queue) \in Event /\ Head(queue).status \in Status
                BY <4>4, HeadType DEF Event
            <4>6. CASE ~Addressed(Head(queue))
                BY <2>3, <4>1, <4>6 DEF ProcessOnOrder, ProcessOnTrade
            <4>7. CASE Addressed(Head(queue))
                <5>1. registered[Head(queue).id] \in SmartOrder
                    BY <4>5, <4>7, AddressedType
                <5>2. QED
                    BY <2>3, <4>2, <4>3, <4>5, <4>7, <5>1 DEF ProcessOnOrder, ProcessOnTrade
            <4>8. QED BY <4>6, <4>7
        <3>3. QED
            BY <1>1, <3>1, <3>2 DEF NoCall
    <2>4. CASE SetTradable \/ Counter \/ UNCHANGED vars \/ \E s \in SmartOrder : Kill(s)
        <3>1. UNCHANGED <<orders, registered, call>>
            BY <2>4 DEF SetTradable, Kill, Counter, Acknowledge, Refuse, Withdraw, Match,
                        ReportTrade, RefuseCancel, vars, engineVars
        <3>2. QED BY <1>2, <3>1
    <2>5. QED
        BY <2>1, <2>2, <2>3, <2>4 DEF Next, Strategy, Dispatch
<1>4. \A id \in OrderIds : counter'[id].state # "unused" => counter'[id].owner \in SmartOrder
    <2>1. ASSUME NEW id \in OrderIds, counter[id].state = "unused", counter'[id].state # "unused"
          PROVE  counter'[id].owner \in SmartOrder
        <3>1. counter' # counter
            BY <2>1
        <3>2. CASE \E s \in SmartOrder, r \in Requests : SendBegin(s, r)
            <4>1. PICK s \in SmartOrder, r \in Requests : SendBegin(s, r)
                BY <3>2
            <4>2. \/ counter' = counter
                  \/ \E x \in OrderIds, o \in CounterOrder :
                        counter' = [counter EXCEPT ![x] = o] /\ o.owner = s
                BY <4>1, SendCounter
            <4>3. counter \in [OrderIds -> CounterOrder]
                BY DEF TypeOK
            <4>4. QED BY <2>1, <4>2, <4>3
        <3>3. CASE \E x \in OrderIds : Acknowledge(x) \/ Refuse(x) \/ Withdraw(x)
            BY <2>1, <3>3 DEF Acknowledge, Refuse, Withdraw, Live, LiveStates, TypeOK
        <3>4. CASE \E x \in OrderIds : \E volume \in 1 .. counter[x].left : Match(x, volume)
            BY <2>1, <3>4 DEF Match, Live, LiveStates, TypeOK
        <3>5. QED
            BY <3>1, <3>2, <3>3, <3>4 DEF Next, Strategy, Kill, SetTradable, SendEnd, Dispatch,
               ProcessOnOrder, ProcessOnTrade, Counter, ReportTrade, RefuseCancel, vars, counterVars
    <2>2. QED
        BY <2>1, CounterStable DEF Bookkeeping
<1>5. owed' # NoTrade => counter'[owed'.id].state # "unused" /\ owed'.status \in MatchStatuses
    <2>1. owed # NoTrade => owed.id \in OrderIds
        BY DEF TypeOK
    <2>2. CASE owed' = owed \/ owed' = NoTrade
        BY <2>1, <2>2, CounterStable DEF Bookkeeping
    <2>3. ASSUME NEW id \in OrderIds, NEW volume \in 1 .. counter[id].left, Match(id, volume)
          PROVE  owed'.id = id /\ counter[id].state # "unused" /\ owed'.status \in MatchStatuses
        <3>1. PICK status \in MatchStatuses :
                  owed' = [id |-> id, volume |-> volume, status |-> status]
            BY <2>3, MatchEffect
        <3>2. counter[id].state # "unused"
            BY <2>3 DEF Match, Live, LiveStates
        <3>3. QED BY <3>1, <3>2
    <2>4. ASSUME NEW volume \in 1 .. owed.volume, ReportTrade(volume), owed' # NoTrade
          PROVE  owed # NoTrade /\ owed'.id = owed.id /\ owed'.status = owed.status
        <3>1. owed # NoTrade /\ owed' = [owed EXCEPT !.volume = @ - volume]
            BY <2>4 DEF ReportTrade
        <3>2. owed \in [id : OrderIds, volume : Nat \ {0}, status : Status]
            BY <3>1 DEF TypeOK
        <3>3. QED BY <3>1, <3>2
    <2>5. \/ owed' = owed
          \/ \E id \in OrderIds : \E volume \in 1 .. counter[id].left : Match(id, volume)
          \/ \E volume \in 1 .. owed.volume : ReportTrade(volume)
        BY DEF Next, Strategy, SendBegin, Kill, SetTradable, SendEnd, Dispatch,
               ProcessOnOrder, ProcessOnTrade, Counter, Acknowledge, Refuse, Withdraw,
               RefuseCancel, vars, counterVars
    <2>6. CASE \E id \in OrderIds : \E volume \in 1 .. counter[id].left : Match(id, volume)
        BY <2>3, <2>6, CounterStable
    <2>7. CASE \E volume \in 1 .. owed.volume : ReportTrade(volume)
        <3>1. owed' # NoTrade => owed # NoTrade /\ owed'.id = owed.id /\ owed'.status = owed.status
            BY <2>4, <2>7
        <3>2. QED BY <2>1, <3>1, CounterStable DEF Bookkeeping
    <2>8. QED
        BY <2>2, <2>5, <2>6, <2>7
<1>6. \A i \in 1 .. Len(queue') : counter'[queue'[i].id].state # "unused"
    BY QueueStep, CounterStable DEF Bookkeeping
<1>7. QED
    BY <1>3, <1>4, <1>5, <1>6 DEF Bookkeeping

----------------------------------------------------------------------------
(* What a SmartOrder waits for.                                             *)

\* Every queued event is an event of an order the exchange knows the owner of.
LEMMA QueuedEvent ==
    ASSUME TypeOK, Bookkeeping, NEW i \in 1 .. Len(queue)
    PROVE  /\ queue[i] \in Event
           /\ queue[i].id \in OrderIds
           /\ counter[queue[i].id].state # "unused"
           /\ counter[queue[i].id].owner \in SmartOrder
<1>1. queue \in Seq(Event)
    BY DEF TypeOK
<1>2. queue[i] \in Event
    BY <1>1
<1>3. queue[i].id \in OrderIds
    BY <1>2 DEF Event
<1>4. QED BY <1>2, <1>3 DEF Bookkeeping

\* A dispatched event changes only the SmartOrder it is for.  While nothing is lost it
\* passes the order_id guard, unless it trails behind the trade that gave the SmartOrder
\* back: a final event clears is_active, no other does, and a match report leaves its
\* status there.
LEMMA DispatchEffect ==
    ASSUME TypeOK, Bookkeeping, Tracking, ~dropped, ProcessOnOrder \/ ProcessOnTrade,
           NEW e, e = queue[1], NEW s, s = counter[e.id].owner
    PROVE  /\ s \in SmartOrder
           /\ \A x \in SmartOrder \ {s} : orders'[x] = orders[x]
           /\ orders'[s].id = orders[s].id
           /\ orders'[s].active => orders[s].active
           /\ e.kind = "trade" => orders'[s].status = orders[s].status
           /\ Trailing(e) \/ Holds(s, e.id)
           /\ ~Holds(s, e.id) => orders'[s].active = orders[s].active
           /\ Holds(s, e.id) => /\ orders[s].id = e.id /\ orders[s].active
                                /\ Addressed(e) /\ registered[e.id] = s
                                /\ ~Final(e) => orders'[s].active
                                /\ Final(e) => ~orders'[s].active
           /\ e.kind = "order" /\ e.status \in MatchStatuses => orders'[s].status = e.status
<1>1. /\ queue # <<>> /\ queue' = Tail(queue)
      /\ call = NoCall /\ call' = call
      /\ counter' = counter /\ owed' = owed
    BY DEF ProcessOnOrder, ProcessOnTrade, counterVars
<1>2. 1 \in 1 .. Len(queue) /\ Head(queue) = e
    BY <1>1, HeadType
<1>3. /\ e \in Event /\ e.id \in OrderIds
      /\ counter[e.id].state # "unused" /\ s \in SmartOrder
    BY <1>2, QueuedEvent
<1>4. Trailing(e) \/ Holds(s, e.id)
    BY <1>2 DEF Tracking, AllHeld
<1>5. Holds(s, e.id) <=> orders[s].active /\ orders[s].id = e.id
    BY <1>1, <1>3 DEF Holds, NoCall
<1>6. Holds(s, e.id) => Addressed(e)
    <2>1. Holds(s, e.id) => registered[e.id] = s
        BY <1>3, <1>5 DEF Bookkeeping
    <2>. QED BY <1>3, <1>5, <2>1 DEF Addressed
<1>7. Addressed(e) => registered[e.id] = s /\ orders[s].id = e.id
    <2> SUFFICES ASSUME Addressed(e) PROVE registered[e.id] = s /\ orders[s].id = e.id
        OBVIOUS
    <2>1. PICK r \in SmartOrder : r = registered[e.id]
        BY <1>3, AddressedType
    <2>2. orders[r].id = e.id
        BY <2>1 DEF Addressed
    <2>3. r = s
        BY <1>3, <2>2 DEF Bookkeeping
    <2>. QED BY <2>1, <2>2, <2>3
<1>8. orders[s] \in SmartOrderState /\ orders \in [SmartOrder -> SmartOrderState]
    BY <1>3 DEF TypeOK
<1>9. CASE ProcessOnOrder
    <2>0. Holds(s, e.id) /\ e.kind = "order"
        BY <1>2, <1>4, <1>9 DEF ProcessOnOrder, Trailing
    <2>1. orders' = [orders EXCEPT ![s] = AfterReport(@, e.status)]
        BY <1>2, <1>6, <1>7, <1>9, <2>0 DEF ProcessOnOrder
    <2>2. orders'[s] = AfterReport(orders[s], e.status)
        BY <1>3, <1>8, <2>1
    <2>4. /\ orders'[s].id = e.id
          /\ orders'[s].active <=> e.status \notin ClosingReport
          /\ e.status \in MatchStatuses => orders'[s].status = e.status
        <3>1. CASE e.status = "CANCELLED"
            <4>1. orders'[s] = [orders[s] EXCEPT !.active = FALSE]
                BY <2>2, <3>1 DEF AfterReport
            <4>2. orders'[s].active = FALSE /\ orders'[s].id = orders[s].id
                BY <1>8, <4>1 DEF SmartOrderState
            <4>3. QED
                BY <1>5, <2>0, <3>1, <4>2 DEF ClosingReport, MatchStatuses
        <3>2. CASE e.status \in {"ERROR", "REJECT"}
            <4>1. orders'[s] = [orders[s] EXCEPT !.status = e.status, !.active = FALSE]
                BY <2>2, <3>2 DEF AfterReport
            <4>2. orders'[s].active = FALSE /\ orders'[s].id = orders[s].id
                BY <1>8, <4>1 DEF SmartOrderState
            <4>3. QED
                BY <1>5, <2>0, <3>2, <4>2 DEF ClosingReport, MatchStatuses
        <3>3. CASE e.status \notin ClosingReport
            <4>1. orders'[s] = [orders[s] EXCEPT !.status = e.status]
                BY <2>2, <3>3 DEF AfterReport, ClosingReport
            <4>2. /\ orders'[s].active = orders[s].active /\ orders'[s].id = orders[s].id
                  /\ orders'[s].status = e.status
                BY <1>8, <4>1 DEF SmartOrderState
            <4>3. orders[s].active /\ orders[s].id = e.id
                BY <1>5, <2>0
            <4>4. orders'[s].active /\ orders'[s].id = e.id
                BY <4>2, <4>3
            <4>5. QED
                BY <3>3, <4>2, <4>4
        <3>4. QED BY <3>1, <3>2, <3>3 DEF ClosingReport
    <2>5. QED
        BY <1>3, <1>5, <1>6, <1>7, <1>8, <2>0, <2>1, <2>4 DEF Final
<1>10. CASE ProcessOnTrade
    <2>0. e.kind = "trade"
        BY <1>2, <1>10 DEF ProcessOnTrade
    <2>1. CASE ~Addressed(e)
        <3>1. orders' = orders
            BY <1>2, <1>10, <2>1 DEF ProcessOnTrade
        <3>. QED BY <1>3, <1>4, <1>6, <2>0, <2>1, <3>1
    <2>2. CASE Addressed(e)
        <3>1. orders' = [orders EXCEPT ![s] = AfterTrade(@)] /\ orders[s].id = e.id
            BY <1>2, <1>7, <1>10, <2>2 DEF ProcessOnTrade
        <3>2. orders'[s] = AfterTrade(orders[s])
            BY <1>3, <1>8, <3>1
        <3>3. /\ orders'[s].id = orders[s].id /\ orders'[s].status = orders[s].status
              /\ orders'[s].active = (orders[s].active /\ orders[s].status \notin ClosingMatch)
            <4>1. \/ /\ orders'[s] = [orders[s] EXCEPT !.active = FALSE]
                     /\ orders[s].status \in ClosingMatch
                  \/ /\ orders'[s] = orders[s]
                     /\ orders[s].status \notin ClosingMatch
                BY <3>2 DEF AfterTrade, ClosingMatch
            <4>. QED BY <1>8, <4>1 DEF SmartOrderState
        <3>4. Holds(s, e.id) => orders[s].status = e.status
            <4>1. Holds(s, e.id) => Announced(1, e.id, e.status)
                BY <1>2, <2>0 DEF Tracking, AllAnnounced
            <4>. QED BY <4>1 DEF Announced
        <3>5. orders[s].active \in BOOLEAN
            BY <1>8 DEF SmartOrderState
        <3>6. Holds(s, e.id) => (Final(e) <=> ~orders'[s].active)
            BY <1>5, <2>0, <3>3, <3>4 DEF Final
        <3>7. ~Holds(s, e.id) => orders'[s].active = orders[s].active
            BY <1>5, <3>1, <3>3, <3>5
        <3>8. \A x \in SmartOrder \ {s} : orders'[x] = orders[x]
            BY <1>8, <3>1
        <3>10. orders'[s].active => orders[s].active
            BY <3>3
        <3>11. ~(e.kind = "order")
            BY <2>0
        <3>12. Holds(s, e.id) => (~Final(e) => orders'[s].active) /\ (Final(e) => ~orders'[s].active)
            BY <3>6
        <3>9. Holds(s, e.id) => /\ orders[s].id = e.id /\ orders[s].active
                                /\ Addressed(e) /\ registered[e.id] = s
            BY <1>5, <1>6, <1>7
        <3>. QED BY <1>3, <1>4, <3>3, <3>7, <3>8, <3>9, <3>10, <3>11, <3>12, Zenon
    <2>. QED BY <2>1, <2>2
<1>11. QED BY <1>9, <1>10

\* A dispatch releases at most the SmartOrder of a final event, and by then nothing
\* else is known or to come about that order.
LEMMA DispatchKeepsTracking ==
    ASSUME TypeOK, Bookkeeping, Tracking, ~dropped, ProcessOnOrder \/ ProcessOnTrade
    PROVE  Tracking'
<1> DEFINE e == queue[1]
           s == counter[e.id].owner
<1> USE DEF Tracking
<1>1. /\ queue # <<>> /\ queue' = Tail(queue)
      /\ call = NoCall /\ call' = call
      /\ counter' = counter /\ owed' = owed
    BY DEF ProcessOnOrder, ProcessOnTrade, counterVars
<1>2. /\ Len(queue') = Len(queue) - 1
      /\ Len(queue) \in Nat \ {0}
      /\ \A i \in 1 .. Len(queue) - 1 : queue'[i] = queue[i + 1]
    BY <1>1, TailShape
<1>3. /\ 1 \in 1 .. Len(queue) /\ e.id \in OrderIds
      /\ e.kind \in {"order", "trade"}
    BY <1>2, QueuedEvent DEF Event
<1>4. /\ s \in SmartOrder
      /\ \A x \in SmartOrder \ {s} : orders'[x] = orders[x]
      /\ orders'[s].id = orders[s].id
      /\ orders'[s].active => orders[s].active
      /\ e.kind = "trade" => orders'[s].status = orders[s].status
      /\ Trailing(e) \/ Holds(s, e.id)
      /\ ~Holds(s, e.id) => orders'[s].active = orders[s].active
      /\ Holds(s, e.id) => orders[s].id = e.id /\ (~Final(e) => orders'[s].active)
      /\ e.kind = "order" /\ e.status \in MatchStatuses => orders'[s].status = e.status
    BY DispatchEffect
<1>5. ASSUME NEW x \in SmartOrder, NEW id \in OrderIds
      PROVE  /\ Holds(x, id) <=> orders[x].active /\ orders[x].id = id
             /\ Holds(x, id)' <=> orders'[x].active /\ orders'[x].id = id
    BY <1>1, <1>5 DEF Holds, NoCall
<1>6. ASSUME NEW id \in OrderIds, counter[id].owner \in SmartOrder
      PROVE  /\ Holds(counter[id].owner, id) /\ (Final(e) => id # e.id)
                   => Holds(counter[id].owner, id)'
             /\ Holds(counter[id].owner, id)' => Holds(counter[id].owner, id)
    <2>1. PICK x \in SmartOrder : x = counter[id].owner /\ x = counter'[id].owner
        BY <1>1, <1>6
    <2>2. CASE x # s
        <3>1. orders'[x] = orders[x]
            BY <1>4, <2>2
        <3>2. Holds(x, id)' <=> Holds(x, id)
            BY <1>5, <3>1
        <3>. QED BY <2>1, <3>2
    <2>3. CASE x = s
        <3>1. /\ orders'[x].id = orders[x].id
              /\ orders'[x].active => orders[x].active
              /\ ~Holds(x, e.id) => orders'[x].active = orders[x].active
              /\ Holds(x, e.id) => orders[x].id = e.id /\ (~Final(e) => orders'[x].active)
            BY <1>4, <2>3
        <3>2. Holds(x, id)' => Holds(x, id)
            BY <1>5, <3>1
        <3>3. ASSUME Holds(x, id), Final(e) => id # e.id PROVE Holds(x, id)'
            <4>1. orders[x].active /\ orders[x].id = id /\ orders'[x].id = id
                BY <1>5, <3>1, <3>3
            <4>2. CASE Holds(x, e.id)
                BY <1>5, <3>1, <3>3, <4>1, <4>2
            <4>3. CASE ~Holds(x, e.id)
                BY <1>5, <3>1, <4>1, <4>3
            <4>. QED BY <4>2, <4>3
        <3>. QED BY <2>1, <3>2, <3>3
    <2>. QED BY <2>2, <2>3
<1>7. AllHeld'
    <2>1. ASSUME NEW id \in OrderIds, Live(id)' PROVE Holds(counter[id].owner, id)'
        <3>1. Live(id)
            BY <1>1, <2>1 DEF Live
        <3>2. Final(e) => id # e.id
            BY <1>3, <3>1 DEF FinalIsLast
        <3>3. counter[id].owner \in SmartOrder
            BY <3>1 DEF Bookkeeping, Live, LiveStates
        <3>4. QED BY <1>6, <3>1, <3>2, <3>3 DEF AllHeld
    <2>2. ASSUME NEW i \in 1 .. Len(queue'), ~Trailing(queue[i])'
          PROVE  Holds(counter[queue[i].id].owner, queue[i].id)'
        <3>1. i + 1 \in 1 .. Len(queue) /\ i + 1 \in 1 + 1 .. Len(queue) /\ queue'[i] = queue[i + 1]
            BY <1>2
        <3>2. ~Trailing(queue[i + 1])
            BY <2>2, <3>1 DEF Trailing
        <3>3. Final(e) => queue[i + 1].id # e.id
            BY <1>3, <3>1, <3>2 DEF FinalIsLast
        <3>4. Holds(counter[queue[i + 1].id].owner, queue[i + 1].id)
            BY <3>1, <3>2 DEF AllHeld
        <3>5. PICK id \in OrderIds : id = queue[i + 1].id
            BY <3>1, QueuedEvent
        <3>6. Holds(counter[id].owner, id)'
            BY <1>6, <3>1, <3>3, <3>4, <3>5, QueuedEvent
        <3>7. QED BY <3>1, <3>5, <3>6
    <2>3. ASSUME owed' # NoTrade, ~OwedTrails' PROVE Holds(counter[owed.id].owner, owed.id)'
        <3>1. owed # NoTrade /\ owed.id \in OrderIds /\ ~OwedTrails
            BY <1>1, <2>3 DEF TypeOK, OwedTrails
        <3>2. Final(e) => owed.id # e.id
            BY <1>3, <3>1 DEF FinalIsLast
        <3>3. PICK id \in OrderIds : id = owed.id
            BY <3>1
        <3>4. Holds(counter[id].owner, id)'
            BY <1>6, <3>1, <3>2, <3>3 DEF AllHeld, Bookkeeping
        <3>5. QED BY <1>1, <3>3, <3>4
    <2>4. QED
        BY <2>1, <2>2, <2>3 DEF AllHeld
<1>8. ASSUME NEW n \in 1 .. Len(queue), NEW id \in OrderIds, NEW status \in MatchStatuses,
             Announced(n + 1, id, status), Holds(counter[id].owner, id),
             counter[id].owner \in SmartOrder
      PROVE  Announced(n, id, status)'
    <2>1. \A k \in 1 .. n - 1 : k + 1 \in 2 .. n /\ queue'[k] = queue[k + 1]
        BY <1>2
    <2>2. ASSUME NEW j \in 2 .. n, ReportOf(queue[j], id),
                 queue[j].status = status, \A k \in j + 1 .. n : ~ReportOf(queue[k], id)
          PROVE  Announced(n, id, status)'
        <3>1. /\ j - 1 \in 1 .. n - 1
              /\ queue'[j - 1] = queue[j]
              /\ \A k \in j .. n - 1 : queue'[k] = queue[k + 1] /\ k + 1 \in j + 1 .. n
            BY <2>1
        <3>2. \A k \in (j - 1) + 1 .. n - 1 : ~ReportOf(queue'[k], id)
            BY <2>2, <3>1
        <3>3. QED BY <2>2, <3>1, <3>2 DEF Announced, ReportOf
    <2>3. ASSUME \A k \in 2 .. n : ~ReportOf(queue[k], id),
                 orders'[counter[id].owner].status = status
          PROVE  Announced(n, id, status)'
        <3>1. \A k \in 1 .. n - 1 : ~ReportOf(queue'[k], id)
            BY <2>1, <2>3
        <3>. QED BY <1>1, <2>3, <3>1 DEF Announced, ReportOf
    <2>4. CASE \E j \in 1 .. (n + 1) - 1 :
                  /\ ReportOf(queue[j], id) /\ queue[j].status = status
                  /\ \A k \in j + 1 .. (n + 1) - 1 : ~ReportOf(queue[k], id)
        <3>1. PICK j \in 1 .. n :
                  /\ ReportOf(queue[j], id) /\ queue[j].status = status
                  /\ \A k \in j + 1 .. n : ~ReportOf(queue[k], id)
            BY <2>4
        <3>2. CASE j = 1
            <4>1. e.kind = "order" /\ e.id = id /\ e.status = status
                BY <3>1, <3>2 DEF ReportOf
            <4>2. orders'[counter[id].owner].status = status
                BY <1>4, <4>1
            <4>. QED BY <2>3, <3>1, <3>2, <4>2
        <3>3. CASE j # 1
            BY <2>2, <3>1, <3>3
        <3>4. QED BY <3>2, <3>3
    <2>5. CASE /\ \A k \in 1 .. (n + 1) - 1 : ~ReportOf(queue[k], id)
               /\ orders[counter[id].owner].status = status
        <3>1. \A k \in 1 .. n : ~ReportOf(queue[k], id)
            BY <2>5
        <3>2. ~ReportOf(e, id)
            BY <3>1
        <3>3. e.kind = "trade" \/ counter[id].owner # s
            <4> SUFFICES ASSUME e.kind = "order" PROVE counter[id].owner # s
                BY <1>3
            <4>1. id # e.id /\ ~Trailing(e)
                BY <3>2 DEF ReportOf, Trailing
            <4>2. orders[s].id = e.id
                BY <1>4, <4>1
            <4>. QED BY <1>5, <1>8, <4>1, <4>2
        <3>4. orders'[counter[id].owner].status = status
            BY <1>4, <1>8, <2>5, <3>3
        <3>5. QED BY <2>3, <3>1, <3>4
    <2>6. QED BY <1>8, <2>4, <2>5 DEF Announced
<1>9. AllAnnounced'
    <2>1. ASSUME NEW i \in 1 .. Len(queue'), queue'[i].kind = "trade"
          PROVE  /\ queue'[i].status \in MatchStatuses
                 /\ Holds(counter[queue[i].id].owner, queue[i].id)'
                       => Announced(i, queue[i].id, queue[i].status)'
        <3>1. i \in 1 .. Len(queue) /\ i + 1 \in 1 .. Len(queue) /\ queue'[i] = queue[i + 1]
            BY <1>2
        <3>2. PICK id \in OrderIds, status \in MatchStatuses :
                  id = queue[i + 1].id /\ status = queue[i + 1].status
            BY <2>1, <3>1, QueuedEvent DEF AllAnnounced
        <3>3. counter[id].owner \in SmartOrder
            BY <3>1, <3>2, QueuedEvent
        <3>4. ASSUME Holds(counter[id].owner, id)' PROVE Announced(i, id, status)'
            <4>1. Holds(counter[id].owner, id)
                BY <1>6, <3>3, <3>4
            <4>2. Announced(i + 1, id, status)
                BY <2>1, <3>1, <3>2, <4>1 DEF AllAnnounced
            <4>. QED BY <1>8, <3>1, <3>3, <4>1, <4>2
        <3>5. QED BY <3>1, <3>2, <3>4
    <2>2. ASSUME owed' # NoTrade, Holds(counter[owed.id].owner, owed.id)'
          PROVE  Announced(Len(queue) + 1, owed.id, owed.status)'
        <3>1. owed # NoTrade /\ owed.id \in OrderIds /\ owed.status \in MatchStatuses
            BY <1>1, <2>2 DEF TypeOK, Bookkeeping
        <3>2. PICK id \in OrderIds, status \in MatchStatuses : id = owed.id /\ status = owed.status
            BY <3>1
        <3>3. counter[id].owner \in SmartOrder
            BY <3>1, <3>2 DEF Bookkeeping
        <3>4. Holds(counter[id].owner, id)'
            BY <1>1, <2>2, <3>2
        <3>5. Holds(counter[id].owner, id)
            BY <1>6, <3>3, <3>4
        <3>6. Announced(Len(queue) + 1, id, status)
            BY <3>1, <3>2, <3>5 DEF AllAnnounced
        <3>7. PICK n \in 1 .. Len(queue) : n = Len(queue)
            BY <1>2
        <3>8. Announced(n, id, status)'
            BY <1>8, <3>3, <3>5, <3>6, <3>7
        <3>9. Len(queue') + 1 = n
            BY <1>2, <3>7
        <3>10. QED BY <1>1, <3>2, <3>8, <3>9
    <2>3. QED
        BY <2>1, <2>2 DEF AllAnnounced
<1>10. FinalIsLast'
    <2>1. ASSUME NEW i \in 1 .. Len(queue'), Final(queue'[i])
          PROVE  /\ ~Live(queue[i].id)'
                 /\ owed'.id = queue'[i].id => Trailing(queue'[i]) /\ OwedTrails'
                 /\ \A j \in i + 1 .. Len(queue') :
                       queue'[j].id = queue'[i].id => Trailing(queue'[i]) /\ Trailing(queue'[j])
        <3>1. i + 1 \in 1 .. Len(queue) /\ queue'[i] = queue[i + 1]
            BY <1>2
        <3>2. /\ ~Live(queue[i + 1].id)
              /\ owed.id = queue[i + 1].id => Trailing(queue[i + 1]) /\ OwedTrails
              /\ \A j \in (i + 1) + 1 .. Len(queue) :
                    queue[j].id = queue[i + 1].id => Trailing(queue[i + 1]) /\ Trailing(queue[j])
            BY <2>1, <3>1 DEF FinalIsLast
        <3>3. \A j \in i + 1 .. Len(queue') :
                  queue'[j] = queue[j + 1] /\ j + 1 \in (i + 1) + 1 .. Len(queue)
            BY <1>2
        <3>4. ~Live(queue[i].id)'
            BY <1>1, <3>1, <3>2 DEF Live
        <3>5. owed'.id = queue'[i].id => Trailing(queue'[i]) /\ OwedTrails'
            BY <1>1, <3>1, <3>2 DEF OwedTrails
        <3>6. \A j \in i + 1 .. Len(queue') :
                 queue'[j].id = queue'[i].id => Trailing(queue'[i]) /\ Trailing(queue'[j])
            BY <3>1, <3>2, <3>3
        <3>. QED BY <3>4, <3>5, <3>6
    <2>2. owed'.status \in ClosingMatch => ~Live(owed.id)'
        BY <1>1 DEF FinalIsLast, Live
    <2>3. QED
        BY <2>1, <2>2 DEF FinalIsLast, Final, Trailing
<1>11. QED
    BY <1>7, <1>9, <1>10

\* A report of a live order with no trade outstanding, and the match that may come
\* with it, leave every SmartOrder waiting for what it waited for.
LEMMA ReportKeepsTracking ==
    ASSUME TypeOK, Bookkeeping, Tracking, [Next]_vars, ~dropped',
           NEW id \in OrderIds, Live(id), owed.id # id,
           NEW status \in Status, Push(OrderEvent(id, status)),
           UNCHANGED <<orders, call>>,
           \A x \in OrderIds \ {id} : counter'[x] = counter[x],
           status \in ClosingReport \cup ClosingMatch => ~Live(id)',
           \/ /\ owed' = owed
              /\ status \notin MatchStatuses
           \/ /\ owed = NoTrade
              /\ status \in MatchStatuses
              /\ owed'.id = id /\ owed'.status = status
    PROVE  Tracking'
<1> DEFINE e == OrderEvent(id, status)
<1>3. PICK n \in Nat : n = Len(queue)
    BY DEF TypeOK
<1>1. e \in Event /\ e.id = id /\ e.kind = "order" /\ e.status = status
    BY OrderEventType DEF OrderEvent
<1>2. /\ Len(queue') = n + 1
      /\ \A i \in 1 .. n : queue'[i] = queue[i]
      /\ queue'[n + 1] = e
      /\ ~dropped
    BY <1>1, <1>3, PushShape
<1>4. AllHeld /\ AllAnnounced /\ FinalIsLast
    BY <1>2 DEF Tracking
<1>5. counter[id].state # "unused"
    BY DEF Live, LiveStates
<1>6. ASSUME NEW x \in OrderIds, counter[x].state # "unused"
      PROVE  Holds(counter[x].owner, x)' <=> Holds(counter[x].owner, x)
    BY <1>6, CounterStable DEF Holds
<1>7. AllHeld'
    <2>1. ASSUME NEW x \in OrderIds, Live(x)' PROVE Holds(counter[x].owner, x)'
        <3>1. Live(x)
            BY <2>1 DEF Live
        <3>2. QED BY <1>4, <1>6, <3>1 DEF AllHeld, Live, LiveStates
    <2>2. ASSUME NEW i \in 1 .. Len(queue'), ~Trailing(queue[i])'
          PROVE  Holds(counter[queue[i].id].owner, queue[i].id)'
        <3>1. CASE i \in 1 .. n
            <4>1. PICK x \in OrderIds : x = queue[i].id
                BY <1>3, <3>1, QueuedEvent
            <4>2. ~Trailing(queue[i])
                BY <1>2, <2>2, <3>1 DEF Trailing
            <4>3. Holds(counter[x].owner, x)'
                BY <1>3, <1>4, <1>6, <3>1, <4>1, <4>2, QueuedEvent DEF AllHeld
            <4>4. QED BY <1>2, <3>1, <4>1, <4>3
        <3>2. CASE i = n + 1
            <4>1. Holds(counter[id].owner, id)'
                BY <1>4, <1>5, <1>6 DEF AllHeld
            <4>2. QED BY <1>1, <1>2, <3>2, <4>1
        <3>3. QED BY <1>2, <1>3, <3>1, <3>2
    <2>3. ASSUME owed' # NoTrade, ~OwedTrails' PROVE Holds(counter[owed.id].owner, owed.id)'
        <3>1. CASE owed' = owed
            <4>1. PICK x \in OrderIds : x = owed.id
                BY <2>3, <3>1 DEF TypeOK
            <4>2. Holds(counter[x].owner, x)'
                BY <1>4, <1>6, <2>3, <3>1, <4>1 DEF AllHeld, Bookkeeping, OwedTrails
            <4>3. QED BY <3>1, <4>1, <4>2
        <3>2. CASE owed'.id = id
            <4>1. Holds(counter[id].owner, id)'
                BY <1>4, <1>5, <1>6 DEF AllHeld
            <4>2. QED BY <3>2, <4>1
        <3>3. QED BY <3>1, <3>2
    <2>4. QED
        BY <2>1, <2>2, <2>3 DEF AllHeld
<1>8. ASSUME NEW m \in 1 .. n + 1, NEW x \in OrderIds, NEW st \in MatchStatuses,
             counter[x].state # "unused", Announced(m, x, st)
      PROVE  Announced(m, x, st)'
    <2>1. \A k \in 1 .. m - 1 : queue'[k] = queue[k]
        BY <1>2, <1>3
    <2>2. counter'[x].owner = counter[x].owner
        BY <1>8, CounterStable
    <2>3. QED
        BY <1>8, <2>1, <2>2 DEF Announced, ReportOf
<1>9. AllAnnounced'
    <2>1. ASSUME NEW i \in 1 .. Len(queue'), queue'[i].kind = "trade"
          PROVE  /\ queue'[i].status \in MatchStatuses
                 /\ Holds(counter[queue[i].id].owner, queue[i].id)'
                       => Announced(i, queue[i].id, queue[i].status)'
        <3>1. i \in 1 .. n /\ i \in 1 .. n + 1 /\ queue'[i] = queue[i]
            BY <1>1, <1>2, <1>3, <2>1
        <3>2. PICK x \in OrderIds, st \in MatchStatuses : x = queue[i].id /\ st = queue[i].status
            BY <1>3, <1>4, <2>1, <3>1, QueuedEvent DEF AllAnnounced
        <3>3. counter[x].state # "unused"
            BY <1>3, <3>1, <3>2, QueuedEvent
        <3>4. Holds(counter[x].owner, x) => Announced(i, x, st)
            BY <1>3, <1>4, <2>1, <3>1, <3>2 DEF AllAnnounced
        <3>5. Holds(counter[x].owner, x)' => Announced(i, x, st)'
            BY <1>6, <1>8, <3>1, <3>3, <3>4
        <3>6. QED BY <3>1, <3>2, <3>5
    <2>2. ASSUME owed' # NoTrade, Holds(counter[owed.id].owner, owed.id)'
          PROVE  Announced(Len(queue) + 1, owed.id, owed.status)'
        <3>1. CASE owed' = owed
            <4>1. owed # NoTrade /\ owed.id \in OrderIds /\ owed.status \in MatchStatuses
                BY <2>2, <3>1 DEF TypeOK, Bookkeeping
            <4>2. PICK x \in OrderIds, st \in MatchStatuses : x = owed.id /\ st = owed.status
                BY <4>1
            <4>3. counter[x].state # "unused" /\ Holds(counter[x].owner, x)'
                BY <2>2, <3>1, <4>1, <4>2 DEF Bookkeeping
            <4>4. n + 1 \in 1 .. n + 1 /\ Announced(n + 1, x, st)
                BY <1>3, <1>4, <1>6, <4>1, <4>2, <4>3 DEF AllAnnounced
            <4>5. Announced(n + 1, x, st)'
                BY <1>8, <4>3, <4>4
            <4>6. ~ReportOf(queue'[n + 1], x)
                BY <1>1, <1>2, <4>2 DEF ReportOf
            <4>7. Announced(n + 2, x, st)'
                <5>1. CASE \E j \in 1 .. n : /\ ReportOf(queue'[j], x)
                                             /\ queue'[j].status = st
                                             /\ \A k \in j + 1 .. n : ~ReportOf(queue'[k], x)
                    <6>1. PICK j \in 1 .. n : /\ ReportOf(queue'[j], x)
                                             /\ queue'[j].status = st
                                             /\ \A k \in j + 1 .. n : ~ReportOf(queue'[k], x)
                        BY <5>1
                    <6>2. \A k \in j + 1 .. n + 1 : ~ReportOf(queue'[k], x)
                        BY <1>3, <4>6, <6>1
                    <6>3. j \in 1 .. (n + 2) - 1
                        BY <1>3, <6>1
                    <6>4. QED BY <1>3, <6>1, <6>2, <6>3 DEF Announced, ReportOf
                <5>2. CASE /\ \A k \in 1 .. n : ~ReportOf(queue'[k], x)
                           /\ orders'[counter'[x].owner].status = st
                    <6>1. \A k \in 1 .. n + 1 : ~ReportOf(queue'[k], x)
                        BY <1>3, <4>6, <5>2
                    <6>2. QED BY <1>3, <5>2, <6>1 DEF Announced, ReportOf
                <5>3. QED BY <1>3, <4>5, <5>1, <5>2 DEF Announced, ReportOf
            <4>8. Len(queue') + 1 = n + 2
                BY <1>2, <1>3
            <4>9. QED BY <3>1, <4>2, <4>7, <4>8
        <3>2. CASE owed'.id = id /\ owed'.status = status
            <4>1. /\ n + 1 \in 1 .. (n + 2) - 1
                  /\ queue'[n + 1].id = id /\ queue'[n + 1].kind = "order"
                  /\ queue'[n + 1].status = status
                  /\ \A k \in (n + 1) + 1 .. (n + 2) - 1 : queue'[k].id # id
                BY <1>1, <1>2, <1>3
            <4>2. Announced(n + 2, id, status)'
                BY <4>1 DEF Announced, ReportOf
            <4>3. Len(queue') + 1 = n + 2
                BY <1>2, <1>3
            <4>4. QED BY <3>2, <4>2, <4>3
        <3>3. QED BY <3>1, <3>2
    <2>3. QED
        BY <2>1, <2>2 DEF AllAnnounced
<1>10. FinalIsLast'
    <2>1. ASSUME NEW i \in 1 .. Len(queue'), Final(queue'[i])
          PROVE  /\ ~Live(queue[i].id)'
                 /\ owed'.id = queue'[i].id => Trailing(queue'[i]) /\ OwedTrails'
                 /\ \A j \in i + 1 .. Len(queue') :
                       queue'[j].id = queue'[i].id => Trailing(queue'[i]) /\ Trailing(queue'[j])
        <3>1. CASE i \in 1 .. n
            <4>1. queue'[i] = queue[i] /\ queue[i].id \in OrderIds
                BY <1>3, <1>2, <3>1, QueuedEvent
            <4>2. /\ ~Live(queue[i].id)
                  /\ owed.id = queue[i].id => Trailing(queue[i]) /\ OwedTrails
                  /\ \A j \in i + 1 .. n :
                        queue[j].id = queue[i].id => Trailing(queue[i]) /\ Trailing(queue[j])
                BY <1>3, <1>4, <2>1, <3>1, <4>1 DEF FinalIsLast
            <4>3. queue[i].id # id
                BY <4>2
            <4>4. ~Live(queue[i].id)'
                BY <4>1, <4>2, <4>3 DEF Live
            <4>5. owed'.id = queue[i].id => Trailing(queue[i]) /\ OwedTrails'
                BY <4>2, <4>3 DEF OwedTrails
            <4>6. \A j \in i + 1 .. n + 1 :
                     queue'[j].id = queue[i].id => Trailing(queue[i]) /\ Trailing(queue'[j])
                <5>1. ASSUME NEW j \in i + 1 .. n + 1, j # n + 1 PROVE queue'[j] = queue[j] /\ j \in i + 1 .. n
                    BY <1>2, <1>3, <3>1, <5>1
                <5>2. queue'[n + 1].id # queue[i].id
                    BY <1>1, <1>2, <4>3
                <5>3. QED BY <4>2, <5>1, <5>2
            <4>7. QED BY <1>2, <4>1, <4>4, <4>5, <4>6
        <3>2. CASE i = n + 1
            <4>1. status \in ClosingReport
                BY <1>1, <1>2, <2>1, <3>2 DEF Final
            <4>2. owed' = owed
                BY <4>1 DEF ClosingReport, MatchStatuses
            <4>3. QED
                BY <1>1, <1>2, <1>3, <3>2, <4>1, <4>2
        <3>3. QED BY <1>2, <1>3, <3>1, <3>2
    <2>2. owed'.status \in ClosingMatch => ~Live(owed.id)'
        <3>1. CASE owed' = owed
            <4>1. owed.status \in ClosingMatch => owed.id \in OrderIds
                BY DEF TypeOK, NoTrade, ClosingMatch
            <4>2. QED BY <1>4, <3>1, <4>1 DEF FinalIsLast, Live
        <3>2. CASE owed'.id = id /\ owed'.status = status
            BY <3>2
        <3>3. QED BY <3>1, <3>2
    <2>3. QED
        BY <2>1, <2>2 DEF FinalIsLast, Final, Trailing
<1>11. QED
    BY <1>7, <1>9, <1>10 DEF Tracking

\* Nor does the trade of the last match: its report is still the latest word on the
\* order, and the order is over if the match closed it.
LEMMA TradeKeepsTracking ==
    ASSUME TypeOK, Bookkeeping, Tracking, [Next]_vars, ~dropped',
           NEW volume \in 1 .. owed.volume, ReportTrade(volume)
    PROVE  Tracking'
<1>1. PICK id \in OrderIds, status \in MatchStatuses, lots \in Nat \ {0} :
          owed = [id |-> id, volume |-> lots, status |-> status]
    BY DEF ReportTrade, TypeOK, Bookkeeping
<1>2. PICK n \in Nat : n = Len(queue)
    BY DEF TypeOK
<1>3. /\ owed # NoTrade /\ owed.id = id /\ owed.status = status
      /\ \/ owed' = NoTrade
         \/ SplitTrades /\ owed'.id = id /\ owed'.status = status
      /\ orders' = orders /\ call' = call /\ counter' = counter
    BY <1>1 DEF ReportTrade, engineVars
<1>4. counter[id].state # "unused"
    BY <1>3 DEF Bookkeeping
<1>5. PICK e \in Event : /\ e.id = id /\ e.kind = "trade" /\ e.status = status
                         /\ Push(e)
    <2>1. PICK book \in Position : book = account'
        BY TypeInductive DEF TypeOK
    <2>2. Push(TradeEvent(id, status, volume, book))
        BY <1>3, <2>1 DEF ReportTrade
    <2>3. TradeEvent(id, status, volume, book) \in Event
        BY <1>1, <1>3 DEF TradeEvent, Event, MatchStatuses, Status
    <2>4. QED BY <2>2, <2>3 DEF TradeEvent
<1>6. /\ Len(queue') = n + 1
      /\ \A i \in 1 .. n : queue'[i] = queue[i]
      /\ queue'[n + 1] = e
      /\ ~dropped
    BY <1>2, <1>5, PushShape
<1>7. AllHeld /\ AllAnnounced /\ FinalIsLast
    BY <1>6 DEF Tracking
<1>8. ASSUME NEW x \in OrderIds PROVE Holds(counter[x].owner, x)' <=> Holds(counter[x].owner, x)
    BY <1>3 DEF Holds
<1>9. AllHeld'
    <2>1. ASSUME NEW x \in OrderIds, Live(x)' PROVE Holds(counter[x].owner, x)'
        BY <1>3, <1>7, <1>8, <2>1 DEF AllHeld, Live
    <2>2. ASSUME NEW i \in 1 .. Len(queue'), ~Trailing(queue[i])'
          PROVE  Holds(counter[queue[i].id].owner, queue[i].id)'
        <3>1. CASE i \in 1 .. n
            <4>1. PICK x \in OrderIds : x = queue[i].id
                BY <1>2, <3>1, QueuedEvent
            <4>2. ~Trailing(queue[i])
                BY <1>6, <2>2, <3>1 DEF Trailing
            <4>3. Holds(counter[x].owner, x)'
                BY <1>2, <1>7, <1>8, <3>1, <4>1, <4>2 DEF AllHeld
            <4>4. QED BY <1>6, <3>1, <4>1, <4>3
        <3>2. CASE i = n + 1
            <4>1. ~OwedTrails
                BY <1>3, <1>5, <1>6, <2>2, <3>2 DEF Trailing, OwedTrails
            <4>2. Holds(counter[id].owner, id)'
                BY <1>3, <1>7, <1>8, <4>1 DEF AllHeld
            <4>3. QED BY <1>5, <1>6, <3>2, <4>2
        <3>3. QED BY <1>2, <1>6, <3>1, <3>2
    <2>3. ASSUME owed' # NoTrade, ~OwedTrails' PROVE Holds(counter[owed.id].owner, owed.id)'
        <3>1. owed'.id = id /\ ~OwedTrails
            BY <1>3, <2>3 DEF OwedTrails
        <3>2. Holds(counter[id].owner, id)'
            BY <1>3, <1>7, <1>8, <3>1 DEF AllHeld
        <3>3. QED BY <3>1, <3>2
    <2>4. QED
        BY <2>1, <2>2, <2>3 DEF AllHeld
<1>10. ASSUME NEW m \in 1 .. n + 1, NEW x \in OrderIds, NEW st \in MatchStatuses,
              Announced(m, x, st)
       PROVE  Announced(m, x, st)'
    <2>1. \A k \in 1 .. m - 1 : queue'[k] = queue[k]
        BY <1>2, <1>6
    <2>2. QED
        BY <1>3, <1>10, <2>1 DEF Announced, ReportOf
<1>11. AllAnnounced'
    <2>1. ASSUME NEW i \in 1 .. Len(queue'), queue'[i].kind = "trade"
          PROVE  /\ queue'[i].status \in MatchStatuses
                 /\ Holds(counter[queue[i].id].owner, queue[i].id)'
                       => Announced(i, queue[i].id, queue[i].status)'
        <3>1. CASE i \in 1 .. n
            <4>1. queue'[i] = queue[i] /\ i \in 1 .. n + 1
                BY <1>2, <1>6, <3>1
            <4>2. PICK x \in OrderIds, st \in MatchStatuses :
                      x = queue[i].id /\ st = queue[i].status
                BY <1>2, <1>7, <2>1, <3>1, <4>1, QueuedEvent DEF AllAnnounced
            <4>3. Holds(counter[x].owner, x) => Announced(i, x, st)
                BY <1>2, <1>7, <2>1, <3>1, <4>1, <4>2 DEF AllAnnounced
            <4>4. Holds(counter[x].owner, x)' => Announced(i, x, st)'
                BY <1>8, <1>10, <4>1, <4>3
            <4>5. QED BY <4>1, <4>2, <4>4
        <3>2. CASE i = n + 1
            <4>1. Holds(counter[id].owner, id) => Announced(n + 1, id, status)
                BY <1>2, <1>3, <1>7 DEF AllAnnounced
            <4>2. n + 1 \in 1 .. n + 1
                BY <1>2
            <4>3. Holds(counter[id].owner, id)' => Announced(n + 1, id, status)'
                BY <1>8, <1>10, <4>1, <4>2
            <4>4. QED BY <1>5, <1>6, <3>2, <4>3
        <3>3. QED BY <1>2, <1>6, <3>1, <3>2
    <2>2. ASSUME owed' # NoTrade, Holds(counter[owed.id].owner, owed.id)'
          PROVE  Announced(Len(queue) + 1, owed.id, owed.status)'
        <3>1. owed'.id = id /\ owed'.status = status
            BY <1>3, <2>2
        <3>2. Holds(counter[id].owner, id)
            BY <1>8, <2>2, <3>1
        <3>3. n + 1 \in 1 .. n + 1 /\ Announced(n + 1, id, status)
            BY <1>2, <1>3, <1>7, <3>2 DEF AllAnnounced
        <3>4. Announced(n + 1, id, status)'
            BY <1>10, <3>3
        <3>5. ~ReportOf(queue'[n + 1], id)
            BY <1>5, <1>6 DEF ReportOf
        <3>6. Announced(n + 2, id, status)'
            <4>1. CASE \E j \in 1 .. n : /\ ReportOf(queue'[j], id)
                                         /\ queue'[j].status = status
                                         /\ \A k \in j + 1 .. n : ~ReportOf(queue'[k], id)
                <5>1. PICK j \in 1 .. n : /\ ReportOf(queue'[j], id)
                                         /\ queue'[j].status = status
                                         /\ \A k \in j + 1 .. n : ~ReportOf(queue'[k], id)
                    BY <4>1
                <5>2. \A k \in j + 1 .. n + 1 : ~ReportOf(queue'[k], id)
                    BY <1>2, <3>5, <5>1
                <5>3. j \in 1 .. (n + 2) - 1
                    BY <1>2, <5>1
                <5>4. QED BY <1>2, <5>1, <5>2, <5>3 DEF Announced, ReportOf
            <4>2. CASE /\ \A k \in 1 .. n : ~ReportOf(queue'[k], id)
                       /\ orders'[counter'[id].owner].status = status
                <5>1. \A k \in 1 .. n + 1 : ~ReportOf(queue'[k], id)
                    BY <1>2, <3>5, <4>2
                <5>2. QED BY <1>2, <4>2, <5>1 DEF Announced, ReportOf
            <4>3. QED BY <1>2, <3>4, <4>1, <4>2 DEF Announced, ReportOf
        <3>7. Len(queue') + 1 = n + 2
            BY <1>2, <1>6
        <3>8. QED BY <3>1, <3>6, <3>7
    <2>3. QED
        BY <2>1, <2>2 DEF AllAnnounced
<1>12. FinalIsLast'
    <2>1. ASSUME NEW i \in 1 .. Len(queue'), Final(queue'[i])
          PROVE  /\ ~Live(queue[i].id)'
                 /\ owed'.id = queue'[i].id => Trailing(queue'[i]) /\ OwedTrails'
                 /\ \A j \in i + 1 .. Len(queue') :
                       queue'[j].id = queue'[i].id => Trailing(queue'[i]) /\ Trailing(queue'[j])
        <3>1. CASE i \in 1 .. n
            <4>1. queue'[i] = queue[i] /\ queue[i].id \in OrderIds
                BY <1>2, <1>6, <3>1, QueuedEvent
            <4>2. /\ ~Live(queue[i].id)
                  /\ owed.id = queue[i].id => Trailing(queue[i]) /\ OwedTrails
                  /\ \A j \in i + 1 .. n :
                        queue[j].id = queue[i].id => Trailing(queue[i]) /\ Trailing(queue[j])
                BY <1>2, <1>7, <2>1, <3>1, <4>1 DEF FinalIsLast
            <4>3. \A j \in i + 1 .. n + 1 :
                     queue'[j].id = queue[i].id => Trailing(queue[i]) /\ Trailing(queue'[j])
                <5>1. ASSUME NEW j \in i + 1 .. n + 1, j # n + 1 PROVE queue'[j] = queue[j] /\ j \in i + 1 .. n
                    BY <1>2, <1>6, <3>1, <5>1
                <5>2. queue'[n + 1].id = queue[i].id => Trailing(queue[i]) /\ Trailing(queue'[n + 1])
                    BY <1>3, <1>5, <1>6, <4>2 DEF Trailing, OwedTrails
                <5>3. QED BY <4>2, <5>1, <5>2
            <4>4. owed'.id = queue[i].id => Trailing(queue[i]) /\ OwedTrails'
                BY <1>3, <4>1, <4>2, IdsAssumption DEF NoTrade, OwedTrails
            <4>5. QED BY <1>3, <1>6, <4>1, <4>2, <4>3, <4>4 DEF Live
        <3>2. CASE i = n + 1
            <4>1. status \in ClosingMatch
                BY <1>5, <1>6, <2>1, <3>2 DEF Final
            <4>2. ~Live(id)
                BY <1>3, <1>7, <4>1 DEF FinalIsLast
            <4>3. owed'.id = id => Trailing(e) /\ OwedTrails'
                BY <1>3, <1>5, <4>1, IdsAssumption DEF NoTrade, Trailing, OwedTrails
            <4>4. QED
                BY <1>2, <1>3, <1>5, <1>6, <3>2, <4>2, <4>3 DEF Live
        <3>3. QED BY <1>2, <1>6, <3>1, <3>2
    <2>2. owed'.status \in ClosingMatch => ~Live(owed.id)'
        <3>1. ASSUME owed'.status \in ClosingMatch PROVE owed'.id = id /\ status \in ClosingMatch
            BY <1>3, <3>1 DEF NoTrade, ClosingMatch
        <3>2. status \in ClosingMatch => ~Live(id)'
            BY <1>3, <1>7 DEF FinalIsLast, Live
        <3>. QED BY <3>1, <3>2
    <2>3. QED
        BY <2>1, <2>2 DEF FinalIsLast, Final, Trailing
<1>13. QED
    BY <1>9, <1>11, <1>12 DEF Tracking

\* A step that puts nothing into the queue and takes nothing out of it keeps all
\* that is known about orders, as long as no SmartOrder forgets what it waits for.
LEMMA QuietKeepsTracking ==
    ASSUME TypeOK, Bookkeeping, Tracking, [Next]_vars, ~dropped,
           queue' = queue, owed' = owed,
           \A s \in SmartOrder : orders'[s].status = orders[s].status,
           \A x \in OrderIds : counter[x].state # "unused" =>
               /\ Live(x)' => Live(x)
               /\ Holds(counter[x].owner, x)' <=> Holds(counter[x].owner, x),
           \A x \in OrderIds : Live(x)' /\ counter[x].state = "unused"
                                   => Holds(counter[x].owner, x)'
    PROVE  Tracking'
<1>1. AllHeld /\ AllAnnounced /\ FinalIsLast
    BY DEF Tracking
<1>2. PICK n \in Nat : n = Len(queue)
    BY DEF TypeOK
<1>3. owed # NoTrade => /\ owed.id \in OrderIds
                        /\ counter[owed.id].state # "unused"
                        /\ owed.status \in MatchStatuses
    BY DEF TypeOK, Bookkeeping
<1>4. AllHeld'
    <2>1. ASSUME NEW x \in OrderIds, Live(x)' PROVE Holds(counter[x].owner, x)'
        BY <1>1, <2>1 DEF AllHeld
    <2>2. ASSUME NEW i \in 1 .. n, ~Trailing(queue[i])
          PROVE  Holds(counter[queue[i].id].owner, queue[i].id)'
        <3>1. PICK x \in OrderIds : x = queue[i].id
            BY <1>2, QueuedEvent
        <3>2. Holds(counter[x].owner, x)'
            BY <1>1, <1>2, <2>2, <3>1, QueuedEvent DEF AllHeld
        <3>3. QED BY <3>1, <3>2
    <2>3. ASSUME owed' # NoTrade, ~OwedTrails PROVE Holds(counter[owed.id].owner, owed.id)'
        <3>1. PICK x \in OrderIds : x = owed.id
            BY <1>3, <2>3
        <3>2. Holds(counter[x].owner, x)'
            BY <1>1, <1>3, <2>3, <3>1 DEF AllHeld
        <3>3. QED BY <3>1, <3>2
    <2>4. QED
        BY <1>2, <2>1, <2>2, <2>3 DEF AllHeld, Trailing, OwedTrails
<1>5. ASSUME NEW m, NEW x \in OrderIds, NEW st \in MatchStatuses,
             counter[x].state # "unused", Announced(m, x, st)
      PROVE  Announced(m, x, st)'
    <2>1. counter'[x].owner = counter[x].owner /\ counter[x].owner \in SmartOrder
        BY <1>5, CounterStable DEF Bookkeeping
    <2>2. QED
        BY <1>5, <2>1 DEF Announced, ReportOf
<1>6. AllAnnounced'
    <2>1. ASSUME NEW i \in 1 .. n, queue[i].kind = "trade"
          PROVE  /\ queue[i].status \in MatchStatuses
                 /\ Holds(counter[queue[i].id].owner, queue[i].id)'
                       => Announced(i, queue[i].id, queue[i].status)'
        <3>1. PICK x \in OrderIds, st \in MatchStatuses : x = queue[i].id /\ st = queue[i].status
            BY <1>1, <1>2, <2>1, QueuedEvent DEF AllAnnounced
        <3>2. Holds(counter[x].owner, x) => Announced(i, x, st)
            BY <1>1, <1>2, <2>1, <3>1 DEF AllAnnounced
        <3>3. Holds(counter[x].owner, x)' => Announced(i, x, st)'
            BY <1>2, <1>5, <3>1, <3>2, QueuedEvent
        <3>4. QED BY <3>1, <3>3
    <2>2. ASSUME owed # NoTrade, Holds(counter[owed.id].owner, owed.id)'
          PROVE  Announced(Len(queue) + 1, owed.id, owed.status)'
        <3>1. PICK x \in OrderIds, st \in MatchStatuses : x = owed.id /\ st = owed.status
            BY <1>3, <2>2
        <3>2. counter[x].state # "unused" /\ Holds(counter[x].owner, x)'
            BY <1>3, <2>2, <3>1
        <3>3. Announced(n + 1, x, st)
            BY <1>1, <1>2, <2>2, <3>1, <3>2 DEF AllAnnounced
        <3>4. Announced(n + 1, x, st)'
            BY <1>5, <3>2, <3>3
        <3>5. QED BY <1>2, <3>1, <3>4
    <2>3. QED
        BY <1>2, <2>1, <2>2 DEF AllAnnounced
<1>7. FinalIsLast'
    <2>1. ASSUME NEW i \in 1 .. n, Final(queue[i])
          PROVE  /\ ~Live(queue[i].id)'
                 /\ owed.id = queue[i].id => Trailing(queue[i]) /\ OwedTrails
                 /\ \A j \in i + 1 .. n :
                       queue[j].id = queue[i].id => Trailing(queue[i]) /\ Trailing(queue[j])
        <3>1. PICK x \in OrderIds : x = queue[i].id /\ counter[x].state # "unused"
            BY <1>2, QueuedEvent
        <3>2. ~Live(x)'
            BY <1>1, <1>2, <2>1, <3>1 DEF FinalIsLast
        <3>3. QED BY <1>1, <1>2, <2>1, <3>1, <3>2 DEF FinalIsLast
    <2>2. ASSUME owed.status \in ClosingMatch PROVE ~Live(owed.id)'
        <3>1. owed # NoTrade
            BY <2>2 DEF NoTrade, ClosingMatch
        <3>2. PICK x \in OrderIds : x = owed.id /\ counter[x].state # "unused"
            BY <1>3, <3>1
        <3>3. ~Live(x)
            BY <1>1, <2>2, <3>2 DEF FinalIsLast
        <3>4. ~Live(x)'
            BY <3>2, <3>3
        <3>5. QED BY <3>2, <3>4
    <2>3. QED
        BY <1>2, <2>1, <2>2 DEF FinalIsLast, Final, Trailing, OwedTrails
<1>8. QED
    BY <1>4, <1>6, <1>7 DEF Tracking

\* No step of the program or of the exchange breaks Tracking.
LEMMA TrackingInductive ==
    ASSUME TypeOK, Bookkeeping, Tracking, [Next]_vars
    PROVE  Tracking'
<1> SUFFICES ASSUME ~dropped' PROVE Tracking'
    BY DEF Tracking
<1> DEFINE Quiet == /\ queue' = queue /\ owed' = owed /\ ~dropped
                    /\ \A s \in SmartOrder : orders'[s].status = orders[s].status
                    /\ \A x \in OrderIds : counter[x].state # "unused" =>
                          /\ Live(x)' => Live(x)
                          /\ Holds(counter[x].owner, x)' <=> Holds(counter[x].owner, x)
                    /\ \A x \in OrderIds : Live(x)' /\ counter[x].state = "unused"
                                               => Holds(counter[x].owner, x)'
<1>1. ASSUME NEW s \in SmartOrder, NEW r \in Requests, SendBegin(s, r) PROVE Tracking'
    <2>1. /\ call = NoCall /\ ~orders[s].active /\ orders' = orders
          /\ queue' = queue /\ owed' = owed /\ ~dropped /\ call'.so = s
          /\ counter \in [OrderIds -> CounterOrder]
        BY <1>1 DEF SendBegin, TypeOK
    <2>2. \/ counter' = counter /\ call'.id = FailedId
          \/ \E id \in OrderIds :
                /\ counter[id].state = "unused" /\ call'.id = id
                /\ counter' = [counter EXCEPT ![id] =
                      [state |-> "inserted", owner |-> s,
                       direction |-> ToCtpDirection(r.side),
                       flag |-> ToCtpCombOffset(RequestOffset(pos, r.side, r.offset)),
                       left |-> r.volume]]
        BY <1>1 DEF SendBegin
    <2>3. ASSUME NEW x \in OrderIds, counter[x].state # "unused" PROVE counter'[x] = counter[x]
        BY <2>1, <2>2, <2>3
    <2>4. ASSUME NEW x \in OrderIds, counter[x].state = "unused", Live(x)'
          PROVE  call'.id = x /\ counter'[x].owner = s
        BY <2>1, <2>2, <2>4 DEF Live, LiveStates
    <2>5. ASSUME NEW x \in OrderIds, counter[x].state # "unused"
          PROVE  Holds(counter[x].owner, x)' <=> Holds(counter[x].owner, x)
        <3>1. counter[x].owner \in SmartOrder
            BY <2>5 DEF Bookkeeping
        <3>2. Holds(counter[x].owner, x) <=> /\ orders[counter[x].owner].active
                                             /\ orders[counter[x].owner].id = x
            BY <2>1, <3>1 DEF Holds, NoCall
        <3>3. CASE counter[x].owner = s
            <4>1. ~Holds(counter[x].owner, x)
                BY <2>1, <3>2, <3>3
            <4>2. ~Holds(counter[x].owner, x)'
                BY <2>1, <2>2, <2>3, <2>5, <3>3, IdsAssumption DEF Holds
            <4>. QED BY <4>1, <4>2
        <3>4. CASE counter[x].owner # s
            BY <2>1, <2>3, <2>5, <3>1, <3>2, <3>4 DEF Holds
        <3>5. QED BY <3>3, <3>4
    <2>6. Quiet
        BY <2>1, <2>3, <2>4, <2>5 DEF Live, Holds
    <2>7. QED BY <2>6, QuietKeepsTracking
<1>2. CASE SendEnd
    <2>1. PICK s \in SmartOrder, id \in OrderIds \cup {FailedId} :
              call.so = s /\ call.id = id
        BY <1>2 DEF SendEnd, TypeOK
    <2>2. /\ orders' = [orders EXCEPT ![s] = [@ EXCEPT !.id = id, !.active = TRUE]]
          /\ call' = NoCall /\ counter' = counter
          /\ queue' = queue /\ owed' = owed /\ ~dropped
          /\ orders \in [SmartOrder -> SmartOrderState]
        BY <1>2, <2>1 DEF SendEnd, counterVars, TypeOK
    <2>3. /\ orders'[s] = [orders[s] EXCEPT !.id = id, !.active = TRUE]
          /\ \A x \in SmartOrder \ {s} : orders'[x] = orders[x]
        BY <2>2
    <2>4. /\ orders'[s].id = id /\ orders'[s].active
          /\ orders'[s].status = orders[s].status
        BY <2>2, <2>3 DEF SmartOrderState
    <2>5. ASSUME NEW x \in OrderIds, counter[x].state # "unused"
          PROVE  Holds(counter[x].owner, x)' <=> Holds(counter[x].owner, x)
        <3>1. counter[x].owner \in SmartOrder
            BY <2>5 DEF Bookkeeping
        <3>2. CASE counter[x].owner = s
            BY <2>1, <2>2, <2>4, <2>5, <3>2 DEF Holds, NoCall
        <3>3. CASE counter[x].owner # s
            BY <2>1, <2>2, <2>3, <2>5, <3>1, <3>3 DEF Holds, NoCall
        <3>4. QED BY <3>2, <3>3
    <2>6. Quiet
        BY <2>2, <2>3, <2>4, <2>5 DEF Live, LiveStates
    <2>7. QED BY <2>6, QuietKeepsTracking
<1>3. CASE /\ UNCHANGED <<orders, call, counter, queue, owed>>
           /\ ~dropped
    <2>1. Quiet
        BY <1>3 DEF Live, LiveStates, Holds
    <2>2. QED BY <2>1, QuietKeepsTracking
<1>4. CASE Dispatch
    <2>1. ~dropped
        BY <1>4 DEF Dispatch, ProcessOnOrder, ProcessOnTrade
    <2>2. QED BY <1>4, <2>1, DispatchKeepsTracking DEF Dispatch
<1>5. ASSUME NEW id \in OrderIds, Acknowledge(id) PROVE Tracking'
    <2>1. counter \in [OrderIds -> CounterOrder]
        BY DEF TypeOK
    <2>2. PICK status \in {"SUBMITTED", "PENDING"} : Push(OrderEvent(id, status))
        BY <1>5, DecodedReports DEF Acknowledge
    <2>3. /\ Live(id) /\ owed.id # id /\ owed' = owed /\ UNCHANGED <<orders, call>>
          /\ \A x \in OrderIds \ {id} : counter'[x] = counter[x]
        BY <1>5, <2>1 DEF Acknowledge, engineVars, Live, LiveStates
    <2>4. QED
        BY <2>2, <2>3, ReportKeepsTracking
        DEF Status, ClosingReport, ClosingMatch, MatchStatuses
<1>6. ASSUME NEW id \in OrderIds, Refuse(id) PROVE Tracking'
    <2>1. counter \in [OrderIds -> CounterOrder]
        BY DEF TypeOK
    <2>2. Push(OrderEvent(id, "ERROR"))
        BY <1>6, DecodedReports DEF Refuse
    <2>3. /\ Live(id) /\ owed.id # id /\ owed' = owed /\ UNCHANGED <<orders, call>>
          /\ \A x \in OrderIds \ {id} : counter'[x] = counter[x]
          /\ ~Live(id)'
        BY <1>6, <2>1 DEF Refuse, engineVars, Live, LiveStates, CounterOrder
    <2>4. QED
        BY <2>2, <2>3, ReportKeepsTracking
        DEF Status, ClosingReport, ClosingMatch, MatchStatuses
<1>7. ASSUME NEW id \in OrderIds, Withdraw(id) PROVE Tracking'
    <2>1. counter \in [OrderIds -> CounterOrder]
        BY DEF TypeOK
    <2>2. /\ Live(id) /\ owed.id # id /\ owed' = owed /\ UNCHANGED <<orders, call>>
          /\ \A x \in OrderIds \ {id} : counter'[x] = counter[x]
          /\ ~Live(id)' /\ Push(OrderEvent(id, "CANCELLED"))
        BY <1>7, <2>1, DecodedReports DEF Withdraw, engineVars, Live, LiveStates, CounterOrder
    <2>3. QED
        BY <2>2, ReportKeepsTracking
        DEF Status, ClosingReport, ClosingMatch, MatchStatuses
<1>8. ASSUME NEW id \in OrderIds, NEW volume \in 1 .. counter[id].left, Match(id, volume)
      PROVE  Tracking'
    <2>1. counter \in [OrderIds -> CounterOrder]
        BY DEF TypeOK
    <2>2. PICK report \in MatchReports, status \in MatchStatuses :
              /\ counter' = [counter EXCEPT ![id] = AfterMatch(@, volume, report)]
              /\ owed' = [id |-> id, volume |-> volume, status |-> status]
              /\ Push(OrderEvent(id, status))
              /\ status \in ClosingMatch <=> report # "PartTradedQueueing"
        BY <1>8, MatchEffect
    <2>3. /\ Live(id) /\ owed = NoTrade /\ UNCHANGED <<orders, call>>
          /\ owed.id # id /\ owed'.id = id /\ owed'.status = status
          /\ \A x \in OrderIds \ {id} : counter'[x] = counter[x]
        BY <1>8, <2>1, <2>2, IdsAssumption DEF Match, engineVars, NoTrade
    <2>4. status \in ClosingMatch => ~Live(id)'
        <3>1. counter'[id] = AfterMatch(counter[id], volume, report)
            BY <2>1, <2>2
        <3>2. counter[id] \in CounterOrder
            BY <2>1
        <3>3. status \in ClosingMatch => counter'[id].state = "done"
            BY <2>2, <3>1, <3>2 DEF AfterMatch, CounterOrder
        <3>4. QED BY <3>3 DEF Live, LiveStates
    <2>5. QED
        BY <2>2, <2>3, <2>4, ReportKeepsTracking
        DEF Status, ClosingReport, ClosingMatch, MatchStatuses
<1>9. ASSUME NEW volume \in 1 .. owed.volume, ReportTrade(volume) PROVE Tracking'
    BY <1>9, TradeKeepsTracking
<1>10. QED
    BY <1>1, <1>2, <1>3, <1>4, <1>5, <1>6, <1>7, <1>8, <1>9
    DEF Next, Strategy, Counter, Kill, SetTradable, RefuseCancel, vars, engineVars, counterVars

\* Before the first send nobody waits for anything and nothing is on its way.
LEMMA TrackingInitially == Init => Bookkeeping /\ Tracking
<1> SUFFICES ASSUME Init PROVE Bookkeeping /\ Tracking
    OBVIOUS
<1>1. /\ queue = <<>> /\ owed = NoTrade /\ call = NoCall
      /\ \A s \in SmartOrder : orders[s].id = NoId
      /\ \A id \in OrderIds : counter[id].state = "unused"
    BY DEF Init, UnusedOrder
<1>2. Len(queue) = 0
    BY <1>1
<1>3. Bookkeeping
    BY <1>1, <1>2, IdsAssumption, NoOrderAssumption DEF Bookkeeping, NoCall
<1>4. Tracking
    BY <1>1, <1>2 DEF Tracking, AllHeld, AllAnnounced, FinalIsLast, OwedTrails,
        Live, LiveStates, NoTrade, ClosingMatch
<1>5. QED BY <1>3, <1>4

\* Bookkeeping (who owns which order, what the id map and the queue may name) holds in every
\* run; Tracking while no event is lost, whatever sends are refused and matches traded in
\* parts.
THEOREM TrackingCorrect == Spec => [](TypeOK /\ Bookkeeping /\ Tracking)
<1>1. TypeOK /\ Bookkeeping /\ Tracking /\ [Next]_vars => (TypeOK /\ Bookkeeping /\ Tracking)'
    BY TypeInductive, BookkeepingInductive, TrackingInductive
<1>2. QED
    BY <1>1, TrackingInitially, TypeCorrect, PTL DEF Spec

\* What send and the handlers store about ids stays consistent although events are lost: no
\* id is given to two SmartOrders, and id_to_smartorder_ and the queue name only orders that
\* were sent.
THEOREM BookkeepingCorrect == Spec => []Bookkeeping
    BY TrackingCorrect, PTL

\* While no event is lost a SmartOrder never has two orders that can trade: is_active is not
\* cleared while the order it stands for is live at the exchange, and send refuses until it is.
THEOREM OneOutstandingCorrect == Spec => []OneOutstanding
<1>1. Tracking => OneOutstanding
    BY DEF Tracking, AllHeld, OneOutstanding
<1>2. QED BY <1>1, TrackingCorrect, PTL

\* While no event is lost, nothing is discarded by the order_id guards of process_on_order
\* and process_on_trade: the SmartOrder still waits for the order of every queued event, or the
\* event is one of several trades of the match that ended the order.
THEOREM NoEventIsStaleCorrect == Spec => []NoEventIsStale
<1>1. Tracking => NoEventIsStale
    BY DEF Tracking, AllHeld, NoEventIsStale
<1>2. QED BY <1>1, TrackingCorrect, PTL

----------------------------------------------------------------------------
(* The Instrument's position counters follow the exchange's account.        *)

\* The direction and the flag of a queued or owed order never change.
LEMMA TermsStable ==
    ASSUME TypeOK, Bookkeeping, [Next]_vars
    PROVE  /\ \A i \in 1 .. Len(queue) :
                 /\ counter'[queue[i].id].direction = counter[queue[i].id].direction
                 /\ counter'[queue[i].id].flag = counter[queue[i].id].flag
           /\ owed # NoTrade =>
                 /\ counter'[owed.id].direction = counter[owed.id].direction
                 /\ counter'[owed.id].flag = counter[owed.id].flag
<1>1. ASSUME NEW i \in 1 .. Len(queue)
      PROVE  /\ counter'[queue[i].id].direction = counter[queue[i].id].direction
             /\ counter'[queue[i].id].flag = counter[queue[i].id].flag
    BY QueuedEvent, CounterStable
<1>2. owed # NoTrade => owed.id \in OrderIds /\ counter[owed.id].state # "unused"
    BY DEF TypeOK, Bookkeeping
<1>3. QED BY <1>1, <1>2, CounterStable

\* Dispatching an event takes the Instrument's counters where the event says the
\* account was: a trade through the switches of process_on_trade, a report not at all.
LEMMA DispatchKeepsLedger ==
    ASSUME TypeOK, Bookkeeping, Tracking, Ledger, ~dropped, ~overtaken, ~overtaken',
           ProcessOnOrder \/ ProcessOnTrade
    PROVE  Ledger'
<1>1. /\ queue # <<>> /\ queue' = Tail(queue) /\ call = NoCall
      /\ counter' = counter /\ owed' = owed /\ account' = account
    BY DEF ProcessOnOrder, ProcessOnTrade, counterVars
<1>2. PICK n \in Nat \ {0} : n = Len(queue)
    BY <1>1, TailShape
<1>3. Len(queue') = n - 1 /\ \A i \in 1 .. n - 1 : queue'[i] = queue[i + 1]
    BY <1>1, <1>2, TailShape
<1>4. Chained /\ AllCovered
    BY DEF Ledger
<1>5. 1 \in 1 .. Len(queue) /\ Head(queue) = queue[1]
    BY <1>1, <1>2, HeadType
<1>6. /\ queue[1] \in Event /\ counter[queue[1].id] \in CounterOrder
      /\ pos \in Position
    BY <1>5, QueuedEvent DEF TypeOK
<1>7. pos' = queue[1].book
    <2>1. queue[1].book = IF queue[1].kind = "trade"
                          THEN Settle(pos, counter[queue[1].id].direction,
                                      counter[queue[1].id].flag, queue[1].volume)
                          ELSE pos
        BY <1>4, <1>5 DEF Chained, BookBefore
    <2>2. CASE ProcessOnOrder
        BY <1>5, <2>1, <2>2 DEF ProcessOnOrder
    <2>3. CASE ProcessOnTrade
        <3>1. Addressed(queue[1])
            <4>1. Trailing(queue[1]) \/ Addressed(queue[1])
                BY DispatchEffect
            <4>2. ~Addressed(queue[1]) => ~Trailing(queue[1])
                BY <1>5, <2>3 DEF ProcessOnTrade
            <4>3. QED BY <4>1, <4>2
        <3>2. /\ queue[1].kind = "trade"
              /\ pos' = ApplyTrade(pos, FromCtpDirection(counter[queue[1].id].direction),
                                   FromCtpOffset(counter[queue[1].id].flag),
                                   queue[1].volume)
            BY <1>5, <2>3, <3>1 DEF ProcessOnTrade
        <3>3. QED
            BY <1>6, <2>1, <3>2, ApplyTradeIsSettle DEF Event, CounterOrder
    <2>4. QED BY <2>2, <2>3
<1>8. \A i \in 1 .. n : BookBefore(i)' = queue[i].book
    BY <1>2, <1>3, <1>7 DEF BookBefore
<1>9. \A i \in 1 .. n : queue[i].book = BookBefore(i + 1)
    BY <1>2 DEF BookBefore
<1>10. Chained'
    <2>1. ASSUME NEW i \in 1 .. n - 1
          PROVE  queue'[i].book =
                    IF queue'[i].kind = "trade"
                    THEN Settle(BookBefore(i)', counter'[queue'[i].id].direction,
                                counter'[queue'[i].id].flag, queue'[i].volume)
                    ELSE BookBefore(i)'
        <3>1. i + 1 \in 1 .. n /\ queue'[i] = queue[i + 1] /\ i \in 1 .. n
            BY <1>2, <1>3
        <3>2. BookBefore(i)' = BookBefore(i + 1)
            BY <1>8, <1>9, <3>1
        <3>3. QED
            BY <1>1, <1>2, <1>4, <3>1, <3>2 DEF Chained
    <2>2. account' = BookBefore(n)'
        BY <1>1, <1>2, <1>4, <1>8, <1>9 DEF Chained
    <2>3. Len(queue') + 1 = n
        BY <1>2, <1>3
    <2>4. QED
        BY <1>3, <2>1, <2>2, <2>3 DEF Chained
<1>11. AllCovered'
    <2>1. \A i \in 1 .. n - 1 : Covered(queue'[i].book)
        BY <1>2, <1>3, <1>4 DEF AllCovered
    <2>2. QED
        BY <1>1, <1>3, <1>4, <2>1 DEF AllCovered
<1>12. Covered(pos')
    BY <1>4, <1>5, <1>7 DEF AllCovered
<1>13. QED
    BY <1>10, <1>11, <1>12 DEF Ledger, Covered

\* A step of the exchange that is reported by an event which carries the new account,
\* or a step that is not reported and moves no lots.
LEMMA CounterKeepsLedger ==
    ASSUME TypeOK, Bookkeeping, Ledger, [Next]_vars, ~dropped', ~overtaken, pos' = pos,
           \/ /\ queue' = queue /\ account' = account /\ ~dropped
           \/ \E e \in Event :
                 /\ Push(e) /\ e.book = account'
                 /\ counter[e.id].state # "unused"
                 /\ e.kind = "order" => account' = account
                 /\ e.kind = "trade" =>
                       account' = Settle(account, counter[e.id].direction,
                                         counter[e.id].flag, e.volume),
           Covered(account'),
           owed' # NoTrade => Covered(Settle(account', counter'[owed'.id].direction,
                                             counter'[owed'.id].flag, owed'.volume))
    PROVE  Ledger'
<1>1. PICK n \in Nat : n = Len(queue)
    BY DEF TypeOK
<1>2. CASE queue' = queue /\ account' = account /\ ~dropped
    <2>1. Chained /\ AllCovered /\ Covered(pos)
        BY <1>2 DEF Ledger
    <2>2. Chained'
        BY <1>2, <2>1, TermsStable DEF Chained, BookBefore
    <2>3. AllCovered'
        BY <1>2, <2>1 DEF AllCovered
    <2>4. QED BY <2>1, <2>2, <2>3 DEF Ledger, Covered
<1>3. ASSUME NEW e \in Event, Push(e), e.book = account',
             counter[e.id].state # "unused",
             e.kind = "order" => account' = account,
             e.kind = "trade" => account' = Settle(account, counter[e.id].direction,
                                                   counter[e.id].flag, e.volume)
      PROVE  Ledger'
    <2>1. /\ Len(queue') = n + 1
          /\ \A i \in 1 .. n : queue'[i] = queue[i]
          /\ queue'[n + 1] = e
          /\ ~dropped
        BY <1>1, <1>3, PushShape
    <2>2. Chained /\ AllCovered /\ Covered(pos)
        BY <2>1 DEF Ledger
    <2>3. \A i \in 1 .. n + 1 : BookBefore(i)' = BookBefore(i)
        BY <1>1, <2>1 DEF BookBefore
    <2>4. /\ counter'[e.id].direction = counter[e.id].direction
          /\ counter'[e.id].flag = counter[e.id].flag
          /\ e.kind \in {"order", "trade"}
        BY <1>3, CounterStable DEF Event
    <2>5. Chained'
        <3>1. ASSUME NEW i \in 1 .. n + 1
              PROVE  queue'[i].book =
                        IF queue'[i].kind = "trade"
                        THEN Settle(BookBefore(i)', counter'[queue'[i].id].direction,
                                    counter'[queue'[i].id].flag, queue'[i].volume)
                        ELSE BookBefore(i)'
            <4>1. CASE i \in 1 .. n
                BY <1>1, <2>1, <2>2, <2>3, <4>1, TermsStable DEF Chained
            <4>2. CASE i = n + 1
                <5>1. BookBefore(i)' = account
                    BY <1>1, <2>2, <2>3, <4>2 DEF Chained
                <5>2. QED BY <1>3, <2>1, <2>4, <4>2, <5>1
            <4>3. QED BY <1>1, <4>1, <4>2
        <3>2. BookBefore(n + 2)' = account'
            BY <1>1, <1>3, <2>1 DEF BookBefore
        <3>3. Len(queue') + 1 = n + 2
            BY <1>1, <2>1
        <3>4. QED
            BY <2>1, <3>1, <3>2, <3>3 DEF Chained
    <2>6. AllCovered'
        <3>1. \A i \in 1 .. n + 1 : Covered(queue'[i].book)
            BY <1>1, <1>3, <2>1, <2>2 DEF AllCovered
        <3>2. QED BY <2>1, <3>1 DEF AllCovered
    <2>7. QED BY <2>2, <2>5, <2>6 DEF Ledger, Covered
<1>4. QED BY <1>2, <1>3

\* No step of the program or of the exchange breaks Ledger.
LEMMA LedgerInductive ==
    ASSUME TypeOK, Bookkeeping, Tracking, Ledger, [Next]_vars
    PROVE  Ledger'
<1> SUFFICES ASSUME ~dropped', ~overtaken' PROVE Ledger'
    BY DEF Ledger
<1>0. ~overtaken
    BY DEF Next, Strategy, SendBegin, Kill, SetTradable, SendEnd, Dispatch, ProcessOnOrder,
        ProcessOnTrade, Counter, Acknowledge, Refuse, Withdraw, Match, ReportTrade,
        RefuseCancel, vars
<1>1. CASE Dispatch
    <2>1. ~dropped
        BY <1>1 DEF Dispatch, ProcessOnOrder, ProcessOnTrade
    <2>2. QED BY <1>0, <1>1, <2>1, DispatchKeepsLedger DEF Dispatch
<1>2. ASSUME ~Dispatch PROVE pos' = pos
    BY <1>2 DEF Next, Strategy, SendBegin, Kill, SetTradable, SendEnd, Dispatch, Counter,
        Acknowledge, Refuse, Withdraw, Match, ReportTrade, RefuseCancel, vars,
        engineVars, counterVars
<1>3. ASSUME ~dropped
      PROVE  /\ Covered(account)
             /\ owed # NoTrade => Covered(Settle(account, counter[owed.id].direction,
                                                 counter[owed.id].flag, owed.volume))
    BY <1>0, <1>3 DEF Ledger, AllCovered
<1>4. ASSUME pos' = pos, account' = account, owed' = owed,
             \/ queue' = queue /\ ~dropped
             \/ \E id \in OrderIds, status \in Status :
                   Live(id) /\ Push(OrderEvent(id, status))
      PROVE  Ledger'
    <2>1. CASE queue' = queue /\ ~dropped
        BY <1>0, <1>3, <1>4, <2>1, TermsStable, CounterKeepsLedger
    <2>2. ASSUME NEW id \in OrderIds, NEW status \in Status, Live(id),
                 Push(OrderEvent(id, status))
          PROVE  Ledger'
        <3>1. PICK e \in Event : /\ e = OrderEvent(id, status)
                                 /\ e.id = id /\ e.kind = "order" /\ e.book = account
            BY OrderEventType DEF OrderEvent
        <3>2. Push(e)
            BY <2>2, <3>1
        <3>3. ~dropped
            BY <3>2, PushShape
        <3>4. counter[e.id].state # "unused"
            BY <2>2, <3>1 DEF Live, LiveStates
        <3>5. \E x \in Event :
                 /\ Push(x) /\ x.book = account'
                 /\ counter[x.id].state # "unused"
                 /\ x.kind = "order" => account' = account
                 /\ x.kind = "trade" =>
                       account' = Settle(account, counter[x.id].direction,
                                         counter[x.id].flag, x.volume)
            BY <1>4, <3>1, <3>2, <3>4
        <3>6. QED
            BY <1>0, <1>3, <1>4, <3>3, <3>5, TermsStable, CounterKeepsLedger
    <2>3. QED BY <1>4, <2>1, <2>2
<1>5. ASSUME NEW s \in SmartOrder, NEW r \in Requests, SendBegin(s, r) PROVE Ledger'
    BY <1>4, <1>5 DEF SendBegin
<1>6. CASE SendEnd \/ SetTradable \/ UNCHANGED vars
    BY <1>4, <1>6 DEF SendEnd, SetTradable, vars, engineVars, counterVars
<1>7. ASSUME NEW s \in SmartOrder, Kill(s) PROVE Ledger'
    BY <1>4, <1>7 DEF Kill, engineVars
<1>8. ASSUME NEW id \in cancels, RefuseCancel(id) PROVE Ledger'
    BY <1>4, <1>8 DEF RefuseCancel, engineVars
<1>9. ASSUME NEW id \in OrderIds, Acknowledge(id) \/ Refuse(id) \/ Withdraw(id) PROVE Ledger'
    <2>1. pos' = pos /\ account' = account /\ owed' = owed /\ Live(id)
        BY <1>9 DEF Acknowledge, Refuse, Withdraw, engineVars, Live, LiveStates
    <2>2. \E status \in Status : Push(OrderEvent(id, status))
        BY <1>9, DecodedReports DEF Acknowledge, Refuse, Withdraw, Status
    <2>3. QED BY <1>4, <2>1, <2>2
<1>10. ASSUME NEW id \in OrderIds, NEW volume \in 1 .. counter[id].left, Match(id, volume)
       PROVE  Ledger'
    <2>1. PICK status \in MatchStatuses :
              /\ owed' = [id |-> id, volume |-> volume, status |-> status]
              /\ Push(OrderEvent(id, status))
        BY <1>10, MatchEffect
    <2>2. /\ pos' = pos /\ account' = account /\ counter[id].state # "unused"
          /\ Covered(Settle(account, counter[id].direction, counter[id].flag, volume))
        BY <1>10 DEF Match, engineVars, Live, LiveStates
    <2>3. PICK e \in Event : /\ e = OrderEvent(id, status)
                             /\ e.id = id /\ e.kind = "order" /\ e.book = account
        BY OrderEventType DEF OrderEvent, MatchStatuses, Status
    <2>4. Push(e) /\ ~dropped
        BY <2>1, <2>3, PushShape
    <2>5. /\ counter'[owed'.id].direction = counter[id].direction
          /\ counter'[owed'.id].flag = counter[id].flag
          /\ owed'.volume = volume
        BY <2>1, <2>2, CounterStable
    <2>6. QED
        BY <1>0, <1>3, <2>2, <2>3, <2>4, <2>5, CounterKeepsLedger
<1>11. ASSUME NEW volume \in 1 .. owed.volume, ReportTrade(volume) PROVE Ledger'
    <2>1. PICK id \in OrderIds, status \in Status, lots \in Nat \ {0} :
              owed = [id |-> id, volume |-> lots, status |-> status]
        BY <1>11 DEF ReportTrade, TypeOK
    <2>2. /\ owed # NoTrade /\ owed.id = id /\ owed.status = status /\ owed.volume = lots
          /\ volume \in 1 .. lots /\ pos' = pos
          /\ account' = Settle(account, counter[id].direction, counter[id].flag, volume)
          /\ Push(TradeEvent(id, status, volume, account'))
        BY <1>11, <2>1 DEF ReportTrade, engineVars, NoTrade
    <2>3. /\ owed' # NoTrade => /\ owed'.id = id /\ owed'.volume = lots - volume
                                /\ lots - volume \in Nat
        BY <1>11, <2>1, <2>2 DEF ReportTrade
    <2>4. counter[id].state # "unused"
        BY <2>2 DEF Bookkeeping
    <2>5. PICK book \in Position : book = account'
        BY TypeInductive DEF TypeOK
    <2>6. TradeEvent(id, status, volume, book) \in Event
        BY <2>1, <2>2, <2>5 DEF TradeEvent, Event
    <2>7. PICK e \in Event :
              /\ e = TradeEvent(id, status, volume, book)
              /\ e.id = id /\ e.kind = "trade" /\ e.volume = volume /\ e.book = account'
        BY <2>5, <2>6 DEF TradeEvent
    <2>8. Push(e) /\ ~dropped
        BY <2>2, <2>5, <2>7, PushShape
    <2>9. PICK direction \in Directions, flag \in SentFlags :
              /\ counter[id].direction = direction /\ counter[id].flag = flag
              /\ counter'[id].direction = direction /\ counter'[id].flag = flag
        BY <2>2, TermsStable DEF TypeOK, CounterOrder
    <2>10. account \in Position /\ volume \in Nat /\ lots - volume \in Nat
        BY <2>1, <2>2 DEF TypeOK
    <2>11. /\ Covered(account)
           /\ Covered(Settle(account, direction, flag, volume + (lots - volume)))
        BY <1>3, <2>1, <2>2, <2>8, <2>9
    <2>12. Covered(account')
        BY <2>2, <2>9, <2>10, <2>11, PartIsCovered
    <2>13. Covered(Settle(account', direction, flag, lots - volume))
        BY <2>2, <2>9, <2>10, <2>11, SettleInParts
    <2>14. QED
        BY <1>0, <2>2, <2>3, <2>4, <2>7, <2>8, <2>9, <2>12, <2>13, CounterKeepsLedger
<1>12. QED
    BY <1>1, <1>5, <1>6, <1>7, <1>8, <1>9, <1>10, <1>11 DEF Next, Strategy, Counter

\* The position a strategy starts from is the account it starts from.
LEMMA LedgerInitially == Init => Ledger
<1> SUFFICES ASSUME Init PROVE Ledger
    OBVIOUS
<1>1. queue = <<>> /\ owed = NoTrade /\ account = pos /\ Covered(pos)
    BY InitPositionsAssumption DEF Init
<1>2. Len(queue) = 0
    BY <1>1
<1>3. QED
    BY <1>1, <1>2 DEF Ledger, Chained, AllCovered, BookBefore

\* Between any two events the Instrument's counters are what the exchange's account was
\* after the events dispatched so far.
THEOREM LedgerCorrect == Spec => []Ledger
<1> DEFINE IInv == TypeOK /\ Bookkeeping /\ Tracking
<1>1. IInv /\ IInv' /\ Ledger /\ [Next]_vars => Ledger'
    BY LedgerInductive
<1>2. Spec => []IInv
    BY TrackingCorrect
<1>3. QED
    BY <1>1, <1>2, LedgerInitially, PTL DEF Spec

\* With nothing lost and nothing queued the four position counters of the Instrument are
\* the exchange's, for any offsets and any interleaving of any number of SmartOrders; and
\* none goes negative in between, because process_on_trade takes from today's and
\* yesterday's holding what the exchange took from them.
THEOREM BookFollowsExchangeCorrect == Spec => []BookFollowsExchange
<1>1. Ledger => BookFollowsExchange
    <2>1. ASSUME Ledger, ~dropped, ~overtaken, queue = <<>> PROVE pos = account
        <3>1. account = BookBefore(1)
            BY <2>1 DEF Ledger, Chained
        <3>2. QED BY <3>1 DEF BookBefore
    <2>2. Ledger /\ ~dropped /\ ~overtaken => Covered(pos)
        BY DEF Ledger
    <2>3. QED BY <2>1, <2>2 DEF BookFollowsExchange
<1>2. QED BY <1>1, LedgerCorrect, PTL
===============================================================================
