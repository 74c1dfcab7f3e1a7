----------------------------- MODULE SmartOrders -----------------------------
(***************************************************************************)
(* SmartOrder, the order and trade handlers of AlgoEngine and the position *)
(* of one Instrument, against a counter (exchange plus CTP front).         *)
(*                                                                         *)
(* Two threads.  The event thread runs one handler after the other: either *)
(* it dispatches the head of the event queue (ProcessOnOrder,              *)
(* ProcessOnTrade) or a strategy callback running on it calls send or kill.*)
(* A send is two steps, because the counter may answer while the call into *)
(* the gateway has not returned: SendBegin hands the order over, SendEnd   *)
(* stores the id and registers it.  Nothing is dispatched in between.      *)
(* The trader-API thread runs the callbacks of CtpTd: each puts one event  *)
(* at the tail of the queue.                                               *)
(*                                                                         *)
(* Strategies are arbitrary: between two events any SmartOrder may be told *)
(* to send any of Requests or to kill.                                     *)
(***************************************************************************)
EXTENDS Integers, Sequences, FiniteSets, Positions, CtpConversions

CONSTANTS
    SmartOrder,      \* the SmartOrder objects bound to the instrument
    NoOrder,         \* "no SmartOrder": a null entry
    OrderIds,        \* the ids the gateway can hand out, each at most once
    FailedId,        \* the -1 a gateway returns for a refused request
    NoId,            \* the 0 of order_id_ before the first send
    Requests,        \* what strategies ask for: [side, offset, volume]
    InitPositions,   \* positions strategies set in init()
    InitStatuses,    \* what status_ may hold before its first assignment
    SendMayFail,     \* the API may refuse an insert request
    MayDrop,         \* try_enqueue may fail, and push ignores that
    SplitTrades      \* one FILLED report may be followed by several trades

Status == {"SUBMITTED", "PENDING", "CANCELLED", "REJECT", "FILLED",
           "PARTIALFILLEDACTIVE", "PARTIALFILLEDNOTACTIVE", "ERROR", "UNKOWN"}

Request == [side : Sides, offset : Offsets, volume : Int]

ASSUME NoOrderAssumption     == NoOrder \notin SmartOrder
ASSUME IdsAssumption ==
    FailedId \notin OrderIds /\ NoId \notin OrderIds /\ FailedId # NoId
ASSUME RequestsAssumption    == Requests \subseteq Request
ASSUME InitPositionsAssumption ==
    InitPositions \subseteq {p \in Position : Covered(p)}
ASSUME InitStatusesAssumption == InitStatuses \subseteq Status
ASSUME FlagsAssumption ==
    SendMayFail \in BOOLEAN /\ MayDrop \in BOOLEAN /\ SplitTrades \in BOOLEAN

VARIABLES
    orders,      \* SmartOrder members: [id, status, active]
    registered,  \* AlgoEngine::id_to_smartorder_, NoOrder where absent
    pos,         \* the Instrument's four counters
    sent,        \* Instrument::long_times_ and short_times_
    kills,       \* Instrument::kill_times_
    tradable,    \* Instrument::tradable_
    call,        \* the send call that is inside the gateway, or NoCall
    queue,       \* events of the trader-API thread not dispatched yet
    dropped,     \* history: some event was lost at a full queue
    overtaken,   \* history: some trade came when its SmartOrder had the next order
    counter,     \* the exchange's view of every order
    account,     \* the exchange's view of the position
    owed,        \* a match whose trade report is not out yet, or NoTrade
    cancels      \* cancel requests on their way to the counter

engineVars   == <<orders, registered, pos, sent, kills, tradable, call>>
counterVars  == <<counter, account, owed, cancels>>
vars == <<engineVars, queue, dropped, overtaken, counterVars>>

NoCall  == [so |-> NoOrder, id |-> NoId]
NoTrade == [id |-> NoId, volume |-> 0, status |-> "UNKOWN"]

UnusedOrder == [state |-> "unused", owner |-> NoOrder, direction |-> "Buy",
                flag |-> "Open", left |-> 0]

LiveStates == {"inserted", "submitted", "queued"}

Live(id) == counter[id].state \in LiveStates

\* The exchange is through with the order: filled or refused, or cancelled.
Over(id) == counter[id].state \in {"done", "withdrawn"}

Init ==
    /\ orders \in [SmartOrder -> {[id |-> NoId, status |-> st, active |-> FALSE] :
                                    st \in InitStatuses}]
    /\ registered = [id \in OrderIds \cup {FailedId} |-> NoOrder]
    /\ pos \in InitPositions
    /\ sent = [side \in Sides |-> 0]
    /\ kills = 0
    /\ tradable = TRUE
    /\ call = NoCall
    /\ queue = <<>>
    /\ dropped = FALSE
    /\ overtaken = FALSE
    /\ counter = [id \in OrderIds |-> UnusedOrder]
    /\ account = pos
    /\ owed = NoTrade
    /\ cancels = {}

----------------------------------------------------------------------------
(* The event queue.  `book`, the account once the event has happened, is a  *)
(* history field: no handler reads it.  A trade carries the status of the   *)
(* report that announced it in the same way.                                *)

OrderEvent(id, status) ==
    [kind |-> "order", id |-> id, status |-> status, volume |-> 0, book |-> account]

TradeEvent(id, status, volume, book) ==
    [kind |-> "trade", id |-> id, status |-> status, volume |-> volume, book |-> book]

\* EventEngine::push: a failed try_enqueue goes unnoticed.
Push(e) ==
    \/ /\ queue' = Append(queue, e)
       /\ UNCHANGED dropped
    \/ /\ MayDrop
       /\ dropped' = TRUE
       /\ UNCHANGED queue

----------------------------------------------------------------------------
(* Strategy callbacks on the event thread.                                  *)

\* SmartOrder::send up to the return of the API's insert call.
SendBegin(s, r) ==
    /\ call = NoCall
    /\ ~orders[s].active
    /\ tradable
    /\ r.volume > 0
    /\ sent' = [sent EXCEPT ![r.side] = @ + 1]
    /\ \/ \E id \in OrderIds :
            /\ counter[id].state = "unused"
            /\ counter' = [counter EXCEPT ![id] =
                             [state |-> "inserted", owner |-> s,
                              direction |-> ToCtpDirection(r.side),
                              flag |-> ToCtpCombOffset(RequestOffset(pos, r.side, r.offset)),
                              left |-> r.volume]]
            /\ call' = [so |-> s, id |-> id]
       \/ /\ SendMayFail
          /\ call' = [so |-> s, id |-> FailedId]
          /\ UNCHANGED counter
    /\ UNCHANGED <<orders, registered, pos, kills, tradable, queue, dropped,
                   overtaken, account, owed, cancels>>

\* The rest of SmartOrder::send.  status_ keeps what the last order left there.
SendEnd ==
    /\ call # NoCall
    /\ orders' = [orders EXCEPT ![call.so] = [@ EXCEPT !.id = call.id, !.active = TRUE]]
    /\ registered' = [registered EXCEPT ![call.id] = call.so]
    /\ call' = NoCall
    /\ UNCHANGED <<pos, sent, kills, tradable, queue, dropped, overtaken, counterVars>>

Kill(s) ==
    /\ call = NoCall
    /\ orders[s].active
    /\ cancels' = cancels \cup {orders[s].id}
    /\ UNCHANGED <<engineVars, queue, dropped, overtaken, counter, account, owed>>

SetTradable ==
    /\ call = NoCall
    /\ tradable' = ~tradable
    /\ UNCHANGED <<orders, registered, pos, sent, kills, call, queue, dropped,
                   overtaken, counterVars>>

----------------------------------------------------------------------------
(* Dispatch on the event thread.                                            *)

\* A slip: the id is known, whatever order the SmartOrder is at by now.
AddressedByMap(e) == registered[e.id] # NoOrder

\* The id is known and the SmartOrder has not moved on to another order.
Addressed(e) ==
    /\ registered[e.id] # NoOrder
    /\ orders[registered[e.id]].id = e.id

\* Two slips: a release before the trade of the fill, and none after a cancellation.
AfterReportHasty(o, status) ==
    CASE status \in {"CANCELLED", "FILLED"} -> [o EXCEPT !.active = FALSE]
      [] status \in {"ERROR", "REJECT"}  -> [o EXCEPT !.status = status, !.active = FALSE]
      [] OTHER                           -> [o EXCEPT !.status = status]

AfterReportDeaf(o, status) ==
    IF status \in {"ERROR", "REJECT"}
    THEN [o EXCEPT !.status = status, !.active = FALSE]
    ELSE [o EXCEPT !.status = status]

\* The switch of process_on_order.  CANCELLED leaves status_ alone.
AfterReport(o, status) ==
    CASE status = "CANCELLED"            -> [o EXCEPT !.active = FALSE]
      [] status \in {"ERROR", "REJECT"}  -> [o EXCEPT !.status = status, !.active = FALSE]
      [] OTHER                           -> [o EXCEPT !.status = status]

\* A slip: refusals counted as well.
KillsAfterAnyEnd(k, status) ==
    IF status \in {"CANCELLED", "ERROR", "REJECT"} THEN k + 1 ELSE k

KillsAfterReport(k, status) == IF status = "CANCELLED" THEN k + 1 ELSE k

\* Two slips: every trade releases, and only the trade of a killed order does.
AfterTradeAlways(o) == [o EXCEPT !.active = FALSE]

AfterTradeOfKilled(o) ==
    IF o.status = "PARTIALFILLEDNOTACTIVE" THEN [o EXCEPT !.active = FALSE] ELSE o

\* process_on_trade trusts that the report of the last match came first.
AfterTrade(o) ==
    IF o.status \in {"PARTIALFILLEDNOTACTIVE", "FILLED"}
    THEN [o EXCEPT !.active = FALSE]
    ELSE o

\* Of several trades of the match that ended an order the first one gives the
\* SmartOrder back, and the others may find it with another order.
ClosingMatch == {"FILLED", "PARTIALFILLEDNOTACTIVE"}

Trailing(e) == SplitTrades /\ e.kind = "trade" /\ e.status \in ClosingMatch

ProcessOnOrder ==
    /\ call = NoCall
    /\ queue # <<>>
    /\ Head(queue).kind = "order"
    /\ LET e == Head(queue)
           s == registered[e.id]
       IN  \/ /\ Addressed(e)
              /\ orders' = [orders EXCEPT ![s] = AfterReport(@, e.status)]
              /\ kills' = KillsAfterReport(kills, e.status)
           \/ /\ ~Addressed(e)
              /\ UNCHANGED <<orders, kills>>
    /\ queue' = Tail(queue)
    /\ UNCHANGED <<registered, pos, sent, tradable, call, dropped, overtaken, counterVars>>

ProcessOnTrade ==
    /\ call = NoCall
    /\ queue # <<>>
    /\ Head(queue).kind = "trade"
    /\ LET e == Head(queue)
           s == registered[e.id]
       IN  \/ /\ Addressed(e)
              /\ orders' = [orders EXCEPT ![s] = AfterTrade(@)]
              /\ pos' = ApplyTrade(pos, FromCtpDirection(counter[e.id].direction),
                                   FromCtpOffset(counter[e.id].flag), e.volume)
              /\ UNCHANGED overtaken
           \/ /\ ~Addressed(e)
              /\ overtaken' = (overtaken \/ Trailing(e))
              /\ UNCHANGED <<orders, pos>>
    /\ queue' = Tail(queue)
    /\ UNCHANGED <<registered, sent, kills, tradable, call, dropped, counterVars>>

----------------------------------------------------------------------------
(* The counter.  It is not part of the program: these are the answers that  *)
(* the callbacks of CtpTd and the handlers above are written for.  Reports  *)
(* and trades of one order come in the order of the events they report, and *)
(* the report of a match comes before its trade.                            *)

Acknowledge(id) ==
    /\ owed.id # id
    /\ \/ /\ counter[id].state = "inserted"
          /\ counter' = [counter EXCEPT ![id].state = "submitted"]
          /\ Push(OrderEvent(id, FromCtpOrderStatus("Unknown", "InsertSubmitted")))
       \/ /\ counter[id].state = "submitted"
          /\ counter' = [counter EXCEPT ![id].state = "queued"]
          /\ Push(OrderEvent(id, FromCtpOrderStatus("NoTradeQueueing", "Accepted")))
    /\ UNCHANGED <<engineVars, overtaken, account, owed, cancels>>

\* By the exchange, in OnRtnOrder, or by the front, in OnRspOrderInsert.
Refuse(id) ==
    /\ owed.id # id
    /\ counter[id].state \in {"inserted", "submitted"}
    /\ counter' = [counter EXCEPT ![id].state = "done"]
    /\ \E status \in {FromCtpOrderStatus("Unknown", "InsertRejected"), FromCtpInputOrder} :
         Push(OrderEvent(id, status))
    /\ UNCHANGED <<engineVars, overtaken, account, owed, cancels>>

\* On request, or unasked: the rest of a FAK or FOK order, the end of a session, or a refusal
\* that is reported as Canceled.  from_ctp_order_status looks at Canceled first.
Withdraw(id) ==
    /\ owed.id # id
    /\ Live(id)
    /\ counter' = [counter EXCEPT ![id].state = "withdrawn"]
    /\ cancels' = cancels \ {id}
    /\ \E submit \in {"Accepted", "InsertRejected"} :
         Push(OrderEvent(id, FromCtpOrderStatus("Canceled", submit)))
    /\ UNCHANGED <<engineVars, overtaken, account, owed>>

\* Too late, or never heard of: OnRspOrderAction logs it, nothing else.
RefuseCancel(id) ==
    /\ id \in cancels
    /\ id \in OrderIds => ~Live(id)
    /\ cancels' = cancels \ {id}
    /\ UNCHANGED <<engineVars, queue, dropped, overtaken, counter, account, owed>>

MatchReports == {"AllTraded", "PartTradedQueueing", "PartTradedNotQueueing"}

AfterMatch(o, volume, report) ==
    [o EXCEPT !.left  = @ - volume,
              !.state = IF report = "PartTradedQueueing" THEN "queued" ELSE "done"]

\* A match of `volume` lots.  The account must hold what an order closes.
Match(id, volume) ==
    /\ Live(id)
    /\ owed = NoTrade
    /\ Covered(Settle(account, counter[id].direction, counter[id].flag, volume))
    /\ \E report \in MatchReports :
         /\ (report = "AllTraded") <=> (volume = counter[id].left)
         /\ counter' = [counter EXCEPT ![id] = AfterMatch(@, volume, report)]
         /\ LET status == FromCtpOrderStatus(report, "Accepted")
            IN  /\ owed' = [id |-> id, volume |-> volume, status |-> status]
                /\ Push(OrderEvent(id, status))
    /\ UNCHANGED <<engineVars, overtaken, account, cancels>>

ReportTrade(volume) ==
    /\ owed # NoTrade
    /\ SplitTrades \/ volume = owed.volume
    /\ LET o == counter[owed.id]
       IN  /\ account' = Settle(account, o.direction, o.flag, volume)
           /\ Push(TradeEvent(owed.id, owed.status, volume, account'))
    /\ owed' = IF volume = owed.volume THEN NoTrade
                                       ELSE [owed EXCEPT !.volume = @ - volume]
    /\ UNCHANGED <<engineVars, overtaken, counter, cancels>>

----------------------------------------------------------------------------

Strategy == SetTradable \/ \E s \in SmartOrder : Kill(s) \/ \E r \in Requests : SendBegin(s, r)

Dispatch == ProcessOnOrder \/ ProcessOnTrade

Counter ==
    \/ \E id \in OrderIds :
         \/ Acknowledge(id)
         \/ Refuse(id)
         \/ Withdraw(id)
         \/ \E volume \in 1 .. counter[id].left : Match(id, volume)
    \/ \E volume \in 1 .. owed.volume : ReportTrade(volume)
    \/ \E id \in cancels : RefuseCancel(id)

Next == Strategy \/ SendEnd \/ Dispatch \/ Counter

Spec == Init /\ [][Next]_vars

(* The event thread keeps running, a gateway call returns, and the counter  *)
(* answers: it reports what it matched and acts on every cancel request.    *)
Fairness ==
    /\ WF_vars(SendEnd)
    /\ WF_vars(Dispatch)
    /\ WF_vars(\E volume \in 1 .. owed.volume : ReportTrade(volume))
    /\ \A id \in OrderIds : WF_vars(id \in cancels /\ Withdraw(id))

FairSpec == Spec /\ Fairness

----------------------------------------------------------------------------
(* Correctness.                                                             *)

SmartOrderState == [id : OrderIds \cup {FailedId, NoId}, status : Status, active : BOOLEAN]

Event == [kind : {"order", "trade"}, id : OrderIds, status : Status,
          volume : Nat, book : Position]

CounterOrder == [state : LiveStates \cup {"unused", "done", "withdrawn"},
                 owner : SmartOrder \cup {NoOrder},
                 direction : Directions, flag : SentFlags, left : Nat]

\* The types of the members of SmartOrder, AlgoEngine and Instrument, of the
\* queued events and of the counter.
TypeOK ==
    /\ orders \in [SmartOrder -> SmartOrderState]
    /\ registered \in [OrderIds \cup {FailedId} -> SmartOrder \cup {NoOrder}]
    /\ pos \in Position
    /\ sent \in [Sides -> Nat]
    /\ kills \in Nat
    /\ tradable \in BOOLEAN
    /\ call \in [so : SmartOrder, id : OrderIds \cup {FailedId}] \cup {NoCall}
    /\ queue \in Seq(Event)
    /\ dropped \in BOOLEAN
    /\ overtaken \in BOOLEAN
    /\ counter \in [OrderIds -> CounterOrder]
    /\ account \in Position
    /\ owed \in [id : OrderIds, volume : Nat \ {0}, status : Status] \cup {NoTrade}
    /\ cancels \subseteq OrderIds \cup {FailedId, NoId}

\* s waits for order id: the send call is still inside the gateway, or it has
\* returned and the SmartOrder is active with that id.
Holds(s, id) ==
    IF call.so = s THEN call.id = id
                   ELSE orders[s].active /\ orders[s].id = id

\* While no event is lost, a live order at the exchange is the one order its
\* SmartOrder waits for: is_active is never cleared early, so send never adds a
\* second order to one that may still trade.
OneOutstanding ==
    ~dropped => \A id \in OrderIds : Live(id) => Holds(counter[id].owner, id)

\* While no event is lost, an active SmartOrder has an order at the exchange, or
\* news of it on the way: is_active never outlives the order for good.
ActiveMeansOutstanding ==
    ~dropped => \A s \in SmartOrder :
        orders[s].active =>
            LET id == orders[s].id
            IN  /\ id \in OrderIds
                /\ Live(id) \/ owed.id = id \/ \E i \in 1 .. Len(queue) : queue[i].id = id

\* While no event is lost, every queued event finds its SmartOrder still waiting for
\* that order: the order_id guards of the handlers discard nothing, unless the match
\* that ended the order is reported in several trades.
NoEventIsStale ==
    ~dropped => \A i \in 1 .. Len(queue) :
        Trailing(queue[i]) \/ Holds(counter[queue[i].id].owner, queue[i].id)

\* While no event is lost and no trade is overtaken by the next order of its SmartOrder,
\* the Instrument's four counters are the exchange's as soon as the queue is empty,
\* whatever offsets and interleavings led there, and none of them is negative on the way.
BookFollowsExchange ==
    ~dropped /\ ~overtaken => /\ queue = <<>> => pos = account
                              /\ Covered(pos)

\* kill_times and the queued cancellations count each cancellation by the exchange
\* at most once, and exactly once while no event is lost: no fill, no repeated kill and no
\* refusal is counted, unless the exchange reports the refusal as Canceled.
KillTimesExact ==
    LET queued    == Cardinality({i \in 1 .. Len(queue) : queue[i].status = "CANCELLED"})
        withdrawn == Cardinality({id \in OrderIds : counter[id].state = "withdrawn"})
    IN  /\ kills + queued <= withdrawn
        /\ ~dropped => kills + queued = withdrawn

\* While no event is lost, a SmartOrder gives up its order only once the exchange is done
\* with it.
ReleaseOnlyWhenDone ==
    [][\A s \in SmartOrder :
         ~dropped /\ orders[s].active /\ ~orders'[s].active
            => orders[s].id \in OrderIds /\ Over(orders[s].id)]_vars

\* Every SmartOrder is a slot of OrderSlots: at most one order in the market, no
\* second send before the first order is over, and the slot given back after it.
\* This is what a strategy relies on when it calls send without a check.
InMarket(s) == {id \in OrderIds : Live(id) /\ counter[id].owner = s}

Slots == INSTANCE OrderSlots WITH
    Slot   <- SmartOrder,
    Order  <- OrderIds,
    taken  <- [s \in SmartOrder |-> call.so = s \/ orders[s].active],
    market <- [s \in SmartOrder |-> InMarket(s)]

ImplementsSlots == Slots!Spec
ImplementsFairSlots == Slots!FairSpec

\* kill() frees the SmartOrder in the end, by the cancellation or by the trade
\* that overtook it.
KillReleases ==
    \A s \in SmartOrder, id \in OrderIds :
        (orders[s].active /\ orders[s].id = id /\ id \in cancels)
            ~> ~(orders[s].active /\ orders[s].id = id)

----------------------------------------------------------------------------
(* The inductive invariant behind OneOutstanding, NoEventIsStale and        *)
(* BookFollowsExchange.  Tracking and Ledger speak of runs in which nothing *)
(* was lost, Ledger also of those in which no trade was overtaken.          *)

MatchStatuses == {"FILLED", "PARTIALFILLEDACTIVE", "PARTIALFILLEDNOTACTIVE"}
ClosingReport == {"CANCELLED", "ERROR", "REJECT"}

\* The last event of an order.
Final(e) == IF e.kind = "order" THEN e.status \in ClosingReport
                                ELSE e.status \in ClosingMatch

\* Who owns which id: an id is unknown everywhere before it is handed out, and
\* SmartOrder, id map and exchange agree on it afterwards.
Bookkeeping ==
    /\ \A s \in SmartOrder :
          /\ call.so = s => ~orders[s].active
          /\ orders[s].id \in OrderIds =>
                /\ counter[orders[s].id].state # "unused"
                /\ counter[orders[s].id].owner = s
                /\ registered[orders[s].id] = s
    /\ call.id \in OrderIds =>
          /\ counter[call.id].state # "unused"
          /\ counter[call.id].owner = call.so
    /\ \A id \in OrderIds : counter[id].state # "unused" => counter[id].owner \in SmartOrder
    /\ owed # NoTrade => /\ counter[owed.id].state # "unused"
                         /\ owed.status \in MatchStatuses
    /\ \A i \in 1 .. Len(queue) : counter[queue[i].id].state # "unused"

ReportOf(e, id) == e.kind = "order" /\ e.id = id

\* Before position n of the queue, the latest word on order id is `status`: the
\* last earlier report of the order says so, or there is none and the SmartOrder has
\* processed that report already.
Announced(n, id, status) ==
    \/ \E j \in 1 .. n - 1 :
          /\ ReportOf(queue[j], id)
          /\ queue[j].status = status
          /\ \A k \in j + 1 .. n - 1 : ~ReportOf(queue[k], id)
    \/ /\ \A k \in 1 .. n - 1 : ~ReportOf(queue[k], id)
       /\ orders[counter[id].owner].status = status

\* The trade that the exchange has yet to report may be such a one, too.
OwedTrails == SplitTrades /\ owed.status \in ClosingMatch

AllHeld ==
    /\ \A id \in OrderIds : Live(id) => Holds(counter[id].owner, id)
    /\ \A i \in 1 .. Len(queue) :
          Trailing(queue[i]) \/ Holds(counter[queue[i].id].owner, queue[i].id)
    /\ owed # NoTrade => OwedTrails \/ Holds(counter[owed.id].owner, owed.id)

AllAnnounced ==
    /\ \A i \in 1 .. Len(queue) : queue[i].kind = "trade" =>
          /\ queue[i].status \in MatchStatuses
          /\ Holds(counter[queue[i].id].owner, queue[i].id)
                => Announced(i, queue[i].id, queue[i].status)
    /\ owed # NoTrade /\ Holds(counter[owed.id].owner, owed.id)
          => Announced(Len(queue) + 1, owed.id, owed.status)

FinalIsLast ==
    /\ \A i \in 1 .. Len(queue) : Final(queue[i]) =>
          /\ ~Live(queue[i].id)
          /\ owed.id = queue[i].id => Trailing(queue[i]) /\ OwedTrails
          /\ \A j \in i + 1 .. Len(queue) :
                queue[j].id = queue[i].id => Trailing(queue[i]) /\ Trailing(queue[j])
    /\ owed.status \in ClosingMatch => ~Live(owed.id)

Tracking == ~dropped => AllHeld /\ AllAnnounced /\ FinalIsLast

\* The account once everything before position i of the queue has been applied.
BookBefore(i) == IF i = 1 THEN pos ELSE queue[i - 1].book

\* Every queued event takes the book one step on, and the last step is the account.
Chained ==
    /\ \A i \in 1 .. Len(queue) :
          queue[i].book =
              IF queue[i].kind = "trade"
              THEN Settle(BookBefore(i), counter[queue[i].id].direction,
                          counter[queue[i].id].flag, queue[i].volume)
              ELSE BookBefore(i)
    /\ account = BookBefore(Len(queue) + 1)

\* Nothing the exchange holds, or is about to hold, is negative.
AllCovered ==
    /\ Covered(account)
    /\ owed # NoTrade => Covered(Settle(account, counter[owed.id].direction,
                                         counter[owed.id].flag, owed.volume))
    /\ \A i \in 1 .. Len(queue) : Covered(queue[i].book)

Ledger == ~dropped /\ ~overtaken => Chained /\ AllCovered /\ Covered(pos)
=============================================================================
