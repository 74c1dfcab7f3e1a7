------------------------------- MODULE IndexArb -------------------------------
(***************************************************************************)
(* IndexArb_v2 of strategy/example.cpp, the strategy the program runs, and *)
(* AlgoEngine::process_on_tick.                                            *)
(*                                                                         *)
(* All of it runs on the event thread.  An action is the dispatch of one   *)
(* event: what process_on_tick, process_on_order or process_on_trade do,   *)
(* then on_event.  A SmartOrder is the slot that SmartOrders shows it to   *)
(* be (OrderSlots): it has an order with lots left, or is inactive.  The   *)
(* position is net_pos(), which every trade moves by its signed volume,    *)
(* whatever its offset (TradeMovesNetPos in SmartOrders_proofs).  The      *)
(* match that ends an order may be followed by several trades: the first   *)
(* one frees the slot, those that find its next order are discarded.       *)
(*                                                                         *)
(* Quotes are reduced to what the strategy decides by: whether they are    *)
(* positive, the two signals, and for a closing order whether its price is *)
(* one the market pays at once ("through").                                *)
(***************************************************************************)
EXTENDS Integers, Sequences, DateTimes

CONSTANTS
    Vol,           \* vol_, the volume of an opening order
    Window,        \* the window of the Indicator
    InitCounts,    \* what n_ may hold at the start: nothing initialises it
    MaxCount,      \* bound: no future tick is counted beyond it
    Stages,        \* the times the wall clock stops at, in their order
    MaxMishaps     \* bound: orders refused, or cancelled unasked, and quotes that are zero
                   \* again after they were positive

ASSUME VolAssumption    == Vol \in Nat \ {0}
ASSUME CountsAssumption == InitCounts \subseteq Int /\ Window \in Int /\ MaxCount \in Int
ASSUME StagesAssumption == Stages \in Seq(Time) /\ Stages # <<>>
ASSUME MishapAssumption == MaxMishaps \in Nat

Sides == {"long", "short"}

Opening == [long |-> "open_long", short |-> "open_short"]
Closing == [long |-> "close_long", short |-> "close_short"]
Closings == {"close_long", "close_short"}

\* The orders of a long position sell to close it.
Buys  == {"open_long", "close_short"}
Sells == {"open_short", "close_long"}
Slots == Buys \cup Sells

\* Times of the day, by their place in Stages; 0 for that of a quote before the first tick.
Hours == 0 .. Len(Stages)

TimeAt(hour) == IF hour = 0 THEN At(0, 0, 0) ELSE Stages[hour]

VARIABLES
    strategy,   \* the members of IndexArb_v2 and its Indicator, see Init
    pos,        \* future_->net_pos()
    clock,      \* the wall clock's time, one of Hours
    quoted,     \* future_->datetime().time(), the time of the last tick, one of Hours
    priceOk,    \* is_price_ok()
    missed,     \* history: a trade was dispatched while ~priceOk
    inherited,  \* history: since the position was last flat, one trade turned it over while
                \* close_flag_ was set
    overtaken,  \* history: a trade came after the next order of its slot and was discarded
    mishaps     \* history: how many of them there were

vars == <<strategy, pos, clock, quoted, priceOk, missed, inherited, overtaken, mishaps>>

\* A slot without an order.  Of the match that ended the last one `trailing` lots are still
\* to be dispatched.
Freed(trailing) == [left |-> 0, asked |-> FALSE, through |-> FALSE, trailing |-> trailing]

Inactive == Freed(0)

\* `since` is time_: 0, less than wait_ ago, or longer ago.  `priced`: trade_price_ is that
\* of a trade, and not uninitialised.  History: `opens`, the opening orders sent since the
\* last update of the indicator; `opened`, the sides an opening order was ever sent for;
\* `flagged`, the side of the position for which close_flag_ was set.
Init ==
    /\ strategy \in [orders : {[o \in Slots |-> Inactive]}, n : InitCounts,
                     signal : [Sides -> BOOLEAN], lastSend : {0}, closeFlag : {FALSE},
                     since : {"never"}, priced : {FALSE}, opens : {0}, opened : {{}},
                     flagged : {"none"}]
    /\ pos = 0
    /\ clock = 1
    /\ quoted = 0
    /\ priceOk = FALSE
    /\ missed = FALSE
    /\ inherited = FALSE
    /\ overtaken = FALSE
    /\ mishaps = 0

----------------------------------------------------------------------------
(* SmartOrder, as far as the strategy sees it.                              *)

IsActive(s, o) == s.orders[o].left > 0

KillOrder(s, o) == IF IsActive(s, o) THEN [s EXCEPT !.orders[o].asked = TRUE] ELSE s

SendOrder(s, o, volume, through) ==
    IF IsActive(s, o) \/ volume <= 0
    THEN s
    ELSE [s EXCEPT !.orders[o] = [left |-> volume, asked |-> FALSE, through |-> through,
                                  trailing |-> 0]]

----------------------------------------------------------------------------
(* The methods of the strategy, on the members s with net_pos() at p.       *)

Inited(s) == s.n >= Window

\* The position as its side sees it: positive if it is on that side.
Toward(p, side) == IF side = "long" THEN p ELSE -p

SideOf(p) == CASE p > 0 -> "long" [] p < 0 -> "short" [] OTHER -> "none"

\* A slip: enough to turn the position over.
OpenVolumeTurning(p, side) == Vol - Toward(p, side)

OpenVolume(p, side) == Vol

\* A slip: only one of the two openings keeps the number of the tick.
MarkedLong(s, side) == IF side = "long" THEN s.n ELSE s.lastSend

Marked(s, side) == s.n

\* open_long, open_short
Open(s, p, side) ==
    LET o == Opening[side] IN
    CASE Toward(p, side) > 0 -> s
      [] Toward(p, side) <= 0 /\ IsActive(s, o) ->
            IF s.signal[side] THEN s ELSE KillOrder(s, o)
      [] OTHER ->
            IF s.signal[side] /\ s.lastSend # s.n
            THEN [SendOrder(s, o, OpenVolume(p, side), FALSE) EXCEPT
                    !.lastSend = Marked(s, side),
                    !.opens    = IF @ < 2 THEN @ + 1 ELSE @,
                    !.opened   = @ \cup {side}]
            ELSE s

\* A slip: the negation is lost.
GivesUpNever(s) == s.since # "recent" /\ s.closeFlag

\* The wait at the profit target is over.  With time_ at 0 it always is.
GivesUp(s) == s.since # "recent" /\ ~s.closeFlag

\* A slip: the volume of an opening order.
CloseVolumeFixed(p, side) == Vol

CloseVolume(p, side) == Toward(p, side)

\* close_long, close_short.  `target` is what the price trade_price_ +- profit_target_ is
\* to the market: a price it pays, one it does not pay, or nothing send accepts.
Close(s, p, side, target) ==
    LET c == Closing[side]
        k == KillOrder(s, Opening[side])
    IN  CASE Toward(p, side) <= 0 -> KillOrder(s, c)
          [] Toward(p, side) > 0 /\ IsActive(k, c) ->
                CASE GivesUp(k) -> [KillOrder(k, c) EXCEPT !.closeFlag = TRUE,
                                                                !.flagged   = side]
                  [] ~GivesUp(k) /\ k.closeFlag /\ ~k.orders[c].through -> KillOrder(k, c)
                  [] OTHER -> k
          [] OTHER ->
                IF k.closeFlag \/ target # "refused"
                THEN SendOrder(k, c, CloseVolume(p, side), k.closeFlag \/ target = "through")
                ELSE k

\* A slip: one order named twice.
KillAllButOne(s) ==
    KillOrder(KillOrder(KillOrder(s, "open_long"), "open_short"), "close_long")

KillAll(s) ==
    KillOrder(KillOrder(KillOrder(KillOrder(s, "open_long"), "open_short"),
                        "close_long"), "close_short")

\* A slip: the flag survives the position.
OnTradeSticky(s, p) ==
    IF p # 0
    THEN [s EXCEPT !.priced = TRUE, !.since = IF @ = "never" THEN "recent" ELSE @]
    ELSE [s EXCEPT !.since = "never"]

OnTrade(s, p) ==
    IF p # 0
    THEN [s EXCEPT !.priced = TRUE, !.since = IF @ = "never" THEN "recent" ELSE @]
    ELSE [s EXCEPT !.closeFlag = FALSE, !.flagged = "none", !.since = "never"]

\* A tick of the future updates the indicator.
CountedHours == {h \in Hours : ~TimeLess(TimeAt(h), At(9, 31, 0))
                                  /\ ~TimeLess(At(14, 55, 0), TimeAt(h))}

OnFutureTick(s, hour, signal) ==
    IF hour \in CountedHours THEN [s EXCEPT !.n = @ + 1, !.signal = signal, !.opens = 0] ELSE s

SessionHours == {h \in Hours : TimeLess(At(9, 31, 0), TimeAt(h))
                                  /\ TimeLess(TimeAt(h), At(14, 55, 0))}
LateHours    == {h \in Hours : TimeLess(At(14, 55, 0), TimeAt(h))
                                  /\ TimeLess(TimeAt(h), At(14, 58, 0))}

\* A slip: the short side is left out.
CloseBothLong(s, p, target) == Close(s, p, "long", target)

CloseBoth(s, p, target) == Close(Close(s, p, "long", target), p, "short", target)

\* on_event after on_tick or on_trade.  The unbraced if governs open_long alone.
React(s, p, hour, now, target) ==
    CASE hour \in SessionHours ->
            LET l == IF Inited(s) THEN s ELSE Open(s, p, "long")
            IN  CloseBoth(Open(l, p, "short"), p, target)
      [] hour \notin SessionHours /\ now \in LateHours -> CloseBoth(s, p, target)
      [] OTHER -> KillAll(s)

Targets(s) == IF s.priced THEN {"through", "away"} ELSE {"through", "away", "refused"}

\* on_event: nothing at all happens while a price is not positive.  An order that is sent
\* replaces the id under which the trades still to come would find the SmartOrder.
OnEvent(s) ==
    /\ strategy' \in IF priceOk'
                     THEN {React(s, pos', quoted', clock, target) : target \in Targets(s)}
                     ELSE {s}
    /\ overtaken' = (overtaken \/ \E o \in Slots : s.orders[o].trailing > 0
                                                  /\ IsActive(strategy', o))

----------------------------------------------------------------------------
(* The events.                                                              *)

\* After a tick of the future, which closing orders are at a price the market pays.
Requoted(s, through) ==
    [s EXCEPT !.orders = [o \in Slots |->
        [@[o] EXCEPT !.through = o \in through]]]

Mishap == mishaps < MaxMishaps /\ mishaps' = mishaps + 1

\* A quote makes the price ok, leaves it wanting or takes it away.
Quoted ==
    /\ priceOk' \in BOOLEAN
    /\ IF priceOk /\ ~priceOk' THEN Mishap ELSE UNCHANGED mishaps

Tick(through, signal) ==
    /\ quoted' = clock
    /\ Quoted
    /\ quoted' \in CountedHours => strategy.n < MaxCount
    /\ UNCHANGED <<pos, clock, missed, inherited>>
    /\ LET s == Requoted(strategy, through)
       IN  OnEvent(IF priceOk' THEN OnFutureTick(s, quoted', signal) ELSE s)

TickOfFuture ==
    \E through \in SUBSET {o \in Closings : IsActive(strategy, o)} :
    \E signal \in IF clock \in CountedHours THEN [Sides -> BOOLEAN] ELSE {strategy.signal} :
        Tick(through, signal)

\* A tick that says what the one before it said.
TickAgain ==
    /\ UNCHANGED priceOk
    /\ Tick({o \in Slots : strategy.orders[o].through}, strategy.signal)

TickOfSpot ==
    /\ Quoted
    /\ UNCHANGED <<pos, clock, quoted, missed, inherited>>
    /\ OnEvent(strategy)

\* SUBMITTED or PENDING.
Reported(o) ==
    /\ IsActive(strategy, o)
    /\ UNCHANGED <<pos, clock, quoted, priceOk, missed, inherited, mishaps>>
    /\ OnEvent(strategy)

Released(o, trailing) == [strategy EXCEPT !.orders[o] = Freed(trailing)]

\* process_on_trade and on_event, if the trade finds the order of its slot.  s: the members
\* with what is left of that order.
Moves(o, volume, s) ==
    /\ pos' = IF o \in Buys THEN pos + volume ELSE pos - volume
    /\ missed' = (missed \/ ~priceOk)
    /\ inherited' = /\ pos' # 0
                    /\ inherited \/ (strategy.closeFlag /\ {SideOf(pos), SideOf(pos')} = Sides)
    /\ UNCHANGED <<clock, quoted, priceOk, mishaps>>
    /\ OnEvent(IF priceOk THEN OnTrade(s, pos') ELSE s)

\* The order is not over.
Traded(o, volume) ==
    /\ volume < strategy.orders[o].left
    /\ Moves(o, volume, [strategy EXCEPT !.orders[o].left = @ - volume])

\* The first trade of the match with which the order is over, filled or not.
TradedOut(o, volume, trailing) ==
    /\ volume + trailing <= strategy.orders[o].left
    /\ Moves(o, volume, Released(o, trailing))

\* The order is over already: the SmartOrder is inactive and has its id still.
Trailed(o, volume) ==
    /\ volume <= strategy.orders[o].trailing
    /\ Moves(o, volume, [strategy EXCEPT !.orders[o].trailing = @ - volume])

\* On request or not.
Cancelled(o) ==
    /\ IsActive(strategy, o)
    /\ \/ strategy.orders[o].asked /\ UNCHANGED mishaps
       \/ ~strategy.orders[o].asked /\ Mishap
    /\ UNCHANGED <<pos, clock, quoted, priceOk, missed, inherited>>
    /\ OnEvent(Released(o, 0))

\* ERROR or REJECT: process_on_order does not tell the strategy.
Refused(o) ==
    /\ IsActive(strategy, o)
    /\ Mishap
    /\ strategy' = Released(o, 0)
    /\ UNCHANGED <<pos, clock, quoted, priceOk, missed, inherited, overtaken>>

\* wait_ milliseconds have passed since the trade that opened the position.
WaitPasses ==
    /\ strategy.since = "recent"
    /\ strategy' = [strategy EXCEPT !.since = "long"]
    /\ UNCHANGED <<pos, clock, quoted, priceOk, missed, inherited, overtaken, mishaps>>

ClockMoves ==
    /\ clock < Len(Stages)
    /\ clock' = clock + 1
    /\ UNCHANGED <<strategy, pos, quoted, priceOk, missed, inherited, overtaken, mishaps>>

----------------------------------------------------------------------------

Next ==
    \/ TickOfFuture \/ TickOfSpot \/ WaitPasses \/ ClockMoves
    \/ \E o \in Slots :
         \/ Reported(o) \/ Cancelled(o) \/ Refused(o)
         \/ \E volume \in 1 .. strategy.orders[o].left :
              \/ Traded(o, volume)
              \/ \E trailing \in 0 .. strategy.orders[o].left - volume :
                   TradedOut(o, volume, trailing)
         \/ \E volume \in 1 .. strategy.orders[o].trailing : Trailed(o, volume)

Spec == Init /\ [][Next]_vars

\* The order is at a price the market pays and is filled, in one trade or in several.
Filled(o) ==
    /\ strategy.orders[o].through
    /\ \E volume \in 1 .. strategy.orders[o].left :
         TradedOut(o, volume, strategy.orders[o].left - volume)

(* Ticks keep coming, if only with the same quotes, time passes, a cancel   *)
(* request is answered, the trades of a match arrive, and an order that is  *)
(* again and again at a price the market pays is filled at last.            *)
Fairness ==
    /\ WF_vars(TickAgain)
    /\ WF_vars(WaitPasses)
    /\ \A o \in Slots : WF_vars(strategy.orders[o].asked /\ Cancelled(o))
    /\ WF_vars(\E o \in Slots : \E volume \in 1 .. strategy.orders[o].trailing :
                  Trailed(o, volume))
    /\ SF_vars(\E o \in Closings : Filled(o))

FairSpec == Spec /\ Fairness

----------------------------------------------------------------------------
(* Correctness.                                                             *)

\* The types of the members; no opening order is larger than vol_.
TypeOK ==
    /\ strategy \in [orders : [Slots -> [left : Nat, asked : BOOLEAN, through : BOOLEAN,
                                         trailing : Nat]],
                     n : Int, signal : [Sides -> BOOLEAN], lastSend : Int,
                     closeFlag : BOOLEAN, since : {"never", "recent", "long"},
                     priced : BOOLEAN, opens : 0 .. 2, opened : SUBSET Sides,
                     flagged : Sides \cup {"none"}]
    /\ \A side \in Sides : strategy.orders[Opening[side]].left <= Vol
    /\ pos \in Int
    /\ clock \in 1 .. Len(Stages)
    /\ quoted \in Hours
    /\ priceOk \in BOOLEAN
    /\ missed \in BOOLEAN /\ inherited \in BOOLEAN /\ overtaken \in BOOLEAN
    /\ mishaps \in Nat

\* One tick of the future opens on one side at most: open_long and open_short share
\* last_send_, whatever happens to the order before the next tick.
OneOpenPerTick == strategy.opens <= 1

\* The lots that the account at the exchange has and the position has not yet.
Trailing(o) == strategy.orders[o].trailing

OnTheWay ==
    Trailing("open_long") + Trailing("close_short")
        - Trailing("open_short") - Trailing("close_long")

\* As long as the strategy has opened on one side only, closing never overshoots: the
\* position stays between flat and one opening order, through partial fills, cancels
\* that come too late and orders sent again.  So does the account, until an order is sent
\* over the trades of the one before: a close that is sent again while lots of its last match
\* are on their way sells those lots twice.
OneSidedBound ==
    \A p \in {pos} \cup (IF overtaken THEN {} ELSE {pos + OnTheWay}) :
        /\ strategy.opened = {"long"}  => p \in 0 .. Vol
        /\ strategy.opened = {"short"} => p \in -Vol .. 0

\* Unless a trade fell into a moment without a price, the strategy's clock runs from the
\* trade with which the position left zero until it is flat again, and a position is not
\* closed in a hurry because of one before it: close_flag_ was set for the side that is held.
\* What a single trade turns over is excepted: on_trade asks for zero only, so that the new
\* position goes on with the time_ of the old, and with its close_flag_ if that was set.
FlagsFollowPosition ==
    ~missed => /\ strategy.since = "never" <=> pos = 0
               /\ strategy.closeFlag => pos # 0
               /\ strategy.closeFlag /\ ~inherited => strategy.flagged = SideOf(pos)

\* The order that a step leaves is a new one: larger than before, or no longer asked for.
Sent(o) ==
    \/ strategy'.orders[o].left > strategy.orders[o].left
    \/ strategy.orders[o].asked /\ ~strategy'.orders[o].asked /\ IsActive(strategy', o)

\* The step is an event that the strategy is told of.
Told == ~WaitPasses /\ ~ClockMoves /\ \A o \in Slots : ~Refused(o)

\* Opening orders are sent in the session only and never on top of a position of their
\* side, closing orders in the session or the closing minutes and for just the position.
SentInTime ==
    \A side \in Sides :
        /\ Sent(Opening[side]) => priceOk' /\ quoted' \in SessionHours /\ Toward(pos', side) <= 0
        /\ Sent(Closing[side]) =>
              /\ priceOk' /\ (quoted' \in SessionHours \/ clock \in LateHours)
              /\ strategy'.orders[Closing[side]].left = Toward(pos', side)

\* A position has its closing order, and what could still add to it is being cancelled.
Worked ==
    \A side \in Sides :
        Toward(pos', side) > 0 /\ strategy'.priced =>
            /\ IsActive(strategy', Closing[side])
            /\ IsActive(strategy', Opening[side]) => strategy'.orders[Opening[side]].asked

\* Nothing is left in the market without a cancel request.
Withdrawn == \A o \in Slots : IsActive(strategy', o) => strategy'.orders[o].asked

\* After any event the orders fit the hour and the position, by two clocks that need not
\* agree: that of the last quote for the session, that of the wall for the closing minutes.
\* No refusal, late kill or partial fill leaves a position without an order to close it.
OrdersKeepHours ==
    [][/\ SentInTime
       /\ priceOk' /\ Told =>
             IF quoted' \in SessionHours \/ clock \in LateHours THEN Worked ELSE Withdrawn]_vars

\* Between 14:55 and 14:58 the position goes to zero, however often quotes move away and
\* kills come too late, if a trade left the price its profit is reckoned from; and the account
\* with it, unless an order was sent over trades still to come.
Late == quoted \notin SessionHours /\ clock \in LateHours /\ priceOk

GetsFlat == <>[](Late /\ (pos # 0 => strategy.priced)) =>
    <>[](pos = 0 /\ (overtaken \/ OnTheWay = 0))

\* Out of the session every order ends.
Closed == quoted \notin SessionHours /\ clock \notin LateHours /\ priceOk

Quiets == <>[]Closed => <>[](\A o \in Slots : ~IsActive(strategy, o))
===============================================================================
