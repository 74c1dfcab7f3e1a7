------------------------------ MODULE Positions ------------------------------
(***************************************************************************)
(* The four position counters of an Instrument and what a trade report     *)
(* does to them (the two nested switches of AlgoEngine::process_on_trade), *)
(* together with the derived getters and the choice SmartOrder::send makes *)
(* for Offset::AUTO.  A pure module: constants and operators only.         *)
(*                                                                         *)
(* The counters are C++ ints that are never range-checked by the program;  *)
(* they are integers here, and the lemmas hold for all of them.            *)
(***************************************************************************)
EXTENDS Integers

Sides == {"LONG", "SHORT"}

\* AUTO is only ever a request: it is replaced before the order leaves.
TradeOffsets == {"OPEN", "CLOSE", "CLOSETODAY", "CLOSEYESTERDAY"}
Offsets == TradeOffsets \cup {"AUTO"}

Position == [todayLong : Int, todayShort : Int, ystLong : Int, ystShort : Int]

FlatPosition == [todayLong |-> 0, todayShort |-> 0, ystLong |-> 0, ystShort |-> 0]

LongPos(p)     == p.todayLong + p.ystLong
ShortPos(p)    == p.todayShort + p.ystShort
TodayNetPos(p) == p.todayLong - p.todayShort
YstNetPos(p)   == p.ystLong - p.ystShort
NetPos(p)      == p.todayLong + p.ystLong - p.todayShort - p.ystShort

----------------------------------------------------------------------------
(* A buy closes what is held short, a sell what is held long.  CLOSE uses   *)
(* up the holding carried over from yesterday before it touches today's.    *)

CloseShort(p, volume) ==
    IF p.ystShort >= volume
    THEN [p EXCEPT !.ystShort = @ - volume]
    ELSE [p EXCEPT !.todayShort = @ - (volume - p.ystShort), !.ystShort = 0]

\* A slip: the wrong holding first.
CloseLongTodayFirst(p, volume) ==
    IF p.todayLong >= volume
    THEN [p EXCEPT !.todayLong = @ - volume]
    ELSE [p EXCEPT !.ystLong = @ - (volume - p.todayLong), !.todayLong = 0]

CloseLong(p, volume) ==
    IF p.ystLong >= volume
    THEN [p EXCEPT !.ystLong = @ - volume]
    ELSE [p EXCEPT !.todayLong = @ - (volume - p.ystLong), !.ystLong = 0]

Buy(p, offset, volume) ==
    CASE offset = "OPEN"           -> [p EXCEPT !.todayLong = @ + volume]
      [] offset = "CLOSETODAY"     -> [p EXCEPT !.todayShort = @ - volume]
      [] offset = "CLOSEYESTERDAY" -> [p EXCEPT !.ystShort = @ - volume]
      [] offset = "CLOSE"          -> CloseShort(p, volume)
      [] OTHER                     -> p

Sell(p, offset, volume) ==
    CASE offset = "OPEN"           -> [p EXCEPT !.todayShort = @ + volume]
      [] offset = "CLOSETODAY"     -> [p EXCEPT !.todayLong = @ - volume]
      [] offset = "CLOSEYESTERDAY" -> [p EXCEPT !.ystLong = @ - volume]
      [] offset = "CLOSE"          -> CloseLong(p, volume)
      [] OTHER                     -> p

ApplyTrade(p, side, offset, volume) ==
    IF side = "LONG" THEN Buy(p, offset, volume) ELSE Sell(p, offset, volume)

----------------------------------------------------------------------------
(* Offset::AUTO: close if anything is held on the other side, else open.    *)
(* The close is always a CLOSETODAY, also when the holding is yesterday's.  *)

AutoOffset(p, side) ==
    LET opposite == IF side = "LONG" THEN ShortPos(p) ELSE LongPos(p)
    IN  IF opposite > 0 THEN "CLOSETODAY" ELSE "OPEN"

RequestOffset(p, side, offset) ==
    IF offset = "AUTO" THEN AutoOffset(p, side) ELSE offset

----------------------------------------------------------------------------
(* Reference: how an exchange settles a trade against an account, in CTP's  *)
(* words.  A close moves `fromYst` lots out of yesterday's holding and the  *)
(* rest out of today's, on the side opposite to the trade.                  *)

Least(a, b) == IF a <= b THEN a ELSE b

FromYesterday(held, flag, volume) ==
    CASE flag = "CloseToday"     -> 0
      [] flag = "CloseYesterday" -> volume
      [] OTHER                   -> Least(held, volume)

Settle(p, direction, flag, volume) ==
    LET fromYst == FromYesterday(IF direction = "Buy" THEN p.ystShort ELSE p.ystLong,
                                 flag, volume)
        opens(d)  == IF flag = "Open" /\ direction = d THEN volume ELSE 0
        closes(d) == IF flag # "Open" /\ direction = d THEN volume - fromYst ELSE 0
        carry(d)  == IF flag # "Open" /\ direction = d THEN fromYst ELSE 0
    IN  [todayLong  |-> p.todayLong  + opens("Buy")  - closes("Sell"),
         todayShort |-> p.todayShort + opens("Sell") - closes("Buy"),
         ystLong    |-> p.ystLong  - carry("Sell"),
         ystShort   |-> p.ystShort - carry("Buy")]

\* The account holds what the position claims: no counter is below zero.
Covered(p) == p.todayLong >= 0 /\ p.todayShort >= 0 /\ p.ystLong >= 0 /\ p.ystShort >= 0
=============================================================================
