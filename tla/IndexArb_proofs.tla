----------------------------- MODULE IndexArb_proofs -----------------------------
(* First, what the comparisons of utils.cpp that the strategy makes decide, against    *)
(* clock and calendar; then the invariants of the strategy, for any volume, window and *)
(* stops of the clock.                                                                 *)
EXTENDS IndexArb, TLAPS

\* A time of day that is not written as a leap second.
PlainTime == {t \in Time : t.second < 60}

\* The milliseconds of a day.
Midnight == 86400000

----------------------------------------------------------------------------
(* The comparisons.  The arithmetic is done on constants that stand for the *)
(* fields.                                                                  *)

\* A plain time of day is a number of milliseconds before midnight.
LEMMA MillisecondsType ==
    ASSUME NEW x \in PlainTime
    PROVE  Milliseconds(x) \in Nat /\ Milliseconds(x) < Midnight
<1> DEFINE h == x.hour  m == x.minute  s == x.second  u == x.millisecond
<1>1. h \in 0 .. 23 /\ m \in 0 .. 59 /\ s \in 0 .. 59 /\ u \in 0 .. 999
    BY SMT DEF PlainTime, Time
<1>2. Milliseconds(x) = 3600000 * h + 60000 * m + 1000 * s + u
    BY SMT DEF Milliseconds
<1> HIDE DEF h, m, s, u
<1>3. Milliseconds(x) \in Nat
    BY SMT, <1>1, <1>2
<1>4. Milliseconds(x) < Midnight
    BY SMT, <1>1, <1>2 DEF Midnight
<1>5. QED BY <1>3, <1>4

\* Hours, minutes, seconds and milliseconds are the digits of that number.
LEMMA MillisecondsDigits ==
    ASSUME NEW x \in PlainTime, NEW y \in PlainTime
    PROVE  /\ Milliseconds(x) < Milliseconds(y) <=> ClockBefore(x, y)
           /\ Milliseconds(x) = Milliseconds(y) <=> x = y
<1> DEFINE h1 == x.hour  m1 == x.minute  s1 == x.second  u1 == x.millisecond
           h2 == y.hour  m2 == y.minute  s2 == y.second  u2 == y.millisecond
<1>1. /\ h1 \in 0 .. 23 /\ m1 \in 0 .. 59 /\ s1 \in 0 .. 59 /\ u1 \in 0 .. 999
      /\ h2 \in 0 .. 23 /\ m2 \in 0 .. 59 /\ s2 \in 0 .. 59 /\ u2 \in 0 .. 999
    BY SMT DEF PlainTime, Time
<1>2. /\ Milliseconds(x) = 3600000 * h1 + 60000 * m1 + 1000 * s1 + u1
      /\ Milliseconds(y) = 3600000 * h2 + 60000 * m2 + 1000 * s2 + u2
    BY SMT DEF Milliseconds
<1>3. ClockBefore(x, y) <=> \/ h1 < h2
                            \/ h1 = h2 /\ m1 < m2
                            \/ h1 = h2 /\ m1 = m2 /\ s1 < s2
                            \/ h1 = h2 /\ m1 = m2 /\ s1 = s2 /\ u1 < u2
    BY SMT DEF ClockBefore
<1>4. x = y <=> h1 = h2 /\ m1 = m2 /\ s1 = s2 /\ u1 = u2
    BY SMT DEF PlainTime, Time
<1> HIDE DEF h1, m1, s1, u1, h2, m2, s2, u2
<1>5. Milliseconds(x) < Milliseconds(y) <=> ClockBefore(x, y)
    BY SMT, <1>1, <1>2, <1>3
<1>6. Milliseconds(x) = Milliseconds(y) <=> x = y
    BY SMT, <1>1, <1>2, <1>4
<1>7. QED BY <1>5, <1>6

\* The units of a date are a whole number.
LEMMA UnitsType ==
    ASSUME NEW x \in Date
    PROVE  Units(x) \in Int
<1> DEFINE y == x.year  m == x.month  d == x.day
<1>1. y \in Int /\ m \in Int /\ d \in Int
    BY SMT DEF Date
<1>2. Units(x) = 584388 * y + 48699 * m + 1600 * d
    BY SMT DEF Units
<1> HIDE DEF y, m, d
<1>3. QED BY SMT, <1>1, <1>2

\* How far two dates in the order of the calendar are apart in the code's units, and
\* which of them are less than a day apart.
LEMMA UnitsApart ==
    ASSUME NEW x \in Date, NEW y \in Date, CalendarBefore(x, y)
    PROVE  /\ Units(y) - Units(x) >= 699
           /\ Units(y) - Units(x) < 1600 => x.day = 31 /\ y.day = 1
<1> DEFINE y1 == x.year  m1 == x.month  d1 == x.day
           y2 == y.year  m2 == y.month  d2 == y.day
<1>1. /\ y1 \in 1970 .. 3673 /\ m1 \in 1 .. 12 /\ d1 \in 1 .. 31
      /\ y2 \in 1970 .. 3673 /\ m2 \in 1 .. 12 /\ d2 \in 1 .. 31
    BY SMT DEF Date
<1>2. y1 < y2 \/ (y1 = y2 /\ m1 < m2) \/ (y1 = y2 /\ m1 = m2 /\ d1 < d2)
    BY SMT DEF CalendarBefore
<1>3. /\ Units(x) = 584388 * y1 + 48699 * m1 + 1600 * d1
      /\ Units(y) = 584388 * y2 + 48699 * m2 + 1600 * d2
    BY SMT DEF Units
<1>4. x.day = d1 /\ y.day = d2
    BY SMT
<1> HIDE DEF y1, m1, d1, y2, m2, d2
<1>5. Units(y) - Units(x) >= 699
    BY SMT, <1>1, <1>2, <1>3
<1>6. Units(y) - Units(x) < 1600 => d1 = 31 /\ d2 = 1
    BY SMT, <1>1, <1>2, <1>3
<1>7. QED BY <1>4, <1>5, <1>6

----------------------------------------------------------------------------

\* Within a day the operators of Time are the clock's.
THEOREM TimeOrderIsClock ==
    ASSUME NEW x \in PlainTime, NEW y \in PlainTime
    PROVE  /\ TimeLess(x, y) <=> ClockBefore(x, y)
           /\ TimeLeq(x, y) <=> ClockBefore(x, y) \/ x = y
<1> DEFINE t1 == Milliseconds(x)  t2 == Milliseconds(y)
<1>1. t1 \in Nat /\ t2 \in Nat
    BY MillisecondsType
<1>2. (t1 < t2 <=> ClockBefore(x, y)) /\ (t1 = t2 <=> x = y)
    BY MillisecondsDigits
<1>3. (TimeLess(x, y) <=> t1 < t2) /\ (TimeLeq(x, y) <=> t1 <= t2)
    BY DEF TimeLess, TimeLeq
<1> HIDE DEF t1, t2
<1>4. t1 <= t2 <=> t1 < t2 \/ t1 = t2
    BY <1>1
<1>5. QED BY <1>2, <1>3, <1>4

\* operator< of Date never puts a later day first, and ties only the last day of a month
\* of 31 days with the first day of a month.
THEOREM DateOrderIsCalendar ==
    ASSUME NEW x \in Date, NEW y \in Date, CalendarBefore(x, y)
    PROVE  /\ DateLeq(x, y)
           /\ ~DateLess(x, y) => x.day = 31 /\ y.day = 1
<1> DEFINE u1 == Units(x)  u2 == Units(y)
<1>1. u1 \in Int /\ u2 \in Int
    BY UnitsType
<1>2. u2 - u1 >= 699 /\ (u2 - u1 < 1600 => x.day = 31 /\ y.day = 1)
    BY UnitsApart
<1>3. /\ DateLeq(x, y) <=> u1 \div 1600 <= u2 \div 1600
      /\ DateLess(x, y) <=> u1 \div 1600 < u2 \div 1600
    BY DEF DateLeq, DateLess, DayNumber
<1> HIDE DEF u1, u2
<1>4. u1 \div 1600 <= u2 \div 1600
    BY SMT, <1>1, <1>2
<1>5. u2 - u1 < 1600 \/ u1 \div 1600 < u2 \div 1600
    BY SMT, <1>1
<1>6. QED BY <1>2, <1>3, <1>4, <1>5

\* operator< of DateTime is wrong only across the midnight that ends a month of 31 days.
THEOREM DateTimeOrderIsCalendar ==
    ASSUME NEW x \in DateTime, NEW y \in DateTime, x.time \in PlainTime, y.time \in PlainTime,
           Before(x, y), ~DateTimeLess(x, y)
    PROVE  x.date.day = 31 /\ y.date.day = 1
<1> DEFINE u1 == Units(x.date)  t1 == Milliseconds(x.time)
           u2 == Units(y.date)  t2 == Milliseconds(y.time)
<1>1. x.date \in Date /\ y.date \in Date
    BY SMT DEF DateTime
<1>2. /\ u1 \in Int /\ u2 \in Int
      /\ t1 \in Nat /\ t1 < Midnight /\ t2 \in Nat /\ t2 < Midnight
    BY <1>1, UnitsType, MillisecondsType
<1>3. ~(54000 * u1 + t1 < 54000 * u2 + t2)
    BY SMT DEF DateTimeLess, Instant
<1>4. CASE CalendarBefore(x.date, y.date)
    <2>1. u2 - u1 < 1600 => x.date.day = 31 /\ y.date.day = 1
        BY <1>1, <1>4, UnitsApart
    <2> HIDE DEF u1, u2, t1, t2
    <2>2. u2 - u1 < 1600
        BY SMT, <1>2, <1>3 DEF Midnight
    <2>3. QED BY <2>1, <2>2
<1>5. CASE x.date = y.date /\ ClockBefore(x.time, y.time)
    <2>1. t1 < t2 /\ u1 = u2
        BY <1>5, MillisecondsDigits
    <2> HIDE DEF u1, u2, t1, t2
    <2>2. QED BY SMT, <1>2, <1>3, <2>1
<1>6. QED BY <1>4, <1>5 DEF Before

\* And there it is wrong: in every year eleven at night of the 31st of January comes
\* after the midnight that begins the 1st of February.
THEOREM MonthEndMisordered ==
    ASSUME NEW year \in 1970 .. 3673
    PROVE  LET x == [date |-> [year |-> year, month |-> 1, day |-> 31], time |-> At(23, 0, 0)]
               y == [date |-> [year |-> year, month |-> 2, day |-> 1], time |-> At(0, 0, 0)]
           IN  Before(x, y) /\ DateTimeLess(y, x)
BY SMT DEF Before, CalendarBefore, DateTimeLess, Instant, Units, Milliseconds, At

----------------------------------------------------------------------------
(* The strategy.                                                            *)

\* An order of a slot, and the members of IndexArb_v2, by type.
OrderType == [left : Nat, asked : BOOLEAN, through : BOOLEAN, trailing : Nat]

Members ==
    [orders : [Slots -> OrderType],
     n : Int, signal : [Sides -> BOOLEAN], lastSend : Int,
     closeFlag : BOOLEAN, since : {"never", "recent", "long"},
     priced : BOOLEAN, opens : 0 .. 2, opened : SUBSET Sides,
     flagged : Sides \cup {"none"}]

\* No opening order is larger than vol_.
Small(s) == \A side \in Sides : s.orders[Opening[side]].left <= Vol

\* The tick on which an opening order was sent is the one last_send_ names.
Marking(s) == s.opens <= 1 /\ (s.opens = 1 => s.lastSend = s.n)

\* What may still move the position: the lots of the order and those of the match before.
Due(s, o) == s.orders[o].left + s.orders[o].trailing

\* While one side was opened only: the position and what is due to it are together no more
\* than one opening order, and what is being closed is held.
OneSide(s, p, side) ==
    /\ Toward(p, side) >= 0
    /\ Toward(p, side) + Due(s, Opening[side]) <= Vol
    /\ Due(s, Closing[side]) <= Toward(p, side)
    /\ \A o \in Slots \ {Opening[side], Closing[side]} : Due(s, o) = 0

Sided(s, p) ==
    /\ s.opened = {} => p = 0 /\ \A o \in Slots : Due(s, o) = 0
    /\ \A side \in Sides : s.opened = {side} => OneSide(s, p, side)

\* What every method keeps at a position p.
Sound(s, p) == s \in Members /\ Small(s) /\ Marking(s) /\ Sided(s, p)

\* time_ and close_flag_ speak of the position p, which a trade turned over with
\* close_flag_ set if `turned`.
Fitting(s, p, turned) ==
    /\ s.since = "never" <=> p = 0
    /\ s.closeFlag => p # 0
    /\ s.closeFlag /\ ~turned => s.flagged = SideOf(p)

\* s and t differ in nothing that these invariants read.
Alike(s, t) ==
    /\ t \in Members
    /\ \A o \in Slots : /\ t.orders[o].left = s.orders[o].left
                       /\ t.orders[o].trailing = s.orders[o].trailing
    /\ t.n = s.n
    /\ t.flagged = s.flagged
    /\ t.lastSend = s.lastSend
    /\ t.closeFlag = s.closeFlag
    /\ t.since = s.since
    /\ t.opens = s.opens
    /\ t.opened = s.opened

\* The names of the orders of a side.
LEMMA SlotsOfSides ==
    /\ \A side \in Sides : Opening[side] \in Slots /\ Closing[side] \in Slots
    /\ \A side \in Sides, other \in Sides :
         /\ Opening[side] # Closing[other]
         /\ Opening[side] = Opening[other] => side = other
         /\ Closing[side] = Closing[other] => side = other
BY DEF Sides, Opening, Closing, Slots, Buys, Sells

LEMMA AlikeSound ==
    ASSUME NEW s, NEW t, NEW p \in Int, NEW turned, Sound(s, p), Alike(s, t)
    PROVE  Sound(t, p) /\ (Fitting(s, p, turned) => Fitting(t, p, turned))
<1>1. t \in Members
    BY DEF Alike
<1>2. Small(t)
    BY SlotsOfSides DEF Sound, Alike, Small
<1>3. Marking(t)
    BY DEF Sound, Alike, Marking
<1>4. Sided(t, p)
  <2>0. \A o \in Slots : Due(t, o) = Due(s, o)
      BY DEF Alike, Due
  <2>1. t.opened = {} => p = 0 /\ \A o \in Slots : Due(t, o) = 0
      BY <2>0 DEF Sound, Alike, Sided
  <2>2. ASSUME NEW side \in Sides, t.opened = {side}
        PROVE  OneSide(t, p, side)
      <3>1. OneSide(s, p, side)
          BY <2>2 DEF Sound, Alike, Sided
      <3>2. QED BY <2>0, <3>1, SlotsOfSides DEF OneSide
  <2>3. QED BY <2>1, <2>2 DEF Sided
<1>5. Fitting(s, p, turned) => Fitting(t, p, turned)
    BY DEF Alike, Fitting
<1>6. QED BY <1>1, <1>2, <1>3, <1>4, <1>5 DEF Sound

\* A kill asks for something; the order stays until the answer.
LEMMA KillAlike ==
    ASSUME NEW s \in Members, NEW o \in Slots
    PROVE  Alike(s, KillOrder(s, o))
<1>1. s.orders[o] \in OrderType
    BY DEF Members
<1>2. KillOrder(s, o) \in Members
    BY <1>1 DEF KillOrder, Members, OrderType
<1>3. QED BY <1>1, <1>2 DEF KillOrder, Members, OrderType, Alike

LEMMA KillSound ==
    ASSUME NEW s, NEW o \in Slots, NEW p \in Int, NEW turned, Sound(s, p)
    PROVE  /\ Sound(KillOrder(s, o), p)
           /\ Fitting(s, p, turned) => Fitting(KillOrder(s, o), p, turned)
BY KillAlike, AlikeSound DEF Sound

LEMMA KillAllSound ==
    ASSUME NEW s, NEW p \in Int, NEW turned, Sound(s, p)
    PROVE  Sound(KillAll(s), p) /\ (Fitting(s, p, turned) => Fitting(KillAll(s), p, turned))
<1> DEFINE k1 == KillOrder(s, "open_long")    k2 == KillOrder(k1, "open_short")
           k3 == KillOrder(k2, "close_long")  k4 == KillOrder(k3, "close_short")
<1>1. {"open_long", "open_short", "close_long", "close_short"} \subseteq Slots
    BY DEF Slots, Buys, Sells
<1>2. Sound(k1, p) /\ (Fitting(s, p, turned) => Fitting(k1, p, turned))
    BY <1>1, KillSound
<1>3. Sound(k2, p) /\ (Fitting(k1, p, turned) => Fitting(k2, p, turned))
    BY <1>1, <1>2, KillSound
<1>4. Sound(k3, p) /\ (Fitting(k2, p, turned) => Fitting(k3, p, turned))
    BY <1>1, <1>3, KillSound
<1>5. Sound(k4, p) /\ (Fitting(k3, p, turned) => Fitting(k4, p, turned))
    BY <1>1, <1>4, KillSound
<1>6. KillAll(s) = k4
    BY DEF KillAll
<1> HIDE DEF k1, k2, k3, k4
<1>7. QED BY <1>2, <1>3, <1>4, <1>5, <1>6

\* An opening order sent on a side adds the side to those opened.
LEMMA OpenSound ==
    ASSUME NEW s, NEW p \in Int, NEW side \in Sides, NEW turned, Sound(s, p)
    PROVE  /\ Sound(Open(s, p, side), p)
           /\ Fitting(s, p, turned) => Fitting(Open(s, p, side), p, turned)
<1> DEFINE o == Opening[side]
           t == Open(s, p, side)
<1>0. s \in Members /\ o \in Slots /\ Toward(p, side) \in Int
    BY SlotsOfSides DEF Sound, Toward
<1>1. CASE Toward(p, side) > 0
    BY <1>0, <1>1 DEF Open
<1>2. CASE Toward(p, side) <= 0 /\ IsActive(s, o)
    BY <1>0, <1>2, KillSound DEF Open
<1>3. CASE ~(Toward(p, side) > 0) /\ ~(Toward(p, side) <= 0 /\ IsActive(s, o))
           /\ ~(s.signal[side] /\ s.lastSend # s.n)
    BY <1>3 DEF Open
<1>4. CASE /\ ~(Toward(p, side) > 0) /\ ~(Toward(p, side) <= 0 /\ IsActive(s, o))
           /\ s.signal[side] /\ s.lastSend # s.n
  <2>1. s.orders[o].left = 0
      BY <1>0, <1>4 DEF IsActive, Members, OrderType
  <2>2. s.opens = 0
      BY <1>0, <1>4 DEF Sound, Marking, Members
  <2> DEFINE order == [left |-> Vol, asked |-> FALSE, through |-> FALSE, trailing |-> 0]
             sent == [s EXCEPT !.orders[o] = order]
  <2>3. /\ sent \in Members
        /\ sent.orders = [s.orders EXCEPT ![o] = order]
        /\ sent.opens = 0 /\ sent.opened = s.opened /\ sent.n = s.n
        /\ sent.closeFlag = s.closeFlag /\ sent.since = s.since /\ sent.flagged = s.flagged
    <3>1. order \in OrderType
        BY VolAssumption DEF OrderType
    <3> HIDE DEF order
    <3>2. QED BY <1>0, <2>2, <3>1 DEF Members
  <2>4. sent = SendOrder(s, o, OpenVolume(p, side), FALSE)
      BY <2>1, VolAssumption DEF SendOrder, IsActive, OpenVolume
  <2> HIDE DEF sent
  <2>5. t = [sent EXCEPT !.lastSend = s.n, !.opens = 1, !.opened = s.opened \cup {side}]
    <3>1. t = [sent EXCEPT !.lastSend = s.n, !.opens = IF @ < 2 THEN @ + 1 ELSE @,
                           !.opened = @ \cup {side}]
        BY <1>4, <2>4 DEF Open, Marked
    <3>2. QED BY <2>3, <3>1
  <2>6. /\ t \in Members
        /\ t.orders = [s.orders EXCEPT ![o] = order]
        /\ t.lastSend = s.n /\ t.opens = 1 /\ t.opened = s.opened \cup {side} /\ t.n = s.n
        /\ t.closeFlag = s.closeFlag /\ t.since = s.since /\ t.flagged = s.flagged
    <3>1. s.n \in Int /\ s.opened \cup {side} \in SUBSET Sides
        BY <1>0, <2>3 DEF Members
    <3> DEFINE union == s.opened \cup {side}
    <3> HIDE DEF union
    <3>2. t = [sent EXCEPT !.lastSend = s.n, !.opens = 1, !.opened = union]
        BY <2>5 DEF union
    <3>3. union \in SUBSET Sides
        BY <3>1 DEF union
    <3>4. /\ t \in Members
          /\ t.orders = sent.orders /\ t.lastSend = s.n /\ t.opens = 1 /\ t.opened = union
          /\ t.n = sent.n /\ t.closeFlag = sent.closeFlag /\ t.since = sent.since
          /\ t.flagged = sent.flagged
      <4> DEFINE t1 == [sent EXCEPT !.lastSend = s.n]
                 t2 == [t1 EXCEPT !.opens = 1]
                 t3 == [t2 EXCEPT !.opened = union]
      <4> HIDE DEF t
      <4>1. /\ t1 \in Members /\ t1.lastSend = s.n /\ t1.n = sent.n /\ t1.orders = sent.orders
            /\ t1.closeFlag = sent.closeFlag /\ t1.since = sent.since
            /\ t1.flagged = sent.flagged
          BY <2>3, <3>1 DEF Members
      <4> HIDE DEF t1
      <4>2. /\ t2 \in Members /\ t2.lastSend = s.n /\ t2.n = sent.n /\ t2.orders = sent.orders
            /\ t2.closeFlag = sent.closeFlag /\ t2.since = sent.since /\ t2.opens = 1
            /\ t2.flagged = sent.flagged
          BY <4>1 DEF Members
      <4> HIDE DEF t2
      <4>3. /\ t3 \in Members /\ t3.lastSend = s.n /\ t3.n = sent.n /\ t3.orders = sent.orders
            /\ t3.closeFlag = sent.closeFlag /\ t3.since = sent.since /\ t3.opens = 1
            /\ t3.opened = union /\ t3.flagged = sent.flagged
          BY <4>2, <3>3 DEF Members
      <4>4. t = t3
          BY <3>2 DEF t1, t2
      <4>5. QED BY <4>3, <4>4
    <3>5. QED BY <2>3, <3>4 DEF union
  <2> HIDE DEF t
  <2>7. Small(t)
    <3>1. /\ t.orders[o].left = Vol
          /\ \A x \in Slots \ {o} : t.orders[x] = s.orders[x]
        BY <1>0, <2>6 DEF Members
    <3>2. QED BY <3>1, SlotsOfSides, VolAssumption DEF Sound, Small
  <2>8. Marking(t)
      BY <2>6 DEF Marking
  <2>9. ASSUME NEW other \in Sides, t.opened = {other}
        PROVE  OneSide(t, p, other)
    <3>1. other = side /\ (s.opened = {} \/ s.opened = {side})
      <4>1. s.opened \cup {side} = {other}
          BY <2>6, <2>9
      <4>2. QED BY <4>1, Zenon
    <3>2. /\ Toward(p, side) = 0
          /\ Due(s, Closing[side]) <= 0
          /\ \A x \in Slots \ {Opening[side], Closing[side]} : Due(s, x) = 0
        <4>1. CASE s.opened = {}
          <5>1. p = 0 /\ \A x \in Slots : Due(s, x) = 0
              BY <4>1 DEF Sound, Sided
          <5>2. Closing[side] \in Slots
              BY SlotsOfSides
          <5>3. Toward(p, side) = 0
            <6>1. Toward(p, side) = p \/ Toward(p, side) = -p
                BY DEF Toward
            <6>2. QED BY <5>1, <6>1
          <5>4. QED BY <5>1, <5>2, <5>3
        <4>2. CASE s.opened = {side}
          <5>1. OneSide(s, p, side)
              BY <4>2 DEF Sound, Sided
          <5>2. Toward(p, side) = 0
              BY <1>0, <1>4, <5>1 DEF OneSide
          <5>3. QED BY <5>1, <5>2 DEF OneSide
        <4>3. QED BY <3>1, <4>1, <4>2
    <3>3. /\ Due(t, o) = Vol
          /\ \A x \in Slots \ {o} : Due(t, x) = Due(s, x)
      <4>1. /\ t.orders[o] = order
            /\ \A x \in Slots \ {o} : t.orders[x] = s.orders[x]
          BY <1>0, <2>6 DEF Members
      <4>2. QED BY <4>1, VolAssumption DEF Due
    <3>4. Toward(p, side) + Vol <= Vol
        BY <3>2, VolAssumption
    <3> HIDE DEF order
    <3>5. QED BY <1>0, <3>1, <3>2, <3>3, <3>4, SlotsOfSides, VolAssumption DEF OneSide
  <2>10. Sided(t, p)
      BY <2>6, <2>9 DEF Sided
  <2>11. Fitting(s, p, turned) => Fitting(t, p, turned)
      BY <2>6 DEF Fitting
  <2>12. QED BY <2>6, <2>7, <2>8, <2>10, <2>11 DEF t, Sound
<1>5. QED BY <1>1, <1>2, <1>3, <1>4

\* A closing order is no larger than the position on its side.
LEMMA CloseSound ==
    ASSUME NEW s, NEW p \in Int, NEW side \in Sides, NEW target, NEW turned, Sound(s, p)
    PROVE  /\ Sound(Close(s, p, side, target), p)
           /\ Fitting(s, p, turned) => Fitting(Close(s, p, side, target), p, turned)
<1> DEFINE c == Closing[side]
           k == KillOrder(s, Opening[side])
           t == Close(s, p, side, target)
           through == k.closeFlag \/ target = "through"
           order == [left |-> Toward(p, side), asked |-> FALSE, through |-> through,
                     trailing |-> 0]
           sent == [k EXCEPT !.orders[c] = order]
           kc == KillOrder(k, c)
           hurried == [kc EXCEPT !.closeFlag = TRUE, !.flagged = side]
<1>1. Opening[side] \in Slots /\ c \in Slots /\ Toward(p, side) \in Int
    BY SlotsOfSides DEF Toward
<1>2. Sound(k, p) /\ (Fitting(s, p, turned) => Fitting(k, p, turned)) /\ k \in Members
    BY <1>1, KillSound DEF Sound
<1>3. Sound(kc, p) /\ (Fitting(k, p, turned) => Fitting(kc, p, turned)) /\ kc \in Members
    BY <1>1, <1>2, KillSound DEF Sound
<1>4. Sound(KillOrder(s, c), p) /\ (Fitting(s, p, turned) => Fitting(KillOrder(s, c), p, turned))
    BY <1>1, KillSound
<1>5. \/ t = KillOrder(s, c)
      \/ Toward(p, side) > 0 /\ t \in {kc, k, hurried}
      \/ Toward(p, side) > 0 /\ ~IsActive(k, c) /\ t = sent
  <2>1. CASE Toward(p, side) <= 0
      BY <2>1 DEF Close
  <2>2. CASE Toward(p, side) > 0 /\ IsActive(k, c)
      BY <1>1, <2>2 DEF Close
  <2>3. CASE ~(Toward(p, side) <= 0) /\ ~(Toward(p, side) > 0 /\ IsActive(k, c))
      BY <1>1, <2>3 DEF Close, SendOrder, CloseVolume
  <2>4. QED BY <1>1, <2>1, <2>2, <2>3
<1> HIDE DEF k, kc, t
<1>6. ASSUME Toward(p, side) > 0
      PROVE  Sound(hurried, p) /\ (Fitting(k, p, turned) => Fitting(hurried, p, turned))
  <2>1. /\ hurried \in Members
        /\ hurried.orders = kc.orders /\ hurried.n = kc.n /\ hurried.lastSend = kc.lastSend
        /\ hurried.since = kc.since /\ hurried.opens = kc.opens /\ hurried.opened = kc.opened
        /\ hurried.closeFlag = TRUE /\ hurried.flagged = side
      BY <1>3 DEF Members
  <2> HIDE DEF hurried
  <2>2. Sound(hurried, p)
      BY <1>3, <2>1 DEF Sound, Small, Marking, Sided, OneSide, Due
  <2>3. p # 0 /\ SideOf(p) = side
      BY <1>6 DEF Toward, SideOf, Sides
  <2>4. QED BY <1>3, <2>1, <2>2, <2>3 DEF Fitting
<1>7. ASSUME Toward(p, side) > 0, ~IsActive(k, c)
      PROVE  Sound(sent, p) /\ (Fitting(k, p, turned) => Fitting(sent, p, turned))
  <2>1. /\ sent \in Members
        /\ sent.orders = [k.orders EXCEPT ![c] = order]
        /\ sent.n = k.n /\ sent.lastSend = k.lastSend /\ sent.closeFlag = k.closeFlag
        /\ sent.since = k.since /\ sent.opens = k.opens /\ sent.opened = k.opened
        /\ sent.flagged = k.flagged
    <3>1. Toward(p, side) \in Nat /\ through \in BOOLEAN
        BY <1>1, <1>2, <1>7 DEF Members
    <3> HIDE DEF through
    <3>2. order \in OrderType
        BY <3>1 DEF OrderType
    <3> HIDE DEF order
    <3>3. QED BY <1>1, <1>2, <3>2 DEF Members
  <2> HIDE DEF sent
  <2>2. /\ sent.orders[c] = order
        /\ \A x \in Slots \ {c} : sent.orders[x] = k.orders[x]
      BY <1>1, <1>2, <2>1 DEF Members
  <2>3. Small(sent)
      BY <1>2, <2>2, SlotsOfSides DEF Sound, Small
  <2>4. Marking(sent)
      BY <1>2, <2>1 DEF Sound, Marking
  <2>5. /\ Due(sent, c) = Toward(p, side)
        /\ \A x \in Slots \ {c} : Due(sent, x) = Due(k, x)
      BY <1>1, <2>2 DEF Due
  <2>6. \A x \in Slots : Due(k, x) \in Nat
      BY <1>2 DEF Due, Members, OrderType
  <2>7. ASSUME NEW other \in Sides, sent.opened = {other}
        PROVE  OneSide(sent, p, other)
    <3>1. OneSide(k, p, other)
        BY <1>2, <2>1, <2>7 DEF Sound, Sided
    <3>2. other = side
        BY <1>7, <3>1 DEF OneSide, Toward, Sides
    <3>3. QED BY <1>1, <2>5, <3>1, <3>2, SlotsOfSides DEF OneSide
  <2>8. sent.opened # {}
      BY <1>2, <1>7, <2>1 DEF Sound, Sided, Toward
  <2>9. Sided(sent, p)
      BY <2>7, <2>8 DEF Sided
  <2>10. Fitting(k, p, turned) => Fitting(sent, p, turned)
      BY <2>1 DEF Fitting
  <2>11. QED BY <2>1, <2>3, <2>4, <2>9, <2>10 DEF Sound
<1>8. QED BY <1>2, <1>3, <1>4, <1>5, <1>6, <1>7 DEF t

LEMMA ReactSound ==
    ASSUME NEW s, NEW p \in Int, NEW t, NEW now, NEW target, NEW turned, Sound(s, p)
    PROVE  /\ Sound(React(s, p, t, now, target), p)
           /\ Fitting(s, p, turned) => Fitting(React(s, p, t, now, target), p, turned)
<1>1. "long" \in Sides /\ "short" \in Sides
    BY DEF Sides
<1>2. ASSUME NEW u, Sound(u, p)
      PROVE  /\ Sound(CloseBoth(u, p, target), p)
             /\ Fitting(u, p, turned) => Fitting(CloseBoth(u, p, target), p, turned)
    BY <1>1, <1>2, CloseSound DEF CloseBoth
<1>3. CASE t \in SessionHours
  <2> DEFINE l == IF Inited(s) THEN s ELSE Open(s, p, "long")
             o == Open(l, p, "short")
  <2>1. Sound(l, p) /\ (Fitting(s, p, turned) => Fitting(l, p, turned))
      BY <1>1, OpenSound
  <2>2. Sound(o, p) /\ (Fitting(l, p, turned) => Fitting(o, p, turned))
      BY <1>1, <2>1, OpenSound
  <2>3. React(s, p, t, now, target) = CloseBoth(o, p, target)
      BY <1>3 DEF React
  <2> HIDE DEF l, o
  <2>4. QED BY <1>2, <2>1, <2>2, <2>3
<1>4. CASE t \notin SessionHours /\ now \in LateHours
    BY <1>2, <1>4 DEF React
<1>5. CASE t \notin SessionHours /\ now \notin LateHours
    BY <1>5, KillAllSound DEF React
<1>6. QED BY <1>3, <1>4, <1>5

----------------------------------------------------------------------------
(* The events.                                                              *)

\* Only a side's own orders move the position to or from that side.
LEMMA BuysOfSides ==
    /\ Opening["long"] = "open_long" /\ Closing["long"] = "close_long"
    /\ Opening["short"] = "open_short" /\ Closing["short"] = "close_short"
    /\ {"open_long", "close_short"} \subseteq Buys
    /\ "open_short" \notin Buys /\ "close_long" \notin Buys
BY DEF Opening, Closing, Buys

\* New prices change what is through, and nothing else.
LEMMA RequotedAlike ==
    ASSUME NEW s \in Members, NEW through
    PROVE  Alike(s, Requoted(s, through))
<1> DEFINE quotes == [o \in Slots |-> [s.orders[o] EXCEPT !.through = o \in through]]
<1>1. \A o \in Slots : s.orders[o] \in OrderType
    BY DEF Members
<1>2. /\ quotes \in [Slots -> OrderType]
      /\ \A o \in Slots : /\ quotes[o].left = s.orders[o].left
                         /\ quotes[o].trailing = s.orders[o].trailing
  <2>1. ASSUME NEW o \in Slots
        PROVE  /\ [s.orders[o] EXCEPT !.through = o \in through]
                    \in OrderType
               /\ [s.orders[o] EXCEPT !.through = o \in through].left = s.orders[o].left
               /\ [s.orders[o] EXCEPT !.through = o \in through].trailing
                    = s.orders[o].trailing
    <3>1. ASSUME NEW r \in OrderType, NEW b \in BOOLEAN
          PROVE  /\ [r EXCEPT !.through = b] \in OrderType
                 /\ [r EXCEPT !.through = b].left = r.left
                 /\ [r EXCEPT !.through = b].trailing = r.trailing
        BY DEF OrderType
    <3>2. (o \in through) \in BOOLEAN
        OBVIOUS
    <3>3. QED BY <1>1, <3>1, <3>2, Zenon
  <2>2. QED BY <2>1
<1>3. Requoted(s, through) = [s EXCEPT !.orders = quotes]
    BY DEF Requoted
<1> HIDE DEF quotes
<1>4. QED BY <1>2, <1>3 DEF Alike, Members

LEMMA OnFutureTickSound ==
    ASSUME NEW s, NEW p \in Int, NEW t, NEW signal \in [Sides -> BOOLEAN], NEW turned,
           Sound(s, p)
    PROVE  /\ Sound(OnFutureTick(s, t, signal), p)
           /\ Fitting(s, p, turned) => Fitting(OnFutureTick(s, t, signal), p, turned)
<1>1. CASE t \in CountedHours
  <2> DEFINE u == [s EXCEPT !.n = @ + 1, !.signal = signal, !.opens = 0]
  <2>1. /\ u \in Members
        /\ u.orders = s.orders /\ u.opens = 0 /\ u.opened = s.opened
        /\ u.closeFlag = s.closeFlag /\ u.since = s.since /\ u.flagged = s.flagged
    <3> DEFINE u1 == [s EXCEPT !.n = @ + 1]
               u2 == [u1 EXCEPT !.signal = signal]
               u3 == [u2 EXCEPT !.opens = 0]
    <3>1. /\ u1 \in Members
          /\ u1.orders = s.orders /\ u1.opened = s.opened
          /\ u1.closeFlag = s.closeFlag /\ u1.since = s.since /\ u1.flagged = s.flagged
        BY DEF Sound, Members
    <3>2. u = u3
        OBVIOUS
    <3> HIDE DEF u, u1
    <3>3. /\ u2 \in Members
          /\ u2.orders = s.orders /\ u2.opened = s.opened
          /\ u2.closeFlag = s.closeFlag /\ u2.since = s.since /\ u2.flagged = s.flagged
        BY <3>1 DEF Members
    <3> HIDE DEF u2
    <3>4. QED BY <3>2, <3>3 DEF Members
  <2>2. OnFutureTick(s, t, signal) = u
      BY <1>1 DEF OnFutureTick
  <2> HIDE DEF u
  <2>3. Sound(u, p)
      BY <2>1 DEF Sound, Small, Marking, Sided, OneSide, Due
  <2>4. QED BY <2>1, <2>2, <2>3 DEF Fitting
<1>2. CASE t \notin CountedHours
    BY <1>2 DEF OnFutureTick
<1>3. QED BY <1>1, <1>2

\* Two positions other than zero are on the same side, or on the two sides.
LEMMA SidesOfPositions ==
    ASSUME NEW p \in Int, NEW q \in Int, p # 0, q # 0, {SideOf(p), SideOf(q)} # Sides
    PROVE  SideOf(p) = SideOf(q)
<1>1. /\ SideOf(p) = "long" \/ SideOf(p) = "short"
      /\ SideOf(q) = "long" \/ SideOf(q) = "short"
    BY DEF SideOf
<1>2. QED BY <1>1 DEF Sides

\* on_trade makes time_ and close_flag_ fit the position q that the trade leaves, if they
\* fitted p before it.
LEMMA OnTradeSound ==
    ASSUME NEW s, NEW p \in Int, NEW q \in Int, NEW before \in BOOLEAN, NEW turned, Sound(s, q),
           turned = (q # 0 /\ (before \/ (s.closeFlag /\ {SideOf(p), SideOf(q)} = Sides)))
    PROVE  /\ Sound(OnTrade(s, q), q)
           /\ Fitting(s, p, before) => Fitting(OnTrade(s, q), q, turned)
<1> DEFINE u == OnTrade(s, q)
<1>1. /\ u \in Members
      /\ u.orders = s.orders /\ u.opens = s.opens /\ u.opened = s.opened
      /\ u.n = s.n /\ u.lastSend = s.lastSend
      /\ q # 0 => u.since # "never" /\ u.closeFlag = s.closeFlag /\ u.flagged = s.flagged
      /\ q = 0 => u.since = "never" /\ u.closeFlag = FALSE
  <2>1. CASE q # 0
      BY <2>1 DEF OnTrade, Sound, Members
  <2>2. CASE q = 0
      BY <2>2 DEF OnTrade, Sound, Members
  <2>3. QED BY <2>1, <2>2
<1> HIDE DEF u
<1>2. Sound(u, q)
    BY <1>1 DEF Sound, Small, Marking, Sided, OneSide, Due
<1>3. ASSUME Fitting(s, p, before)
      PROVE  Fitting(u, q, turned)
  <2>1. CASE q = 0
      BY <1>1, <2>1 DEF Fitting
  <2>2. CASE q # 0
    <3>1. ASSUME s.closeFlag, ~turned
          PROVE  s.flagged = SideOf(q)
      <4>1. p # 0 /\ ~before /\ {SideOf(p), SideOf(q)} # Sides
          BY <1>3, <2>2, <3>1 DEF Fitting
      <4>2. s.flagged = SideOf(p)
          BY <1>3, <3>1, <4>1 DEF Fitting
      <4>3. QED BY <2>2, <4>1, <4>2, SidesOfPositions
    <3>2. QED BY <1>1, <2>2, <3>1 DEF Fitting
  <2>3. QED BY <2>1, <2>2
<1>4. QED BY <1>2, <1>3 DEF u

\* An order shrinks to `order` while the position moves by `volume`, or goes without one.
LEMMA ShrinkSound ==
    ASSUME NEW s, NEW p \in Int, NEW q \in Int, NEW o \in Slots, NEW volume \in Nat,
           NEW order \in OrderType, NEW turned,
           Sound(s, p),
           order.left <= s.orders[o].left,
           volume + order.left + order.trailing <= Due(s, o),
           q = IF o \in Buys THEN p + volume ELSE p - volume
    PROVE  /\ Sound([s EXCEPT !.orders[o] = order], q)
           /\ [s EXCEPT !.orders[o] = order].closeFlag = s.closeFlag
           /\ Fitting(s, p, turned) => Fitting([s EXCEPT !.orders[o] = order], p, turned)
<1> DEFINE t == [s EXCEPT !.orders[o] = order]
<1>1. /\ t \in Members
      /\ t.orders = [s.orders EXCEPT ![o] = order]
      /\ t.opens = s.opens /\ t.opened = s.opened
      /\ t.n = s.n /\ t.lastSend = s.lastSend
      /\ t.closeFlag = s.closeFlag /\ t.since = s.since /\ t.flagged = s.flagged
    BY DEF Sound, Members
<1> HIDE DEF t
<1>2. /\ t.orders[o] = order
      /\ \A x \in Slots \ {o} : t.orders[x] = s.orders[x]
    BY <1>1 DEF Sound, Members
<1>3. /\ \A x \in Slots : s.orders[x].left \in Nat /\ Due(s, x) \in Nat
      /\ order.left \in Nat /\ order.trailing \in Nat
    BY DEF Sound, Members, OrderType, Due
<1>4. /\ \A x \in Slots : Due(t, x) \in Nat
      /\ \A x \in Slots \ {o} : Due(t, x) = Due(s, x)
      /\ volume + Due(t, o) <= Due(s, o)
  <2>1. Due(t, o) = order.left + order.trailing
      BY <1>2 DEF Due
  <2>2. \A x \in Slots \ {o} : Due(t, x) = Due(s, x)
      BY <1>2 DEF Due
  <2>3. Due(t, o) \in Nat /\ volume + Due(t, o) <= Due(s, o)
      BY <1>3, <2>1
  <2>4. QED BY <1>3, <2>2, <2>3
<1>5. Small(t)
  <2>1. \A x \in Slots : t.orders[x].left <= s.orders[x].left /\ t.orders[x].left \in Nat
      BY <1>2, <1>3
  <2>2. QED BY <1>3, <2>1, SlotsOfSides, VolAssumption DEF Sound, Small
<1>6. Marking(t)
    BY <1>1 DEF Sound, Marking
<1>7. ASSUME t.opened = {}
      PROVE  q = 0 /\ \A x \in Slots : Due(t, x) = 0
  <2>1. p = 0 /\ \A x \in Slots : Due(s, x) = 0
      BY <1>1, <1>7 DEF Sound, Sided
  <2>2. volume = 0 /\ Due(t, o) = 0
      BY <1>4, <2>1
  <2>3. QED BY <1>4, <2>1, <2>2
<1>8. ASSUME NEW side \in Sides, t.opened = {side}
      PROVE  OneSide(t, q, side)
  <2>1. OneSide(s, p, side)
      BY <1>1, <1>8 DEF Sound, Sided
  <2>2. \A x \in Slots \ {Opening[side], Closing[side]} : Due(t, x) = 0
      BY <1>4, <2>1 DEF OneSide
  <2>3. CASE o = Opening[side]
    <3>1. Toward(q, side) = Toward(p, side) + volume /\ Toward(p, side) \in Int
        BY <2>3, BuysOfSides DEF Toward, Sides
    <3>2. QED BY <1>3, <1>4, <2>1, <2>2, <2>3, <3>1, SlotsOfSides, VolAssumption DEF OneSide
  <2>4. CASE o = Closing[side]
    <3>1. Toward(q, side) = Toward(p, side) - volume /\ Toward(p, side) \in Int
        BY <2>4, BuysOfSides DEF Toward, Sides
    <3>2. QED BY <1>3, <1>4, <2>1, <2>2, <2>4, <3>1, SlotsOfSides, VolAssumption DEF OneSide
  <2>5. CASE o \notin {Opening[side], Closing[side]}
    <3>1. volume = 0 /\ q = p
        BY <1>4, <2>1, <2>5 DEF OneSide
    <3>2. QED BY <1>4, <2>1, <2>2, <2>5, <3>1, SlotsOfSides DEF OneSide
  <2>6. QED BY <2>3, <2>4, <2>5
<1>9. Sided(t, q)
    BY <1>7, <1>8 DEF Sided
<1>10. ASSUME Fitting(s, p, turned) PROVE Fitting(t, p, turned)
    BY <1>1, <1>10 DEF Fitting
<1>11. QED BY <1>1, <1>5, <1>6, <1>9, <1>10 DEF t, Sound

\* The inductive invariant.
IInv ==
    /\ pos \in Int
    /\ clock \in 1 .. Len(Stages)
    /\ quoted \in Hours
    /\ priceOk \in BOOLEAN
    /\ missed \in BOOLEAN /\ inherited \in BOOLEAN /\ overtaken \in BOOLEAN
    /\ mishaps \in Nat
    /\ Sound(strategy, pos)
    /\ ~missed => Fitting(strategy, pos, inherited)

LEMMA IInvInit == Init => IInv
<1> SUFFICES ASSUME Init PROVE IInv
    OBVIOUS
<1>1. /\ strategy \in Members
      /\ strategy.orders = [o \in Slots |-> Inactive]
      /\ strategy.opens = 0 /\ strategy.opened = {}
      /\ strategy.since = "never" /\ strategy.closeFlag = FALSE
  <2>1. [o \in Slots |-> Inactive] \in [Slots -> OrderType]
      BY DEF Inactive, Freed, OrderType
  <2>2. PICK n \in Int, signal \in [Sides -> BOOLEAN] :
          strategy = [orders |-> [o \in Slots |-> Inactive], n |-> n,
                      signal |-> signal, lastSend |-> 0, closeFlag |-> FALSE,
                      since |-> "never", priced |-> FALSE, opens |-> 0, opened |-> {},
                      flagged |-> "none"]
      BY CountsAssumption DEF Init
  <2>3. QED BY <2>1, <2>2 DEF Members
<1>2. \A o \in Slots : strategy.orders[o].left = 0 /\ Due(strategy, o) = 0
    BY <1>1 DEF Inactive, Freed, Due
<1>3. Small(strategy)
    BY <1>2, SlotsOfSides, VolAssumption DEF Small
<1>4. Marking(strategy)
    BY <1>1 DEF Marking
<1>5. Sided(strategy, pos)
    BY <1>1, <1>2 DEF Sided, Init
<1>6. Fitting(strategy, pos, inherited)
    BY <1>1 DEF Fitting, Init
<1>7. quoted \in Hours
    BY StagesAssumption DEF Init, Hours
<1>8. clock \in 1 .. Len(Stages)
    BY StagesAssumption DEF Init
<1>9. /\ pos \in Int /\ mishaps \in Nat
      /\ priceOk \in BOOLEAN
      /\ missed \in BOOLEAN /\ inherited \in BOOLEAN /\ overtaken \in BOOLEAN
  <2>1. /\ pos = 0 /\ mishaps = 0
        /\ priceOk = FALSE /\ missed = FALSE /\ inherited = FALSE /\ overtaken = FALSE
      BY DEF Init
  <2>2. pos \in Int /\ mishaps \in Nat
      BY <2>1
  <2>3. /\ priceOk \in BOOLEAN
        /\ missed \in BOOLEAN /\ inherited \in BOOLEAN /\ overtaken \in BOOLEAN
      BY <2>1, Zenon
  <2>4. QED BY <2>2, <2>3
<1>10. QED BY <1>1, <1>3, <1>4, <1>5, <1>6, <1>7, <1>8, <1>9 DEF IInv, Sound

LEMMA IInvInductive == IInv /\ [Next]_vars => IInv'
<1> SUFFICES ASSUME IInv, [Next]_vars PROVE IInv'
    OBVIOUS
<1> USE DEF IInv
<1>0. strategy \in Members
    BY DEF Sound
<1>1. ASSUME NEW s, pos' \in Int, Sound(s, pos'), OnEvent(s)
      PROVE  /\ Sound(strategy', pos')
             /\ Fitting(s, pos', inherited') => Fitting(strategy', pos', inherited')
             /\ overtaken' \in BOOLEAN
  <2>1. CASE priceOk'
    <3>1. PICK target : strategy' = React(s, pos', quoted', clock, target)
        BY <1>1, <2>1 DEF OnEvent
    <3>2. QED BY <1>1, <3>1, ReactSound DEF OnEvent
  <2>2. CASE ~priceOk'
      BY <1>1, <2>2 DEF OnEvent
  <2>3. QED BY <2>1, <2>2
<1>2. mishaps' \in Nat
  <2>1. Quoted \/ Mishap \/ mishaps' = mishaps
      BY DEF Next, TickOfFuture, Tick, TickOfSpot, WaitPasses, ClockMoves,
             Reported, Cancelled, Refused, Traded, TradedOut, Trailed, Moves, vars
  <2>2. QED BY <2>1 DEF Quoted, Mishap
<1>3. clock \in Hours
    BY StagesAssumption DEF Hours
<1>4. ASSUME NEW through, NEW signal \in [Sides -> BOOLEAN], Tick(through, signal)
      PROVE  IInv'
  <2> DEFINE s == Requoted(strategy, through)
             u == IF priceOk' THEN OnFutureTick(s, quoted', signal) ELSE s
  <2>1. pos' = pos /\ clock' = clock /\ missed' = missed /\ inherited' = inherited
        /\ quoted' \in Hours /\ priceOk' \in BOOLEAN
      BY <1>3, <1>4 DEF Tick, Quoted
  <2>2. Sound(s, pos) /\ (Fitting(strategy, pos, inherited) => Fitting(s, pos, inherited))
      BY <1>0, RequotedAlike, AlikeSound
  <2> HIDE DEF s
  <2>3. Sound(u, pos) /\ (Fitting(s, pos, inherited) => Fitting(u, pos, inherited))
      BY <2>2, OnFutureTickSound
  <2>4. OnEvent(u)
      BY <1>4 DEF Tick, s
  <2> HIDE DEF u
  <2>5. QED BY <1>1, <1>2, <2>1, <2>2, <2>3, <2>4
<1>5. CASE TickOfFuture
  <2>1. strategy.signal \in [Sides -> BOOLEAN]
      BY <1>0 DEF Members
  <2>2. PICK through \in SUBSET {o \in Closings : IsActive(strategy, o)} :
               \E signal \in IF clock \in CountedHours THEN [Sides -> BOOLEAN]
                                                      ELSE {strategy.signal} :
                  Tick(through, signal)
      BY <1>5 DEF TickOfFuture
  <2>3. PICK signal \in [Sides -> BOOLEAN] : Tick(through, signal)
      BY <2>1, <2>2
  <2>4. QED BY <1>4, <2>3
<1>6. CASE TickOfSpot
    BY <1>1, <1>2, <1>6 DEF TickOfSpot, Quoted
<1>7. ASSUME NEW o \in Slots, Reported(o)
      PROVE  IInv'
    BY <1>1, <1>2, <1>7 DEF Reported
<1>8. ASSUME NEW o \in Slots
      PROVE  /\ Sound(Released(o, 0), pos)
             /\ Fitting(strategy, pos, inherited) => Fitting(Released(o, 0), pos, inherited)
  <2>1. /\ Inactive \in OrderType
        /\ Inactive.left <= strategy.orders[o].left
        /\ 0 + Inactive.left + Inactive.trailing <= Due(strategy, o)
        /\ pos = IF o \in Buys THEN pos + 0 ELSE pos - 0
      BY <1>0 DEF Inactive, Freed, Members, OrderType, Due
  <2>2. QED BY <2>1, ShrinkSound DEF Released, Inactive
<1>9. ASSUME NEW o \in Slots, Cancelled(o)
      PROVE  IInv'
    BY <1>1, <1>2, <1>8, <1>9 DEF Cancelled
<1>10. ASSUME NEW o \in Slots, Refused(o)
       PROVE  IInv'
    BY <1>2, <1>8, <1>10 DEF Refused
<1>11. ASSUME NEW o \in Slots, NEW volume \in Nat, NEW order \in OrderType,
              order.left <= strategy.orders[o].left,
              volume + order.left + order.trailing <= Due(strategy, o),
              Moves(o, volume, [strategy EXCEPT !.orders[o] = order])
       PROVE  IInv'
  <2> DEFINE s == [strategy EXCEPT !.orders[o] = order]
             u == IF priceOk THEN OnTrade(s, pos') ELSE s
  <2>1. /\ pos' \in Int /\ pos' = (IF o \in Buys THEN pos + volume ELSE pos - volume)
        /\ clock' = clock /\ quoted' = quoted /\ priceOk' = priceOk
        /\ missed' = (missed \/ ~priceOk)
        /\ inherited' = (pos' # 0 /\ (inherited \/ (strategy.closeFlag
                                          /\ {SideOf(pos), SideOf(pos')} = Sides)))
    <3> HIDE DEF IInv
    <3>1. /\ pos' = (IF o \in Buys THEN pos + volume ELSE pos - volume)
          /\ clock' = clock /\ quoted' = quoted /\ priceOk' = priceOk
          /\ missed' = (missed \/ ~priceOk)
          /\ inherited' = (pos' # 0 /\ (inherited \/ (strategy.closeFlag
                                            /\ {SideOf(pos), SideOf(pos')} = Sides)))
        BY <1>11, Zenon DEF Moves
    <3>2. pos' \in Int
        BY <3>1 DEF IInv
    <3>3. QED BY <3>1, <3>2, Zenon
  <2>2. missed' \in BOOLEAN /\ inherited' \in BOOLEAN
      BY <2>1, Zenon
  <2>3. OnEvent(u)
      BY <1>11, Zenon DEF Moves
  <2>4. /\ Sound(s, pos') /\ s.closeFlag = strategy.closeFlag
        /\ Fitting(strategy, pos, inherited) => Fitting(s, pos, inherited)
    <3>1. Sound(strategy, pos) /\ pos \in Int
        BY DEF IInv
    <3> HIDE DEF IInv
    <3>2. pos' = IF o \in Buys THEN pos + volume ELSE pos - volume
        BY <2>1
    <3>3. pos' \in Int
        BY <2>1
    <3>4. /\ Sound([strategy EXCEPT !.orders[o] = order], pos')
          /\ [strategy EXCEPT !.orders[o] = order].closeFlag = strategy.closeFlag
          /\ Fitting(strategy, pos, inherited)
                => Fitting([strategy EXCEPT !.orders[o] = order], pos, inherited)
      <4>1. /\ order.left <= strategy.orders[o].left
            /\ volume + order.left + order.trailing <= Due(strategy, o)
          BY <1>11
      <4>2. Sound([strategy EXCEPT !.orders[o] = order], pos')
          BY <3>1, <3>2, <3>3, <4>1, ShrinkSound
      <4>3. [strategy EXCEPT !.orders[o] = order].closeFlag = strategy.closeFlag
          BY <3>1, <3>2, <3>3, <4>1, ShrinkSound
      <4>4. Fitting(strategy, pos, inherited)
                => Fitting([strategy EXCEPT !.orders[o] = order], pos, inherited)
          BY <3>1, <3>2, <3>3, <4>1, ShrinkSound
      <4>. QED BY <4>2, <4>3, <4>4
    <3>5. QED BY <3>4
  <2> HIDE DEF s
  <2>5. /\ Sound(u, pos')
        /\ priceOk /\ Fitting(s, pos, inherited) => Fitting(u, pos', inherited')
    <3>1. CASE priceOk
        BY <2>1, <2>4, <3>1, OnTradeSound
    <3>2. CASE ~priceOk
        BY <2>4, <3>2
    <3>3. QED BY <3>1, <3>2
  <2> HIDE DEF u
  <2>6. QED BY <1>1, <1>2, <2>1, <2>4, <2>5, <2>2, <2>3
<1>12. ASSUME NEW o \in Slots, NEW volume \in 1 .. strategy.orders[o].left, Traded(o, volume)
       PROVE  IInv'
  <2> DEFINE order == [strategy.orders[o] EXCEPT !.left = @ - volume]
  <2>1. strategy.orders[o] \in OrderType
      BY <1>0 DEF Members
  <2>2. /\ volume \in Nat /\ order \in OrderType
        /\ order.left <= strategy.orders[o].left
        /\ volume + order.left + order.trailing <= Due(strategy, o)
    <3> HIDE DEF IInv
    <3>1. volume \in Nat /\ strategy.orders[o].left - volume \in Nat
        BY <1>12, <2>1 DEF OrderType, Traded
    <3>2. /\ order \in OrderType
          /\ order.left <= strategy.orders[o].left
          /\ order.left + order.trailing = strategy.orders[o].left + strategy.orders[o].trailing
                                             - volume
        BY <2>1, <3>1 DEF OrderType
    <3>3. QED BY <2>1, <3>1, <3>2 DEF OrderType, Due
  <2>3. [strategy EXCEPT !.orders[o].left = @ - volume] = [strategy EXCEPT !.orders[o] = order]
      BY <1>0 DEF Members
  <2> HIDE DEF order
  <2>4. Moves(o, volume, [strategy EXCEPT !.orders[o] = order])
      BY <1>12, <2>3 DEF Traded
  <2> HIDE DEF IInv
  <2>5. QED BY <1>11, <2>2, <2>4
<1>13. ASSUME NEW o \in Slots, NEW volume \in 1 .. strategy.orders[o].left,
              NEW trailing \in 0 .. strategy.orders[o].left - volume,
              TradedOut(o, volume, trailing)
       PROVE  IInv'
  <2>1. strategy.orders[o] \in OrderType
      BY <1>0 DEF Members
  <2>2. /\ volume \in Nat /\ Freed(trailing) \in OrderType
        /\ Freed(trailing).left <= strategy.orders[o].left
        /\ volume + Freed(trailing).left + Freed(trailing).trailing <= Due(strategy, o)
      BY <1>13, <2>1 DEF OrderType, Due, TradedOut, Freed
  <2>3. QED BY <1>11, <1>13, <2>2 DEF TradedOut, Released
<1>14. ASSUME NEW o \in Slots, NEW volume \in 1 .. strategy.orders[o].trailing,
              Trailed(o, volume)
       PROVE  IInv'
  <2> DEFINE order == [strategy.orders[o] EXCEPT !.trailing = @ - volume]
  <2>1. strategy.orders[o] \in OrderType
      BY <1>0 DEF Members
  <2>2. /\ volume \in Nat /\ order \in OrderType
        /\ order.left <= strategy.orders[o].left
        /\ volume + order.left + order.trailing <= Due(strategy, o)
    <3> HIDE DEF IInv
    <3>1. volume \in Nat /\ strategy.orders[o].trailing - volume \in Nat
        BY <1>14, <2>1 DEF OrderType, Trailed
    <3>2. /\ order \in OrderType
          /\ order.left <= strategy.orders[o].left
          /\ order.left + order.trailing = strategy.orders[o].left + strategy.orders[o].trailing
                                             - volume
        BY <2>1, <3>1 DEF OrderType
    <3>3. QED BY <2>1, <3>1, <3>2 DEF OrderType, Due
  <2>3. [strategy EXCEPT !.orders[o].trailing = @ - volume]
            = [strategy EXCEPT !.orders[o] = order]
      BY <1>0 DEF Members
  <2> HIDE DEF order
  <2>4. Moves(o, volume, [strategy EXCEPT !.orders[o] = order])
      BY <1>14, <2>3 DEF Trailed
  <2> HIDE DEF IInv
  <2>5. QED BY <1>11, <2>2, <2>4
<1>15. CASE WaitPasses
  <2>1. /\ strategy' \in Members
        /\ strategy'.orders = strategy.orders /\ strategy'.opens = strategy.opens
        /\ strategy'.opened = strategy.opened /\ strategy'.n = strategy.n
        /\ strategy'.lastSend = strategy.lastSend /\ strategy'.closeFlag = strategy.closeFlag
        /\ strategy'.since # "never" /\ strategy.since # "never"
        /\ strategy'.flagged = strategy.flagged
      BY <1>0, <1>15 DEF WaitPasses, Members
  <2>2. Sound(strategy', pos)
      BY <2>1 DEF Sound, Small, Marking, Sided, OneSide, Due
  <2>3. Fitting(strategy, pos, inherited) => Fitting(strategy', pos, inherited)
      BY <2>1 DEF Fitting
  <2>4. QED BY <1>2, <1>15, <2>2, <2>3 DEF WaitPasses
<1>16. CASE ClockMoves
    BY <1>2, <1>16, StagesAssumption DEF ClockMoves
<1>17. CASE UNCHANGED vars
    BY <1>17 DEF vars
<1>18. QED BY <1>5, <1>6, <1>7, <1>9, <1>10, <1>12, <1>13, <1>14, <1>15, <1>16, <1>17 DEF Next

LEMMA Invariants == Spec => []IInv
BY IInvInit, IInvInductive, PTL DEF Spec

\* The type invariant, with the bound on an opening order: whatever events come.
THEOREM TypeCorrect == Spec => []TypeOK
<1>1. IInv => TypeOK
    BY DEF IInv, Sound, Small, Members, OrderType, TypeOK
<1>2. QED BY <1>1, Invariants, PTL

\* open_long and open_short never send for the same tick, for any order of events.
THEOREM OneOpenPerTickCorrect == Spec => []OneOpenPerTick
<1>1. IInv => OneOpenPerTick
    BY DEF IInv, Sound, Marking, OneOpenPerTick
<1>2. QED BY <1>1, Invariants, PTL

\* While one side only was opened, the position stays between flat and vol_, and the account
\* with it until an order is sent over the trades of the one before: for any vol_, any partial
\* fills, matches in any number of trades, and any number of kills that come too late.
THEOREM OneSidedBoundCorrect == Spec => []OneSidedBound
<1>1. IInv => OneSidedBound
  <2> SUFFICES ASSUME IInv PROVE OneSidedBound
      OBVIOUS
  <2> DEFINE bl == strategy.orders["open_long"].left    bt == strategy.orders["open_long"].trailing
             sl == strategy.orders["open_short"].left   st == strategy.orders["open_short"].trailing
             cl == strategy.orders["close_long"].left   ct == strategy.orders["close_long"].trailing
             dl == strategy.orders["close_short"].left  dt == strategy.orders["close_short"].trailing
  <2>1. /\ "long" \in Sides /\ "short" \in Sides
        /\ {"open_long", "open_short", "close_long", "close_short"} = Slots
      BY DEF Sides, Slots, Buys, Sells
  <2>2. /\ pos \in Int
        /\ bl \in Nat /\ bt \in Nat /\ sl \in Nat /\ st \in Nat
        /\ cl \in Nat /\ ct \in Nat /\ dl \in Nat /\ dt \in Nat
      BY <2>1 DEF IInv, Sound, Members, OrderType
  <2>3. OnTheWay = bt + dt - st - ct
      BY DEF OnTheWay, Trailing
  <2>4. ASSUME strategy.opened = {"long"}
        PROVE  pos \in 0 .. Vol /\ pos + OnTheWay \in 0 .. Vol
    <3>1. OneSide(strategy, pos, "long")
        BY <2>1, <2>4 DEF IInv, Sound, Sided
    <3>2. /\ pos >= 0
          /\ pos + (bl + bt) <= Vol
          /\ cl + ct <= pos
          /\ sl + st = 0 /\ dl + dt = 0
        BY <2>1, <3>1, BuysOfSides DEF OneSide, Toward, Due
    <3> HIDE DEF bl, bt, sl, st, cl, ct, dl, dt
    <3>3. QED BY <2>2, <2>3, <3>2, VolAssumption
  <2>5. ASSUME strategy.opened = {"short"}
        PROVE  pos \in -Vol .. 0 /\ pos + OnTheWay \in -Vol .. 0
    <3>1. OneSide(strategy, pos, "short")
        BY <2>1, <2>5 DEF IInv, Sound, Sided
    <3>2. /\ -pos >= 0
          /\ -pos + (sl + st) <= Vol
          /\ dl + dt <= -pos
          /\ bl + bt = 0 /\ cl + ct = 0
        BY <2>1, <3>1, BuysOfSides DEF OneSide, Toward, Due
    <3> HIDE DEF bl, bt, sl, st, cl, ct, dl, dt
    <3>3. QED BY <2>2, <2>3, <3>2, VolAssumption
  <2>6. QED BY <2>4, <2>5 DEF OneSidedBound
<1>2. QED BY <1>1, Invariants, PTL

\* time_ runs while there is a position, and close_flag_ was set for the side that is held,
\* unless a trade came while a quote was zero; only a position that one trade turned over
\* goes on with the close_flag_ of the one before.
THEOREM FlagsFollowPositionCorrect == Spec => []FlagsFollowPosition
<1>1. IInv => FlagsFollowPosition
    BY DEF IInv, Fitting, FlagsFollowPosition
<1>2. QED BY <1>1, Invariants, PTL

----------------------------------------------------------------------------
(* When orders are sent and when they are withdrawn.                        *)

\* From s to t the order at o stays, or is asked to be cancelled.
Kept(s, t, o) ==
    /\ t.orders[o].left = s.orders[o].left
    /\ s.orders[o].asked => t.orders[o].asked

\* In s the order at o is inactive or asked to be cancelled.
Ending(s, o) == s.orders[o].left > 0 => s.orders[o].asked

\* A kill keeps every order and ends the one it is for.
LEMMA KillKeeps ==
    ASSUME NEW s \in Members, NEW k \in Slots
    PROVE  /\ KillOrder(s, k) \in Members /\ KillOrder(s, k).priced = s.priced
           /\ \A o \in Slots : Kept(s, KillOrder(s, k), o)
           /\ Ending(KillOrder(s, k), k)
<1>1. KillOrder(s, k) \in Members
    BY KillAlike DEF Alike
<1>2. CASE IsActive(s, k)
  <2>1. KillOrder(s, k) = [s EXCEPT !.orders[k].asked = TRUE]
      BY <1>2 DEF KillOrder
  <2>2. /\ KillOrder(s, k).priced = s.priced
        /\ KillOrder(s, k).orders = [s.orders EXCEPT ![k] = [@ EXCEPT !.asked = TRUE]]
      BY <2>1 DEF Members
  <2>3. \A o \in Slots : s.orders[o] \in OrderType
      BY DEF Members
  <2>4. KillOrder(s, k).orders[k] = [s.orders[k] EXCEPT !.asked = TRUE]
      BY <2>2 DEF Members
  <2>5. KillOrder(s, k).orders[k].asked = TRUE /\ KillOrder(s, k).orders[k].left = s.orders[k].left
      BY <2>3, <2>4
  <2>6. \A o \in Slots \ {k} : KillOrder(s, k).orders[o] = s.orders[o]
      BY <2>2 DEF Members
  <2>. QED BY <1>1, <2>2, <2>5, <2>6 DEF Kept, Ending
<1>3. CASE ~IsActive(s, k)
    BY <1>1, <1>3 DEF KillOrder, Kept, Ending, IsActive
<1>. QED BY <1>2, <1>3

\* What is kept twice is kept, and an order that ends stays so.
LEMMA KeptOn ==
    ASSUME NEW s, NEW t, NEW u, NEW o, Kept(s, t, o), Kept(t, u, o)
    PROVE  Kept(s, u, o) /\ (Ending(t, o) => Ending(u, o))
BY DEF Kept, Ending

\* open_long and open_short send an opening order and nothing else, and none on top of a
\* position of their side.
LEMMA OpenKeeps ==
    ASSUME NEW s \in Members, NEW p \in Int, NEW side \in Sides
    PROVE  /\ Open(s, p, side) \in Members /\ Open(s, p, side).priced = s.priced
           /\ \A o \in Slots : \/ Kept(s, Open(s, p, side), o)
                               \/ o = Opening[side] /\ Toward(p, side) <= 0
<1> DEFINE o == Opening[side]
           t == Open(s, p, side)
<1>0. o \in Slots /\ Toward(p, side) \in Int
    BY SlotsOfSides DEF Toward
<1>1. CASE Toward(p, side) > 0
  <2>1. t = s
      BY <1>0, <1>1 DEF Open
  <2>. QED BY <2>1 DEF Kept
<1>2. CASE Toward(p, side) <= 0 /\ IsActive(s, o)
  <2>1. t = s \/ t = KillOrder(s, o)
      BY <1>0, <1>2 DEF Open
  <2>. QED BY <1>0, <2>1, KillKeeps DEF Kept
<1>3. CASE ~(Toward(p, side) > 0) /\ ~(Toward(p, side) <= 0 /\ IsActive(s, o))
  <2>1. CASE ~(s.signal[side] /\ s.lastSend # s.n)
      BY <1>3, <2>1 DEF Open, Kept
  <2>2. CASE s.signal[side] /\ s.lastSend # s.n
    <3> DEFINE t0 == SendOrder(s, o, Vol, FALSE)
               t1 == [t0 EXCEPT !.lastSend = s.n]
               t2 == [t1 EXCEPT !.opens = IF @ < 2 THEN @ + 1 ELSE @]
               t3 == [t2 EXCEPT !.opened = @ \cup {side}]
    <3>1. /\ t0 \in Members /\ t0.priced = s.priced
          /\ \A x \in Slots \ {o} : t0.orders[x] = s.orders[x]
      <4>1. PICK order \in OrderType :
              order = [left |-> Vol, asked |-> FALSE, through |-> FALSE, trailing |-> 0]
          BY VolAssumption DEF OrderType
      <4>2. t0 = s \/ t0 = [s EXCEPT !.orders[o] = order]
          BY <4>1 DEF SendOrder
      <4>3. ASSUME t0 = [s EXCEPT !.orders[o] = order]
            PROVE  t0 \in Members /\ t0.priced = s.priced /\ t0.orders = [s.orders EXCEPT ![o] = order]
        <5> HIDE DEF t0
        <5>. QED BY <1>0, <4>1, <4>3 DEF Members
      <4>4. s.orders \in [Slots -> OrderType]
          BY DEF Members
      <4> HIDE DEF t0
      <4>. QED BY <1>0, <4>2, <4>3, <4>4
    <3>2. t = t3
      <4>1. t = [t0 EXCEPT !.lastSend = s.n, !.opens = IF @ < 2 THEN @ + 1 ELSE @,
                           !.opened = @ \cup {side}]
          BY <1>3, <2>2 DEF Open, Marked, OpenVolume
      <4> HIDE DEF t0
      <4>. QED BY <4>1
    <3> HIDE DEF t, t0
    <3>3. t1 \in Members /\ t1.priced = s.priced /\ t1.orders = t0.orders
        BY <3>1 DEF Members
    <3> HIDE DEF t1
    <3>4. t2 \in Members /\ t2.priced = s.priced /\ t2.orders = t0.orders
        BY <3>1, <3>3 DEF Members
    <3> HIDE DEF t2
    <3>5. t3 \in Members /\ t3.priced = s.priced /\ t3.orders = t0.orders
      <4>1. PICK union \in SUBSET Sides : union = t2.opened \cup {side}
          BY <3>4 DEF Members
      <4>2. t3 = [t2 EXCEPT !.opened = union]
          BY <4>1
      <4>. QED BY <3>4, <4>2 DEF Members
    <3>. QED BY <1>0, <1>3, <3>1, <3>2, <3>5 DEF t, Kept
  <2>. QED BY <2>1, <2>2
<1>. QED BY <1>0, <1>1, <1>2, <1>3

\* close_long and close_short send a closing order for the position and nothing else; with
\* a position of their side they leave its closing order active, if send takes the price,
\* and its opening order ending.
LEMMA CloseKeeps ==
    ASSUME NEW s \in Members, NEW p \in Int, NEW side \in Sides, NEW target
    PROVE  /\ Close(s, p, side, target) \in Members /\ Close(s, p, side, target).priced = s.priced
           /\ \A o \in Slots :
                 \/ Kept(s, Close(s, p, side, target), o)
                 \/ /\ o = Closing[side] /\ Toward(p, side) > 0
                    /\ Close(s, p, side, target).orders[o].left = Toward(p, side)
           /\ Toward(p, side) > 0 /\ target # "refused" =>
                 /\ IsActive(Close(s, p, side, target), Closing[side])
                 /\ Ending(Close(s, p, side, target), Opening[side])
<1> DEFINE c == Closing[side]
           k == KillOrder(s, Opening[side])
           t == Close(s, p, side, target)
           through == k.closeFlag \/ target = "through"
           order == [left |-> Toward(p, side), asked |-> FALSE, through |-> through,
                     trailing |-> 0]
           sent == [k EXCEPT !.orders[c] = order]
           kc == KillOrder(k, c)
           hurried == [kc EXCEPT !.closeFlag = TRUE, !.flagged = side]
<1>1. Opening[side] \in Slots /\ c \in Slots /\ Toward(p, side) \in Int /\ Opening[side] # c
    BY SlotsOfSides DEF Toward
<1>2. /\ k \in Members /\ k.priced = s.priced
      /\ \A o \in Slots : Kept(s, k, o)
      /\ Ending(k, Opening[side])
    BY <1>1, KillKeeps
<1>3. /\ kc \in Members /\ kc.priced = s.priced
      /\ \A o \in Slots : Kept(k, kc, o)
  <2> HIDE DEF k
  <2>. QED BY <1>1, <1>2, KillKeeps
<1>4. /\ \A o \in Slots : Kept(s, kc, o)
      /\ Ending(kc, Opening[side])
  <2> HIDE DEF k, kc
  <2>. QED BY <1>1, <1>2, <1>3, KeptOn
<1>5. \/ Toward(p, side) <= 0 /\ t = KillOrder(s, c)
      \/ Toward(p, side) > 0 /\ IsActive(k, c) /\ t \in {kc, k, hurried}
      \/ Toward(p, side) > 0 /\ ~IsActive(k, c) /\ t = k /\ target = "refused"
      \/ Toward(p, side) > 0 /\ ~IsActive(k, c) /\ t = sent
  <2>1. CASE Toward(p, side) <= 0
      BY <2>1 DEF Close
  <2>2. CASE Toward(p, side) > 0 /\ IsActive(k, c)
      BY <1>1, <2>2 DEF Close
  <2>3. CASE ~(Toward(p, side) <= 0) /\ ~(Toward(p, side) > 0 /\ IsActive(k, c))
      BY <1>1, <2>3 DEF Close, SendOrder, CloseVolume
  <2>4. QED BY <1>1, <2>1, <2>2, <2>3
<1>6. CASE Toward(p, side) <= 0 /\ t = KillOrder(s, c)
    BY <1>1, <1>6, KillKeeps
<1> HIDE DEF k, kc, t
<1>7. hurried \in Members /\ hurried.orders = kc.orders /\ hurried.priced = kc.priced
    BY <1>3 DEF Members
<1>8. ASSUME Toward(p, side) > 0
      PROVE  /\ sent \in Members /\ sent.priced = k.priced
             /\ sent.orders[c].left = Toward(p, side)
             /\ \A o \in Slots \ {c} : sent.orders[o] = k.orders[o]
  <2>1. Toward(p, side) \in Nat /\ through \in BOOLEAN
      BY <1>1, <1>2, <1>8 DEF Members
  <2> HIDE DEF through
  <2>2. order \in OrderType
      BY <2>1 DEF OrderType
  <2>. QED BY <1>1, <1>2, <2>2 DEF Members
<1> HIDE DEF hurried, sent
<1>9. CASE Toward(p, side) > 0 /\ IsActive(k, c) /\ t \in {kc, k, hurried}
  <2>1. t \in Members /\ t.priced = s.priced
      BY <1>2, <1>3, <1>7, <1>9
  <2>2. \A o \in Slots : Kept(s, t, o)
      BY <1>2, <1>4, <1>7, <1>9 DEF Kept
  <2>3. Ending(t, Opening[side])
      BY <1>2, <1>4, <1>7, <1>9 DEF Ending
  <2>4. IsActive(t, c)
      BY <1>1, <1>2, <1>9, <2>2 DEF IsActive, Kept
  <2>. QED BY <2>1, <2>2, <2>3, <2>4 DEF t
<1>10. CASE Toward(p, side) > 0 /\ ~IsActive(k, c) /\ t = k /\ target = "refused"
    BY <1>2, <1>10 DEF t
<1>11. CASE Toward(p, side) > 0 /\ ~IsActive(k, c) /\ t = sent
  <2>1. t \in Members /\ t.priced = s.priced
      BY <1>2, <1>8, <1>11
  <2>2. \A o \in Slots : Kept(s, t, o) \/ (o = c /\ t.orders[o].left = Toward(p, side))
      BY <1>2, <1>8, <1>11 DEF Kept
  <2>3. Ending(t, Opening[side])
      BY <1>1, <1>2, <1>8, <1>11 DEF Ending
  <2>4. IsActive(t, c)
      BY <1>8, <1>11 DEF IsActive
  <2>. QED BY <1>11, <2>1, <2>2, <2>3, <2>4 DEF t
<1>. QED BY <1>5, <1>6, <1>9, <1>10, <1>11

\* Closing both sides sends closing orders for the position only; the side that has one has
\* its closing order afterwards, and its opening order is ending.
LEMMA CloseBothKeeps ==
    ASSUME NEW s \in Members, NEW p \in Int, NEW target
    PROVE  /\ CloseBoth(s, p, target) \in Members /\ CloseBoth(s, p, target).priced = s.priced
           /\ \A side \in Sides :
                /\ Kept(s, CloseBoth(s, p, target), Opening[side])
                /\ \/ Kept(s, CloseBoth(s, p, target), Closing[side])
                   \/ CloseBoth(s, p, target).orders[Closing[side]].left = Toward(p, side)
                /\ Toward(p, side) > 0 /\ target # "refused" =>
                     /\ IsActive(CloseBoth(s, p, target), Closing[side])
                     /\ Ending(CloseBoth(s, p, target), Opening[side])
<1> DEFINE u == Close(s, p, "long", target)
           v == Close(u, p, "short", target)
           cl == Closing["long"]   cs == Closing["short"]
           ol == Opening["long"]   os == Opening["short"]
<1>1. /\ "long" \in Sides /\ "short" \in Sides
      /\ \A side \in Sides : side = "long" \/ side = "short"
    BY DEF Sides
<1>2. {cl, cs, ol, os} \subseteq Slots /\ cl # cs /\ ol # cl /\ ol # cs /\ os # cl /\ os # cs
    BY <1>1 DEF Opening, Closing, Slots, Buys, Sells
<1>3. /\ u \in Members /\ u.priced = s.priced
      /\ \A o \in Slots : \/ Kept(s, u, o)
                          \/ /\ o = cl /\ Toward(p, "long") > 0
                             /\ u.orders[o].left = Toward(p, "long")
      /\ Toward(p, "long") > 0 /\ target # "refused" => IsActive(u, cl) /\ Ending(u, ol)
    BY <1>1, CloseKeeps
<1> HIDE DEF u
<1>4. /\ v \in Members /\ v.priced = u.priced
      /\ \A o \in Slots : \/ Kept(u, v, o)
                          \/ /\ o = cs /\ Toward(p, "short") > 0
                             /\ v.orders[o].left = Toward(p, "short")
      /\ Toward(p, "short") > 0 /\ target # "refused" => IsActive(v, cs) /\ Ending(v, os)
    BY <1>1, <1>3, CloseKeeps
<1>5. CloseBoth(s, p, target) = v
    BY DEF CloseBoth, u
<1> HIDE DEF v
<1>6. Kept(u, v, ol) /\ Kept(u, v, os) /\ Kept(u, v, cl) /\ Kept(s, u, ol) /\ Kept(s, u, os)
      /\ Kept(s, u, cs)
    BY <1>2, <1>3, <1>4
<1> HIDE DEF cl, cs, ol, os
<1>7. Kept(s, v, ol) /\ Kept(s, v, os)
    BY <1>6, KeptOn
<1>8. Kept(s, v, cl) \/ v.orders[cl].left = Toward(p, "long")
  <2>1. CASE Kept(s, u, cl)
      BY <1>6, <2>1, KeptOn
  <2>2. CASE u.orders[cl].left = Toward(p, "long")
      BY <1>6, <2>2 DEF Kept
  <2>. QED BY <1>2, <1>3, <2>1, <2>2
<1>9. Kept(s, v, cs) \/ v.orders[cs].left = Toward(p, "short")
  <2>1. CASE Kept(u, v, cs)
      BY <1>6, <2>1, KeptOn
  <2>. QED BY <1>2, <1>4, <2>1
<1>10. Toward(p, "long") > 0 /\ target # "refused" => IsActive(v, cl) /\ Ending(v, ol)
  <2>1. Ending(u, ol) => Ending(v, ol)
      BY <1>6, KeptOn
  <2>2. IsActive(u, cl) => IsActive(v, cl)
      BY <1>6 DEF IsActive, Kept
  <2>. QED BY <1>3, <2>1, <2>2
<1>11. v \in Members /\ v.priced = s.priced
    BY <1>3, <1>4
<1>12. ASSUME NEW side \in Sides
       PROVE  /\ Kept(s, v, Opening[side])
              /\ Kept(s, v, Closing[side]) \/ v.orders[Closing[side]].left = Toward(p, side)
              /\ Toward(p, side) > 0 /\ target # "refused" =>
                   IsActive(v, Closing[side]) /\ Ending(v, Opening[side])
  <2>1. CASE side = "long"
      BY <1>7, <1>8, <1>10, <2>1 DEF cl, ol
  <2>2. CASE side = "short"
      BY <1>4, <1>7, <1>9, <2>2 DEF cs, os
  <2>. QED BY <1>1, <2>1, <2>2
<1>. QED BY <1>5, <1>11, <1>12

\* Out of the hours everything is kept and everything is ending.
LEMMA KillAllKeeps ==
    ASSUME NEW s \in Members
    PROVE  \A o \in Slots : Kept(s, KillAll(s), o) /\ Ending(KillAll(s), o)
<1> DEFINE a == KillOrder(s, "open_long")   b == KillOrder(a, "open_short")
           c == KillOrder(b, "close_long")  d == KillOrder(c, "close_short")
<1>1. /\ {"open_long", "open_short", "close_long", "close_short"} \subseteq Slots
      /\ \A o \in Slots : o \in {"open_long", "open_short", "close_long", "close_short"}
    BY DEF Slots, Buys, Sells
<1>2. a \in Members /\ (\A o \in Slots : Kept(s, a, o)) /\ Ending(a, "open_long")
    BY <1>1, KillKeeps
<1> HIDE DEF a
<1>3. b \in Members /\ (\A o \in Slots : Kept(a, b, o)) /\ Ending(b, "open_short")
    BY <1>1, <1>2, KillKeeps
<1> HIDE DEF b
<1>4. c \in Members /\ (\A o \in Slots : Kept(b, c, o)) /\ Ending(c, "close_long")
    BY <1>1, <1>3, KillKeeps
<1> HIDE DEF c
<1>5. d \in Members /\ (\A o \in Slots : Kept(c, d, o)) /\ Ending(d, "close_short")
    BY <1>1, <1>4, KillKeeps
<1>6. KillAll(s) = d
    BY DEF KillAll, a, b, c
<1> HIDE DEF d
<1>7. \A o \in Slots : Kept(s, b, o) /\ (Ending(a, o) => Ending(b, o))
    BY <1>2, <1>3, KeptOn
<1>8. \A o \in Slots : Kept(s, c, o) /\ (Ending(b, o) => Ending(c, o))
    BY <1>4, <1>7, KeptOn
<1>9. \A o \in Slots : Kept(s, d, o) /\ (Ending(c, o) => Ending(d, o))
    BY <1>5, <1>8, KeptOn
<1>10. Ending(d, "open_long") /\ Ending(d, "open_short") /\ Ending(d, "close_long")
       /\ Ending(d, "close_short")
    BY <1>1, <1>2, <1>3, <1>4, <1>5, <1>7, <1>8, <1>9
<1>11. \A o \in Slots : Ending(d, o)
    BY <1>1, <1>10
<1>. QED BY <1>6, <1>9, <1>11

\* What on_event sends and leaves, at a position p, with the last quote at t and the wall
\* clock at now.
LEMMA ReactKeeps ==
    ASSUME NEW s \in Members, NEW p \in Int, NEW t, NEW now, NEW target
    PROVE  LET r == React(s, p, t, now, target) IN
           \A side \in Sides :
             /\ Kept(s, r, Opening[side]) \/ (t \in SessionHours /\ Toward(p, side) <= 0)
             /\ \/ Kept(s, r, Closing[side])
                \/ /\ t \in SessionHours \/ now \in LateHours
                   /\ r.orders[Closing[side]].left = Toward(p, side)
             /\ IF t \in SessionHours \/ now \in LateHours
                THEN /\ r.priced = s.priced
                     /\ Toward(p, side) > 0 /\ target # "refused" =>
                          IsActive(r, Closing[side]) /\ Ending(r, Opening[side])
                ELSE \A o \in Slots : Ending(r, o)
<1> DEFINE r == React(s, p, t, now, target)
           l == IF Inited(s) THEN s ELSE Open(s, p, "long")
           m == Open(l, p, "short")
<1>1. "long" \in Sides /\ "short" \in Sides
    BY DEF Sides
<1>2. \A side \in Sides : Opening[side] \in Slots /\ Closing[side] \in Slots
                          /\ \A other \in Sides : Opening[side] # Closing[other]
    BY SlotsOfSides
<1>3. CASE t \in SessionHours
  <2>1. /\ l \in Members /\ l.priced = s.priced
        /\ \A o \in Slots : Kept(s, l, o) \/ (o = Opening["long"] /\ Toward(p, "long") <= 0)
    <3>1. CASE Inited(s)
        BY <3>1 DEF Kept
    <3>2. CASE ~Inited(s)
        BY <1>1, <3>2, OpenKeeps
    <3>. QED BY <3>1, <3>2
  <2>2. r = CloseBoth(m, p, target)
      BY <1>3 DEF React
  <2> HIDE DEF l
  <2>3. /\ m \in Members /\ m.priced = l.priced
        /\ \A o \in Slots : Kept(l, m, o) \/ (o = Opening["short"] /\ Toward(p, "short") <= 0)
      BY <1>1, <2>1, OpenKeeps
  <2> HIDE DEF m
  <2>4. \A side \in Sides : Kept(s, m, Closing[side])
      BY <1>1, <1>2, <2>1, <2>3, KeptOn
  <2>5. \A side \in Sides : Kept(s, m, Opening[side]) \/ Toward(p, side) <= 0
    <3> SUFFICES ASSUME NEW side \in Sides, ~(Toward(p, side) <= 0)
                 PROVE  Kept(s, m, Opening[side])
        OBVIOUS
    <3>1. Kept(s, l, Opening[side]) /\ Kept(l, m, Opening[side])
        BY <1>1, <1>2, <2>1, <2>3, SlotsOfSides
    <3>. QED BY <3>1, KeptOn
  <2>6. /\ r.priced = m.priced
        /\ \A side \in Sides :
             /\ Kept(m, r, Opening[side])
             /\ Kept(m, r, Closing[side]) \/ r.orders[Closing[side]].left = Toward(p, side)
             /\ Toward(p, side) > 0 /\ target # "refused" =>
                  IsActive(r, Closing[side]) /\ Ending(r, Opening[side])
      BY <2>2, <2>3, CloseBothKeeps
  <2> HIDE DEF r
  <2>7. \A side \in Sides : Kept(s, r, Opening[side]) \/ Toward(p, side) <= 0
      BY <2>5, <2>6, KeptOn
  <2>8. \A side \in Sides : \/ Kept(s, r, Closing[side])
                            \/ r.orders[Closing[side]].left = Toward(p, side)
      BY <2>4, <2>6, KeptOn
  <2>9. r.priced = s.priced
      BY <2>1, <2>3, <2>6
  <2>. QED BY <1>3, <2>6, <2>7, <2>8, <2>9 DEF r
<1>4. CASE t \notin SessionHours /\ now \in LateHours
  <2>1. r = CloseBoth(s, p, target)
      BY <1>4 DEF React
  <2>. QED BY <1>4, <2>1, CloseBothKeeps
<1>5. CASE t \notin SessionHours /\ now \notin LateHours
  <2>1. r = KillAll(s)
      BY <1>5 DEF React
  <2>2. \A o \in Slots : Kept(s, r, o) /\ Ending(r, o)
      BY <2>1, KillAllKeeps
  <2>. QED BY <1>2, <1>5, <2>2
<1>. QED BY <1>3, <1>4, <1>5

\* From s to t the order at o becomes smaller or stays, and is asked for as before unless it
\* is over.
Shrunk(s, t, o) ==
    /\ t.orders[o].left <= s.orders[o].left
    /\ s.orders[o].asked => t.orders[o].asked \/ t.orders[o].left = 0

\* What only shrinks and is kept is not sent.
LEMMA NothingSent ==
    ASSUME strategy \in Members, NEW s \in Members, NEW o \in Slots,
           Shrunk(strategy, s, o), Kept(s, strategy', o)
    PROVE  ~Sent(o)
<1>1. strategy.orders[o].left \in Nat /\ s.orders[o].left \in Nat
    BY DEF Members, OrderType
<1>2. ~(strategy'.orders[o].left > strategy.orders[o].left)
    BY <1>1 DEF Shrunk, Kept
<1>3. s.orders[o].left = 0 => ~IsActive(strategy', o)
    BY DEF Kept, IsActive
<1>4. strategy.orders[o].asked => strategy'.orders[o].asked \/ ~IsActive(strategy', o)
    BY <1>3 DEF Shrunk, Kept
<1>. QED BY <1>2, <1>4 DEF Sent

\* Released, an order has shrunk, and the others are as they were.
LEMMA ReleasedShrunk ==
    ASSUME strategy \in Members, NEW k \in Slots, NEW trailing \in Nat
    PROVE  /\ Released(k, trailing) \in Members
           /\ \A o \in Slots : Shrunk(strategy, Released(k, trailing), o)
<1>1. Freed(trailing) \in OrderType /\ Freed(trailing).left = 0
    BY DEF Freed, OrderType
<1>2. /\ Released(k, trailing) \in Members
      /\ Released(k, trailing).orders = [strategy.orders EXCEPT ![k] = Freed(trailing)]
    BY <1>1 DEF Released, Members
<1>3. /\ Released(k, trailing).orders[k].left = 0
      /\ \A o \in Slots \ {k} : Released(k, trailing).orders[o] = strategy.orders[o]
    BY <1>1, <1>2 DEF Members
<1>4. \A o \in Slots : strategy.orders[o].left \in Nat
    BY DEF Members, OrderType
<1>. QED BY <1>2, <1>3, <1>4 DEF Shrunk

\* Before on_event, an event that the strategy is told of only shrinks the orders.
LEMMA EventShrinks ==
    ASSUME IInv, Next, Told
    PROVE  pos' \in Int /\ \E s \in Members : OnEvent(s) /\ \A o \in Slots : Shrunk(strategy, s, o)
<1>0. strategy \in Members /\ Sound(strategy, pos) /\ pos \in Int
    BY DEF IInv, Sound
<1>1. \A o \in Slots : strategy.orders[o].left \in Nat /\ Shrunk(strategy, strategy, o)
    BY <1>0 DEF Members, OrderType, Shrunk
<1>2. ASSUME NEW through, NEW signal \in [Sides -> BOOLEAN], Tick(through, signal)
      PROVE  \E s \in Members : OnEvent(s) /\ \A o \in Slots : Shrunk(strategy, s, o)
  <2> DEFINE r == Requoted(strategy, through)
             u == IF priceOk' THEN OnFutureTick(r, quoted', signal) ELSE r
  <2>1. OnEvent(u)
      BY <1>2 DEF Tick
  <2>2. /\ Alike(strategy, r) /\ r \in Members
        /\ \A o \in Slots : r.orders[o].asked = strategy.orders[o].asked
    <3>1. Alike(strategy, r)
        BY <1>0, RequotedAlike
    <3>2. r.orders = [o \in Slots |-> [strategy.orders[o] EXCEPT !.through = o \in through]]
        BY <1>0 DEF Requoted, Members
    <3>3. \A o \in Slots : strategy.orders[o] \in OrderType
        BY <1>0 DEF Members
    <3>. QED BY <3>1, <3>2, <3>3 DEF Alike, OrderType
  <2>3. \A o \in Slots : Shrunk(strategy, r, o)
      BY <1>1, <2>2 DEF Alike, Shrunk
  <2>4. Sound(r, pos)
      BY <1>0, <2>2, AlikeSound
  <2> HIDE DEF r
  <2>5. u \in Members
      BY <1>0, <2>4, OnFutureTickSound DEF Sound
  <2>6. u.orders = r.orders
      BY <2>2 DEF OnFutureTick, Members
  <2>7. \A o \in Slots : Shrunk(strategy, u, o)
      BY <2>3, <2>6 DEF Shrunk
  <2>. QED BY <2>1, <2>5, <2>7
<1>3. CASE TickOfFuture
  <2>1. strategy.signal \in [Sides -> BOOLEAN]
      BY <1>0 DEF Members
  <2>2. PICK through \in SUBSET {o \in Closings : IsActive(strategy, o)} :
               \E signal \in IF clock \in CountedHours THEN [Sides -> BOOLEAN]
                                                      ELSE {strategy.signal} :
                  Tick(through, signal)
      BY <1>3 DEF TickOfFuture
  <2>3. PICK signal \in [Sides -> BOOLEAN] : Tick(through, signal)
      BY <2>1, <2>2
  <2>4. pos' = pos
      BY <2>3 DEF Tick
  <2>. QED BY <1>0, <1>2, <2>3, <2>4
<1>4. CASE TickOfSpot
    BY <1>0, <1>1, <1>4 DEF TickOfSpot
<1>5. ASSUME NEW k \in Slots, Reported(k)
      PROVE  pos' \in Int /\ \E s \in Members : OnEvent(s) /\ \A o \in Slots : Shrunk(strategy, s, o)
    BY <1>0, <1>1, <1>5 DEF Reported
<1>6. ASSUME NEW k \in Slots, Cancelled(k)
      PROVE  pos' \in Int /\ \E s \in Members : OnEvent(s) /\ \A o \in Slots : Shrunk(strategy, s, o)
  <2>1. 0 \in Nat
      OBVIOUS
  <2>. QED BY <1>0, <1>6, <2>1, ReleasedShrunk DEF Cancelled
<1>7. ASSUME NEW k \in Slots, NEW volume \in Nat, NEW s \in Members, Moves(k, volume, s),
             \A o \in Slots : Shrunk(strategy, s, o)
      PROVE  pos' \in Int /\ \E u \in Members : OnEvent(u) /\ \A o \in Slots : Shrunk(strategy, u, o)
  <2> DEFINE u == IF priceOk THEN OnTrade(s, pos') ELSE s
  <2>1. pos' \in Int /\ OnEvent(u)
      BY <1>0, <1>7 DEF Moves
  <2>2. u \in Members /\ u.orders = s.orders
      BY <1>7 DEF OnTrade, Members
  <2>3. \A o \in Slots : Shrunk(strategy, u, o)
      BY <1>7, <2>2 DEF Shrunk
  <2>. QED BY <2>1, <2>2, <2>3
<1>8. ASSUME NEW k \in Slots, NEW order \in OrderType,
             order.left <= strategy.orders[k].left, order.asked = strategy.orders[k].asked
      PROVE  /\ [strategy EXCEPT !.orders[k] = order] \in Members
             /\ \A o \in Slots : Shrunk(strategy, [strategy EXCEPT !.orders[k] = order], o)
  <2> DEFINE rest == [strategy EXCEPT !.orders[k] = order]
  <2>1. /\ rest \in Members
        /\ rest.orders = [strategy.orders EXCEPT ![k] = order]
      BY <1>0 DEF Members
  <2>2. \A o \in Slots : rest.orders[o] = IF o = k THEN order ELSE strategy.orders[o]
      BY <1>0, <2>1 DEF Members
  <2> HIDE DEF rest
  <2>3. \A o \in Slots : Shrunk(strategy, rest, o)
      BY <1>1, <1>8, <2>2 DEF Shrunk
  <2>. QED BY <2>1, <2>3 DEF rest
<1>9. ASSUME NEW k \in Slots, NEW volume \in 1 .. strategy.orders[k].left, Traded(k, volume)
      PROVE  pos' \in Int /\ \E s \in Members : OnEvent(s) /\ \A o \in Slots : Shrunk(strategy, s, o)
  <2> DEFINE order == [strategy.orders[k] EXCEPT !.left = @ - volume]
  <2>1. strategy.orders[k] \in OrderType
      BY <1>0 DEF Members
  <2>2. /\ volume \in Nat /\ order \in OrderType
        /\ order.left <= strategy.orders[k].left /\ order.asked = strategy.orders[k].asked
      BY <1>9, <2>1 DEF OrderType, Traded
  <2>3. [strategy EXCEPT !.orders[k].left = @ - volume] = [strategy EXCEPT !.orders[k] = order]
      BY <1>0 DEF Members
  <2> HIDE DEF order
  <2>4. Moves(k, volume, [strategy EXCEPT !.orders[k] = order])
      BY <1>9, <2>3 DEF Traded
  <2>. QED BY <1>7, <1>8, <2>2, <2>4
<1>10. ASSUME NEW k \in Slots, NEW volume \in 1 .. strategy.orders[k].left,
              NEW trailing \in 0 .. strategy.orders[k].left - volume,
              TradedOut(k, volume, trailing)
       PROVE  pos' \in Int /\ \E s \in Members : OnEvent(s) /\ \A o \in Slots : Shrunk(strategy, s, o)
  <2>1. volume \in Nat /\ trailing \in Nat
      BY <1>1
  <2>2. Moves(k, volume, Released(k, trailing))
      BY <1>10 DEF TradedOut
  <2>. QED BY <1>0, <1>7, <2>1, <2>2, ReleasedShrunk
<1>11. ASSUME NEW k \in Slots, NEW volume \in 1 .. strategy.orders[k].trailing,
              Trailed(k, volume)
       PROVE  pos' \in Int /\ \E s \in Members : OnEvent(s) /\ \A o \in Slots : Shrunk(strategy, s, o)
  <2> DEFINE order == [strategy.orders[k] EXCEPT !.trailing = @ - volume]
  <2>1. strategy.orders[k] \in OrderType
      BY <1>0 DEF Members
  <2>2. /\ volume \in Nat /\ order \in OrderType
        /\ order.left <= strategy.orders[k].left /\ order.asked = strategy.orders[k].asked
      BY <1>11, <2>1 DEF OrderType, Trailed
  <2>3. [strategy EXCEPT !.orders[k].trailing = @ - volume]
            = [strategy EXCEPT !.orders[k] = order]
      BY <1>0 DEF Members
  <2> HIDE DEF order
  <2>4. Moves(k, volume, [strategy EXCEPT !.orders[k] = order])
      BY <1>11, <2>3 DEF Trailed
  <2>. QED BY <1>7, <1>8, <2>2, <2>4
<1>. QED BY <1>3, <1>4, <1>5, <1>6, <1>9, <1>10, <1>11 DEF Next, Told

\* For any volume, window and stops of the clock, after any events: orders are sent in their
\* hours and for the position they close, a position has its closing order, and out of the
\* hours every order is being cancelled.
THEOREM OrdersKeepHoursCorrect == Spec => OrdersKeepHours
<1> DEFINE Keeps == /\ SentInTime
                    /\ priceOk' /\ Told =>
                         IF quoted' \in SessionHours \/ clock \in LateHours THEN Worked ELSE Withdrawn
<1>1. ASSUME IInv, Next
      PROVE  Keeps
  <2>0. /\ strategy \in Members
        /\ \A side \in Sides : Opening[side] \in Slots /\ Closing[side] \in Slots
      BY <1>1, SlotsOfSides DEF IInv, Sound
  <2>1. CASE ~Told
    <3>1. CASE WaitPasses \/ ClockMoves
      <4>1. strategy'.orders = strategy.orders
          BY <2>0, <3>1 DEF WaitPasses, ClockMoves, Members
      <4>2. \A o \in Slots : Shrunk(strategy, strategy, o) /\ Kept(strategy, strategy', o)
          BY <2>0, <4>1 DEF Members, OrderType, Shrunk, Kept
      <4>3. \A o \in Slots : ~Sent(o)
          BY <2>0, <4>2, NothingSent
      <4>. QED BY <2>0, <2>1, <4>3 DEF SentInTime
    <3>2. CASE \E o \in Slots : Refused(o)
      <4>1. PICK k \in Slots : strategy' = Released(k, 0)
          BY <3>2 DEF Refused
      <4>2. PICK s \in Members : s = Released(k, 0) /\ \A o \in Slots : Shrunk(strategy, s, o)
        <5>1. 0 \in Nat
            OBVIOUS
        <5>. QED BY <2>0, <5>1, ReleasedShrunk
      <4>3. \A o \in Slots : Kept(s, strategy', o)
          BY <4>1, <4>2 DEF Kept
      <4>4. \A o \in Slots : ~Sent(o)
          BY <2>0, <4>2, <4>3, NothingSent
      <4>. QED BY <2>0, <2>1, <4>4 DEF SentInTime
    <3>. QED BY <2>1, <3>1, <3>2 DEF Told
  <2>2. CASE Told
    <3>1. pos' \in Int
        BY <1>1, <2>2, EventShrinks
    <3>2. PICK s \in Members : OnEvent(s) /\ \A o \in Slots : Shrunk(strategy, s, o)
        BY <1>1, <2>2, EventShrinks
    <3>3. \A o \in Slots : Kept(s, strategy', o) => ~Sent(o)
        BY <2>0, <3>2, NothingSent
    <3>4. CASE ~priceOk'
      <4>1. \A o \in Slots : Kept(s, strategy', o)
          BY <3>2, <3>4 DEF OnEvent, Kept
      <4>. QED BY <2>0, <3>3, <3>4, <4>1 DEF SentInTime
    <3>5. CASE priceOk'
      <4>1. PICK target \in Targets(s) :
               strategy' = React(s, pos', quoted', clock, target)
          BY <3>2, <3>5 DEF OnEvent
      <4>2. \A side \in Sides :
              /\ Kept(s, strategy', Opening[side])
                    \/ (quoted' \in SessionHours /\ Toward(pos', side) <= 0)
              /\ \/ Kept(s, strategy', Closing[side])
                 \/ /\ quoted' \in SessionHours \/ clock \in LateHours
                    /\ strategy'.orders[Closing[side]].left = Toward(pos', side)
              /\ IF quoted' \in SessionHours \/ clock \in LateHours
                 THEN /\ strategy'.priced = s.priced
                      /\ Toward(pos', side) > 0 /\ target # "refused" =>
                           IsActive(strategy', Closing[side]) /\ Ending(strategy', Opening[side])
                 ELSE \A o \in Slots : Ending(strategy', o)
          BY <3>1, <4>1, ReactKeeps
      <4>3. SentInTime
          BY <2>0, <3>3, <3>5, <4>2 DEF SentInTime
      <4>4. CASE quoted' \in SessionHours \/ clock \in LateHours
        <5>1. ASSUME NEW side \in Sides, Toward(pos', side) > 0, strategy'.priced
              PROVE  /\ IsActive(strategy', Closing[side])
                     /\ IsActive(strategy', Opening[side]) => strategy'.orders[Opening[side]].asked
          <6>1. target # "refused"
              BY <4>1, <4>2, <4>4, <5>1 DEF Targets
          <6>. QED BY <4>2, <4>4, <5>1, <6>1 DEF Ending, IsActive
        <5>. QED BY <4>3, <4>4, <5>1 DEF Worked
      <4>5. CASE ~(quoted' \in SessionHours \/ clock \in LateHours)
        <5>1. "long" \in Sides
            BY DEF Sides
        <5>2. Withdrawn
            BY <4>2, <4>5, <5>1 DEF Ending, IsActive, Withdrawn
        <5>. QED BY <4>3, <4>5, <5>2
      <4>. QED BY <4>4, <4>5
    <3>. QED BY <3>4, <3>5
  <2>. QED BY <2>1, <2>2
<1>2. IInv /\ [Next]_vars => [Keeps]_vars
    BY <1>1
<1>3. Spec => [][Keeps]_vars
    BY <1>2, Invariants, PTL DEF Spec
<1>. QED BY <1>3 DEF OrdersKeepHours
=================================================================================
