------------------------------- MODULE DateTimes -------------------------------
(***************************************************************************)
(* Date, Time and DateTime of utils.h with their comparisons.              *)
(*                                                                         *)
(* The comparisons convert to durations of std::chrono, in which a year is *)
(* 146097/400 days and a month the twelfth part of that, whatever year and *)
(* month are meant.  54 seconds is the coarsest unit in which year, month  *)
(* and day are whole numbers; it is the one the sum is made in.            *)
(* A pure module: operators only.                                          *)
(***************************************************************************)
EXTENDS Integers

MonthLength(year, month) ==
    CASE month \in {4, 6, 9, 11} -> 30
      [] month = 2 -> IF year % 4 = 0 /\ (year % 100 # 0 \/ year % 400 = 0) THEN 29 ELSE 28
      [] OTHER     -> 31

\* What localtime and CTP's fields give.  A year beyond 3673 would overflow the int
\* that the units of a Date are counted in.
Date == {d \in [year : 1970 .. 3673, month : 1 .. 12, day : 1 .. 31] :
            d.day <= MonthLength(d.year, d.month)}

Time == [hour : 0 .. 23, minute : 0 .. 59, second : 0 .. 60, millisecond : 0 .. 999]

DateTime == [date : Date, time : Time]

\* Time(hour, minute, second)
At(hour, minute, second) ==
    [hour |-> hour, minute |-> minute, second |-> second, millisecond |-> 0]

----------------------------------------------------------------------------
(* The comparisons of the code.                                             *)

Milliseconds(t) ==
    3600000 * t.hour + 60000 * t.minute + 1000 * t.second + t.millisecond

TimeLess(x, y) == Milliseconds(x) < Milliseconds(y)
TimeLeq(x, y)  == Milliseconds(x) <= Milliseconds(y)

\* years + months + days, in units of 54 seconds
Units(d) == 584388 * d.year + 48699 * d.month + 1600 * d.day

\* duration_cast<days> drops the fraction.
DayNumber(d) == Units(d) \div 1600

DateLess(x, y) == DayNumber(x) < DayNumber(y)
DateLeq(x, y)  == DayNumber(x) <= DayNumber(y)

\* The sum with the time of day is a whole number of milliseconds already.
Instant(dt) == 54000 * Units(dt.date) + Milliseconds(dt.time)

DateTimeLess(x, y) == Instant(x) < Instant(y)
DateTimeLeq(x, y)  == Instant(x) <= Instant(y)

----------------------------------------------------------------------------
(* Reference: the order of the calendar and of the clock.                   *)

ClockBefore(x, y) ==
    \/ x.hour < y.hour
    \/ x.hour = y.hour /\ x.minute < y.minute
    \/ x.hour = y.hour /\ x.minute = y.minute /\ x.second < y.second
    \/ /\ x.hour = y.hour /\ x.minute = y.minute /\ x.second = y.second
       /\ x.millisecond < y.millisecond

CalendarBefore(x, y) ==
    \/ x.year < y.year
    \/ x.year = y.year /\ x.month < y.month
    \/ x.year = y.year /\ x.month = y.month /\ x.day < y.day

Before(x, y) ==
    \/ CalendarBefore(x.date, y.date)
    \/ x.date = y.date /\ ClockBefore(x.time, y.time)
================================================================================
