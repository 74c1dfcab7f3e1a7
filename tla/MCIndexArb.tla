------------------------------ MODULE MCIndexArb ------------------------------
(* A day of few ticks, for TLC. *)
EXTENDS IndexArb

\* The instant before the session, inside it, its end, the closing minutes, after.
Day == <<At(9, 31, 0), At(10, 0, 0), At(14, 55, 0), At(14, 56, 0), At(14, 58, 0)>>

\* A count that happens to be zero, and one that makes the indicator seem full.
Counted == {0, 1}
===============================================================================
