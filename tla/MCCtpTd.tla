------------------------------- MODULE MCCtpTd -------------------------------
(* A small instance of CtpTd for TLC: logins on two fronts, the numbers of   *)
(* the sessions far apart and not increasing, the OrderRef starting anew.    *)
EXTENDS CtpTd, TLC

Answer(front, session) == [front |-> front, session |-> session, max_ref |-> 1]

Logins == <<Answer(1, 20), Answer(2, 40), Answer(1, 10)>>

TwoLogins == <<Answer(1, 20), Answer(2, 40)>>
=============================================================================
