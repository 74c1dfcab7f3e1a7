------------------------------ MODULE MCRouting ------------------------------
(* A small instance of Routing for TLC: one strategy trades a future, another  *)
(* has an index, whose name begins another one's name.  Later the first one    *)
(* subscribes to the future once more, and to the index at the other gateway.  *)
EXTENDS Routing, TLC

CONSTANTS a, b, future, index, other

Call(st, x, t) == [strategy |-> st, symbol |-> x, type |-> t]

FourCalls == <<Call(a, future, "CTP"), Call(b, index, "L2"),
               Call(a, future, "CTP"), Call(a, index, "CTP")>>

TwoAndOne == [CTP |-> 2, L2 |-> 1]

Prefixes == [x \in Symbol |-> IF x = index THEN {index, other} ELSE {x}]
=============================================================================
