------------------------------ MODULE OrderSlots ------------------------------
(***************************************************************************)
(* What a SmartOrder promises a strategy, without ids, queues and reports: *)
(* it is a slot.  A slot that is taken accepts no order, a free slot has   *)
(* nothing in the market, so a slot never has two orders in the market;    *)
(* and a slot is not given back before, and always after, its order is     *)
(* over.                                                                   *)
(***************************************************************************)
CONSTANTS Slot, Order

VARIABLES
    taken,     \* the slot is waiting for an order
    market     \* the orders of the slot that can still trade

vars == <<taken, market>>

Init ==
    /\ taken = [s \in Slot |-> FALSE]
    /\ market = [s \in Slot |-> {}]

Place(s) ==
    /\ ~taken[s]
    /\ market[s] = {}
    /\ taken' = [taken EXCEPT ![s] = TRUE]
    /\ \E o \in Order : market' = [market EXCEPT ![s] = {o}]

\* Filled, cancelled or refused.
Finish(s) ==
    /\ taken[s]
    /\ market[s] # {}
    /\ market' = [market EXCEPT ![s] = {}]
    /\ UNCHANGED taken

Release(s) ==
    /\ taken[s]
    /\ market[s] = {}
    /\ taken' = [taken EXCEPT ![s] = FALSE]
    /\ UNCHANGED market

Next == \E s \in Slot : Place(s) \/ Finish(s) \/ Release(s)

Spec == Init /\ [][Next]_vars

FairSpec == Spec /\ \A s \in Slot : WF_vars(Release(s))
===============================================================================
