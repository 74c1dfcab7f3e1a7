---------------------------- MODULE MCSmartOrders ----------------------------
(* Small instances of SmartOrders for TLC.                                  *)
EXTENDS SmartOrders, TLC

CONSTANTS s1, s2, o1, o2

Ask(side, offset, volume) == [side |-> side, offset |-> offset, volume |-> volume]

RoundTrip == {Ask("LONG", "OPEN", 2), Ask("SHORT", "AUTO", 1), Ask("SHORT", "CLOSE", 2)}

InAndOut == {Ask("LONG", "OPEN", 2), Ask("SHORT", "AUTO", 1)}

Symmetry == Permutations(SmartOrder) \cup Permutations(OrderIds)

IdSymmetry == Permutations(OrderIds)

Flat == {FlatPosition}

Holdings == {FlatPosition, [FlatPosition EXCEPT !.ystLong = 1]}
=============================================================================
