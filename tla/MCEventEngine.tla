---------------------------- MODULE MCEventEngine ----------------------------
(* A small instance of EventEngine for TLC: two API threads (market data    *)
(* and trader) and two timers.                                              *)
EXTENDS EventEngine, TLC

CONSTANTS md, td, t1, t2

Latencies == (t1 :> 0) @@ (t2 :> 1)
=============================================================================
