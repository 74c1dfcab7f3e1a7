---------------------------- MODULE MCMarketData ----------------------------
(* A small instance of MarketData for TLC: two strategies, one of them with *)
(* two symbols, the other with one that the first has subscribed to before. *)
EXTENDS MarketData, TLC

CONSTANTS a, b, au, ag

Call(s, sym) == [strategy |-> s, symbol |-> sym]

ThreeCalls == <<Call(a, au), Call(a, ag), Call(b, au)>>
=============================================================================
