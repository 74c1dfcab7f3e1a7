------------------------------- MODULE Routing -------------------------------
(***************************************************************************)
(* AlgoEngine between two gateways and several strategies: which strategy  *)
(* hears a tick, and which gateway an order and its cancel request go to.  *)
(* The gateways are CtpGateway, whose sessions MarketData and CtpTd model, *)
(* and L2Gateway, which has quotes of stocks and indices only.             *)
(*                                                                         *)
(* An Instrument has no gateway of its own: gateway() and exchange() are   *)
(* those of the latest entry of its symbol in symbol_to_tickdata_, which   *)
(* subscribe and every tick overwrite.  A tick of CtpMd names both, a tick *)
(* of L2Md names neither.                                                  *)
(*                                                                         *)
(* Threads.  One thread runs start with the init of the strategies and     *)
(* then dispatches events; a strategy acts while it is called.  The        *)
(* quotes come from the threads of the two gateways.  L2Md::subscribe sets *)
(* an option of a zmq socket on which the L2 thread is blocked in recv;    *)
(* the library does not allow that, and the option may get lost.           *)
(***************************************************************************)
EXTENDS Integers, Sequences, FiniteSets

CONSTANTS
    Strategy,     \* strategies
    Symbol,       \* instruments
    Wanted,       \* their subscribe calls, in order: [strategy, symbol, type]
    InInit,       \* how many of these are made in init; the others in on_event
    Matching,     \* the symbols a zmq subscription lets through: it is a prefix
    MaxQuotes     \* bound: quotes each gateway delivers

Types == {"CTP", "L2"}

Calls == 1 .. Len(Wanted)

ASSUME WantedAssumption ==
    Wanted \in Seq([strategy : Strategy, symbol : Symbol, type : Types])
ASSUME MatchingAssumption ==
    Matching \in [Symbol -> SUBSET Symbol] /\ \A x \in Symbol : x \in Matching[x]
ASSUME BoundsAssumption == InInit \in 0 .. Len(Wanted) /\ MaxQuotes \in [Types -> Nat]

VARIABLES
    main,         \* where the thread of start is
    done,         \* the subscribe calls that have returned
    result,       \* what they returned
    ticks,        \* AlgoEngine::symbol_to_tickdata_
    subscribers,  \* AlgoEngine::symbol_to_strategy_impl_
    watched,      \* the symbols each gateway was asked for
    queue,        \* the symbols of the ticks not dispatched yet, per thread
    quotes,       \* how many ticks each gateway has pushed
    left,         \* process_on_tick: the strategies of its copy it has yet to call
    out,          \* per Instrument: the order that is out, or NoOrder
    heard,        \* history: calls of on_event with the latest tick
    due           \* history: the Instruments a strategy had for it

engineVars == <<main, ticks, subscribers, left>>
vars == <<engineVars, done, result, watched, queue, quotes, out, heard, due>>

\* What the routing reads of a TickData.
Tick == [gateway : Types \cup {"UNKNOW"}, exchange : BOOLEAN]

NoTick == [gateway |-> "UNKNOW", exchange |-> FALSE]

NoOrder == [to |-> "none", exchange |-> FALSE, anew |-> FALSE, cancels |-> {}]

NobodyCounts == [st \in Strategy |-> 0]

Init ==
    /\ main = "init"
    /\ done = 0
    /\ result = [c \in Calls |-> "none"]
    /\ ticks = [x \in Symbol |-> NoTick]
    /\ subscribers = [x \in Symbol |-> <<>>]
    /\ watched = [t \in Types |-> {}]
    /\ queue = [t \in Types |-> <<>>]
    /\ quotes = [t \in Types |-> 0]
    /\ left = <<>>
    /\ out = [c \in Calls |-> NoOrder]
    /\ heard = NobodyCounts
    /\ due = NobodyCounts

\* The Instruments that have been handed out.
Instruments == {c \in Calls : result[c] = "instrument"}

----------------------------------------------------------------------------
(* The gateways.                                                            *)

Delivers(t, x) ==
    CASE t = "CTP" -> x \in watched["CTP"]
      [] t = "L2"  -> \E p \in watched["L2"] : x \in Matching[p]

\* Two slips: a tick of CtpMd that does not name its gateway, and one that names REM.
FromMdAnonymous(t) == [gateway |-> "UNKNOW", exchange |-> t = "CTP"]
FromMdRem(t)       == [gateway |-> "REM", exchange |-> t = "CTP"]

\* The tick that OnRtnDepthMarketData of either gateway makes.
FromMd(t) == IF t = "CTP" THEN [gateway |-> "CTP", exchange |-> TRUE] ELSE NoTick

OnRtnDepthMarketData(t, x) ==
    /\ main # "crashed"
    /\ quotes[t] < MaxQuotes[t]
    /\ Delivers(t, x)
    /\ quotes' = [quotes EXCEPT ![t] = @ + 1]
    /\ queue' = [queue EXCEPT ![t] = Append(@, x)]
    /\ UNCHANGED <<engineVars, done, result, watched, out, heard, due>>

\* The answer of a gateway to subscribe: md_connect() and the call.
Answers(t, x, answer) ==
    \/ /\ answer = "instrument"
       /\ \/ watched' = [watched EXCEPT ![t] = @ \cup {x}]
          \/ t = "L2" /\ UNCHANGED watched
    \/ /\ t = "CTP"
       /\ answer \in {"null", "undefined"}
       /\ UNCHANGED watched

----------------------------------------------------------------------------
(* Strategies, in init or in on_event.                                      *)

\* Any strategy while start calls init, the one that is called with the tick, or
\* any between two ticks, for its orders, trades and timers.
Acting(st) ==
    \/ main = "init"
    \/ main = "running" /\ (left # <<>> => Head(left) = st)

\* A slip: a strategy is entered once only.
JoinOnce(s, st) == IF \E i \in 1 .. Len(s) : s[i] = st THEN s ELSE Append(s, st)

Join(s, st) == Append(s, st)

\* AlgoEngine::subscribe.
Subscribe ==
    /\ done < Len(Wanted)
    /\ (main = "init") = (done < InInit)
    /\ LET w == Wanted[done + 1]
       IN  /\ Acting(w.strategy)
           /\ \E answer \in {"instrument", "null", "undefined"} :
                /\ Answers(w.type, w.symbol, answer)
                /\ result' = [result EXCEPT ![done + 1] = answer]
                /\ IF answer = "instrument"
                   THEN /\ ticks' = [ticks EXCEPT ![w.symbol] =
                                       [gateway |-> w.type, exchange |-> FALSE]]
                        /\ subscribers' = [subscribers EXCEPT ![w.symbol] = Join(@, w.strategy)]
                        /\ out' = [c \in Calls |->
                                     IF out[c] # NoOrder /\ Wanted[c].symbol = w.symbol
                                     THEN [out[c] EXCEPT !.anew = TRUE]
                                     ELSE out[c]]
                   ELSE UNCHANGED <<ticks, subscribers, out>>
    /\ done' = done + 1
    /\ UNCHANGED <<main, left, queue, quotes, heard, due>>

\* A null pointer is called where gateways_ has no gateway.
AfterRequest(tick) == IF tick.gateway \in Types THEN main ELSE "crashed"

\* SmartOrder::send
Send(c) ==
    /\ c \in Instruments
    /\ Acting(Wanted[c].strategy)
    /\ out[c] = NoOrder
    /\ LET tick == ticks[Wanted[c].symbol]
       IN  /\ out' = [out EXCEPT ![c] = [to |-> tick.gateway, exchange |-> tick.exchange,
                                         anew |-> FALSE, cancels |-> {}]]
           /\ main' = AfterRequest(tick)
    /\ UNCHANGED <<done, result, ticks, subscribers, watched, queue, quotes, left, heard, due>>

\* A slip: a cancel request without the exchange.
CancelRequestBare(tick) == [tick EXCEPT !.exchange = FALSE]

CancelRequest(tick) == tick

\* SmartOrder::kill, which asks the Instrument anew.
Kill(c) ==
    /\ out[c] # NoOrder
    /\ Acting(Wanted[c].strategy)
    /\ LET tick == ticks[Wanted[c].symbol]
       IN  /\ out' = [out EXCEPT ![c].cancels = @ \cup {CancelRequest(tick)}]
           /\ main' = AfterRequest(tick)
    /\ UNCHANGED <<done, result, ticks, subscribers, watched, queue, quotes, left, heard, due>>

----------------------------------------------------------------------------
(* Dispatch.                                                                *)

\* event_engine_->start()
Run ==
    /\ main = "init"
    /\ done = InInit
    /\ main' = "running"
    /\ UNCHANGED <<ticks, subscribers, left, done, result, watched, queue, quotes,
                   out, heard, due>>

ProcessOnTick(t) ==
    /\ main = "running"
    /\ left = <<>>
    /\ queue[t] # <<>>
    /\ LET x == Head(queue[t])
       IN  /\ ticks' = [ticks EXCEPT ![x] = FromMd(t)]
           /\ left' = subscribers[x]
           /\ due' = [st \in Strategy |->
                        Cardinality({c \in Instruments : Wanted[c].symbol = x
                                                          /\ Wanted[c].strategy = st})]
    /\ queue' = [queue EXCEPT ![t] = Tail(@)]
    /\ heard' = NobodyCounts
    /\ UNCHANGED <<main, subscribers, done, result, watched, quotes, out>>

\* on_event returns and the next strategy is called.
OnEventReturns ==
    /\ main = "running"
    /\ left # <<>>
    /\ heard' = [heard EXCEPT ![Head(left)] = @ + 1]
    /\ left' = Tail(left)
    /\ UNCHANGED <<main, ticks, subscribers, done, result, watched, queue, quotes,
                   out, due>>

\* The order is over and its SmartOrder released, as SmartOrders has it in detail.
Release(c) ==
    /\ main = "running"
    /\ left = <<>>
    /\ out[c].to = "CTP"
    /\ out' = [out EXCEPT ![c] = NoOrder]
    /\ UNCHANGED <<engineVars, done, result, watched, queue, quotes, heard, due>>

----------------------------------------------------------------------------

Next ==
    \/ \E t \in Types : ProcessOnTick(t) \/ \E x \in Symbol : OnRtnDepthMarketData(t, x)
    \/ \E c \in Calls : Send(c) \/ Kill(c) \/ Release(c)
    \/ Subscribe
    \/ Run
    \/ OnEventReturns

Spec == Init /\ [][Next]_vars

----------------------------------------------------------------------------
(* Correctness.                                                             *)

\* The types of the members of AlgoEngine, of the gateways and of the requests.
TypeOK ==
    /\ main \in {"init", "running", "crashed"}
    /\ done \in 0 .. Len(Wanted)
    /\ result \in [Calls -> {"none", "instrument", "null", "undefined"}]
    /\ \A c \in Calls : (result[c] = "none") = (c > done)
    /\ ticks \in [Symbol -> Tick]
    /\ subscribers \in [Symbol -> Seq(Strategy)]
    /\ watched \in [Types -> SUBSET Symbol]
    /\ queue \in [Types -> Seq(Symbol)]
    /\ quotes \in [Types -> Nat]
    /\ left \in Seq(Strategy)
    /\ out \in [Calls -> [to : Types \cup {"UNKNOW"}, exchange : BOOLEAN, anew : BOOLEAN,
                          cancels : SUBSET Tick] \cup {NoOrder}]
    /\ heard \in [Strategy -> Nat]
    /\ due \in [Strategy -> Nat]

\* A subscription at the Level-2 gateway may bring ticks of x.
Mixed(x) == \E c \in Instruments : Wanted[c].type = "L2" /\ x \in Matching[Wanted[c].symbol]

\* The Instruments for whose symbol nothing but CTP ticks ever come.
CtpOnly == {c \in Instruments : Wanted[c].type = "CTP" /\ ~Mixed(Wanted[c].symbol)}

\* An order on an Instrument of CTP, and whatever is sent to cancel it later, goes to CTP,
\* although each request looks the gateway up in an entry that every tick of the symbol and
\* every subscribe call overwrites.  It may go elsewhere, or nowhere at all, only for a
\* symbol with Level-2 quotes.
OrdersGoHome ==
    \A c \in CtpOnly : out[c] # NoOrder =>
        out[c].to = "CTP" /\ \A k \in out[c].cancels : k.gateway = "CTP"

\* A cancel request names the exchange if its order did, unless a strategy subscribed to
\* the symbol once more in between: that empties the entry until the next tick.
CancelNamesExchange ==
    \A c \in CtpOnly : out[c].exchange /\ ~out[c].anew =>
        \A k \in out[c].cancels : k.exchange

\* Every tick is told to every strategy once for each of its Instruments of that symbol,
\* no matter who subscribes while the strategies are called.
EachSubscriptionTold == main # "crashed" /\ left = <<>> => heard = due
=============================================================================
