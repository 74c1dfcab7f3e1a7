---------------------------- MODULE Routing_proofs ----------------------------
(***************************************************************************)
(* The routing of orders for any strategies, instruments and subscriptions *)
(* and any number of quotes: type correctness, the gateway of an order and *)
(* of its cancel requests, and the exchange they name.                     *)
(***************************************************************************)
EXTENDS Routing, Counting, SequenceTheorems

USE WantedAssumption, MatchingAssumption, BoundsAssumption

----------------------------------------------------------------------------
(* Type correctness.                                                        *)

\* What a subscribe call asks for.
LEMMA WantedType ==
    ASSUME NEW c \in Calls
    PROVE  Wanted[c].strategy \in Strategy /\ Wanted[c].symbol \in Symbol /\ Wanted[c].type \in Types
<1>1. Wanted[c] \in [strategy : Strategy, symbol : Symbol, type : Types]
    BY ElementOfSeq DEF Calls
<1>. QED BY <1>1

\* An order, with any cancel requests.
LEMMA OrderType ==
    ASSUME TypeOK, NEW c \in Calls, out[c] # NoOrder
    PROVE  /\ out[c].to \in Types \cup {"UNKNOW"} /\ out[c].exchange \in BOOLEAN
           /\ out[c].anew \in BOOLEAN /\ out[c].cancels \in SUBSET Tick
BY DEF TypeOK

\* The next call of subscribe is one of Wanted, and done counts it.
LEMMA NextCall ==
    ASSUME TypeOK, done < Len(Wanted)
    PROVE  /\ done + 1 \in Calls /\ done + 1 \in 0 .. Len(Wanted) /\ result[done + 1] = "none"
           /\ \A c \in Calls : c > done + 1 <=> c > done /\ c # done + 1
<1>1. PICK l \in Nat : l = Len(Wanted)
    OBVIOUS
<1>2. PICK d \in 0 .. l : d = done
    BY <1>1 DEF TypeOK
<1>3. d + 1 \in Calls /\ d + 1 \in 0 .. l /\ d + 1 > d
    BY <1>1, <1>2 DEF Calls
<1>4. result[d + 1] = "none"
    BY <1>2, <1>3 DEF TypeOK
<1>. QED BY <1>1, <1>2, <1>3, <1>4 DEF Calls

\* Every action of the strategies, of the gateways and of the engine keeps the types.
LEMMA TypeInductive == TypeOK /\ [Next]_vars => TypeOK'
<1> SUFFICES ASSUME TypeOK, [Next]_vars PROVE TypeOK'
    OBVIOUS
<1> USE DEF TypeOK
<1>1. ASSUME NEW t \in Types, ProcessOnTick(t) PROVE TypeOK'
    <2>1. Head(queue[t]) \in Symbol /\ Tail(queue[t]) \in Seq(Symbol)
        BY <1>1 DEF ProcessOnTick
    <2>2. FromMd(t) \in Tick
        BY DEF FromMd, Tick, NoTick, Types
    <2>3. PICK x \in Symbol : /\ ticks' = [ticks EXCEPT ![x] = FromMd(t)]
                              /\ left' = subscribers[x]
        BY <1>1, <2>1 DEF ProcessOnTick
    <2>4. due' \in [Strategy -> Nat]
        <3>1. Instruments \in SUBSET Calls /\ IsFiniteSet(Calls)
            BY FS_Interval DEF Instruments, Calls
        <3>2. ASSUME NEW S \in SUBSET Instruments PROVE Cardinality(S) \in Nat
            BY <3>1, FS_Subset, FS_CardinalityType
        <3>3. PICK y : due' = [st \in Strategy |->
                                 Cardinality({c \in Instruments : Wanted[c].symbol = y
                                                                  /\ Wanted[c].strategy = st})]
            BY <1>1 DEF ProcessOnTick
        <3>. QED BY <3>2, <3>3
    <2>5. heard' \in [Strategy -> Nat]
        BY <1>1 DEF ProcessOnTick, NobodyCounts
    <2>6. ticks' \in [Symbol -> Tick] /\ left' \in Seq(Strategy)
        BY <2>2, <2>3
    <2>7. queue' \in [Types -> Seq(Symbol)]
        BY <1>1, <2>1 DEF ProcessOnTick
    <2>8. UNCHANGED <<main, subscribers, done, result, watched, quotes, out>>
        BY <1>1 DEF ProcessOnTick
    <2>. QED BY <2>4, <2>5, <2>6, <2>7, <2>8
<1>2. ASSUME NEW t \in Types, NEW x \in Symbol, OnRtnDepthMarketData(t, x) PROVE TypeOK'
    <2>1. Append(queue[t], x) \in Seq(Symbol)
        OBVIOUS
    <2>. QED BY <1>2, <2>1 DEF OnRtnDepthMarketData, engineVars
<1>3. ASSUME NEW c \in Calls, Send(c) PROVE TypeOK'
    <2>1. ticks[Wanted[c].symbol] \in Tick
        BY WantedType
    <2>2. AfterRequest(ticks[Wanted[c].symbol]) \in {"init", "running", "crashed"}
        BY DEF AfterRequest
    <2>. QED BY <1>3, <2>1, <2>2 DEF Send, Tick
<1>4. ASSUME NEW c \in Calls, Kill(c) PROVE TypeOK'
    <2>1. ticks[Wanted[c].symbol] \in Tick
        BY WantedType
    <2>2. AfterRequest(ticks[Wanted[c].symbol]) \in {"init", "running", "crashed"}
        BY DEF AfterRequest
    <2>3. out[c].cancels \cup {CancelRequest(ticks[Wanted[c].symbol])} \in SUBSET Tick
        BY <1>4, <2>1, OrderType DEF Kill, CancelRequest
    <2>4. out[c] \in [to : Types \cup {"UNKNOW"}, exchange : BOOLEAN, anew : BOOLEAN,
                      cancels : SUBSET Tick]
        BY <1>4 DEF Kill
    <2>5. [out[c] EXCEPT !.cancels = out[c].cancels \cup {CancelRequest(ticks[Wanted[c].symbol])}]
              \in [to : Types \cup {"UNKNOW"}, exchange : BOOLEAN, anew : BOOLEAN,
                   cancels : SUBSET Tick]
        BY <2>3, <2>4
    <2>. QED BY <1>4, <2>2, <2>5 DEF Kill
<1>5. ASSUME NEW c \in Calls, Release(c) PROVE TypeOK'
    BY <1>5 DEF Release, engineVars
<1>6. CASE Subscribe
    <2> DEFINE w == Wanted[done + 1]
    <2>1. PICK answer \in {"instrument", "null", "undefined"} :
             /\ Answers(w.type, w.symbol, answer)
             /\ result' = [result EXCEPT ![done + 1] = answer]
             /\ IF answer = "instrument"
                THEN /\ ticks' = [ticks EXCEPT ![w.symbol] = [gateway |-> w.type, exchange |-> FALSE]]
                     /\ subscribers' = [subscribers EXCEPT ![w.symbol] = Join(@, w.strategy)]
                     /\ out' = [c \in Calls |->
                                  IF out[c] # NoOrder /\ Wanted[c].symbol = w.symbol
                                  THEN [out[c] EXCEPT !.anew = TRUE]
                                  ELSE out[c]]
                ELSE UNCHANGED <<ticks, subscribers, out>>
        BY <1>6 DEF Subscribe
    <2>2. done < Len(Wanted) /\ done' = done + 1 /\ UNCHANGED <<main, left, queue, quotes, heard, due>>
        BY <1>6 DEF Subscribe
    <2>3. w.strategy \in Strategy /\ w.symbol \in Symbol /\ w.type \in Types
        BY <2>2, NextCall, WantedType
    <2>4. /\ done' \in 0 .. Len(Wanted)
          /\ result' \in [Calls -> {"none", "instrument", "null", "undefined"}]
          /\ \A c \in Calls : (result'[c] = "none") = (c > done')
        <3>1. \A c \in Calls : result'[c] = IF c = done + 1 THEN answer ELSE result[c]
            BY <2>1
        <3>2. ASSUME NEW c \in Calls PROVE (result'[c] = "none") = (c > done')
            <4>1. (result[c] = "none") = (c > done) /\ (c > done + 1 <=> c > done /\ c # done + 1)
                BY <2>2, NextCall
            <4>2. answer # "none"
                OBVIOUS
            <4>. QED BY <2>2, <3>1, <4>1, <4>2
        <3>3. result' \in [Calls -> {"none", "instrument", "null", "undefined"}]
            BY <2>1
        <3>. QED BY <2>2, <3>2, <3>3, NextCall
    <2>5. watched' \in [Types -> SUBSET Symbol]
        <3>1. watched' = watched \/ watched' = [watched EXCEPT ![w.type] = @ \cup {w.symbol}]
            BY <2>1 DEF Answers
        <3>2. watched[w.type] \cup {w.symbol} \in SUBSET Symbol
            BY <2>3
        <3>. QED BY <3>1, <3>2
    <2>6. ticks' \in [Symbol -> Tick] /\ subscribers' \in [Symbol -> Seq(Strategy)]
        <3>1. CASE answer = "instrument"
            <4>1. [gateway |-> w.type, exchange |-> FALSE] \in Tick
                BY <2>3 DEF Tick
            <4>2. Join(subscribers[w.symbol], w.strategy) \in Seq(Strategy)
                BY <2>3 DEF Join
            <4>3. /\ ticks' = [ticks EXCEPT ![w.symbol] = [gateway |-> w.type, exchange |-> FALSE]]
                  /\ subscribers' = [subscribers EXCEPT ![w.symbol] = Join(@, w.strategy)]
                BY <2>1, <3>1
            <4>. QED BY <2>3, <4>1, <4>2, <4>3
        <3>2. CASE answer # "instrument"
            BY <2>1, <3>2
        <3>. QED BY <3>1, <3>2
    <2>7. ASSUME NEW c \in Calls
          PROVE  out'[c] \in [to : Types \cup {"UNKNOW"}, exchange : BOOLEAN, anew : BOOLEAN,
                              cancels : SUBSET Tick] \cup {NoOrder}
        <3>1. CASE out'[c] = out[c]
            BY <3>1
        <3>2. CASE out[c] # NoOrder /\ out'[c] = [out[c] EXCEPT !.anew = TRUE]
            BY <3>2
        <3>. QED BY <2>1, <3>1, <3>2
    <2>8. out' = [c \in Calls |-> out'[c]]
        BY <2>1
    <2>. QED BY <2>2, <2>4, <2>5, <2>6, <2>7, <2>8
<1>7. CASE Run
    BY <1>7 DEF Run
<1>8. CASE OnEventReturns
    <2>1. Head(left) \in Strategy /\ Tail(left) \in Seq(Strategy)
        BY <1>8 DEF OnEventReturns
    <2>2. heard' \in [Strategy -> Nat] /\ left' \in Seq(Strategy)
        BY <1>8, <2>1 DEF OnEventReturns
    <2>. QED BY <1>8, <2>2 DEF OnEventReturns
<1>9. CASE UNCHANGED vars
    BY <1>9 DEF vars, engineVars
<1>. QED BY <1>1, <1>2, <1>3, <1>4, <1>5, <1>6, <1>7, <1>8, <1>9 DEF Next

\* The members of AlgoEngine, of the gateways and the requests have their types (TypeOK).
THEOREM TypeCorrect == Spec => []TypeOK
<1>1. Init => TypeOK
    <2>1. Len(Wanted) \in Nat
        OBVIOUS
    <2>. QED BY <2>1 DEF Init, TypeOK, NoTick, Tick, NobodyCounts, Calls
<1>2. QED BY <1>1, TypeInductive, PTL DEF Spec

----------------------------------------------------------------------------
(* Where orders go.                                                         *)

\* The Level-2 gateway watches, and its queue holds, nothing but what an Instrument of it
\* lets through; and only an Instrument that was handed out has an order.
LevelTwoKnown ==
    /\ \A p \in watched["L2"] :
          \E c \in Instruments : Wanted[c].type = "L2" /\ Wanted[c].symbol = p
    /\ \A i \in 1 .. Len(queue["L2"]) : Mixed(queue["L2"][i])
    /\ \A c \in Calls : out[c] # NoOrder => c \in Instruments

\* The entry of a symbol with nothing but CTP quotes names CTP, and so do its requests.
AtHome(c) ==
    /\ ticks[Wanted[c].symbol].gateway = "CTP"
    /\ out[c] # NoOrder => /\ out[c].to = "CTP"
                           /\ \A k \in out[c].cancels : k.gateway = "CTP"
    /\ out[c].exchange /\ ~out[c].anew => /\ ticks[Wanted[c].symbol].exchange
                                          /\ \A k \in out[c].cancels : k.exchange

\* The inductive invariant behind OrdersGoHome and CancelNamesExchange.
AllAtHome == LevelTwoKnown /\ \A c \in CtpOnly : AtHome(c)

\* No Instrument is taken back, so a symbol that has Level-2 quotes keeps them, and an
\* Instrument of CTP alone has always been one.
LEMMA InstrumentsStay ==
    ASSUME Instruments \subseteq Instruments'
    PROVE  /\ \A x : Mixed(x) => Mixed(x)'
           /\ \A c \in Instruments : c \in CtpOnly' => c \in CtpOnly
BY DEF Mixed, CtpOnly

\* As long as the Instruments stay the same, so do the symbols of CTP alone.
LEMMA InstrumentsSame ==
    ASSUME result' = result
    PROVE  Instruments' = Instruments /\ CtpOnly' = CtpOnly /\ \A x : Mixed(x)' <=> Mixed(x)
BY DEF Instruments, Mixed, CtpOnly

\* A step that changes neither the Instruments nor what the Level-2 gateway knows.
LEMMA KnownSame ==
    ASSUME LevelTwoKnown, UNCHANGED <<result, watched, queue>>,
           \A c \in Calls : out'[c] # NoOrder => c \in Instruments
    PROVE  LevelTwoKnown'
<1>1. Instruments' = Instruments /\ \A x : Mixed(x)' <=> Mixed(x)
    BY InstrumentsSame
<1>. QED BY <1>1 DEF LevelTwoKnown

\* A tick that is dispatched names CTP, or its symbol has Level-2 quotes.
LEMMA TickAtHome ==
    ASSUME TypeOK, LevelTwoKnown, \A c \in CtpOnly : AtHome(c), NEW t \in Types, ProcessOnTick(t)
    PROVE  LevelTwoKnown' /\ \A c \in CtpOnly' : AtHome(c)'
<1>1. /\ UNCHANGED <<result, watched, out>> /\ queue[t] # <<>>
      /\ queue' = [queue EXCEPT ![t] = Tail(@)] /\ queue \in [Types -> Seq(Symbol)]
      /\ ticks' = [ticks EXCEPT ![Head(queue[t])] = FromMd(t)] /\ ticks \in [Symbol -> Tick]
    BY DEF ProcessOnTick, TypeOK
<1>2. CtpOnly' = CtpOnly /\ Instruments' = Instruments /\ \A x : Mixed(x)' <=> Mixed(x)
    BY <1>1, InstrumentsSame
<1>3. PICK x \in Symbol : x = Head(queue[t]) /\ x = queue[t][1] /\ 1 \in 1 .. Len(queue[t])
    BY <1>1
<1>4. LevelTwoKnown'
    <2>1. CASE t = "CTP"
        <3>1. queue'["L2"] = queue["L2"]
            BY <1>1, <2>1
        <3>. QED BY <1>1, <1>2, <3>1 DEF LevelTwoKnown
    <2>2. CASE t = "L2"
        <3>1. \A i \in 1 .. Len(queue'["L2"]) : /\ queue'["L2"][i] = queue["L2"][i + 1]
                                                /\ i + 1 \in 1 .. Len(queue["L2"])
            BY <1>1, <2>2
        <3>. QED BY <1>1, <1>2, <3>1 DEF LevelTwoKnown
    <2>. QED BY <2>1, <2>2 DEF Types
<1>5. ASSUME NEW c \in CtpOnly PROVE AtHome(c)'
    <2>1. c \in Calls /\ ~Mixed(Wanted[c].symbol) /\ Wanted[c].symbol \in Symbol
        BY WantedType DEF CtpOnly, Instruments
    <2>2. CASE Wanted[c].symbol # x
        BY <1>1, <1>3, <1>5, <2>1, <2>2 DEF AtHome
    <2>3. CASE Wanted[c].symbol = x
        <3>1. t = "CTP"
            BY <1>3, <2>1, <2>3 DEF LevelTwoKnown, Types
        <3>2. ticks'[Wanted[c].symbol] = [gateway |-> "CTP", exchange |-> TRUE]
            BY <1>1, <1>3, <2>3, <3>1 DEF FromMd
        <3>. QED BY <1>1, <1>5, <3>2 DEF AtHome
    <2>. QED BY <2>2, <2>3
<1>. QED BY <1>2, <1>4, <1>5

\* What the quotes of a gateway add to its queue.
LEMMA QuoteAtHome ==
    ASSUME TypeOK, LevelTwoKnown, \A c \in CtpOnly : AtHome(c),
           NEW t \in Types, NEW x \in Symbol, OnRtnDepthMarketData(t, x)
    PROVE  LevelTwoKnown' /\ \A c \in CtpOnly' : AtHome(c)'
<1>1. /\ UNCHANGED <<result, watched, out, ticks>> /\ Delivers(t, x)
      /\ queue' = [queue EXCEPT ![t] = Append(@, x)] /\ queue \in [Types -> Seq(Symbol)]
    BY DEF OnRtnDepthMarketData, engineVars, TypeOK
<1>2. CtpOnly' = CtpOnly /\ Instruments' = Instruments /\ \A y : Mixed(y)' <=> Mixed(y)
    BY <1>1, InstrumentsSame
<1>3. LevelTwoKnown'
    <2>1. CASE t = "CTP"
        <3>1. queue'["L2"] = queue["L2"]
            BY <1>1, <2>1
        <3>. QED BY <1>1, <1>2, <3>1 DEF LevelTwoKnown
    <2>2. CASE t = "L2"
        <3>1. Mixed(x)
            BY <1>1, <2>2 DEF Delivers, LevelTwoKnown, Mixed
        <3>2. PICK len \in Nat : len = Len(queue["L2"])
            BY <1>1, <2>2
        <3>3. /\ 1 .. len + 1 = 1 .. len \cup {len + 1} /\ Len(queue'["L2"]) = len + 1
              /\ queue'["L2"][len + 1] = x /\ \A i \in 1 .. len : queue'["L2"][i] = queue["L2"][i]
            BY <1>1, <2>2, <3>2
        <3>. QED BY <1>1, <1>2, <3>1, <3>2, <3>3 DEF LevelTwoKnown
    <2>. QED BY <2>1, <2>2 DEF Types
<1>4. \A c \in CtpOnly : AtHome(c)'
    BY <1>1 DEF AtHome
<1>. QED BY <1>2, <1>3, <1>4

\* A subscribe call names its gateway in the entry of the symbol, whatever was there.
LEMMA SubscribeAtHome ==
    ASSUME TypeOK, LevelTwoKnown, \A c \in CtpOnly : AtHome(c), Subscribe
    PROVE  LevelTwoKnown' /\ \A c \in CtpOnly' : AtHome(c)'
<1> DEFINE w == Wanted[done + 1]
<1>1. PICK answer \in {"instrument", "null", "undefined"} :
         /\ Answers(w.type, w.symbol, answer)
         /\ result' = [result EXCEPT ![done + 1] = answer]
         /\ IF answer = "instrument"
            THEN /\ ticks' = [ticks EXCEPT ![w.symbol] = [gateway |-> w.type, exchange |-> FALSE]]
                 /\ out' = [c \in Calls |->
                              IF out[c] # NoOrder /\ Wanted[c].symbol = w.symbol
                              THEN [out[c] EXCEPT !.anew = TRUE]
                              ELSE out[c]]
            ELSE UNCHANGED <<ticks, out>>
    BY DEF Subscribe
<1>2. PICK d \in Calls : d = done + 1 /\ result[d] = "none" /\ queue' = queue
    BY NextCall DEF Subscribe
<1>3. /\ w = Wanted[d] /\ w.symbol \in Symbol /\ w.type \in Types
      /\ result \in [Calls -> {"none", "instrument", "null", "undefined"}]
      /\ ticks \in [Symbol -> Tick] /\ watched \in [Types -> SUBSET Symbol]
    BY <1>2, WantedType DEF TypeOK
<1> HIDE DEF w
<1>4. /\ Instruments \subseteq Instruments' /\ Instruments' \subseteq Instruments \cup {d}
      /\ d \notin Instruments /\ (answer = "instrument" <=> d \in Instruments')
    BY <1>1, <1>2, <1>3 DEF Instruments
<1>5. /\ \A x : Mixed(x) => Mixed(x)'
      /\ \A c \in Instruments : c \in CtpOnly' => c \in CtpOnly
    BY <1>4, InstrumentsStay
<1>6. \A c \in Calls : out'[c] # NoOrder => out[c] # NoOrder
    BY <1>1 DEF TypeOK
<1>7. LevelTwoKnown'
    <2>1. ASSUME NEW p \in watched'["L2"]
          PROVE  \E c \in Instruments' : Wanted[c].type = "L2" /\ Wanted[c].symbol = p
        <3>1. CASE p \in watched["L2"]
            BY <1>4, <3>1 DEF LevelTwoKnown
        <3>2. CASE p \notin watched["L2"]
            <4>1. answer = "instrument" /\ watched' = [watched EXCEPT ![w.type] = @ \cup {w.symbol}]
                BY <1>1, <2>1, <3>2 DEF Answers
            <4>2. w.type = "L2" /\ w.symbol = p
                BY <1>3, <2>1, <3>2, <4>1
            <4>. QED BY <1>3, <1>4, <4>1, <4>2
        <3>. QED BY <3>1, <3>2
    <2>. QED BY <1>2, <1>4, <1>5, <1>6, <2>1 DEF LevelTwoKnown
<1>8. CASE answer = "instrument"
    <2>1. ASSUME NEW c \in CtpOnly' PROVE AtHome(c)'
        <3>1. c \in Calls /\ c \in Instruments' /\ Wanted[c].type = "CTP"
              /\ ~Mixed(Wanted[c].symbol)' /\ Wanted[c].symbol \in Symbol
            BY WantedType DEF CtpOnly, Instruments
        <3>2. w.type = "CTP" \/ w.symbol # Wanted[c].symbol
            BY <1>3, <1>4, <1>8, <3>1, MatchingAssumption DEF Mixed, Types
        <3>3. out'[c] = IF out[c] # NoOrder /\ Wanted[c].symbol = w.symbol
                        THEN [out[c] EXCEPT !.anew = TRUE] ELSE out[c]
            BY <1>1, <1>8, <3>1
        <3>4. out[c] # NoOrder =>
                /\ out'[c].to = out[c].to /\ out'[c].cancels = out[c].cancels
                /\ out'[c].exchange = out[c].exchange
                /\ Wanted[c].symbol = w.symbol => out'[c].anew
            <4>1. ASSUME out[c] # NoOrder
                  PROVE  out[c] \in [to : Types \cup {"UNKNOW"}, exchange : BOOLEAN,
                                     anew : BOOLEAN, cancels : SUBSET Tick]
                BY <3>1, <4>1 DEF TypeOK
            <4>. QED BY <3>3, <4>1
        <3>5. CASE c = d
            <4>1. out[c] = NoOrder
                BY <1>4, <3>1, <3>5 DEF LevelTwoKnown
            <4>2. out'[c] = NoOrder /\ ticks'[Wanted[c].symbol].gateway = "CTP"
                BY <1>1, <1>3, <1>8, <3>1, <3>5, <4>1
            <4>. QED BY <4>2 DEF AtHome, NoOrder
        <3>6. CASE c # d
            <4>1. AtHome(c)
                BY <1>4, <1>5, <3>1, <3>6, <2>1
            <4>2. CASE w.symbol # Wanted[c].symbol
                <5>1. ticks'[Wanted[c].symbol] = ticks[Wanted[c].symbol] /\ out'[c] = out[c]
                    BY <1>1, <1>3, <1>8, <3>1, <4>2
                <5>. QED BY <4>1, <5>1 DEF AtHome
            <4>3. CASE w.symbol = Wanted[c].symbol
                <5>1. ticks'[Wanted[c].symbol].gateway = "CTP"
                    BY <1>1, <1>3, <1>8, <3>2, <4>3
                <5>2. out[c] = NoOrder => out'[c] = NoOrder
                    BY <3>3
                <5>. QED BY <3>4, <4>1, <4>3, <5>1, <5>2 DEF AtHome, NoOrder
            <4>. QED BY <4>2, <4>3
        <3>. QED BY <3>5, <3>6
    <2>. QED BY <1>7, <2>1
<1>9. CASE answer # "instrument"
    <2>1. ASSUME NEW c \in CtpOnly' PROVE AtHome(c)'
        <3>1. c \in CtpOnly
            BY <1>4, <1>5, <1>9 DEF CtpOnly
        <3>. QED BY <1>1, <1>9, <3>1 DEF AtHome
    <2>. QED BY <1>7, <2>1
<1>. QED BY <1>8, <1>9

\* An order and a cancel request read the entry of the symbol.
LEMMA RequestAtHome ==
    ASSUME TypeOK, LevelTwoKnown, \A c \in CtpOnly : AtHome(c), NEW d \in Calls,
           Send(d) \/ Kill(d) \/ Release(d)
    PROVE  LevelTwoKnown' /\ \A c \in CtpOnly' : AtHome(c)'
<1> DEFINE tick == ticks[Wanted[d].symbol]
<1>1. UNCHANGED <<result, watched, queue, ticks>> /\ out \in [Calls -> [to : Types \cup {"UNKNOW"}, exchange : BOOLEAN, anew : BOOLEAN, cancels : SUBSET Tick] \cup {NoOrder}]
    BY DEF Send, Kill, Release, engineVars, TypeOK
<1>2. CtpOnly' = CtpOnly
    BY <1>1, InstrumentsSame
<1>3. d \in Instruments /\ \A c \in Calls : c # d => out'[c] = out[c]
    BY <1>1 DEF Send, Kill, Release, LevelTwoKnown, NoOrder
<1>4. LevelTwoKnown'
    <2>1. \A c \in Calls : out'[c] # NoOrder => c \in Instruments
        BY <1>3 DEF LevelTwoKnown
    <2>. QED BY <1>1, <2>1, KnownSame
<1>5. ASSUME NEW c \in CtpOnly PROVE AtHome(c)'
    <2>1. AtHome(c) /\ c \in Calls
        BY DEF CtpOnly, Instruments
    <2>2. CASE c # d
        BY <1>1, <1>3, <2>1, <2>2 DEF AtHome
    <2>3. CASE c = d /\ Send(d)
        <3>1. out'[c] = [to |-> tick.gateway, exchange |-> tick.exchange, anew |-> FALSE, cancels |-> {}]
            BY <1>1, <2>1, <2>3 DEF Send
        <3>. QED BY <1>1, <2>1, <2>3, <3>1 DEF AtHome
    <2>4. CASE c = d /\ Kill(d)
        <3>1. out[c] # NoOrder /\ out'[c] = [out[c] EXCEPT !.cancels = @ \cup {tick}]
            BY <1>1, <2>1, <2>4 DEF Kill, CancelRequest
        <3>2. /\ out'[c].to = out[c].to /\ out'[c].exchange = out[c].exchange
              /\ out'[c].anew = out[c].anew /\ out'[c].cancels = out[c].cancels \cup {tick}
            BY <2>1, <3>1, OrderType
        <3>. QED BY <1>1, <2>1, <2>4, <3>1, <3>2 DEF AtHome
    <2>5. CASE c = d /\ Release(d)
        <3>1. out'[c] = NoOrder
            BY <1>1, <2>1, <2>5 DEF Release
        <3>. QED BY <1>1, <2>1, <3>1 DEF AtHome, NoOrder
    <2>. QED BY <2>2, <2>3, <2>4, <2>5
<1>. QED BY <1>2, <1>4, <1>5

\* No step leaves a request of CTP alone without its gateway.
LEMMA AtHomeInductive == TypeOK /\ AllAtHome /\ [Next]_vars => AllAtHome'
<1> SUFFICES ASSUME TypeOK, LevelTwoKnown, \A c \in CtpOnly : AtHome(c), [Next]_vars
             PROVE  LevelTwoKnown' /\ \A c \in CtpOnly' : AtHome(c)'
    BY DEF AllAtHome
<1>1. CASE Run \/ OnEventReturns \/ UNCHANGED vars
    <2>1. UNCHANGED <<result, watched, queue, ticks, out>>
        BY <1>1 DEF Run, OnEventReturns, vars, engineVars
    <2>2. LevelTwoKnown' /\ CtpOnly' = CtpOnly
        BY <2>1, InstrumentsSame, KnownSame DEF LevelTwoKnown
    <2>. QED BY <2>1, <2>2 DEF AtHome
<1>. QED BY <1>1, TickAtHome, QuoteAtHome, SubscribeAtHome, RequestAtHome DEF Next

\* So every request of CTP alone is at home for ever.
LEMMA AtHomeCorrect == Spec => []AllAtHome
<1>1. Init => AllAtHome
    BY DEF AllAtHome, Init, LevelTwoKnown, CtpOnly, Instruments, Types
<1>2. QED BY <1>1, AtHomeInductive, TypeCorrect, PTL DEF Spec

\* Orders of CTP Instruments go to CTP, and so does what cancels them (OrdersGoHome),
\* whatever the strategies subscribe to and whenever quotes come.
THEOREM OrdersGoHomeCorrect == Spec => []OrdersGoHome
<1>1. AllAtHome => OrdersGoHome
    BY DEF AllAtHome, AtHome, OrdersGoHome
<1>2. QED BY <1>1, AtHomeCorrect, PTL

\* A cancel request names the exchange its order named (CancelNamesExchange), for any
\* number of quotes and requests in between.
THEOREM CancelNamesExchangeCorrect == Spec => []CancelNamesExchange
<1>1. AllAtHome => CancelNamesExchange
    BY DEF AllAtHome, AtHome, CancelNamesExchange
<1>2. QED BY <1>1, AtHomeCorrect, PTL

----------------------------------------------------------------------------
(* Who hears a tick.                                                        *)

\* The Instruments of x that st has.
Mine(x, st) == {c \in Instruments : Wanted[c].symbol = x /\ Wanted[c].strategy = st}

\* A strategy is entered once per Instrument, and whoever has not been called with the
\* latest tick is still in the copy that process_on_tick walks.
AllEntered == \A x \in Symbol, st \in Strategy : Times(subscribers[x], st) = Cardinality(Mine(x, st))

AllTold == \A st \in Strategy : due[st] = heard[st] + Times(left, st)

\* A subscribe call that returns an Instrument enters its strategy once more.
LEMMA SubscribeEnters ==
    ASSUME TypeOK, AllEntered, Subscribe
    PROVE  AllEntered'
<1> DEFINE w == Wanted[done + 1]
<1>1. PICK answer \in {"instrument", "null", "undefined"} :
         /\ result' = [result EXCEPT ![done + 1] = answer]
         /\ IF answer = "instrument"
            THEN subscribers' = [subscribers EXCEPT ![w.symbol] = Join(@, w.strategy)]
            ELSE UNCHANGED subscribers
    BY DEF Subscribe
<1>2. PICK d \in Calls : d = done + 1 /\ result[d] = "none"
    BY NextCall DEF Subscribe
<1>3. /\ w = Wanted[d] /\ w.symbol \in Symbol /\ w.strategy \in Strategy
      /\ result \in [Calls -> {"none", "instrument", "null", "undefined"}]
      /\ subscribers \in [Symbol -> Seq(Strategy)]
    BY <1>2, WantedType DEF TypeOK
<1> HIDE DEF w
<1>4. ASSUME NEW x \in Symbol, NEW st \in Strategy
      PROVE  Times(subscribers'[x], st) = Cardinality(Mine(x, st)')
    <2>1. Times(subscribers[x], st) = Cardinality(Mine(x, st))
        BY DEF AllEntered
    <2>2. IsFiniteSet(Mine(x, st))
        <3>1. IsFiniteSet(Calls) /\ Mine(x, st) \in SUBSET Calls
            BY FS_Interval DEF Calls, Mine, Instruments
        <3>. QED BY <3>1, FS_Subset
    <2>3. CASE answer = "instrument" /\ x = w.symbol /\ st = w.strategy
        <3>1. Mine(x, st)' = Mine(x, st) \cup {d} /\ d \notin Mine(x, st)
            BY <1>1, <1>2, <1>3, <2>3 DEF Mine, Instruments
        <3>2. Cardinality(Mine(x, st)') = Cardinality(Mine(x, st)) + 1
            BY <2>2, <3>1, FS_AddElement
        <3>3. Times(subscribers'[x], st) = Times(subscribers[x], st) + 1
            <4>1. subscribers'[x] = Append(subscribers[x], st) /\ subscribers[x] \in Seq(Strategy)
                BY <1>1, <1>3, <2>3 DEF Join
            <4>. QED BY <4>1, TimesAppend
        <3>. QED BY <2>1, <3>2, <3>3
    <2>4. CASE ~(answer = "instrument" /\ x = w.symbol /\ st = w.strategy)
        <3>1. Mine(x, st)' = Mine(x, st)
            BY <1>1, <1>2, <1>3, <2>4 DEF Mine, Instruments
        <3>2. Times(subscribers'[x], st) = Times(subscribers[x], st)
            <4>1. CASE answer = "instrument" /\ x = w.symbol
                <5>1. /\ subscribers'[x] = Append(subscribers[x], w.strategy) /\ st # w.strategy
                      /\ subscribers[x] \in Seq(Strategy)
                    BY <1>1, <1>3, <2>4, <4>1 DEF Join
                <5>. QED BY <1>3, <5>1, TimesAppend
            <4>2. CASE ~(answer = "instrument" /\ x = w.symbol)
                BY <1>1, <1>3, <4>2
            <4>. QED BY <4>1, <4>2
        <3>. QED BY <2>1, <3>1, <3>2
    <2>. QED BY <2>3, <2>4
<1>. QED BY <1>4 DEF AllEntered

\* Every strategy is entered as often as it subscribed, and told as often as it is entered.
LEMMA ToldInductive == TypeOK /\ AllEntered /\ AllTold /\ [Next]_vars => AllEntered' /\ AllTold'
<1> SUFFICES ASSUME TypeOK, AllEntered, AllTold, [Next]_vars PROVE AllEntered' /\ AllTold'
    OBVIOUS
<1>1. ASSUME UNCHANGED <<result, subscribers>> PROVE AllEntered'
    BY <1>1 DEF AllEntered, Mine, Instruments
<1>2. ASSUME UNCHANGED <<due, heard, left>> PROVE AllTold'
    BY <1>2 DEF AllTold
<1>3. CASE Subscribe
    BY <1>2, <1>3, SubscribeEnters DEF Subscribe
<1>4. ASSUME NEW t \in Types, ProcessOnTick(t) PROVE AllEntered' /\ AllTold'
    <2>1. PICK x \in Symbol : /\ left' = subscribers[x] /\ heard' = NobodyCounts
                              /\ due' = [st \in Strategy |-> Cardinality(Mine(x, st))]
        <3>1. Head(queue[t]) \in Symbol
            BY <1>4 DEF ProcessOnTick, TypeOK
        <3>. QED BY <1>4, <3>1 DEF ProcessOnTick, Mine
    <2>2. ASSUME NEW st \in Strategy PROVE due'[st] = heard'[st] + Times(left', st)
        <3>1. due'[st] = Times(subscribers[x], st) /\ heard'[st] = 0
            BY <2>1 DEF AllEntered, NobodyCounts
        <3>2. Times(subscribers[x], st) \in Nat
            BY TimesType DEF TypeOK
        <3>. QED BY <2>1, <3>1, <3>2
    <2>. QED BY <1>1, <1>4, <2>2 DEF AllTold, ProcessOnTick
<1>5. CASE OnEventReturns
    <2>1. left \in Seq(Strategy) /\ heard \in [Strategy -> Nat] /\ due' = due /\ left # <<>>
          /\ heard' = [heard EXCEPT ![Head(left)] = @ + 1] /\ left' = Tail(left)
          /\ Tail(left) \in Seq(Strategy)
        BY <1>5 DEF OnEventReturns, TypeOK
    <2>2. ASSUME NEW st \in Strategy PROVE due'[st] = heard'[st] + Times(left', st)
        <3>1. PICK h \in Nat, m \in Nat : h = heard[st] /\ m = Times(Tail(left), st)
            BY <2>1, TimesType
        <3>2. due[st] = h + Times(left, st)
            BY <3>1 DEF AllTold
        <3>3. CASE Head(left) = st
            <4>1. heard'[st] = h + 1 /\ Times(left, st) = m + 1
                BY <2>1, <3>1, <3>3, TimesTail
            <4>2. due'[st] = h + (m + 1) /\ Times(left', st) = m
                BY <2>1, <3>1, <3>2, <4>1
            <4>3. h + (m + 1) = (h + 1) + m
                OBVIOUS
            <4>. QED BY <4>1, <4>2, <4>3
        <3>4. CASE Head(left) # st
            <4>1. heard'[st] = h /\ Times(left, st) = m
                BY <2>1, <3>1, <3>4, TimesTail
            <4>. QED BY <2>1, <3>1, <3>2, <4>1
        <3>. QED BY <3>3, <3>4
    <2>. QED BY <1>1, <1>5, <2>2 DEF AllTold, OnEventReturns
<1>6. ASSUME NEW t \in Types, NEW x \in Symbol, OnRtnDepthMarketData(t, x)
      PROVE  AllEntered' /\ AllTold'
    BY <1>1, <1>2, <1>6 DEF OnRtnDepthMarketData, engineVars
<1>7. ASSUME NEW c \in Calls, Send(c) \/ Kill(c) \/ Release(c) PROVE AllEntered' /\ AllTold'
    BY <1>1, <1>2, <1>7 DEF Send, Kill, Release, engineVars
<1>8. CASE Run \/ UNCHANGED vars
    BY <1>1, <1>2, <1>8 DEF Run, vars, engineVars
<1>. QED BY <1>3, <1>4, <1>5, <1>6, <1>7, <1>8 DEF Next

\* Every strategy hears every tick once per Instrument (EachSubscriptionTold), also when
\* others subscribe while process_on_tick walks its copy of the list.
THEOREM EachSubscriptionToldCorrect == Spec => []EachSubscriptionTold
<1>1. Init => AllEntered /\ AllTold
    <2>1. Init => \A x \in Symbol, st \in Strategy : Mine(x, st) = {}
        BY DEF Init, Mine, Instruments
    <2>2. Init => AllEntered
        BY <2>1, TimesNone, FS_EmptySet DEF Init, AllEntered
    <2>3. Init => AllTold
        BY TimesNone DEF Init, AllTold, NobodyCounts
    <2>. QED BY <2>2, <2>3
<1>2. TypeOK /\ AllTold => EachSubscriptionTold
    <2> SUFFICES ASSUME TypeOK, AllTold, left = <<>> PROVE heard = due
        BY DEF EachSubscriptionTold
    <2>1. ASSUME NEW st \in Strategy PROVE heard[st] = due[st]
        <3>1. heard[st] \in Nat /\ Times(left, st) = 0
            BY TimesNone DEF TypeOK
        <3>. QED BY <3>1 DEF AllTold
    <2>. QED BY <2>1 DEF TypeOK
<1>3. QED BY <1>1, <1>2, ToldInductive, TypeCorrect, PTL DEF Spec
=================================================================================
