------------------------------ MODULE MarketData ------------------------------
(***************************************************************************)
(* Start-up and market data: AlgoEngine::start and subscribe, and the      *)
(* session of CtpMd with its front.                                        *)
(*                                                                         *)
(* Threads.  The main thread runs start: it connects the gateway, waits,   *)
(* runs the init of the strategies, which subscribe, and then becomes the  *)
(* event thread.  The API thread runs the callbacks of CtpMd one after the *)
(* other, in the order in which their causes happened.  The login callback *)
(* subscribes anew to everything in instruments_, one symbol at a time,    *)
(* while the main thread may be inserting into that set.                   *)
(*                                                                         *)
(* The walk over instruments_ and the insert are a data race.  An insert   *)
(* leaves the other nodes of a std::set in place, so the walk either finds *)
(* the new symbol or passes it by.                                         *)
(***************************************************************************)
EXTENDS Integers, Sequences, FiniteSets

CONSTANTS
    Symbol,       \* instruments
    Strategy,     \* strategies
    Wanted,       \* the subscribe calls of all init(), in order
    MayRefuse,    \* the API may refuse a request on a working connection
    MayReject,    \* the front may reject a login
    MaxBreaks     \* bound: how often the connection breaks

Calls == 1 .. Len(Wanted)

ASSUME WantedAssumption == Wanted \in Seq([strategy : Strategy, symbol : Symbol])
ASSUME FlagsAssumption  == MayRefuse \in BOOLEAN /\ MayReject \in BOOLEAN
ASSUME BoundsAssumption == MaxBreaks \in Nat

VARIABLES
    connect_status,  \* CtpMd::connect_status_
    login_status,    \* CtpMd::login_status_
    instruments,     \* CtpMd::instruments_
    walking,         \* the login callback is in its loop
    unvisited,       \* the symbols that loop has still to come to
    td_connect,      \* CtpGateway::td_connect(), of no further interest here
    main,            \* where the main thread is
    done,            \* the subscribe calls that have returned
    result,          \* what they returned
    subscribers,     \* AlgoEngine::symbol_to_strategy_impl_
    link,            \* the connection to the front is up
    login_sent,      \* a login request is on its way
    session,         \* the front knows us as logged in
    subscribed,      \* the front's subscriptions of this session
    news,            \* callbacks the API thread has yet to run
    breaks,          \* how often the connection broke
    refused,         \* history: subscriptions the API refused on this connection
    rejected         \* history: a login was rejected on this connection

apiVars    == <<connect_status, login_status, instruments, walking, unvisited>>
engineVars == <<main, done, result, subscribers>>
frontVars  == <<link, login_sent, session, subscribed, breaks, refused, rejected>>
vars == <<apiVars, td_connect, engineVars, frontVars, news>>

Init ==
    /\ connect_status = FALSE
    /\ login_status = FALSE
    /\ instruments = {}
    /\ walking = FALSE
    /\ unvisited = {}
    /\ td_connect = FALSE
    /\ main = "new"
    /\ done = 0
    /\ result = [i \in Calls |-> "none"]
    /\ subscribers = [x \in Symbol |-> <<>>]
    /\ link = FALSE
    /\ login_sent = FALSE
    /\ session = FALSE
    /\ subscribed = {}
    /\ news = <<>>
    /\ breaks = 0
    /\ refused = {}
    /\ rejected = FALSE

----------------------------------------------------------------------------
(* The front and the API library.  A request on a broken connection is      *)
(* refused at once; one that the front does not expect is answered with an  *)
(* error, which the program only logs.                                      *)

Establish ==
    /\ main # "new"
    /\ ~link
    /\ link' = TRUE
    /\ news' = Append(news, "connected")
    /\ UNCHANGED <<apiVars, td_connect, engineVars, login_sent, session, subscribed,
                   breaks, refused, rejected>>

Break ==
    /\ link
    /\ breaks < MaxBreaks
    /\ link' = FALSE
    /\ login_sent' = FALSE
    /\ session' = FALSE
    /\ subscribed' = {}
    /\ news' = Append(news, "disconnected")
    /\ breaks' = breaks + 1
    /\ refused' = {}
    /\ rejected' = FALSE
    /\ UNCHANGED <<apiVars, td_connect, engineVars>>

AnswerLogin ==
    /\ login_sent
    /\ login_sent' = FALSE
    /\ \/ /\ session' = TRUE
          /\ news' = Append(news, "login")
          /\ UNCHANGED rejected
       \/ /\ MayReject
          /\ rejected' = TRUE
          /\ news' = Append(news, "rejected")
          /\ UNCHANGED session
    /\ UNCHANGED <<apiVars, td_connect, engineVars, link, subscribed, breaks, refused>>

\* SubscribeMarketData(x) returns ok.
Subscribe(x, ok) ==
    /\ ok => link
    /\ ~ok => ~link \/ MayRefuse
    /\ subscribed' = IF ok /\ session THEN subscribed \cup {x} ELSE subscribed
    /\ refused' = IF link /\ ~ok THEN refused \cup {x} ELSE refused

\* The trader's connection comes and goes on its own.
TdChange ==
    /\ main # "new"
    /\ td_connect' = ~td_connect
    /\ UNCHANGED <<apiVars, engineVars, frontVars, news>>

----------------------------------------------------------------------------
(* The callbacks of CtpMd, on the API thread.                               *)

\* connect_status_, then login(), whose result nobody looks at.
OnFrontConnected ==
    /\ ~walking
    /\ news # <<>> /\ Head(news) = "connected"
    /\ connect_status' = TRUE
    /\ \/ /\ login_sent' = link
          /\ UNCHANGED rejected
       \/ /\ MayRefuse /\ link
          /\ rejected' = TRUE
          /\ UNCHANGED login_sent
    /\ news' = Tail(news)
    /\ UNCHANGED <<login_status, instruments, walking, unvisited, td_connect, engineVars,
                   link, session, subscribed, breaks, refused>>

\* A slip: the loss of the connection is not noted.
ConnectedAfterLoss == TRUE

ConnectedAfter == FALSE

\* login_status_ stays as it is.
OnFrontDisconnected ==
    /\ ~walking
    /\ news # <<>> /\ Head(news) = "disconnected"
    /\ connect_status' = ConnectedAfter
    /\ news' = Tail(news)
    /\ UNCHANGED <<login_status, instruments, walking, unvisited, td_connect, engineVars,
                   frontVars>>

\* A slip: only the first login subscribes.
ToResubscribeOnce == IF login_status THEN {} ELSE instruments

ToResubscribe == instruments

OnRspUserLogin ==
    /\ ~walking
    /\ news # <<>>
    /\ \/ /\ Head(news) = "login"
          /\ login_status' = TRUE
          /\ walking' = TRUE
          /\ unvisited' = ToResubscribe
       \/ /\ Head(news) = "rejected"
          /\ UNCHANGED <<login_status, walking, unvisited>>
    /\ news' = Tail(news)
    /\ UNCHANGED <<connect_status, instruments, td_connect, engineVars, frontVars>>

\* One round of the loop in the login callback; the result is ignored.
Resubscribe(x) ==
    /\ walking
    /\ x \in unvisited
    /\ unvisited' = unvisited \ {x}
    /\ \E ok \in BOOLEAN : Subscribe(x, ok)
    /\ UNCHANGED <<connect_status, login_status, instruments, walking, td_connect,
                   engineVars, link, login_sent, session, news, breaks, rejected>>

WalkEnds ==
    /\ walking
    /\ unvisited = {}
    /\ walking' = FALSE
    /\ UNCHANGED <<connect_status, login_status, instruments, unvisited, td_connect,
                   engineVars, frontVars, news>>

----------------------------------------------------------------------------
(* AlgoEngine, on the main thread.                                          *)

md_connect == connect_status /\ login_status

\* it->connect()
Connect ==
    /\ main = "new"
    /\ main' = "waiting"
    /\ UNCHANGED <<apiVars, td_connect, done, result, subscribers, frontVars, news>>

\* A slip: both connections waited for.
WaitIsOverWithBoth == md_connect /\ td_connect

\* The negation of the loop condition in start.
WaitIsOver == md_connect \/ td_connect

StartInit ==
    /\ main = "waiting"
    /\ WaitIsOver
    /\ main' = "init"
    /\ UNCHANGED <<apiVars, td_connect, done, result, subscribers, frontVars, news>>

\* A slip: the symbol is not kept.
RememberNot(x) == instruments

Remember(x) == instruments \cup {x}

\* AlgoEngine::subscribe up to the call into the API.
SubscribeBegin ==
    /\ main = "init"
    /\ done < Len(Wanted)
    /\ LET x == Wanted[done + 1].symbol
       IN  \/ /\ md_connect
              /\ instruments' = Remember(x)
              /\ unvisited' \in IF walking /\ x \notin instruments
                                THEN {unvisited, unvisited \cup {x}}
                                ELSE {unvisited}
              /\ main' = "asking"
              /\ UNCHANGED <<done, result>>
           \/ /\ ~md_connect
              /\ result' = [result EXCEPT ![done + 1] = "null"]
              /\ done' = done + 1
              /\ UNCHANGED <<instruments, unvisited, main>>
    /\ UNCHANGED <<connect_status, login_status, walking, td_connect, subscribers,
                   frontVars, news>>

\* The rest of it.  After a refusal there is no return statement.
SubscribeEnd ==
    /\ main = "asking"
    /\ LET w == Wanted[done + 1]
       IN  \/ /\ Subscribe(w.symbol, TRUE)
              /\ subscribers' = [subscribers EXCEPT ![w.symbol] = Append(@, w.strategy)]
              /\ result' = [result EXCEPT ![done + 1] = "instrument"]
           \/ /\ Subscribe(w.symbol, FALSE)
              /\ result' = [result EXCEPT ![done + 1] = "undefined"]
              /\ UNCHANGED subscribers
    /\ done' = done + 1
    /\ main' = "init"
    /\ UNCHANGED <<apiVars, td_connect, link, login_sent, session, news, breaks,
                   rejected>>

\* event_engine_->start()
Run ==
    /\ main = "init"
    /\ done = Len(Wanted)
    /\ main' = "running"
    /\ UNCHANGED <<apiVars, td_connect, done, result, subscribers, frontVars, news>>

----------------------------------------------------------------------------

Front == Establish \/ Break \/ AnswerLogin \/ TdChange

Callbacks ==
    OnFrontConnected \/ OnFrontDisconnected \/ OnRspUserLogin
        \/ (\E x \in Symbol : Resubscribe(x)) \/ WalkEnds

Main == Connect \/ StartInit \/ SubscribeBegin \/ SubscribeEnd \/ Run

Next == Front \/ Callbacks \/ Main

Spec == Init /\ [][Next]_vars

(* The API library reconnects and the front answers; both threads run.      *)
Fairness ==
    /\ WF_vars(Establish)
    /\ WF_vars(AnswerLogin)
    /\ WF_vars(Callbacks)
    /\ WF_vars(Main)

FairSpec == Spec /\ Fairness

----------------------------------------------------------------------------
(* Correctness.                                                             *)

\* The types of the members of CtpMd and AlgoEngine, and of the front.
TypeOK ==
    /\ connect_status \in BOOLEAN /\ login_status \in BOOLEAN
    /\ instruments \subseteq Symbol
    /\ walking \in BOOLEAN
    /\ unvisited \subseteq instruments
    /\ td_connect \in BOOLEAN
    /\ main \in {"new", "waiting", "init", "asking", "running"}
    /\ done \in 0 .. Len(Wanted)
    /\ main = "asking" => done < Len(Wanted)
    /\ result \in [Calls -> {"none", "instrument", "null", "undefined"}]
    /\ subscribers \in [Symbol -> Seq(Strategy)]
    /\ link \in BOOLEAN /\ login_sent \in BOOLEAN /\ session \in BOOLEAN
    /\ subscribed \subseteq Symbol
    /\ news \in Seq({"connected", "disconnected", "login", "rejected"})
    /\ breaks \in Nat
    /\ refused \subseteq Symbol
    /\ rejected \in BOOLEAN

\* The API thread has nothing left to do.
Quiet == ~walking /\ news = <<>>

\* An Instrument that subscribe has returned has its quotes in every session: after each
\* reconnect the login callback has subscribed to it anew, although the main thread was
\* adding symbols at the same time.  Only a refusal, which is ignored there, leaves one
\* without.
QuotesFollow ==
    session /\ Quiet =>
        \A i \in Calls :
            result[i] = "instrument" => Wanted[i].symbol \in subscribed \cup refused

\* With every callback run and no login on its way, md_connect() tells a session from none,
\* and there is a session exactly if there is a connection: login_status_ left over from an
\* earlier session does no lasting harm, and no connection is left without its login, unless
\* that was rejected.
FlagsTellSession ==
    Quiet /\ ~login_sent /\ ~rejected => (md_connect <=> session) /\ (session <=> link)

\* The quotes of an Instrument come back after every break, unless the login or the
\* subscription was refused: both are asked for once and never again.
QuotesReturn ==
    \A i \in Calls :
        result[i] = "instrument" ~> rejected \/ Wanted[i].symbol \in subscribed \cup refused

\* start() gets through to the event loop, unless it waits for a login that was refused.
StartReturns == main = "waiting" ~> rejected \/ main = "running"

\* subscribe() hands init an Instrument.
SubscribeReturnsInstrument == \A i \in Calls : result[i] \in {"none", "instrument"}
=============================================================================
