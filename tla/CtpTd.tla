-------------------------------- MODULE CtpTd --------------------------------
(***************************************************************************)
(* The trader gateway: connection, authentication and login of CtpTd, the  *)
(* ids it gives to orders, and the orders its cancel requests name.        *)
(*                                                                         *)
(* Threads.  The API thread runs the callbacks, one after the other and in *)
(* the order of their causes.  The event thread runs send_order and        *)
(* cancel_order.  session_id_, front_id_ and order_ref_ are plain members  *)
(* that both use: a data race, modelled as every interleaving of their     *)
(* loads and stores.                                                       *)
(*                                                                         *)
(* The front knows an order by the front and the session it was inserted   *)
(* in and by its OrderRef.                                                 *)
(***************************************************************************)
EXTENDS Integers, Sequences, FiniteSets

CONSTANTS
    SessionOf,    \* what the front answers to the k-th login
    Garbage,      \* what uninitialised members may hold
    MayReject,    \* the front may reject a request, and the API refuse one
    MaxBreaks,    \* bound: how often the connection breaks
    MaxSends      \* bound: calls of send_order

Numbers == 1 .. MaxBreaks + 1

Session == [front : Int, session : Int, max_ref : Int]

ASSUME SessionsAssumption == SessionOf \in [Numbers -> Session]
ASSUME GarbageAssumption  == Garbage \subseteq Int
ASSUME FlagAssumption     == MayReject \in BOOLEAN
ASSUME BoundsAssumption   == MaxBreaks \in Nat /\ MaxSends \in Nat

VARIABLES
    connect_status, login_status, session_id, front_id, order_ref,  \* CtpTd
    storing,      \* where OnRspUserLogin is, and in answer to which login
    stored,       \* history: the number of the last login that was stored, 0 for none
    call,         \* where the event thread is in send_order or cancel_order
    link,         \* the connection to the front is up
    asked,        \* the request the front has yet to answer
    authenticated,  \* the front has authenticated this connection
    serving,      \* the number of the session at the front, 0 for none
    logins,       \* logins answered so far
    news,         \* callbacks the API thread has yet to run
    breaks,       \* how often the connection broke
    sends,        \* calls of send_order so far
    placed,       \* orders the front has got
    withdrawn,    \* those it was told to cancel
    meant,        \* history: those the program meant to cancel
    raced,        \* history: an order was sent before the first login was stored, or
                  \* while one was
    rejected      \* history: the latest request for authentication or login came to
                  \* nothing, although the connection was up

members  == <<connect_status, login_status, session_id, front_id, order_ref, stored>>
frontVars == <<link, asked, authenticated, serving, logins, breaks>>
orderVars == <<sends, placed, withdrawn, meant>>
vars == <<members, storing, call, frontVars, news, orderVars, raced, rejected>>

NotStoring == [step |-> "none", number |-> 0]
NoCall     == [op |-> "none"]

Init ==
    /\ connect_status = FALSE
    /\ login_status = FALSE
    /\ session_id \in Garbage
    /\ front_id \in Garbage
    /\ order_ref \in Garbage
    /\ storing = NotStoring
    /\ stored = 0
    /\ call = NoCall
    /\ link = FALSE
    /\ asked = "nothing"
    /\ authenticated = FALSE
    /\ serving = 0
    /\ logins = 0
    /\ news = <<>>
    /\ breaks = 0
    /\ sends = 0
    /\ placed = {}
    /\ withdrawn = {}
    /\ meant = {}
    /\ raced = FALSE
    /\ rejected = FALSE

----------------------------------------------------------------------------
(* The front and the API library.                                           *)

News(what, number) == [what |-> what, number |-> number]

Establish ==
    /\ ~link
    /\ link' = TRUE
    /\ news' = Append(news, News("connected", 0))
    /\ UNCHANGED <<members, storing, call, asked, authenticated, serving, logins,
                   breaks, orderVars, raced, rejected>>

Break ==
    /\ link
    /\ breaks < MaxBreaks
    /\ link' = FALSE
    /\ asked' = "nothing"
    /\ authenticated' = FALSE
    /\ serving' = 0
    /\ news' = Append(news, News("disconnected", 0))
    /\ breaks' = breaks + 1
    /\ UNCHANGED <<members, storing, call, logins, orderVars, raced, rejected>>

AnswerAuthenticate ==
    /\ asked = "authenticate"
    /\ asked' = "nothing"
    /\ \/ /\ authenticated' = TRUE
          /\ news' = Append(news, News("authenticated", 0))
          /\ UNCHANGED rejected
       \/ /\ MayReject
          /\ news' = Append(news, News("auth rejected", 0))
          /\ rejected' = TRUE
          /\ UNCHANGED authenticated
    /\ UNCHANGED <<members, storing, call, link, serving, logins, breaks, orderVars, raced>>

\* A late callback of an earlier connection may ask for the login before this one is
\* authenticated: the front refuses that.
AnswerLogin ==
    /\ asked = "login"
    /\ asked' = "nothing"
    /\ \/ /\ authenticated
          /\ logins' = logins + 1
          /\ serving' = logins + 1
          /\ news' = Append(news, News("login", logins + 1))
          /\ UNCHANGED rejected
       \/ /\ ~authenticated \/ MayReject
          /\ news' = Append(news, News("login rejected", 0))
          /\ rejected' = TRUE
          /\ UNCHANGED <<logins, serving>>
    /\ UNCHANGED <<members, storing, call, link, authenticated, breaks, orderVars, raced>>

AnswerConfirm ==
    /\ asked = "confirm"
    /\ asked' = "nothing"
    /\ \/ news' = Append(news, News("confirmed", 0))
       \/ MayReject /\ news' = Append(news, News("confirm rejected", 0))
    /\ UNCHANGED <<members, storing, call, link, authenticated, serving, logins, breaks,
                   orderVars, raced, rejected>>

ForLogin(request) == request \in {"authenticate", "login"}

\* A request goes out, or the API refuses it at once: always without a connection, and for
\* reasons of its own with one.  The result is logged at most.
Ask(request) ==
    \/ /\ link
       /\ asked' = request
       /\ rejected' = (rejected /\ ~ForLogin(request))
    \/ /\ ~link \/ MayReject
       /\ rejected' = (rejected \/ (link /\ ForLogin(request)))
       /\ UNCHANGED asked

----------------------------------------------------------------------------
(* The callbacks of CtpTd, on the API thread.                               *)

Upcoming(what) == storing = NotStoring /\ news # <<>> /\ Head(news).what = what

\* connect_status_, then req_auth.
OnFrontConnected ==
    /\ Upcoming("connected")
    /\ connect_status' = TRUE
    /\ Ask("authenticate")
    /\ news' = Tail(news)
    /\ UNCHANGED <<login_status, session_id, front_id, order_ref, stored, storing, call, link,
                   authenticated, serving, logins, breaks, orderVars, raced>>

\* login_status_ stays as it is.
OnFrontDisconnected ==
    /\ Upcoming("disconnected")
    /\ connect_status' = FALSE
    /\ news' = Tail(news)
    /\ UNCHANGED <<login_status, session_id, front_id, order_ref, stored, storing, call,
                   frontVars, orderVars, raced, rejected>>

\* A slip: an authenticated trader that has logged in before leaves it at that.
AfterAuthenticateOnce == IF login_status THEN "nothing" ELSE "login"

AfterAuthenticate == "login"

OnRspAuthenticate ==
    /\ \/ /\ Upcoming("authenticated")
          /\ Ask(AfterAuthenticate)
       \/ /\ Upcoming("auth rejected")
          /\ UNCHANGED <<asked, rejected>>
    /\ news' = Tail(news)
    /\ UNCHANGED <<members, storing, call, link, authenticated, serving, logins, breaks,
                   orderVars, raced>>

OnRspUserLogin ==
    /\ \/ /\ Upcoming("login")
          /\ login_status' = TRUE
          /\ storing' = [step |-> "session", number |-> Head(news).number]
       \/ /\ Upcoming("login rejected")
          /\ UNCHANGED <<login_status, storing>>
    /\ news' = Tail(news)
    /\ UNCHANGED <<connect_status, session_id, front_id, order_ref, stored, call, frontVars,
                   orderVars, raced, rejected>>

Sending == call.op \in {"load", "insert"}

Granted == SessionOf[storing.number]

StoreSession ==
    /\ storing.step = "session"
    /\ session_id' = Granted.session
    /\ storing' = [storing EXCEPT !.step = "front"]
    /\ raced' = (raced \/ Sending)
    /\ UNCHANGED <<connect_status, login_status, front_id, order_ref, stored, call, frontVars,
                   news, orderVars, rejected>>

StoreFront ==
    /\ storing.step = "front"
    /\ front_id' = Granted.front
    /\ storing' = [storing EXCEPT !.step = "ref"]
    /\ raced' = (raced \/ Sending)
    /\ UNCHANGED <<connect_status, login_status, session_id, order_ref, stored, call, frontVars,
                   news, orderVars, rejected>>

\* A slip: the login requested a second time.
AfterLoginAgain == "login"

AfterLogin == "confirm"

\* order_ref_, then req_settlement_confirm.
StoreRef ==
    /\ storing.step = "ref"
    /\ order_ref' = Granted.max_ref
    /\ storing' = NotStoring
    /\ stored' = storing.number
    /\ Ask(AfterLogin)
    /\ raced' = (raced \/ Sending)
    /\ UNCHANGED <<connect_status, login_status, session_id, front_id, call, link,
                   authenticated, serving, logins, breaks, news, orderVars>>

\* Both answers are logged, nothing else.
OnRspSettlementInfoConfirm ==
    /\ Upcoming("confirmed") \/ Upcoming("confirm rejected")
    /\ news' = Tail(news)
    /\ UNCHANGED <<members, storing, call, frontVars, orderVars, raced, rejected>>

----------------------------------------------------------------------------
(* send_order and cancel_order, on the event thread.                        *)

\* A slip: the session is left out of the id.
OrderIdOfRef(session, ref) == ref

OrderId(session, ref) == session + ref

\* A slip: order_ref_ is not incremented.
RefAfterSame(ref) == ref

RefAfter(ref) == ref + 1

SendBegin ==
    /\ call = NoCall
    /\ sends < MaxSends
    /\ sends' = sends + 1
    /\ call' = [op |-> "load", session |-> session_id]
    /\ raced' = (raced \/ storing # NotStoring \/ ~login_status)
    /\ UNCHANGED <<members, storing, frontVars, news, placed, withdrawn, meant, rejected>>

LoadRef ==
    /\ call.op = "load"
    /\ call' = [op |-> "insert", session |-> call.session, ref |-> order_ref]
    /\ UNCHANGED <<members, storing, frontVars, news, orderVars, raced, rejected>>

\* ReqOrderInsert.  Only a session takes an order; the API may refuse it, or the front reject it.
SendEnd ==
    /\ call.op = "insert"
    /\ order_ref' = RefAfter(call.ref)
    /\ \/ /\ serving # 0
          /\ placed' = placed \cup {[id  |-> OrderId(call.session, call.ref),
                                     in  |-> serving,
                                     nth |-> sends]}
       \/ /\ serving = 0 \/ MayReject
          /\ UNCHANGED placed
    /\ call' = NoCall
    /\ UNCHANGED <<connect_status, login_status, session_id, front_id, stored, storing,
                   frontVars, news, sends, withdrawn, meant, raced, rejected>>

\* The orders that the front finds under a front, a session and an OrderRef.
Found(front, session, id) ==
    {o \in placed : /\ o.id = id
                    /\ SessionOf[o.in].front = front
                    /\ SessionOf[o.in].session = session}

CancelBegin(o) ==
    /\ call = NoCall
    /\ o \notin meant
    /\ meant' = meant \cup {o}
    /\ call' = [op |-> "cancel", front |-> front_id, id |-> o.id]
    /\ UNCHANGED <<members, storing, frontVars, news, sends, placed, withdrawn, raced,
                   rejected>>

\* ReqOrderAction.  It, too, may come to nothing.
CancelEnd ==
    /\ call.op = "cancel"
    /\ \/ /\ serving # 0
          /\ withdrawn' = withdrawn \cup Found(call.front, session_id, call.id)
       \/ /\ serving = 0 \/ MayReject
          /\ UNCHANGED withdrawn
    /\ call' = NoCall
    /\ UNCHANGED <<members, storing, frontVars, news, sends, placed, meant, raced, rejected>>

----------------------------------------------------------------------------

Callbacks ==
    \/ OnFrontConnected \/ OnFrontDisconnected \/ OnRspAuthenticate \/ OnRspUserLogin
    \/ StoreSession \/ StoreFront \/ StoreRef \/ OnRspSettlementInfoConfirm

Requests ==
    SendBegin \/ LoadRef \/ SendEnd \/ (\E o \in placed : CancelBegin(o)) \/ CancelEnd

Front == Establish \/ Break \/ AnswerAuthenticate \/ AnswerLogin \/ AnswerConfirm

Next == Front \/ Callbacks \/ Requests

Spec == Init /\ [][Next]_vars

(* The API library reconnects, the front answers, the API thread runs.      *)
Fairness ==
    /\ WF_vars(Establish)
    /\ WF_vars(AnswerAuthenticate)
    /\ WF_vars(AnswerLogin)
    /\ WF_vars(AnswerConfirm)
    /\ WF_vars(Callbacks)

FairSpec == Spec /\ Fairness

td_connect == connect_status /\ login_status

----------------------------------------------------------------------------
(* Correctness.                                                             *)

NewsType ==
    [what : {"connected", "disconnected", "authenticated", "auth rejected",
             "login rejected", "confirmed", "confirm rejected"}, number : {0}]
        \cup [what : {"login"}, number : Numbers]

Order == [id : Int, in : Numbers, nth : Nat]

CallType ==
    {NoCall}
        \cup [op : {"load"}, session : Int]
        \cup [op : {"insert"}, session : Int, ref : Int]
        \cup [op : {"cancel"}, front : Int, id : Int]

\* The types of the members of CtpTd, of its two threads and of the front; there is at
\* most one login for each connection.
TypeOK ==
    /\ connect_status \in BOOLEAN /\ login_status \in BOOLEAN
    /\ session_id \in Int /\ front_id \in Int /\ order_ref \in Int
    /\ storing \in {NotStoring} \cup [step : {"session", "front", "ref"}, number : Numbers]
    /\ stored \in {0} \cup Numbers
    /\ call \in CallType
    /\ link \in BOOLEAN
    /\ asked \in {"nothing", "authenticate", "login", "confirm"}
    /\ authenticated \in BOOLEAN
    /\ serving \in {0} \cup Numbers
    /\ logins \in 0 .. breaks + 1
    /\ news \in Seq(NewsType)
    /\ breaks \in 0 .. MaxBreaks
    /\ sends \in 0 .. MaxSends
    /\ placed \subseteq Order
    /\ withdrawn \subseteq placed /\ meant \subseteq placed
    /\ raced \in BOOLEAN /\ rejected \in BOOLEAN

\* The API thread has nothing left to do.
Quiet == storing = NotStoring /\ news = <<>>

\* The ids that a session may give lie apart from those of every other session.
SessionsApart ==
    \A j, k \in Numbers : \A m, n \in 0 .. MaxSends :
        SessionOf[j].session + SessionOf[j].max_ref + m
            = SessionOf[k].session + SessionOf[k].max_ref + n => j = k

\* No two orders get the same id, over all sessions, so a report can be matched to its
\* SmartOrder by the id alone.  An order that is being sent while a login is stored may
\* get an id of the old session with a number of the new one: those runs are set apart.
IdsAreFresh ==
    SessionsApart /\ ~raced => \A o, p \in placed : o.id = p.id => o = p

\* A cancel request withdraws no other order than the one it is for, although the
\* session and the front may have changed since that order was sent.
NoWrongCancel == SessionsApart /\ ~raced => withdrawn \subseteq meant

\* The orders of the session can be cancelled: with the login stored, the members name
\* the session that the front serves.
SessionCanCancel ==
    SessionsApart /\ ~raced /\ Quiet =>
        \A o \in placed : o.in = serving => Found(front_id, session_id, o.id) = {o}

\* Nobody waits for a login that nobody asks for: with the connection up and no request or
\* callback outstanding the trader is logged in, although late callbacks of an earlier
\* connection ask again, or ask too early, and login_status_ is left over from it.  The one
\* exception is that the latest request was refused by the API or rejected by the front: the
\* code logs that and does not ask again before the next connection.
NotStranded ==
    link /\ Quiet /\ asked = "nothing" /\ ~rejected => td_connect /\ serving # 0

\* A trader whose requests are not for ever refused or rejected ends up logged in, after any
\* number of breaks: what an earlier connection was refused does no harm to the next.
LogsIn == <>[]~rejected => <>[](td_connect /\ serving # 0)

\* kill() cancels the order it is called for.
KillNamesOrder ==
    ~raced /\ Quiet /\ serving # 0 =>
        \A o \in placed : Found(front_id, session_id, o.id) = {o}
=============================================================================
