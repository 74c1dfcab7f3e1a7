---------------------------- MODULE CtpTd_proofs ----------------------------
(***************************************************************************)
(* Proofs about CtpTd, for any answers of the front, any number of breaks  *)
(* and of orders: the types, with at most one login for each connection;   *)
(* then that ids are fresh, that a cancel request withdraws no other order *)
(* than the one it is for, that the orders of the session can be cancelled *)
(* and that the login never gets lost.                                     *)
(***************************************************************************)
EXTENDS CtpTd, FiniteSetTheorems, TLAPS

USE SessionsAssumption, GarbageAssumption, FlagAssumption, BoundsAssumption

(***************************************************************************)
(* The inductive invariants.                                               *)
(***************************************************************************)

\* The callbacks that will lead to a login request, and the requests that are or will
\* become one.
Leading(s) == {i \in DOMAIN s : s[i].what \in {"connected", "authenticated"}}

Asking(request) == IF request \in {"authenticate", "login"} THEN 1 ELSE 0

Connections == breaks + (IF link THEN 1 ELSE 0)

\* Every login that was answered, and every one that can still be, has a connection of its
\* own.
LoginsBounded == logins + Asking(asked) + Cardinality(Leading(news)) <= Connections

IsLogin(i) == news[i].what = "login"

\* The callbacks of the logins are in the order of the logins, behind the one that is being
\* stored, and the last login is stored unless its callback is still to come.
LoginsInOrder ==
    /\ serving \in {0, logins}
    /\ stored <= logins
    /\ storing # NotStoring => stored < storing.number /\ storing.number <= logins
    /\ \A i \in DOMAIN news : IsLogin(i) =>
          stored < news[i].number /\ storing.number < news[i].number /\ news[i].number <= logins
    /\ \A i, j \in DOMAIN news : i < j /\ IsLogin(i) /\ IsLogin(j) =>
          news[i].number < news[j].number
    /\ logins = stored \/ logins = storing.number
          \/ \E i \in DOMAIN news : IsLogin(i) /\ news[i].number = logins
    /\ login_status => stored > 0 \/ storing # NotStoring

Blank(op) == op \notin {"load", "insert"}

\* The orders sent so far, without the one being sent.
Sent == IF Blank(call.op) THEN sends ELSE sends - 1

\* An order is sent between two logins: once one is stored and before another is.
SentInBetween ==
    ~Blank(call.op) => stored > 0 /\ storing.step \in {"none", "session"}

\* The members belong to one login unless another is being stored.
MembersAgree ==
    stored > 0 /\ storing.step \in {"none", "session"} =>
        /\ session_id = SessionOf[stored].session
        /\ front_id = SessionOf[stored].front
        /\ order_ref - SessionOf[stored].max_ref \in 0 .. Sent

\* What has been stored of the login that is being stored.
StoredSoFar ==
    /\ storing.step \in {"front", "ref"} => session_id = SessionOf[storing.number].session
    /\ storing.step = "ref" => front_id = SessionOf[storing.number].front

\* What the event thread has loaded is still what the members hold.
LoadsHold ==
    /\ ~Blank(call.op) => call.session = session_id
    /\ call.op = "insert" => call.ref = order_ref

BlockStart(k) == SessionOf[k].session + SessionOf[k].max_ref

\* Every order has an id of a login that was stored, below the next one.
IdsInBlocks ==
    \A o \in placed : \E k \in 1 .. stored :
        /\ o.id - BlockStart(k) \in 0 .. MaxSends
        /\ k = stored /\ storing.step \in {"none", "session"} =>
              o.id < session_id + order_ref

\* A cancel request carries the id of an order the program meant to cancel.
CancelMeant == call.op = "cancel" => \E o \in meant : o.id = call.id

----------------------------------------------------------------------------
(* Sequences of callbacks.                                                  *)

\* Only finitely many callbacks are waiting.
LEMMA LeadingFinite ==
    ASSUME NEW s \in Seq(NewsType)
    PROVE  IsFiniteSet(Leading(s)) /\ Cardinality(Leading(s)) \in Nat
<1>1. IsFiniteSet(1 .. Len(s)) /\ Leading(s) \in SUBSET (1 .. Len(s))
    BY FS_Interval DEF Leading
<1>. QED BY <1>1, FS_Subset, FS_CardinalityType

\* A new callback counts if it leads to a login.
LEMMA LeadingAppend ==
    ASSUME NEW s \in Seq(NewsType), NEW e \in NewsType
    PROVE  /\ e.what \in {"connected", "authenticated"} =>
                Cardinality(Leading(Append(s, e))) = Cardinality(Leading(s)) + 1
           /\ e.what \notin {"connected", "authenticated"} =>
                Cardinality(Leading(Append(s, e))) = Cardinality(Leading(s))
<1>1. Len(s) + 1 \notin Leading(s) /\ IsFiniteSet(Leading(s)) /\ Cardinality(Leading(s)) \in Nat
    BY LeadingFinite DEF Leading
<1>2. CASE e.what \in {"connected", "authenticated"}
    <2>1. Leading(Append(s, e)) = Leading(s) \cup {Len(s) + 1}
        BY <1>2 DEF Leading
    <2>. QED BY <1>1, <1>2, <2>1, FS_AddElement
<1>3. CASE e.what \notin {"connected", "authenticated"}
    <2>1. Leading(Append(s, e)) = Leading(s)
        BY <1>3 DEF Leading
    <2>. QED BY <1>1, <1>3, <2>1
<1>. QED BY <1>2, <1>3

\* A callback that is run no longer counts.
LEMMA LeadingTail ==
    ASSUME NEW s \in Seq(NewsType), s # <<>>
    PROVE  /\ Head(s).what \in {"connected", "authenticated"} =>
                Cardinality(Leading(Tail(s))) = Cardinality(Leading(s)) - 1
           /\ Head(s).what \notin {"connected", "authenticated"} =>
                Cardinality(Leading(Tail(s))) = Cardinality(Leading(s))
<1>. DEFINE T == Leading(Tail(s))
            R == Leading(s) \ {1}
            f == [i \in T |-> i + 1]
<1>1. IsFiniteSet(Leading(s)) /\ Cardinality(Leading(s)) \in Nat
    BY LeadingFinite
<1>2. Tail(s) \in Seq(NewsType) /\ Len(Tail(s)) = Len(s) - 1 /\ Len(s) \in Nat \ {0}
      /\ \A i \in 1 .. Len(s) - 1 : Tail(s)[i] = s[i + 1]
    OBVIOUS
<1>3. f \in Bijection(T, R)
    <2>1. f \in [T -> R]
        BY <1>2 DEF Leading
    <2>2. \A i, j \in T : f[i] = f[j] => i = j
        BY <1>2 DEF Leading
    <2>3. \A k \in R : \E i \in T : f[i] = k
        <3> SUFFICES ASSUME NEW k \in R PROVE k - 1 \in T /\ f[k - 1] = k
            OBVIOUS
        <3>1. k \in 2 .. Len(s) /\ s[k].what \in {"connected", "authenticated"}
            BY <1>2 DEF Leading
        <3>2. k - 1 \in 1 .. Len(Tail(s)) /\ Tail(s)[k - 1] = s[k]
            BY <1>2, <3>1
        <3>3. k - 1 \in T
            BY <1>2, <3>1, <3>2 DEF Leading
        <3>. QED BY <3>1, <3>3
    <2>. QED BY <2>1, <2>2, <2>3 DEF Bijection, Injection, Surjection, IsInjective
<1>4. IsFiniteSet(T)
    BY <1>2, LeadingFinite
<1>5. Cardinality(R) = Cardinality(T)
    BY <1>3, <1>4, FS_Bijection DEF ExistsBijection
<1>6. Cardinality(R) = IF 1 \in Leading(s) THEN Cardinality(Leading(s)) - 1
                        ELSE Cardinality(Leading(s))
    BY <1>1, FS_RemoveElement
<1>7. 1 \in Leading(s) <=> Head(s).what \in {"connected", "authenticated"}
    BY <1>2 DEF Leading
<1>. QED BY <1>1, <1>5, <1>6, <1>7

----------------------------------------------------------------------------
(* Types.                                                                   *)

Answers == {"connected", "disconnected", "authenticated", "auth rejected",
            "login rejected", "confirmed", "confirm rejected"}

\* The callbacks that the front causes are callbacks.
LEMMA NewsOf ==
    /\ \A what \in Answers : News(what, 0) \in NewsType /\ News(what, 0).what = what
    /\ \A k \in Numbers :
          /\ News("login", k) \in NewsType
          /\ News("login", k).what = "login" /\ News("login", k).number = k
BY DEF News, NewsType, Answers

\* A new callback goes to the end of the queue.
LEMMA NewsAdded ==
    ASSUME news \in Seq(NewsType)
    PROVE  /\ \A what \in Answers : Append(news, News(what, 0)) \in Seq(NewsType)
           /\ \A k \in Numbers : Append(news, News("login", k)) \in Seq(NewsType)
<1>1. \A e \in NewsType : Append(news, e) \in Seq(NewsType)
    OBVIOUS
<1>. QED BY <1>1, NewsOf

\* A callback that is run leaves the queue; the number of a login is a number.
LEMMA HeadType ==
    ASSUME news \in Seq(NewsType), news # <<>>
    PROVE  /\ Tail(news) \in Seq(NewsType)
           /\ Head(news) \in NewsType
           /\ Head(news).what = "login" => Head(news).number \in Numbers
<1>1. Head(news) \in NewsType /\ Tail(news) \in Seq(NewsType)
    OBVIOUS
<1>. QED BY <1>1 DEF NewsType

\* The stages of a call and what they have loaded.
LEMMA CallStages ==
    ASSUME call \in CallType
    PROVE  /\ call.op \in {"none", "load", "insert", "cancel"}
           /\ call.op = "none" <=> call = NoCall
           /\ call.op \in {"load", "insert"} => call.session \in Int
           /\ call.op = "insert" => call.ref \in Int
           /\ call.op = "cancel" => call.id \in Int /\ call.front \in Int
BY DEF CallType, NoCall

\* The stages of storing a login.
LEMMA StoringStages ==
    ASSUME storing \in {NotStoring} \cup [step : {"session", "front", "ref"}, number : Numbers]
    PROVE  /\ storing.step \in {"none", "session", "front", "ref"}
           /\ storing.number \in {0} \cup Numbers
           /\ storing.step = "none" <=> storing = NotStoring
           /\ storing = NotStoring => storing.number = 0
           /\ storing # NotStoring => storing.number \in Numbers
           /\ storing.number \in Numbers =>
                /\ SessionOf[storing.number] \in Session
                /\ Granted \in Session
           /\ storing # NotStoring => \A x \in {"front", "ref"} :
                /\ [storing EXCEPT !.step = x]
                     \in [step : {"session", "front", "ref"}, number : Numbers]
                /\ [storing EXCEPT !.step = x].step = x
                /\ [storing EXCEPT !.step = x].number = storing.number
<1>1. 0 \notin Numbers
    BY DEF Numbers
<1>. QED BY <1>1 DEF NotStoring, Granted

\* Every callback, every step of the event thread and every move of the front keep the
\* types, as long as no connection has two logins.
LEMMA TypeStep == TypeOK /\ LoginsBounded /\ [Next]_vars => TypeOK'
<1> SUFFICES ASSUME TypeOK, LoginsBounded, [Next]_vars PROVE TypeOK'
    OBVIOUS
<1>. USE DEF TypeOK, members, frontVars, orderVars, vars
<1>1. CASE Establish
    <2>1. news' \in Seq(NewsType)
        BY <1>1, NewsAdded DEF Answers, Establish
    <2>. QED BY <1>1, <2>1 DEF Establish
<1>2. CASE Break
    <2>1. news' \in Seq(NewsType)
        BY <1>2, NewsAdded DEF Answers, Break
    <2>2. breaks' \in 0 .. MaxBreaks /\ logins' \in 0 .. breaks' + 1
        BY <1>2 DEF Break
    <2>. QED BY <1>2, <2>1, <2>2 DEF Break
<1>3. CASE AnswerAuthenticate
    <2>1. \E what \in {"authenticated", "auth rejected"} : news' = Append(news, News(what, 0))
        BY <1>3 DEF AnswerAuthenticate
    <2>2. news' \in Seq(NewsType)
        BY <2>1, NewsAdded DEF Answers
    <2>3. /\ UNCHANGED <<members, storing, call, link, serving, logins, breaks, orderVars, raced>>
          /\ asked' = "nothing" /\ authenticated' \in BOOLEAN /\ rejected' \in BOOLEAN
        BY <1>3 DEF AnswerAuthenticate
    <2>. QED BY <2>2, <2>3
<1>4. CASE AnswerLogin
    <2>1. UNCHANGED <<members, storing, call, link, authenticated, breaks, orderVars, raced>>
          /\ asked' = "nothing" /\ rejected' \in BOOLEAN
        BY <1>4 DEF AnswerLogin
    <2>2. CASE logins' = logins + 1 /\ serving' = logins + 1
               /\ news' = Append(news, News("login", logins + 1))
        <3>1. logins + 1 <= breaks + 1
            <4>1. Cardinality(Leading(news)) \in Nat
                BY LeadingFinite
            <4>2. Asking(asked) = 1
                BY <1>4 DEF AnswerLogin, Asking
            <4>. QED BY <4>1, <4>2 DEF LoginsBounded, Connections
        <3>2. logins + 1 \in Numbers
            BY <3>1 DEF Numbers
        <3>3. news' \in Seq(NewsType)
            BY <2>2, <3>2, NewsAdded DEF Answers
        <3>. QED BY <2>1, <2>2, <3>1, <3>2, <3>3
    <2>3. CASE UNCHANGED <<logins, serving>>
               /\ news' = Append(news, News("login rejected", 0))
        <3>1. news' \in Seq(NewsType)
            BY <2>3, NewsAdded DEF Answers
        <3>. QED BY <2>1, <2>3, <3>1
    <2>. QED BY <1>4, <2>2, <2>3 DEF AnswerLogin
<1>5. CASE AnswerConfirm
    <2>1. \E what \in {"confirmed", "confirm rejected"} : news' = Append(news, News(what, 0))
        BY <1>5 DEF AnswerConfirm
    <2>2. news' \in Seq(NewsType)
        BY <2>1, NewsAdded DEF Answers
    <2>3. /\ UNCHANGED <<members, storing, call, link, authenticated, serving, logins, breaks,
                         orderVars, raced>>
          /\ asked' = "nothing" /\ rejected' \in BOOLEAN
        BY <1>5 DEF AnswerConfirm
    <2>. QED BY <2>2, <2>3
<1>6. CASE OnFrontConnected
    <2>1. news' \in Seq(NewsType)
        BY <1>6, HeadType DEF OnFrontConnected, Upcoming
    <2>. QED BY <1>6, <2>1 DEF OnFrontConnected, Ask
<1>7. CASE OnFrontDisconnected
    <2>1. news' \in Seq(NewsType)
        BY <1>7, HeadType DEF OnFrontDisconnected, Upcoming
    <2>2. /\ UNCHANGED <<login_status, session_id, front_id, order_ref, stored, storing, call>>
          /\ UNCHANGED <<frontVars, orderVars, raced, rejected>>
        BY <1>7 DEF OnFrontDisconnected
    <2>3. connect_status' \in BOOLEAN
        BY <1>7, Zenon DEF OnFrontDisconnected
    <2>. QED BY <2>1, <2>2, <2>3
<1>8. CASE OnRspAuthenticate
    <2>1. news' \in Seq(NewsType)
        BY <1>8, HeadType DEF OnRspAuthenticate, Upcoming
    <2>2. asked' \in {"login", asked}
        BY <1>8 DEF OnRspAuthenticate, Ask, AfterAuthenticate
    <2>3. /\ UNCHANGED <<members, storing, call, link, authenticated, serving, logins, breaks,
                         orderVars, raced>>
          /\ rejected' \in BOOLEAN
        BY <1>8 DEF OnRspAuthenticate, Ask
    <2>. QED BY <2>1, <2>2, <2>3
<1>9. CASE OnRspUserLogin
    <2>1. news' \in Seq(NewsType)
        BY <1>9, HeadType DEF OnRspUserLogin, Upcoming
    <2>2. Head(news).what = "login" => Head(news).number \in Numbers
        BY <1>9, HeadType DEF OnRspUserLogin, Upcoming
    <2>3. UNCHANGED <<connect_status, session_id, front_id, order_ref, stored, call, frontVars,
                      orderVars, raced, rejected>>
        BY <1>9 DEF OnRspUserLogin
    <2>4. CASE /\ Head(news).what = "login"
               /\ login_status' = TRUE
               /\ storing' = [step |-> "session", number |-> Head(news).number]
        <3>1. storing' \in [step : {"session", "front", "ref"}, number : Numbers]
            BY <2>2, <2>4
        <3>. QED BY <2>1, <2>3, <2>4, <3>1
    <2>5. CASE UNCHANGED <<login_status, storing>>
        BY <2>1, <2>3, <2>5
    <2>. QED BY <1>9, <2>4, <2>5 DEF OnRspUserLogin, Upcoming
<1>10. CASE StoreSession
    <2>1. storing.number \in Numbers /\ Granted.session \in Int
          /\ storing' \in [step : {"session", "front", "ref"}, number : Numbers]
        BY <1>10, StoringStages DEF StoreSession, Session, NotStoring
    <2>. QED BY <1>10, <2>1 DEF StoreSession
<1>11. CASE StoreFront
    <2>1. storing.number \in Numbers /\ Granted.front \in Int
          /\ storing' \in [step : {"session", "front", "ref"}, number : Numbers]
        BY <1>11, StoringStages DEF StoreFront, Session, NotStoring
    <2>. QED BY <1>11, <2>1 DEF StoreFront
<1>12. CASE StoreRef
    <2>1. storing.number \in Numbers /\ Granted.max_ref \in Int
        BY <1>12, StoringStages DEF StoreRef, Session, NotStoring
    <2>. QED BY <1>12, <2>1 DEF StoreRef, Ask, AfterLogin
<1>13. CASE OnRspSettlementInfoConfirm
    <2>1. news' \in Seq(NewsType)
        BY <1>13, HeadType DEF OnRspSettlementInfoConfirm, Upcoming
    <2>2. UNCHANGED <<members, storing, call, frontVars, orderVars, raced, rejected>>
        BY <1>13 DEF OnRspSettlementInfoConfirm
    <2>. QED BY <2>1, <2>2
<1>14. CASE SendBegin
    <2>1. call' \in CallType /\ sends' \in 0 .. MaxSends
        BY <1>14 DEF SendBegin, CallType
    <2>. QED BY <1>14, <2>1 DEF SendBegin
<1>15. CASE LoadRef
    <2>1. call' \in CallType
        BY <1>15, CallStages DEF LoadRef, CallType
    <2>. QED BY <1>15, <2>1 DEF LoadRef
<1>16. CASE SendEnd
    <2>1. call.session \in Int /\ call.ref \in Int
        BY <1>16, CallStages DEF SendEnd
    <2>2. placed' \subseteq Order /\ placed \subseteq placed'
        BY <1>16, <2>1 DEF SendEnd, Order, OrderId
    <2>3. order_ref' \in Int
        BY <1>16, <2>1 DEF SendEnd, RefAfter
    <2>. QED BY <1>16, <2>2, <2>3 DEF SendEnd, CallType
<1>17. ASSUME NEW o \in placed, CancelBegin(o) PROVE TypeOK'
    <2>1. o.id \in Int
        BY DEF Order
    <2>2. call' \in CallType
        BY <1>17, <2>1 DEF CancelBegin, CallType
    <2>. QED BY <1>17, <2>2 DEF CancelBegin
<1>18. CASE CancelEnd
    <2>1. withdrawn' \subseteq placed
        BY <1>18 DEF CancelEnd, Found
    <2>. QED BY <1>18, <2>1 DEF CancelEnd, CallType
<1>19. CASE UNCHANGED vars
    BY <1>19
<1>. QED
    BY <1>1, <1>2, <1>3, <1>4, <1>5, <1>6, <1>7, <1>8, <1>9, <1>10, <1>11, <1>12, <1>13,
       <1>14, <1>15, <1>16, <1>17, <1>18, <1>19 DEF Next, Front, Callbacks, Requests

\* The four numbers are numbers.
LEMMA CountsType ==
    ASSUME TypeOK
    PROVE  /\ Cardinality(Leading(news)) \in Nat /\ logins \in Nat /\ Connections \in Nat
           /\ Asking(asked) \in 0 .. 1
BY LeadingFinite DEF TypeOK, Connections, Asking

\* Each connection causes one callback, and a callback at most one request, so the logins
\* do not outnumber the connections.
LEMMA LoginsStep == TypeOK /\ TypeOK' /\ LoginsBounded /\ [Next]_vars => LoginsBounded'
<1>. SUFFICES ASSUME TypeOK, TypeOK', LoginsBounded, [Next]_vars PROVE LoginsBounded'
    OBVIOUS
<1>1. PICK l \in Nat, a \in 0 .. 1, n \in Nat, c \in Nat :
         logins = l /\ Asking(asked) = a /\ Cardinality(Leading(news)) = n /\ Connections = c
    BY CountsType
<1>2. /\ Cardinality(Leading(news')) \in Nat /\ logins' \in Nat /\ Connections' \in Nat
      /\ Asking(asked') \in 0 .. 1
    <2>1. news' \in Seq(NewsType) /\ logins' \in Nat /\ breaks' \in Nat
        BY DEF TypeOK
    <2>3. Asking(asked') \in 0 .. 1
        BY DEF Asking
    <2>4. Cardinality(Leading(news')) \in Nat
        BY <2>1, LeadingFinite
    <2>5. Connections' = breaks' + 1 \/ Connections' = breaks' + 0
        BY DEF Connections
    <2>6. Connections' \in Nat
        BY <2>1, <2>5
    <2>. QED BY <2>1, <2>3, <2>4, <2>6
<1>3. PICK l1 \in Nat, a1 \in 0 .. 1, n1 \in Nat, c1 \in Nat :
         /\ logins' = l1 /\ Asking(asked') = a1
         /\ Cardinality(Leading(news')) = n1 /\ Connections' = c1
    BY <1>2
<1>4. l + a + n <= c /\ news \in Seq(NewsType) /\ link \in BOOLEAN /\ breaks \in Nat
    BY <1>1 DEF LoginsBounded, TypeOK
<1>. SUFFICES l1 + a1 + n1 <= c1
    BY <1>3 DEF LoginsBounded
\* What a step adds to the news or takes from it.
<1>5. \A what \in Answers : news' = Append(news, News(what, 0)) =>
         /\ what \in {"connected", "authenticated"} => n1 = n + 1
         /\ what \notin {"connected", "authenticated"} => n1 = n
    BY <1>1, <1>3, <1>4, LeadingAppend, NewsOf
<1>6. \A k \in Numbers : news' = Append(news, News("login", k)) => n1 = n
    BY <1>1, <1>3, <1>4, LeadingAppend, NewsOf
<1>7. news # <<>> /\ news' = Tail(news) =>
         /\ Head(news).what \in {"connected", "authenticated"} => n1 = n - 1
         /\ Head(news).what \notin {"connected", "authenticated"} => n1 = n
    BY <1>1, <1>3, <1>4, LeadingTail
<1>8. news' = news => n1 = n
    BY <1>1, <1>3
<1>9. asked' = asked => a1 = a
    BY <1>1, <1>3
<1>10. (UNCHANGED <<link, breaks>>) => c1 = c
    BY <1>1, <1>3 DEF Connections
<1>. USE DEF members, frontVars, orderVars, vars
<1>11. CASE Establish
    <2>1. n1 = n + 1 /\ a1 = a /\ l1 = l
        BY <1>1, <1>3, <1>5, <1>9, <1>11 DEF Establish, Answers
    <2>2. c1 = c + 1
        BY <1>1, <1>3, <1>4, <1>11 DEF Establish, Connections
    <2>. QED BY <1>4, <2>1, <2>2
<1>12. CASE Break
    <2>1. n1 = n /\ a1 = 0 /\ l1 = l
        BY <1>1, <1>3, <1>5, <1>12 DEF Break, Answers, Asking
    <2>2. c1 = c
        BY <1>1, <1>3, <1>4, <1>12 DEF Break, Connections
    <2>. QED BY <1>4, <2>1, <2>2
<1>13. CASE AnswerAuthenticate
    <2>1. \E what \in Answers : news' = Append(news, News(what, 0))
        BY <1>13 DEF AnswerAuthenticate, Answers
    <2>2. n1 = n + 1 \/ n1 = n
        BY <1>5, <2>1
    <2>3. a = 1 /\ a1 = 0 /\ l1 = l /\ c1 = c
        BY <1>1, <1>3, <1>10, <1>13 DEF AnswerAuthenticate, Asking
    <2>. QED BY <1>4, <2>2, <2>3
<1>14. CASE AnswerLogin
    <2>1. a = 1 /\ a1 = 0 /\ c1 = c
        BY <1>1, <1>3, <1>10, <1>14 DEF AnswerLogin, Asking
    <2>2. CASE logins' = logins + 1 /\ news' = Append(news, News("login", logins + 1))
        <3>1. logins' \in Numbers
            <4>1. PICK b \in 0 .. MaxBreaks : breaks' = b
                BY DEF TypeOK
            <4>2. l1 \in 0 .. b + 1
                BY <1>3, <4>1 DEF TypeOK
            <4>3. l1 = l + 1
                BY <1>1, <1>3, <2>2
            <4>4. l1 \in Numbers
                BY <4>2, <4>3 DEF Numbers
            <4>. QED BY <1>3, <4>4
        <3>2. n1 = n /\ l1 = l + 1
            BY <1>1, <1>3, <1>6, <2>2, <3>1
        <3>. QED BY <1>4, <2>1, <3>2
    <2>3. CASE logins' = logins /\ news' = Append(news, News("login rejected", 0))
        <3>1. /\ "login rejected" \in Answers
              /\ "login rejected" \notin {"connected", "authenticated"}
            BY DEF Answers
        <3>2. n1 = n
            BY <1>5, <2>3, <3>1
        <3>3. l1 = l
            BY <1>1, <1>3, <2>3
        <3>. QED BY <1>4, <2>1, <3>2, <3>3
    <2>. QED BY <1>14, <2>2, <2>3 DEF AnswerLogin
<1>15. CASE AnswerConfirm
    <2>1. \E what \in Answers \ {"connected", "authenticated"} :
             news' = Append(news, News(what, 0))
        BY <1>15 DEF AnswerConfirm, Answers
    <2>2. n1 = n
        BY <1>5, <2>1
    <2>3. a1 = 0 /\ l1 = l /\ c1 = c
        BY <1>1, <1>3, <1>10, <1>15 DEF AnswerConfirm, Asking
    <2>. QED BY <1>4, <2>2, <2>3
<1>16. CASE OnFrontConnected
    <2>1. n1 = n - 1
        BY <1>7, <1>16 DEF OnFrontConnected, Upcoming
    <2>2. l1 = l /\ c1 = c
        BY <1>1, <1>3, <1>10, <1>16 DEF OnFrontConnected
    <2>. QED BY <1>4, <2>1, <2>2
<1>17. CASE OnRspAuthenticate
    <2>1. l1 = l /\ c1 = c
        BY <1>1, <1>3, <1>10, <1>17 DEF OnRspAuthenticate
    <2>2. CASE Upcoming("authenticated")
        <3>1. n1 = n - 1
            BY <1>7, <1>17, <2>2 DEF OnRspAuthenticate, Upcoming
        <3>. QED BY <1>4, <2>1, <3>1
    <2>3. CASE Upcoming("auth rejected") /\ UNCHANGED asked
        <3>1. news # <<>> /\ news' = Tail(news) /\ Head(news).what = "auth rejected"
            BY <1>17, <2>3 DEF OnRspAuthenticate, Upcoming
        <3>2. Head(news).what \notin {"connected", "authenticated"}
            BY <3>1
        <3>3. n1 = n
            BY <1>7, <3>1, <3>2
        <3>4. a1 = a
            BY <1>9, <2>3
        <3>. QED BY <1>4, <2>1, <3>3, <3>4
    <2>. QED BY <1>17, <2>2, <2>3 DEF OnRspAuthenticate
<1>18. CASE StoreRef
    <2>1. n1 = n /\ l1 = l /\ c1 = c
        BY <1>1, <1>3, <1>8, <1>10, <1>18 DEF StoreRef
    <2>2. asked' = "confirm" \/ asked' = asked
        BY <1>18 DEF StoreRef, Ask, AfterLogin
    <2>3. a1 <= a
        BY <1>3, <1>9, <2>2 DEF Asking
    <2>. QED BY <1>4, <2>1, <2>3
\* The other steps leave the requests alone.
<1>19. CASE UNCHANGED <<asked, logins, link, breaks>> /\ n1 <= n
    <2>1. a1 = a /\ l1 = l /\ c1 = c
        BY <1>1, <1>3, <1>9, <1>10, <1>19
    <2>. QED BY <1>4, <1>19, <2>1
<1>20. CASE OnFrontDisconnected \/ OnRspUserLogin \/ OnRspSettlementInfoConfirm
    <2>1. news # <<>> /\ news' = Tail(news) /\ UNCHANGED <<asked, logins, link, breaks>>
        BY <1>20
        DEF OnFrontDisconnected, OnRspUserLogin, OnRspSettlementInfoConfirm, Upcoming
    <2>. QED BY <1>7, <1>19, <2>1
<1>21. CASE news' = news /\ UNCHANGED <<asked, logins, link, breaks>>
    BY <1>8, <1>19, <1>21
<1>22. CASE StoreSession \/ StoreFront
    BY <1>21, <1>22 DEF StoreSession, StoreFront
<1>23. CASE Requests
    BY <1>21, <1>23 DEF Requests, SendBegin, LoadRef, SendEnd, CancelBegin, CancelEnd
<1>24. CASE UNCHANGED vars
    BY <1>21, <1>24
<1>. QED
    BY <1>11, <1>12, <1>13, <1>14, <1>15, <1>16, <1>17, <1>18, <1>20, <1>22, <1>23, <1>24
    DEF Next, Front, Callbacks

LEMMA InitTyped == Init => TypeOK /\ LoginsBounded
<1>. SUFFICES ASSUME Init PROVE TypeOK /\ LoginsBounded
    OBVIOUS
<1>1. news \in Seq(NewsType)
    BY DEF Init
<1>2. /\ logins \in 0 .. breaks + 1 /\ breaks \in 0 .. MaxBreaks /\ sends \in 0 .. MaxSends
      /\ session_id \in Int /\ front_id \in Int /\ order_ref \in Int
    BY DEF Init
<1>3. TypeOK
    BY <1>1, <1>2 DEF Init, TypeOK, CallType
<1>4. Leading(news) = {}
    BY DEF Init, Leading
<1>5. Cardinality(Leading(news)) = 0
    BY <1>4, FS_EmptySet
<1>6. Asking(asked) = 0 /\ logins = 0 /\ Connections = 0
    BY DEF Init, Asking, Connections
<1>7. LoginsBounded
    BY <1>5, <1>6 DEF LoginsBounded
<1>. QED BY <1>3, <1>7

\* The members, the threads and the front keep their types (TypeOK), and the front answers
\* at most one login for each connection, whenever it breaks.
THEOREM TypeCorrect == Spec => []TypeOK
<1>1. TypeOK /\ LoginsBounded /\ [Next]_vars => (TypeOK /\ LoginsBounded)'
    BY TypeStep, LoginsStep
<1>. QED BY <1>1, InitTyped, PTL DEF Spec

----------------------------------------------------------------------------
(* The order of the logins.                                                 *)

\* Where the callbacks are after one was added.
LEMMA AddedPlaces ==
    ASSUME NEW e \in NewsType, news \in Seq(NewsType), news' = Append(news, e)
    PROVE  /\ \A i \in DOMAIN news' : \/ i \in DOMAIN news /\ news'[i] = news[i]
                                      \/ i = Len(news) + 1 /\ news'[i] = e
           /\ \A i \in DOMAIN news : i \in DOMAIN news' /\ news'[i] = news[i]
           /\ Len(news) + 1 \in DOMAIN news' /\ news'[Len(news) + 1] = e
OBVIOUS

\* Where they are after the first was run.
LEMMA RunPlaces ==
    ASSUME news \in Seq(NewsType), news # <<>>, news' = Tail(news)
    PROVE  /\ \A i \in DOMAIN news' : i \in Nat /\ i + 1 \in DOMAIN news /\ news'[i] = news[i + 1]
           /\ \A i \in DOMAIN news :
                 i = 1 \/ (i \in Nat /\ i - 1 \in DOMAIN news' /\ news'[i - 1] = news[i])
           /\ 1 \in DOMAIN news /\ news[1] = Head(news)
           /\ DOMAIN news \subseteq Nat /\ DOMAIN news' \subseteq Nat
OBVIOUS

\* The numbers of the logins are numbers.
LEMMA LoginNumbers ==
    ASSUME news \in Seq(NewsType), NEW i \in DOMAIN news
    PROVE  IsLogin(i) => news[i].number \in Numbers
<1>1. news[i] \in NewsType
    OBVIOUS
<1>. QED BY <1>1 DEF NewsType, IsLogin

\* A callback that is not a login's changes nothing.
LEMMA OtherNewsAdded ==
    ASSUME TypeOK, LoginsInOrder, NEW e \in NewsType, e.what # "login",
           news' = Append(news, e), serving' \in {0, logins},
           UNCHANGED <<stored, storing, logins, login_status>>
    PROVE  LoginsInOrder'
<1>. USE DEF LoginsInOrder, IsLogin
<1>1. news \in Seq(NewsType)
    BY DEF TypeOK
<1>2. \A i \in DOMAIN news' : news'[i].what = "login" => i \in DOMAIN news /\ news'[i] = news[i]
    BY <1>1, AddedPlaces
<1>3. \A i \in DOMAIN news : i \in DOMAIN news' /\ news'[i] = news[i]
    BY <1>1, AddedPlaces
<1>. QED BY <1>2, <1>3

LEMMA OtherNewsRun ==
    ASSUME TypeOK, LoginsInOrder, news # <<>>, Head(news).what # "login", news' = Tail(news),
           UNCHANGED <<stored, storing, serving, logins, login_status>>
    PROVE  LoginsInOrder'
<1>. USE DEF LoginsInOrder, IsLogin
<1>1. news \in Seq(NewsType)
    BY DEF TypeOK
<1>2. \A i \in DOMAIN news' : i \in Nat /\ i + 1 \in DOMAIN news /\ news'[i] = news[i + 1]
    BY <1>1, RunPlaces
<1>3. \A i \in DOMAIN news : news[i].what = "login" =>
         i \in Nat /\ i - 1 \in DOMAIN news' /\ news'[i - 1] = news[i]
    BY <1>1, RunPlaces
<1>4. \A i, j \in Nat : i < j => i + 1 < j + 1
    OBVIOUS
<1>5. ASSUME NEW i \in DOMAIN news', NEW j \in DOMAIN news', i < j,
             IsLogin(i)', IsLogin(j)'
      PROVE  news'[i].number < news'[j].number
    BY <1>2, <1>4, <1>5
<1>6. ASSUME NEW i \in DOMAIN news', IsLogin(i)'
      PROVE  stored < news'[i].number /\ storing.number < news'[i].number
             /\ news'[i].number <= logins
    BY <1>2, <1>6
<1>7. logins = stored \/ logins = storing.number
         \/ \E i \in DOMAIN news' : IsLogin(i)' /\ news'[i].number = logins
    BY <1>3
<1>. QED BY <1>5, <1>6, <1>7

LEMMA OrderStep == TypeOK /\ TypeOK' /\ LoginsInOrder /\ [Next]_vars => LoginsInOrder'
<1>. SUFFICES ASSUME TypeOK, TypeOK', LoginsInOrder, [Next]_vars PROVE LoginsInOrder'
    OBVIOUS
<1>. USE DEF members, frontVars, orderVars, vars
<1>1. news \in Seq(NewsType) /\ logins \in Nat /\ stored \in Nat /\ storing.number \in Nat
    <2>1. storing.number \in {0} \cup Numbers
        BY StoringStages DEF TypeOK
    <2>2. stored \in {0} \cup Numbers /\ logins \in 0 .. breaks + 1 /\ breaks \in 0 .. MaxBreaks
          /\ news \in Seq(NewsType)
        BY DEF TypeOK
    <2>. QED BY <2>1, <2>2 DEF Numbers
<1>2. ASSUME NEW what \in Answers, news' = Append(news, News(what, 0)),
             serving' \in {0, logins}, UNCHANGED <<stored, storing, logins, login_status>>
      PROVE  LoginsInOrder'
    <2>1. News(what, 0).what # "login"
        BY NewsOf DEF Answers
    <2>. QED BY <1>2, <2>1, NewsOf, OtherNewsAdded
<1>3. CASE Establish
    BY <1>2, <1>3 DEF Establish, Answers, LoginsInOrder
<1>4. CASE Break
    BY <1>2, <1>4 DEF Break, Answers
<1>5. CASE AnswerAuthenticate
    BY <1>2, <1>5 DEF AnswerAuthenticate, Answers, LoginsInOrder
<1>6. CASE AnswerConfirm
    BY <1>2, <1>6 DEF AnswerConfirm, Answers, LoginsInOrder
<1>7. CASE AnswerLogin
    <2>1. CASE /\ logins' = logins + 1 /\ serving' = logins + 1
               /\ news' = Append(news, News("login", logins + 1))
               /\ UNCHANGED <<stored, storing, login_status>>
        <3>1. logins + 1 \in Numbers
            <4>1. serving' \in {0} \cup Numbers
                BY DEF TypeOK
            <4>. QED BY <1>1, <2>1, <4>1
        <3>. DEFINE e == News("login", logins + 1)
        <3>2. e \in NewsType /\ e.what = "login" /\ e.number = logins + 1
            BY <3>1, NewsOf
        <3>. HIDE DEF e
        <3>3. \A i \in DOMAIN news' : \/ i \in DOMAIN news /\ news'[i] = news[i]
                                      \/ i = Len(news) + 1 /\ news'[i] = e
            BY <1>1, <2>1, <3>2, AddedPlaces DEF e
        <3>4. /\ Len(news) + 1 \in DOMAIN news' /\ news'[Len(news) + 1] = e
              /\ \A i \in DOMAIN news : i \in Nat /\ i < Len(news) + 1
              /\ Len(news) \in Nat
            BY <1>1, <2>1, <3>2, AddedPlaces DEF e
        <3>5. \A i \in DOMAIN news : IsLogin(i) => news[i].number \in Nat
            BY <1>1, LoginNumbers DEF Numbers
        <3>6. ASSUME NEW i \in DOMAIN news', IsLogin(i)'
              PROVE  stored < news'[i].number /\ storing.number < news'[i].number
                     /\ news'[i].number <= logins + 1
            <4>1. CASE i \in DOMAIN news /\ news'[i] = news[i]
                <5>1. /\ stored < news[i].number /\ storing.number < news[i].number
                      /\ news[i].number <= logins /\ news[i].number \in Nat
                    BY <3>5, <3>6, <4>1 DEF LoginsInOrder, IsLogin
                <5>. QED BY <1>1, <4>1, <5>1
            <4>2. CASE news'[i] = e
                <5>1. stored <= logins /\ storing.number <= logins
                    <6>1. storing = NotStoring => storing.number = 0
                        BY DEF NotStoring
                    <6>. QED BY <1>1, <6>1 DEF LoginsInOrder
                <5>. QED BY <1>1, <3>2, <4>2, <5>1
            <4>. QED BY <3>3, <4>1, <4>2
        <3>7. ASSUME NEW i \in DOMAIN news', NEW j \in DOMAIN news', i < j,
                     IsLogin(i)', IsLogin(j)'
              PROVE  news'[i].number < news'[j].number
            <4>1. i \in DOMAIN news /\ news'[i] = news[i]
                <5>1. CASE i = Len(news) + 1
                    <6>1. j = Len(news) + 1 \/ (j \in Nat /\ j < Len(news) + 1)
                        BY <3>3, <3>4
                    <6>. QED BY <3>4, <3>7, <5>1, <6>1
                <5>. QED BY <3>3, <5>1
            <4>2. CASE j \in DOMAIN news /\ news'[j] = news[j]
                BY <3>7, <4>1, <4>2 DEF LoginsInOrder, IsLogin
            <4>3. CASE news'[j] = e
                <5>1. news[i].number <= logins /\ news[i].number \in Nat
                    BY <3>5, <3>7, <4>1 DEF LoginsInOrder, IsLogin
                <5>. QED BY <1>1, <3>2, <4>1, <4>3, <5>1
            <4>. QED BY <3>3, <4>2, <4>3
        <3>8. \E i \in DOMAIN news' : IsLogin(i)' /\ news'[i].number = logins'
            BY <2>1, <3>2, <3>4 DEF IsLogin
        <3>9. /\ stored <= logins + 1
              /\ storing # NotStoring => stored < storing.number /\ storing.number <= logins + 1
            BY <1>1 DEF LoginsInOrder
        <3>. QED BY <2>1, <3>6, <3>7, <3>8, <3>9 DEF LoginsInOrder
    <2>2. CASE /\ news' = Append(news, News("login rejected", 0))
               /\ UNCHANGED <<stored, storing, serving, logins, login_status>>
        BY <1>2, <2>2 DEF Answers, LoginsInOrder
    <2>. QED BY <1>7, <2>1, <2>2 DEF AnswerLogin
<1>9. CASE /\ news # <<>> /\ news' = Tail(news) /\ Head(news).what # "login"
           /\ UNCHANGED <<stored, storing, serving, logins, login_status>>
    BY <1>9, OtherNewsRun
<1>10. CASE OnFrontConnected
    BY <1>9, <1>10 DEF OnFrontConnected, Upcoming
<1>11. CASE OnFrontDisconnected
    BY <1>9, <1>11 DEF OnFrontDisconnected, Upcoming
<1>12. CASE OnRspAuthenticate
    BY <1>9, <1>12 DEF OnRspAuthenticate, Upcoming
<1>13. CASE OnRspSettlementInfoConfirm
    BY <1>9, <1>13 DEF OnRspSettlementInfoConfirm, Upcoming
<1>8. CASE OnRspUserLogin
    <2>1. CASE /\ storing = NotStoring /\ news # <<>> /\ Head(news).what = "login"
               /\ storing' = [step |-> "session", number |-> Head(news).number]
               /\ news' = Tail(news)
               /\ UNCHANGED <<stored, serving, logins>>
        <3>1. \A i \in DOMAIN news' : i \in Nat /\ i + 1 \in DOMAIN news /\ news'[i] = news[i + 1]
            BY <1>1, <2>1, RunPlaces
        <3>2. \A i \in DOMAIN news :
                 i = 1 \/ (i \in Nat /\ i - 1 \in DOMAIN news' /\ news'[i - 1] = news[i])
            BY <1>1, <2>1, RunPlaces
        <3>3. 1 \in DOMAIN news /\ IsLogin(1) /\ news[1].number = storing'.number
            BY <1>1, <2>1, RunPlaces DEF IsLogin
        <3>4. stored < storing'.number /\ storing'.number <= logins /\ storing.number = 0
            BY <2>1, <3>3 DEF LoginsInOrder, NotStoring
        <3>5. storing' # NotStoring
            BY <2>1 DEF NotStoring
        <3>6. ASSUME NEW i \in DOMAIN news', IsLogin(i)'
              PROVE  stored < news'[i].number /\ storing'.number < news'[i].number
                     /\ news'[i].number <= logins
            <4>1. i + 1 \in DOMAIN news /\ IsLogin(i + 1) /\ news'[i] = news[i + 1] /\ 1 < i + 1
                <5>1. i \in Nat /\ i # 0
                    BY <1>1, <2>1, <3>1
                <5>. QED BY <3>1, <3>6, <5>1 DEF IsLogin
            <4>. QED BY <3>3, <4>1 DEF LoginsInOrder
        <3>7. ASSUME NEW i \in DOMAIN news', NEW j \in DOMAIN news', i < j,
                     IsLogin(i)', IsLogin(j)'
              PROVE  news'[i].number < news'[j].number
            <4>1. i + 1 \in DOMAIN news /\ j + 1 \in DOMAIN news /\ i + 1 < j + 1
                  /\ news'[i] = news[i + 1] /\ news'[j] = news[j + 1]
                BY <3>1, <3>7
            <4>2. IsLogin(i + 1) /\ IsLogin(j + 1)
                BY <3>7, <4>1 DEF IsLogin
            <4>. QED BY <4>1, <4>2 DEF LoginsInOrder
        <3>8. \/ logins = stored \/ logins = storing'.number
              \/ \E i \in DOMAIN news' : IsLogin(i)' /\ news'[i].number = logins
            <4>1. logins = stored \/ logins = 0
                     \/ \E i \in DOMAIN news : IsLogin(i) /\ news[i].number = logins
                BY <3>4 DEF LoginsInOrder
            <4>2. CASE logins = 0
                <5>1. stored = 0
                    BY <1>1, <4>2 DEF LoginsInOrder
                <5>. QED BY <4>2, <5>1
            <4>3. ASSUME NEW i \in DOMAIN news, IsLogin(i), news[i].number = logins
                  PROVE  \/ logins = storing'.number
                         \/ \E k \in DOMAIN news' : IsLogin(k)' /\ news'[k].number = logins
                <5>1. CASE i = 1
                    BY <3>3, <4>3, <5>1
                <5>2. CASE i # 1
                    BY <3>2, <4>3, <5>2 DEF IsLogin
                <5>. QED BY <5>1, <5>2
            <4>. QED BY <4>1, <4>2, <4>3
        <3>9. serving \in {0, logins} /\ stored <= logins
            BY DEF LoginsInOrder
        <3>. QED BY <2>1, <3>4, <3>5, <3>6, <3>7, <3>8, <3>9 DEF LoginsInOrder
    <2>2. CASE /\ news # <<>> /\ news' = Tail(news) /\ Head(news).what = "login rejected"
               /\ UNCHANGED <<stored, storing, serving, logins, login_status>>
        BY <2>2, OtherNewsRun
    <2>. QED BY <1>8, <2>1, <2>2 DEF OnRspUserLogin, Upcoming
<1>14. CASE StoreSession \/ StoreFront
    <2>1. /\ storing # NotStoring /\ storing' # NotStoring /\ storing'.number = storing.number
          /\ UNCHANGED <<stored, serving, logins, login_status, news>>
        BY <1>14, StoringStages DEF StoreSession, StoreFront, TypeOK, NotStoring
    <2>. QED BY <2>1 DEF LoginsInOrder, IsLogin
<1>15. CASE StoreRef
    <2>1. /\ storing # NotStoring /\ storing' = NotStoring /\ stored' = storing.number
          /\ UNCHANGED <<serving, logins, login_status, news>>
        BY <1>15 DEF StoreRef, NotStoring
    <2>2. storing'.number = 0 /\ stored < storing.number /\ storing.number <= logins
        BY <2>1 DEF LoginsInOrder, NotStoring
    <2>3. \A i \in DOMAIN news : IsLogin(i) => 0 < news[i].number
        BY <1>1, LoginNumbers DEF Numbers
    <2>4. stored' > 0 /\ stored' <= logins
        BY <1>1, <2>1, <2>2
    <2>5. /\ \A i \in DOMAIN news : IsLogin(i) =>
               stored' < news[i].number /\ 0 < news[i].number /\ news[i].number <= logins
          /\ \A i, j \in DOMAIN news : i < j /\ IsLogin(i) /\ IsLogin(j) =>
               news[i].number < news[j].number
        BY <2>1, <2>3 DEF LoginsInOrder
    <2>6. logins = stored' \/ \E i \in DOMAIN news : IsLogin(i) /\ news[i].number = logins
        <3>1. CASE logins = stored
            BY <1>1, <2>2, <3>1
        <3>. QED BY <2>1, <3>1 DEF LoginsInOrder
    <2>7. serving \in {0, logins}
        BY DEF LoginsInOrder
    <2>. QED BY <2>1, <2>2, <2>4, <2>5, <2>6, <2>7 DEF LoginsInOrder, IsLogin
<1>16. CASE UNCHANGED <<stored, storing, serving, logins, login_status, news>>
    BY <1>16 DEF LoginsInOrder, IsLogin
<1>17. CASE Requests
    BY <1>16, <1>17 DEF Requests, SendBegin, LoadRef, SendEnd, CancelBegin, CancelEnd
<1>18. CASE UNCHANGED vars
    BY <1>16, <1>18
<1>. QED
    BY <1>3, <1>4, <1>5, <1>6, <1>7, <1>8, <1>10, <1>11, <1>12, <1>13, <1>14, <1>15, <1>17,
       <1>18 DEF Next, Front, Callbacks

----------------------------------------------------------------------------
(* The members and the ids.                                                 *)

\* What the front grants is a triple of numbers.
LEMMA GrantType ==
    ASSUME NEW k \in Numbers
    PROVE  /\ SessionOf[k].session \in Int /\ SessionOf[k].front \in Int
           /\ SessionOf[k].max_ref \in Int
BY DEF Session

\* OnRspUserLogin only marks that a login is to be stored.
LEMMA LoginMarked ==
    ASSUME OnRspUserLogin
    PROVE  storing.step = "none" /\ (storing' = storing \/ storing'.step = "session")
<1>1. storing = NotStoring
    BY DEF OnRspUserLogin, Upcoming
<1>2. CASE storing' = [step |-> "session", number |-> Head(news).number]
    BY <1>1, <1>2 DEF NotStoring
<1>3. CASE storing' = storing
    BY <1>1, <1>3 DEF NotStoring
<1>. QED BY <1>2, <1>3 DEF OnRspUserLogin

\* What has been stored of a login stays stored until the login is.
LEMMA StoredSoFarStep == TypeOK /\ StoredSoFar /\ [Next]_vars => StoredSoFar'
<1>. SUFFICES ASSUME TypeOK, StoredSoFar, [Next]_vars PROVE StoredSoFar'
    OBVIOUS
<1>. USE DEF StoredSoFar
<1>1. storing \in {NotStoring} \cup [step : {"session", "front", "ref"}, number : Numbers]
    BY DEF TypeOK
<1>2. CASE UNCHANGED <<session_id, front_id, storing>>
    BY <1>2
<1>3. CASE OnRspUserLogin
    <2>1. UNCHANGED <<session_id, front_id>> /\ (storing' = storing \/ storing'.step = "session")
        BY <1>3, LoginMarked DEF OnRspUserLogin
    <2>. QED BY <2>1
<1>4. CASE StoreSession
    <2>1. storing # NotStoring /\ storing' = [storing EXCEPT !.step = "front"]
        BY <1>4 DEF StoreSession, NotStoring
    <2>2. storing'.step = "front" /\ storing'.number = storing.number
        BY <1>1, <2>1, StoringStages
    <2>. QED BY <1>4, <2>2 DEF StoreSession, Granted
<1>5. CASE StoreFront
    <2>1. storing # NotStoring /\ storing' = [storing EXCEPT !.step = "ref"]
        BY <1>5 DEF StoreFront, NotStoring
    <2>2. storing'.step = "ref" /\ storing'.number = storing.number
        BY <1>1, <2>1, StoringStages
    <2>. QED BY <1>5, <2>2 DEF StoreFront, Granted
<1>6. CASE StoreRef
    BY <1>6 DEF StoreRef, NotStoring
<1>7. CASE Front
    BY <1>2, <1>7 DEF Front, Establish, Break, AnswerAuthenticate, AnswerLogin,
        AnswerConfirm, members
<1>8. CASE OnFrontConnected \/ OnFrontDisconnected \/ OnRspAuthenticate
               \/ OnRspSettlementInfoConfirm
    BY <1>2, <1>8 DEF OnFrontConnected, OnFrontDisconnected, OnRspAuthenticate,
        OnRspSettlementInfoConfirm, members
<1>9. CASE Requests
    BY <1>2, <1>9 DEF Requests, SendBegin, LoadRef, SendEnd, CancelBegin, CancelEnd, members
<1>10. CASE UNCHANGED vars
    BY <1>2, <1>10 DEF vars, members
<1>. QED
    BY <1>3, <1>4, <1>5, <1>6, <1>7, <1>8, <1>9, <1>10 DEF Next, Callbacks

Settled == SentInBetween /\ MembersAgree /\ LoadsHold

\* As long as no order is sent while a login is stored, the members belong to one login and
\* an order is sent with what they hold.
LEMMA SettledStep ==
    TypeOK /\ LoginsInOrder /\ StoredSoFar /\ (~raced => Settled) /\ [Next]_vars
        => (~raced => Settled)'
<1>. SUFFICES ASSUME TypeOK, LoginsInOrder, StoredSoFar, ~raced => Settled, [Next]_vars,
                     ~raced'
              PROVE  Settled'
    OBVIOUS
<1>1. /\ storing \in {NotStoring} \cup [step : {"session", "front", "ref"}, number : Numbers]
      /\ call \in CallType /\ sends \in Nat /\ order_ref \in Int
      /\ stored \in {0} \cup Numbers
    BY DEF TypeOK
<1>2. CASE /\ UNCHANGED <<session_id, front_id, order_ref, stored, call, sends, raced>>
           /\ storing' = storing \/ (storing.step = "none" /\ storing'.step = "session")
    BY <1>2 DEF Settled, SentInBetween, MembersAgree, LoadsHold, Blank, Sent
<1>3. CASE OnRspUserLogin
    <2>1. storing.step = "none" /\ (storing' = storing \/ storing'.step = "session")
        BY <1>3, LoginMarked
    <2>. QED BY <1>2, <1>3, <2>1 DEF OnRspUserLogin, orderVars
<1>4. CASE StoreSession \/ StoreFront
    <2>1. /\ ~raced /\ Blank(call.op) /\ call' = call
          /\ storing.step \in {"session", "front"}
          /\ storing' = [storing EXCEPT !.step = "front"]
                \/ storing' = [storing EXCEPT !.step = "ref"]
        BY <1>4 DEF StoreSession, StoreFront, Sending, Blank
    <2>2. storing # NotStoring
        BY <2>1 DEF NotStoring
    <2>3. storing'.step \in {"front", "ref"}
        BY <1>1, <2>1, <2>2, StoringStages
    <2>. QED BY <2>1, <2>3 DEF Settled, SentInBetween, MembersAgree, LoadsHold, Blank
<1>5. CASE StoreRef
    <2>1. /\ ~raced /\ Blank(call.op) /\ call' = call /\ sends' = sends
          /\ storing.step = "ref" /\ stored' = storing.number
          /\ order_ref' = SessionOf[storing.number].max_ref
          /\ UNCHANGED <<session_id, front_id>>
        BY <1>5 DEF StoreRef, Sending, Blank, Granted, orderVars
    <2>2. storing.number \in Numbers
        BY <1>1, <2>1, StoringStages DEF NotStoring
    <2>3. SessionOf[storing.number].max_ref \in Int
        BY <2>2, GrantType
    <2>4. order_ref' - SessionOf[stored'].max_ref = 0
        BY <2>1, <2>3
    <2>5. MembersAgree'
        BY <1>1, <2>1, <2>4 DEF MembersAgree, StoredSoFar, Sent
    <2>. QED BY <2>1, <2>5 DEF Settled, SentInBetween, LoadsHold, Blank
<1>6. CASE SendBegin
    <2>1. /\ ~raced /\ storing = NotStoring /\ login_status
          /\ call = NoCall /\ call' = [op |-> "load", session |-> session_id]
          /\ sends' = sends + 1
          /\ UNCHANGED <<session_id, front_id, order_ref, stored, storing>>
        BY <1>6 DEF SendBegin, members
    <2>2. stored > 0 /\ storing.step = "none"
        BY <2>1 DEF LoginsInOrder, NotStoring
    <2>3. Sent = sends /\ Sent' = sends
        BY <1>1, <2>1 DEF Sent, Blank, NoCall
    <2>. QED BY <2>1, <2>2, <2>3 DEF Settled, SentInBetween, MembersAgree, LoadsHold, Blank
<1>7. CASE LoadRef
    <2>1. /\ ~raced /\ call.op = "load"
          /\ call' = [op |-> "insert", session |-> call.session, ref |-> order_ref]
          /\ UNCHANGED <<session_id, front_id, order_ref, stored, storing, sends>>
        BY <1>7 DEF LoadRef, members, orderVars
    <2>2. Sent' = Sent
        BY <2>1 DEF Sent, Blank
    <2>. QED BY <2>1, <2>2 DEF Settled, SentInBetween, MembersAgree, LoadsHold, Blank
<1>8. CASE SendEnd
    <2>1. /\ ~raced /\ call.op = "insert" /\ call' = NoCall
          /\ order_ref' = call.ref + 1
          /\ UNCHANGED <<session_id, front_id, stored, storing, sends>>
        BY <1>8 DEF SendEnd, RefAfter
    <2>2. Settled /\ stored > 0 /\ storing.step \in {"none", "session"} /\ order_ref' = order_ref + 1
        BY <2>1 DEF Settled, SentInBetween, LoadsHold, Blank
    <2>3. stored \in Numbers
        BY <1>1, <2>2
    <2>4. PICK m \in Int : SessionOf[stored].max_ref = m
        BY <2>3, GrantType
    <2>5. order_ref - m \in 0 .. sends - 1
        BY <2>1, <2>2, <2>4 DEF Settled, MembersAgree, Sent, Blank
    <2>6. (order_ref + 1) - m \in 0 .. sends
        BY <1>1, <2>5
    <2>7. Sent' = sends
        BY <2>1 DEF Sent, Blank, NoCall
    <2>8. MembersAgree'
        <3>1. order_ref' - SessionOf[stored'].max_ref \in 0 .. Sent'
            <4>1. SessionOf[stored'].max_ref = m
                BY <2>1, <2>4
            <4>2. order_ref' = order_ref + 1
                BY <2>2
            <4>3. order_ref' - m \in 0 .. sends
                BY <2>6, <4>2, Zenon
            <4>. QED BY <2>7, <4>1, <4>3
        <3>. QED BY <2>1, <2>2, <3>1 DEF Settled, MembersAgree
    <2>. QED BY <2>1, <2>8 DEF Settled, SentInBetween, LoadsHold, Blank, NoCall
<1>9. CASE CancelEnd \/ \E o \in placed : CancelBegin(o)
    <2>1. /\ ~raced /\ Blank(call.op) /\ Blank(call'.op)
          /\ UNCHANGED <<session_id, front_id, order_ref, stored, storing, sends>>
        BY <1>9 DEF CancelBegin, CancelEnd, Blank, NoCall, members
    <2>2. Sent' = Sent
        BY <2>1 DEF Sent
    <2>. QED BY <2>1, <2>2 DEF Settled, SentInBetween, MembersAgree, LoadsHold, Blank
<1>10. CASE Front
    BY <1>2, <1>10 DEF Front, Establish, Break, AnswerAuthenticate, AnswerLogin,
        AnswerConfirm, members, orderVars
<1>11. CASE OnFrontConnected \/ OnFrontDisconnected \/ OnRspAuthenticate
               \/ OnRspSettlementInfoConfirm
    BY <1>2, <1>11 DEF OnFrontConnected, OnFrontDisconnected, OnRspAuthenticate,
        OnRspSettlementInfoConfirm, members, orderVars
<1>12. CASE UNCHANGED vars
    BY <1>2, <1>12 DEF vars, members, orderVars
<1>. QED
    BY <1>3, <1>4, <1>5, <1>6, <1>7, <1>8, <1>9, <1>10, <1>11, <1>12
    DEF Next, Callbacks, Requests

\* A cancel request is for an order the program meant.
LEMMA CancelMeantStep == TypeOK /\ CancelMeant /\ [Next]_vars => CancelMeant'
<1>. SUFFICES ASSUME TypeOK, CancelMeant, [Next]_vars PROVE CancelMeant'
    OBVIOUS
<1>1. CASE \E o \in placed : CancelBegin(o)
    BY <1>1 DEF CancelBegin, CancelMeant
<1>2. CASE call'.op # "cancel"
    BY <1>2 DEF CancelMeant
<1>3. CASE SendBegin \/ LoadRef \/ SendEnd \/ CancelEnd
    BY <1>2, <1>3 DEF SendBegin, LoadRef, SendEnd, CancelEnd, NoCall
<1>4. CASE UNCHANGED <<call, meant>>
    BY <1>4 DEF CancelMeant
<1>5. CASE Front \/ Callbacks \/ UNCHANGED vars
    BY <1>4, <1>5
    DEF Front, Callbacks, Establish, Break, AnswerAuthenticate, AnswerLogin, AnswerConfirm,
        OnFrontConnected, OnFrontDisconnected, OnRspAuthenticate, OnRspUserLogin,
        StoreSession, StoreFront, StoreRef, OnRspSettlementInfoConfirm, vars, orderVars
<1>. QED BY <1>1, <1>3, <1>5 DEF Next, Requests

\* The new order's id is the next one of the login that is stored: no order has it.
LEMMA FreshId ==
    ASSUME TypeOK, SessionsApart, Settled, IdsInBlocks, call.op = "insert"
    PROVE  LET id == OrderId(call.session, call.ref)
           IN  /\ id = session_id + order_ref
               /\ stored \in Numbers /\ storing.step \in {"none", "session"}
               /\ id - BlockStart(stored) \in 0 .. MaxSends
               /\ \A o \in placed : o.id # id
<1>. DEFINE id == OrderId(call.session, call.ref)
<1>1. /\ stored \in Numbers /\ stored > 0 /\ storing.step \in {"none", "session"}
      /\ call.session = session_id /\ call.ref = order_ref
    BY DEF TypeOK, Settled, SentInBetween, LoadsHold, Blank
<1>2. id = session_id + order_ref
    BY <1>1 DEF OrderId
<1>3. PICK s \in Int, m \in Int : SessionOf[stored].session = s /\ SessionOf[stored].max_ref = m
    BY <1>1, GrantType
<1>4. PICK r \in Int : order_ref = r
    BY DEF TypeOK
<1>5. session_id = s /\ r - m \in 0 .. sends - 1 /\ sends \in 0 .. MaxSends
    BY <1>1, <1>3, <1>4 DEF TypeOK, Settled, MembersAgree, Sent, Blank
<1>6. id = s + r /\ BlockStart(stored) = s + m
    BY <1>2, <1>3, <1>4, <1>5 DEF BlockStart
<1>7. (s + r) - (s + m) \in 0 .. MaxSends
    BY <1>5
<1>8. ASSUME NEW o \in placed PROVE o.id # id
    <2>1. PICK k \in 1 .. stored : /\ o.id - BlockStart(k) \in 0 .. MaxSends
                                   /\ k = stored => o.id < session_id + order_ref
        BY <1>1 DEF IdsInBlocks
    <2>2. k \in Numbers /\ o.id \in Int
        BY <1>1, <2>1 DEF Numbers, TypeOK, Order
    <2>3. CASE k = stored
        BY <1>2, <1>4, <1>5, <2>1, <2>2, <2>3
    <2>4. CASE k # stored
        <3>1. PICK t \in Int, u \in Int, i \in Int :
                 SessionOf[k].session = t /\ SessionOf[k].max_ref = u /\ o.id = i
            BY <2>2, GrantType
        <3>2. i - (t + u) \in 0 .. MaxSends
            BY <2>1, <3>1 DEF BlockStart
        <3>3. s + m + (r - m) # t + u + (i - (t + u))
            <4>1. r - m \in 0 .. MaxSends
                BY <1>5
            <4>. QED BY <1>1, <1>3, <2>2, <2>4, <3>1, <3>2, <4>1 DEF SessionsApart
        <3>4. s + r # i
            BY <3>3
        <3>. QED BY <1>6, <3>1, <3>4
    <2>. QED BY <2>3, <2>4
<1>. QED BY <1>1, <1>2, <1>6, <1>7, <1>8

AllFresh == \A o, p \in placed : o.id = p.id => o = p

Ids == IdsInBlocks /\ AllFresh /\ withdrawn \subseteq meant

\* Every order has an id of its own, and what is withdrawn was meant.
LEMMA IdsStep ==
    ASSUME TypeOK, LoginsInOrder, ~raced => Settled, CancelMeant, SessionsApart,
           ~raced => Ids, [Next]_vars, ~raced'
    PROVE  Ids'
\* The orders stay as they are; a login may begin to be stored.
<1>1. ASSUME ~raced, UNCHANGED <<placed, withdrawn, meant, stored>>,
             \/ storing'.step \in {"front", "ref"}
             \/ /\ UNCHANGED <<session_id, order_ref>>
                /\ storing.step \in {"none", "session"}
      PROVE  Ids'
    <2>1. AllFresh' /\ (withdrawn \subseteq meant)'
        BY <1>1 DEF Ids, AllFresh
    <2>2. IdsInBlocks'
        BY <1>1 DEF Ids, IdsInBlocks
    <2>. QED BY <2>1, <2>2 DEF Ids
<1>2. ASSUME UNCHANGED <<placed, withdrawn, meant, stored, session_id, order_ref, storing, raced>>
      PROVE  Ids'
    BY <1>2 DEF Ids, IdsInBlocks, AllFresh
<1>3. CASE OnRspUserLogin
    BY <1>1, <1>3, LoginMarked DEF OnRspUserLogin, orderVars
<1>4. CASE StoreSession \/ StoreFront
    <2>1. /\ ~raced /\ UNCHANGED <<placed, withdrawn, meant, stored>>
          /\ storing.step \in {"session", "front"}
          /\ storing' = [storing EXCEPT !.step = "front"]
                \/ storing' = [storing EXCEPT !.step = "ref"]
        BY <1>4 DEF StoreSession, StoreFront, orderVars
    <2>2. storing # NotStoring
        BY <2>1 DEF NotStoring
    <2>3. storing'.step \in {"front", "ref"}
        BY <2>1, <2>2, StoringStages DEF TypeOK
    <2>. QED BY <1>1, <2>1, <2>3
<1>5. CASE StoreRef
    <2>1. /\ ~raced /\ UNCHANGED <<placed, withdrawn, meant>>
          /\ storing.step = "ref" /\ stored' = storing.number
        BY <1>5 DEF StoreRef, orderVars
    <2>2. stored \in Nat /\ stored' \in Nat /\ stored < stored'
        <3>1. storing # NotStoring
            BY <2>1 DEF NotStoring
        <3>2. storing.number \in Numbers /\ stored \in {0} \cup Numbers
            BY <3>1, StoringStages DEF TypeOK
        <3>3. stored < storing.number
            BY <3>1 DEF LoginsInOrder
        <3>. QED BY <2>1, <3>2, <3>3 DEF Numbers
    <2>3. ASSUME NEW o \in placed
          PROVE  \E k \in 1 .. stored' : /\ o.id - BlockStart(k) \in 0 .. MaxSends
                                         /\ k # stored'
        BY <2>1, <2>2 DEF Ids, IdsInBlocks
    <2>4. IdsInBlocks'
        BY <2>1, <2>3 DEF IdsInBlocks
    <2>. QED BY <2>1, <2>4 DEF Ids, AllFresh
<1>6. CASE SendEnd
    <2>1. /\ ~raced /\ call.op = "insert" /\ UNCHANGED <<withdrawn, meant, stored, session_id, storing>>
          /\ order_ref' = call.ref + 1
        BY <1>6 DEF SendEnd, RefAfter
    <2>. DEFINE id == OrderId(call.session, call.ref)
                new == [id |-> id, in |-> serving, nth |-> sends]
    <2>2. /\ id = session_id + order_ref /\ call.ref = order_ref
          /\ stored \in Numbers /\ storing.step \in {"none", "session"}
          /\ id - BlockStart(stored) \in 0 .. MaxSends
          /\ \A o \in placed : o.id # id
        BY <2>1, FreshId DEF Ids, Settled, LoadsHold
    <2>3. placed' = placed \/ placed' = placed \cup {new}
        BY <1>6 DEF SendEnd
    <2>4. session_id + order_ref < session_id' + order_ref' /\ session_id + order_ref \in Int
        <3>1. PICK s \in Int, r \in Int : session_id = s /\ order_ref = r
            BY DEF TypeOK
        <3>2. s + r < s + (r + 1)
            OBVIOUS
        <3>3. session_id' = s /\ order_ref' = r + 1
            BY <2>1, <2>2, <3>1
        <3>. QED BY <3>1, <3>2, <3>3
    <2>5. ASSUME NEW o \in placed
          PROVE  \E k \in 1 .. stored : /\ o.id - BlockStart(k) \in 0 .. MaxSends
                                        /\ k = stored => o.id < session_id' + order_ref'
        <3>1. PICK k \in 1 .. stored : /\ o.id - BlockStart(k) \in 0 .. MaxSends
                                       /\ k = stored => o.id < session_id + order_ref
            BY <2>1, <2>2 DEF Ids, IdsInBlocks
        <3>2. o.id \in Int
            BY DEF TypeOK, Order
        <3>3. session_id' + order_ref' \in Int
            BY <2>1, <2>2 DEF TypeOK
        <3>4. o.id < session_id + order_ref => o.id < session_id' + order_ref'
            BY <2>4, <3>2, <3>3
        <3>. QED BY <3>1, <3>4
    <2>6. /\ new.id - BlockStart(stored) \in 0 .. MaxSends
          /\ new.id < session_id' + order_ref' /\ stored \in 1 .. stored
        BY <2>2, <2>4 DEF Numbers
    <2>7. IdsInBlocks'
        BY <2>1, <2>3, <2>5, <2>6 DEF IdsInBlocks
    <2>8. AllFresh'
        BY <2>1, <2>2, <2>3 DEF Ids, AllFresh
    <2>. QED BY <2>1, <2>7, <2>8 DEF Ids
<1>7. CASE CancelEnd
    <2>1. /\ ~raced /\ call.op = "cancel" /\ UNCHANGED <<placed, meant, stored, session_id, order_ref, storing>>
          /\ withdrawn' = withdrawn
                \/ withdrawn' = withdrawn \cup Found(call.front, session_id, call.id)
        BY <1>7 DEF CancelEnd, members
    <2>2. PICK o \in meant : o.id = call.id
        BY <2>1 DEF CancelMeant
    <2>3. Found(call.front, session_id, call.id) \subseteq {o}
        BY <2>1, <2>2 DEF Found, Ids, AllFresh, TypeOK
    <2>4. (withdrawn \subseteq meant)'
        BY <2>1, <2>3 DEF Ids
    <2>. QED BY <2>1, <2>4 DEF Ids, AllFresh, IdsInBlocks
<1>8. ASSUME NEW o \in placed, CancelBegin(o) PROVE Ids'
    <2>1. /\ ~raced /\ meant \subseteq meant'
          /\ UNCHANGED <<placed, withdrawn, stored, session_id, order_ref, storing>>
        BY <1>8 DEF CancelBegin, members
    <2>. QED BY <2>1 DEF Ids, AllFresh, IdsInBlocks
<1>9. CASE SendBegin
    <2>1. /\ ~raced /\ UNCHANGED <<placed, withdrawn, meant, stored, session_id, order_ref, storing>>
        BY <1>9 DEF SendBegin, members
    <2>. QED BY <2>1 DEF Ids, AllFresh, IdsInBlocks
<1>10. CASE LoadRef \/ Front \/ UNCHANGED vars \/ OnFrontConnected \/ OnFrontDisconnected
               \/ OnRspAuthenticate \/ OnRspSettlementInfoConfirm
    BY <1>2, <1>10
    DEF LoadRef, Front, Establish, Break, AnswerAuthenticate, AnswerLogin, AnswerConfirm,
        OnFrontConnected, OnFrontDisconnected, OnRspAuthenticate,
        OnRspSettlementInfoConfirm, vars, members, orderVars
<1>. QED
    BY <1>3, <1>4, <1>5, <1>6, <1>7, <1>8, <1>9, <1>10 DEF Next, Callbacks, Requests

\* The inductive invariant.
IInv ==
    /\ TypeOK
    /\ LoginsBounded
    /\ LoginsInOrder
    /\ StoredSoFar
    /\ CancelMeant
    /\ ~raced => Settled
    /\ SessionsApart /\ ~raced => Ids

LEMMA IInvInductive == IInv /\ [Next]_vars => IInv'
<1>. SUFFICES ASSUME IInv, [Next]_vars PROVE IInv'
    OBVIOUS
<1>1. TypeOK /\ LoginsBounded /\ LoginsInOrder /\ StoredSoFar /\ CancelMeant
      /\ (~raced => Settled) /\ (SessionsApart /\ ~raced => Ids)
    BY DEF IInv
<1>2. TypeOK'
    BY <1>1, TypeStep
<1>3. LoginsBounded' /\ LoginsInOrder'
    BY <1>1, <1>2, LoginsStep, OrderStep
<1>4. StoredSoFar' /\ CancelMeant'
    BY <1>1, StoredSoFarStep, CancelMeantStep
<1>5. (~raced => Settled)'
    BY <1>1, SettledStep
<1>6. (SessionsApart /\ ~raced => Ids)'
    <2>1. SUFFICES ASSUME SessionsApart, ~raced' PROVE Ids'
        BY DEF SessionsApart
    <2>. QED BY <1>1, <2>1, IdsStep
<1>. QED BY <1>2, <1>3, <1>4, <1>5, <1>6 DEF IInv

LEMMA IInvInit == Init => IInv
<1>. SUFFICES ASSUME Init PROVE IInv
    OBVIOUS
<1>1. TypeOK /\ LoginsBounded
    BY InitTyped
<1>2. LoginsInOrder
    BY DEF Init, LoginsInOrder, NotStoring, IsLogin
<1>3. StoredSoFar /\ CancelMeant
    BY DEF Init, StoredSoFar, CancelMeant, NotStoring, NoCall
<1>4. Settled
    BY DEF Init, Settled, SentInBetween, MembersAgree, LoadsHold, Blank, NoCall
<1>5. Ids
    BY DEF Init, Ids, IdsInBlocks, AllFresh
<1>. QED BY <1>1, <1>2, <1>3, <1>4, <1>5 DEF IInv

LEMMA Invariants == Spec => []IInv
BY IInvInit, IInvInductive, PTL DEF Spec

\* No two orders get the same id, over any number of sessions, as long as the sessions'
\* numbers lie apart and no order is sent while a login is stored (IdsAreFresh).
THEOREM IdsAreFreshCorrect == Spec => []IdsAreFresh
<1>1. IInv => IdsAreFresh
    BY DEF IInv, Ids, AllFresh, IdsAreFresh
<1>. QED BY <1>1, Invariants, PTL

\* A cancel request withdraws no other order than the one it is for, although the members
\* it is made of may be those of two sessions (NoWrongCancel): unless an order was sent while
\* a login was stored, and if session numbers lie apart.
THEOREM NoWrongCancelCorrect == Spec => []NoWrongCancel
<1>1. IInv => NoWrongCancel
    BY DEF IInv, Ids, NoWrongCancel
<1>. QED BY <1>1, Invariants, PTL

\* With all callbacks run, the members name the session that the front serves, so its orders
\* can be cancelled (SessionCanCancel): unless an order was sent while a login was stored,
\* and if session numbers lie apart.
THEOREM SessionCanCancelCorrect == Spec => []SessionCanCancel
<1>1. IInv => SessionCanCancel
    <2>. SUFFICES ASSUME IInv, SessionsApart, ~raced, Quiet, NEW o \in placed, o.in = serving
                  PROVE  Found(front_id, session_id, o.id) = {o}
        BY DEF SessionCanCancel
    <2>1. o.in \in Numbers
        BY DEF IInv, TypeOK, Order
    <2>2. serving = logins /\ logins > 0
        BY <2>1 DEF IInv, LoginsInOrder, Numbers
    <2>3. logins = stored
        BY <2>2 DEF IInv, LoginsInOrder, Quiet, NotStoring
    <2>4. session_id = SessionOf[o.in].session /\ front_id = SessionOf[o.in].front
        BY <2>2, <2>3 DEF IInv, Settled, MembersAgree, Quiet, NotStoring
    <2>. QED BY <2>4 DEF Found, IInv, Ids, AllFresh
<1>. QED BY <1>1, Invariants, PTL
----------------------------------------------------------------------------
(* The login never gets lost.                                               *)

\* The callback at i, 0 for the one being run, is of a connection that broke since.
Outdated(i) == \E j \in DOMAIN news : i < j /\ news[j].what = "connected"

\* What the front knows goes with the connection.
LinkState ==
    /\ asked # "nothing" => link
    /\ authenticated => link
    /\ serving # 0 => authenticated

Fits(what) ==
    /\ what # "disconnected"
    /\ what = "authenticated" => authenticated
    /\ what = "login" => serving # 0

\* Callbacks of the present connection tell of what the front still holds.
NewsCurrent ==
    link => /\ \A i \in DOMAIN news : Outdated(i) \/ Fits(news[i].what)
            /\ storing = NotStoring \/ Outdated(0) \/ serving # 0

\* The present connection is still to be told of, or a step of its login is under way,
\* or the login is done, or a request for it came to nothing.  A request that is
\* overwritten by a later one was overwritten by one further on, or by the first.
LoginUnderWay ==
    link =>
        \/ Outdated(0)
        \/ /\ connect_status
           /\ \/ rejected \/ asked = "authenticate"
              \/ /\ authenticated
                 /\ \/ asked = "login" \/ serving # 0
                    \/ \E i \in DOMAIN news : news[i].what = "authenticated"

\* login_status_ is set for good by the first login.
Remembered == stored > 0 \/ storing # NotStoring => login_status

Reaching == LinkState /\ NewsCurrent /\ LoginUnderWay /\ Remembered

\* Which callbacks are outdated changes only with the news of a connection.
LEMMA OutdatedAdded ==
    ASSUME news \in Seq(NewsType), NEW e \in NewsType, news' = Append(news, e)
    PROVE  /\ e.what # "connected" => \A i \in Nat : Outdated(i)' <=> Outdated(i)
           /\ e.what = "connected" => \A i \in {0} \cup DOMAIN news : Outdated(i)'
<1>1. PICK n \in Nat : n = Len(news) /\ DOMAIN news = 1 .. n
    OBVIOUS
<1>2. /\ DOMAIN news' = 1 .. n + 1 /\ news'[n + 1] = e
      /\ \A i \in 1 .. n : news'[i] = news[i]
    BY <1>1
<1>3. ASSUME e.what # "connected", NEW i \in Nat PROVE Outdated(i)' <=> Outdated(i)
    <2>1. \A j \in 1 .. n + 1 : news'[j].what = "connected" => j \in 1 .. n
        BY <1>2, <1>3
    <2>. QED BY <1>1, <1>2, <2>1 DEF Outdated
<1>4. ASSUME e.what = "connected", NEW i \in {0} \cup DOMAIN news PROVE Outdated(i)'
    <2>1. i < n + 1 /\ n + 1 \in DOMAIN news'
        BY <1>1, <1>2, <1>4
    <2>. QED BY <1>2, <1>4, <2>1 DEF Outdated
<1>. QED BY <1>3, <1>4

LEMMA OutdatedRun ==
    ASSUME news \in Seq(NewsType), news # <<>>, news' = Tail(news)
    PROVE  /\ \A i \in Nat : Outdated(i)' <=> Outdated(i + 1)
           /\ Outdated(0) <=> Outdated(1) \/ Head(news).what = "connected"
<1>1. PICK n \in Nat \ {0} : n = Len(news) /\ DOMAIN news = 1 .. n
    OBVIOUS
<1>2. /\ DOMAIN news' = 1 .. n - 1 /\ Head(news) = news[1]
      /\ \A i \in 1 .. n - 1 : news'[i] = news[i + 1]
    BY <1>1
<1>3. ASSUME NEW i \in Nat PROVE Outdated(i)' <=> Outdated(i + 1)
    <2>1. ASSUME Outdated(i)' PROVE Outdated(i + 1)
        <3>1. PICK j \in 1 .. n - 1 : i < j /\ news'[j].what = "connected"
            BY <1>2, <2>1 DEF Outdated
        <3>2. j + 1 \in 1 .. n /\ i + 1 < j + 1 /\ news[j + 1].what = "connected"
            BY <1>2, <3>1
        <3>. QED BY <1>1, <3>2 DEF Outdated
    <2>2. ASSUME Outdated(i + 1) PROVE Outdated(i)'
        <3>1. PICK j \in 1 .. n : i + 1 < j /\ news[j].what = "connected"
            BY <1>1, <2>2 DEF Outdated
        <3>2. j - 1 \in 1 .. n - 1 /\ i < j - 1 /\ news'[j - 1].what = "connected"
            BY <1>2, <3>1
        <3>. QED BY <1>2, <3>2 DEF Outdated
    <2>. QED BY <2>1, <2>2
<1>4. Outdated(0) <=> Outdated(1) \/ news[1].what = "connected"
    BY <1>1 DEF Outdated
<1>. QED BY <1>2, <1>3, <1>4

\* A callback that fits what the front holds then keeps the news current.
LEMMA CurrentAdded ==
    ASSUME news \in Seq(NewsType), NewsCurrent, NEW e \in NewsType, news' = Append(news, e),
           e.what # "connected", Fits(e.what)', storing' = storing, link,
           authenticated => authenticated', serving # 0 => serving' # 0
    PROVE  NewsCurrent'
<1>1. \A i \in Nat : Outdated(i)' <=> Outdated(i)
    BY OutdatedAdded
<1>2. \A i \in DOMAIN news' : i \in Nat /\ \/ i \in DOMAIN news /\ news'[i] = news[i]
                                           \/ news'[i] = e
    BY AddedPlaces
<1>3. ASSUME NEW i \in DOMAIN news' PROVE Outdated(i)' \/ Fits(news[i].what)'
    <2>1. CASE i \in DOMAIN news /\ news'[i] = news[i]
        <3>1. Outdated(i) \/ Fits(news[i].what)
            BY <2>1 DEF NewsCurrent
        <3>2. CASE Outdated(i)
            BY <1>1, <1>2, <3>2
        <3>3. CASE Fits(news[i].what)
            BY <2>1, <3>3 DEF Fits
        <3>. QED BY <3>1, <3>2, <3>3
    <2>2. CASE news'[i] = e
        BY <2>2 DEF Fits
    <2>. QED BY <1>2, <2>1, <2>2
<1>4. storing' = NotStoring \/ Outdated(0)' \/ serving' # 0
    <2>1. Outdated(0)' <=> Outdated(0)
        BY <1>1
    <2>. QED BY <2>1 DEF NewsCurrent
<1>. QED BY <1>3, <1>4 DEF NewsCurrent

\* Running a callback keeps the news current, whatever is asked for.
LEMMA CurrentRun ==
    ASSUME news \in Seq(NewsType), news # <<>>, NewsCurrent, news' = Tail(news),
           storing = NotStoring, storing' # NotStoring => Head(news).what = "login",
           UNCHANGED <<link, authenticated, serving>>
    PROVE  NewsCurrent'
<1>1. \A i \in Nat : Outdated(i)' <=> Outdated(i + 1)
    BY OutdatedRun
<1>2. \A i \in DOMAIN news' : i \in Nat /\ i + 1 \in DOMAIN news /\ news'[i] = news[i + 1]
    BY RunPlaces
<1>3. ASSUME link, NEW i \in DOMAIN news' PROVE Outdated(i)' \/ Fits(news[i].what)'
    <2>1. Outdated(i + 1) \/ Fits(news[i + 1].what)
        BY <1>2, <1>3 DEF NewsCurrent
    <2>2. CASE Outdated(i + 1)
        BY <1>1, <1>2, <2>2
    <2>3. CASE Fits(news[i + 1].what)
        BY <1>2, <2>3 DEF Fits
    <2>. QED BY <2>1, <2>2, <2>3
<1>4. ASSUME link, storing' # NotStoring PROVE Outdated(0)' \/ serving # 0
    <2>1. 1 \in DOMAIN news /\ news[1] = Head(news) /\ 0 + 1 = 1
        BY RunPlaces
    <2>2. Outdated(0)' <=> Outdated(1)
        BY <1>1, <2>1
    <2>3. Outdated(1) \/ Fits(news[1].what)
        BY <1>4, <2>1 DEF NewsCurrent
    <2>. QED BY <1>4, <2>1, <2>2, <2>3 DEF Fits
<1>. QED BY <1>3, <1>4 DEF NewsCurrent

\* A request goes out on a connection that is up, or it is noted if it was one for the login.
LEMMA AskResult ==
    ASSUME NEW request \in {"authenticate", "login", "confirm"}, Ask(request),
           rejected \in BOOLEAN
    PROVE  /\ asked' = asked \/ (link /\ asked' = request)
           /\ request \in {"authenticate", "login"} /\ link => asked' = request \/ rejected'
           /\ request = "confirm" => rejected' = rejected
<1>1. CASE link /\ asked' = request /\ rejected' = (rejected /\ ~ForLogin(request))
    BY <1>1 DEF ForLogin
<1>2. CASE UNCHANGED asked /\ rejected' = (rejected \/ (link /\ ForLogin(request)))
    BY <1>2 DEF ForLogin
<1>. QED BY <1>1, <1>2 DEF Ask

\* Every move of the front and every callback keeps the login under way.
LEMMA ReachingStep == TypeOK /\ TypeOK' /\ Reaching /\ [Next]_vars => Reaching'
<1>. SUFFICES ASSUME TypeOK, TypeOK', Reaching, [Next]_vars PROVE Reaching'
    OBVIOUS
<1>. USE DEF members, frontVars, orderVars, vars
<1>1. /\ news \in Seq(NewsType) /\ logins \in Nat /\ stored \in Nat
      /\ LinkState /\ NewsCurrent /\ LoginUnderWay /\ Remembered
      /\ serving \in {0} \cup Numbers /\ link \in BOOLEAN /\ rejected \in BOOLEAN
    BY DEF TypeOK, Reaching, Numbers
<1>2. \A what \in Answers : News(what, 0) \in NewsType /\ News(what, 0).what = what
    BY NewsOf
<1>3. ASSUME UNCHANGED <<connect_status, login_status, stored, storing, frontVars, news, rejected>>
      PROVE  Reaching'
    BY <1>1, <1>3 DEF Reaching, LinkState, NewsCurrent, Fits, LoginUnderWay, Remembered, Outdated
<1>4. CASE Establish
    <2>1. /\ link' /\ ~link /\ news' = Append(news, News("connected", 0))
          /\ UNCHANGED <<asked, authenticated, serving, stored, storing, login_status>>
        BY <1>4 DEF Establish
    <2>2. News("connected", 0) \in NewsType /\ News("connected", 0).what = "connected"
        BY <1>2 DEF Answers
    <2>3. \A i \in {0} \cup DOMAIN news : Outdated(i)'
        BY <1>1, <2>1, <2>2, OutdatedAdded
    <2>4. \A i \in DOMAIN news' : i \in DOMAIN news \/ news'[i] = News("connected", 0)
        BY <1>1, <2>1, <2>2, AddedPlaces
    <2>5. NewsCurrent'
        BY <2>2, <2>3, <2>4 DEF NewsCurrent, Fits
    <2>. QED BY <1>1, <2>1, <2>3, <2>5 DEF Reaching, LinkState, LoginUnderWay, Remembered
<1>5. CASE Break
    <2>1. /\ ~link' /\ asked' = "nothing" /\ ~authenticated' /\ serving' = 0
          /\ UNCHANGED <<stored, storing, login_status>>
        BY <1>5 DEF Break
    <2>. QED BY <1>1, <2>1 DEF Reaching, LinkState, NewsCurrent, LoginUnderWay, Remembered
<1>6. ASSUME NEW e \in NewsType, news' = Append(news, e), e.what # "connected",
             Fits(e.what)', link, LinkState', LoginUnderWay',
             authenticated => authenticated', serving # 0 => serving' # 0,
             UNCHANGED <<stored, storing, login_status>>
      PROVE  Reaching'
    BY <1>1, <1>6, CurrentAdded DEF Reaching, Remembered
<1>7. ASSUME NEW e \in NewsType, news' = Append(news, e), e.what # "connected",
             UNCHANGED <<link, connect_status>>,
             ~rejected' => /\ ~rejected
                           /\ authenticated => authenticated'
                           /\ asked = "authenticate" => authenticated' /\ e.what = "authenticated"
                           /\ authenticated /\ (asked = "login" \/ serving # 0) => serving' # 0
      PROVE  LoginUnderWay'
    <2> SUFFICES ASSUME link, ~Outdated(0)'
                 PROVE  /\ connect_status
                        /\ \/ rejected'
                           \/ /\ authenticated'
                              /\ \/ serving' # 0
                                 \/ \E i \in DOMAIN news' : news'[i].what = "authenticated"
        BY <1>7 DEF LoginUnderWay
    <2>1. ~Outdated(0)
        BY <1>1, <1>7, OutdatedAdded
    <2>2. \A i \in DOMAIN news : i \in DOMAIN news' /\ news'[i] = news[i]
        BY <1>1, <1>7, AddedPlaces
    <2>3. Len(news) + 1 \in DOMAIN news' /\ news'[Len(news) + 1] = e
        BY <1>1, <1>7, AddedPlaces
    <2>. QED BY <1>1, <1>7, <2>1, <2>2, <2>3 DEF LoginUnderWay
<1>8. CASE AnswerAuthenticate
    <2>1. /\ asked = "authenticate" /\ asked' = "nothing"
          /\ UNCHANGED <<connect_status, login_status, stored, storing, link, serving>>
        BY <1>8 DEF AnswerAuthenticate
    <2>2. PICK e \in NewsType :
             /\ news' = Append(news, e)
             /\ \/ e.what = "authenticated" /\ authenticated' = TRUE /\ rejected' = rejected
                \/ e.what = "auth rejected" /\ rejected' = TRUE /\ authenticated' = authenticated
        <3>1. CASE /\ authenticated' = TRUE /\ news' = Append(news, News("authenticated", 0))
                   /\ UNCHANGED rejected
            <4>1. "authenticated" \in Answers
                BY DEF Answers
            <4>. QED BY <1>2, <3>1, <4>1
        <3>2. CASE /\ news' = Append(news, News("auth rejected", 0)) /\ rejected' = TRUE
                   /\ UNCHANGED authenticated
            <4>1. "auth rejected" \in Answers
                BY DEF Answers
            <4>. QED BY <1>2, <3>2, <4>1
        <3>. QED BY <1>8, <3>1, <3>2 DEF AnswerAuthenticate
    <2>3. link /\ LinkState'
        BY <1>1, <2>1, <2>2 DEF LinkState
    <2>4. /\ e.what # "connected"
          /\ authenticated => authenticated'
          /\ ~rejected' => ~rejected /\ authenticated' /\ e.what = "authenticated"
        <3>1. e.what # "connected"
            BY <2>2
        <3>2. authenticated => authenticated'
            BY <2>2
        <3>3. ~rejected' => ~rejected /\ authenticated' /\ e.what = "authenticated"
            BY <2>2
        <3>. QED BY <3>1, <3>2, <3>3
    <2>5. LoginUnderWay'
        BY <1>7, <2>1, <2>2, <2>4
    <2>6. Fits(e.what)'
        BY <2>2 DEF Fits
    <2>. QED BY <1>6, <2>1, <2>2, <2>3, <2>4, <2>5, <2>6
<1>9. CASE AnswerLogin
    <2>1. /\ asked = "login" /\ asked' = "nothing" /\ link
          /\ UNCHANGED <<connect_status, login_status, stored, storing, link, authenticated>>
        BY <1>1, <1>9 DEF AnswerLogin, LinkState
    <2>2. PICK e \in NewsType :
             /\ news' = Append(news, e)
             /\ \/ /\ e.what = "login" /\ authenticated
                   /\ serving' # 0 /\ rejected' = rejected
                \/ e.what = "login rejected" /\ serving' = serving /\ rejected' = TRUE
        <3>1. CASE /\ authenticated /\ serving' = logins + 1 /\ rejected' = rejected
                   /\ news' = Append(news, News("login", logins + 1))
            <4>1. logins + 1 \in Numbers /\ logins + 1 # 0
                <5>1. serving' \in {0} \cup Numbers
                    BY DEF TypeOK
                <5>. QED BY <1>1, <3>1, <5>1
            <4>. QED BY <3>1, <4>1, NewsOf
        <3>2. CASE /\ news' = Append(news, News("login rejected", 0)) /\ serving' = serving
                   /\ rejected' = TRUE
            BY <1>2, <3>2 DEF Answers
        <3>. QED BY <1>9, <3>1, <3>2 DEF AnswerLogin
    <2>3. LinkState'
        BY <1>1, <2>1, <2>2 DEF LinkState
    <2>4. /\ e.what # "connected"
          /\ serving # 0 => serving' # 0
          /\ ~rejected' => ~rejected /\ (authenticated => serving' # 0)
        <3>1. e.what # "connected" /\ (serving # 0 => serving' # 0)
            BY <2>2
        <3>2. ~rejected' => ~rejected /\ (authenticated => serving' # 0)
            BY <2>2
        <3>. QED BY <3>1, <3>2
    <2>5. LoginUnderWay'
        BY <1>7, <2>1, <2>2, <2>4
    <2>6. Fits(e.what)'
        BY <2>2 DEF Fits
    <2>. QED BY <1>6, <2>1, <2>2, <2>3, <2>4, <2>5, <2>6
<1>10. CASE AnswerConfirm
    <2>1. /\ asked = "confirm" /\ asked' = "nothing"
          /\ UNCHANGED <<connect_status, login_status, stored, storing, link, authenticated, serving>>
        BY <1>10 DEF AnswerConfirm
    <2>2. PICK e \in NewsType :
             /\ news' = Append(news, e) /\ rejected' = rejected
             /\ e.what \in {"confirmed", "confirm rejected"}
        <3>1. "confirmed" \in Answers /\ "confirm rejected" \in Answers
            BY DEF Answers
        <3>2. CASE news' = Append(news, News("confirmed", 0)) /\ UNCHANGED rejected
            BY <1>2, <3>1, <3>2
        <3>3. CASE news' = Append(news, News("confirm rejected", 0)) /\ UNCHANGED rejected
            BY <1>2, <3>1, <3>3
        <3>. QED BY <1>10, <3>2, <3>3 DEF AnswerConfirm
    <2>3. link /\ LinkState'
        BY <1>1, <2>1 DEF LinkState
    <2>4. e.what # "connected" /\ (~rejected' => ~rejected)
        <3>1. e.what # "connected"
            BY <2>2
        <3>2. ~rejected' => ~rejected
            BY <2>2
        <3>. QED BY <3>1, <3>2
    <2>5. LoginUnderWay'
        BY <1>7, <2>1, <2>2, <2>4
    <2>6. Fits(e.what)'
        BY <2>2 DEF Fits
    <2>. QED BY <1>6, <2>1, <2>2, <2>3, <2>4, <2>5, <2>6
<1>11. ASSUME storing = NotStoring, news # <<>>, news' = Tail(news),
              storing' # NotStoring => Head(news).what = "login" /\ login_status',
              stored' = stored, login_status => login_status',
              UNCHANGED <<link, authenticated, serving>>,
              asked' = asked \/ link,
              Head(news).what # "disconnected" /\ connect_status => connect_status',
              Head(news).what \notin {"connected", "authenticated"} =>
                  UNCHANGED <<asked, rejected>>,
              Head(news).what = "connected" => connect_status',
              Head(news).what = "connected" /\ link => asked' = "authenticate" \/ rejected',
              Head(news).what = "authenticated" /\ link => asked' = "login" \/ rejected'
       PROVE  Reaching'
    <2>1. NewsCurrent'
        BY <1>1, <1>11, CurrentRun
    <2>2. LinkState' /\ Remembered'
        BY <1>1, <1>11 DEF LinkState, Remembered
    <2>3. LoginUnderWay'
        <3> SUFFICES ASSUME link, ~Outdated(0)'
                     PROVE  /\ connect_status'
                            /\ \/ rejected' \/ asked' = "authenticate"
                               \/ /\ authenticated
                                  /\ \/ asked' = "login" \/ serving # 0
                                     \/ \E i \in DOMAIN news' : news'[i].what = "authenticated"
            BY <1>11 DEF LoginUnderWay
        <3>1. ~Outdated(1) /\ (Outdated(0) => Head(news).what = "connected")
            <4>1. Outdated(0)' <=> Outdated(0 + 1)
                BY <1>1, <1>11, OutdatedRun
            <4>2. 0 + 1 = 1
                OBVIOUS
            <4>. QED BY <1>1, <1>11, <4>1, <4>2, OutdatedRun
        <3>2. CASE Head(news).what = "connected"
            BY <1>11, <3>2
        <3>3. CASE Head(news).what # "connected"
            <4>1. 1 \in DOMAIN news /\ news[1] = Head(news)
                BY <1>1, <1>11, RunPlaces
            <4>2. Fits(Head(news).what)
                BY <1>1, <3>1, <4>1 DEF NewsCurrent
            <4>3. Head(news).what # "disconnected" /\ (Head(news).what = "authenticated" => authenticated)
                BY <4>2 DEF Fits
            <4>4. /\ connect_status
                  /\ \/ rejected \/ asked = "authenticate"
                     \/ /\ authenticated
                        /\ \/ asked = "login" \/ serving # 0
                           \/ \E i \in DOMAIN news : news[i].what = "authenticated"
                BY <1>1, <3>1, <3>3 DEF LoginUnderWay
            <4>5. CASE Head(news).what = "authenticated"
                BY <1>11, <4>3, <4>4, <4>5
            <4>6. CASE Head(news).what # "authenticated"
                <5>1. \A i \in DOMAIN news : news[i].what = "authenticated" =>
                         i - 1 \in DOMAIN news' /\ news'[i - 1] = news[i]
                    BY <1>1, <1>11, <4>1, <4>6, RunPlaces
                <5>. QED BY <1>11, <3>3, <4>3, <4>4, <4>6, <5>1
            <4>. QED BY <4>5, <4>6
        <3>. QED BY <3>2, <3>3
    <2>. QED BY <2>1, <2>2, <2>3 DEF Reaching
<1>12. CASE OnFrontConnected \/ OnFrontDisconnected
    <2>1. CASE OnFrontConnected
        <3>1. /\ storing = NotStoring /\ news # <<>> /\ Head(news).what = "connected"
              /\ news' = Tail(news) /\ connect_status' = TRUE
              /\ UNCHANGED <<storing, stored, login_status, link, authenticated, serving>>
              /\ Ask("authenticate")
            BY <2>1 DEF OnFrontConnected, Upcoming
        <3>2. (asked' = asked \/ link) /\ (link => asked' = "authenticate" \/ rejected')
            BY <1>1, <3>1, AskResult
        <3>. QED BY <1>11, <3>1, <3>2
    <2>2. CASE OnFrontDisconnected
        <3>1. /\ storing = NotStoring /\ news # <<>> /\ Head(news).what = "disconnected"
              /\ news' = Tail(news)
              /\ UNCHANGED <<storing, stored, login_status, asked, link, authenticated, serving,
                             rejected>>
            BY <2>2 DEF OnFrontDisconnected, Upcoming
        <3>. QED BY <1>11, <3>1
    <2>. QED BY <1>12, <2>1, <2>2
<1>13. CASE OnRspAuthenticate \/ OnRspUserLogin \/ OnRspSettlementInfoConfirm
    <2>1. CASE OnRspAuthenticate
        <3>1. /\ storing = NotStoring /\ news # <<>> /\ news' = Tail(news)
              /\ Head(news).what \in {"authenticated", "auth rejected"}
              /\ Head(news).what = "authenticated" => Ask("login")
              /\ Head(news).what = "auth rejected" => UNCHANGED <<asked, rejected>>
              /\ UNCHANGED <<storing, stored, connect_status, login_status, link, authenticated,
                             serving>>
            BY <2>1 DEF OnRspAuthenticate, Upcoming, AfterAuthenticate
        <3>2. /\ asked' = asked \/ link
              /\ Head(news).what = "authenticated" /\ link => asked' = "login" \/ rejected'
            BY <1>1, <3>1, AskResult
        <3>. QED BY <1>11, <3>1, <3>2
    <2>2. CASE OnRspUserLogin
        <3>1. /\ storing = NotStoring /\ news # <<>> /\ news' = Tail(news)
              /\ Head(news).what \in {"login", "login rejected"}
              /\ Head(news).what = "login" => login_status' = TRUE
              /\ Head(news).what = "login rejected" => UNCHANGED <<login_status, storing>>
              /\ UNCHANGED <<stored, connect_status, asked, link, authenticated, serving, rejected>>
            BY <2>2 DEF OnRspUserLogin, Upcoming
        <3>2. /\ Head(news).what \notin {"connected", "disconnected", "authenticated"}
              /\ storing' # NotStoring => Head(news).what = "login"
            BY <3>1
        <3>3. storing' # NotStoring => login_status'
            BY <3>1, <3>2
        <3>4. login_status => login_status'
            BY <3>1
        <3>. QED BY <1>11, <3>1, <3>2, <3>3, <3>4
    <2>3. CASE OnRspSettlementInfoConfirm
        <3>1. /\ storing = NotStoring /\ news # <<>> /\ news' = Tail(news)
              /\ Head(news).what \in {"confirmed", "confirm rejected"}
              /\ UNCHANGED <<storing, stored, connect_status, login_status, asked, link,
                             authenticated, serving, rejected>>
            BY <2>3 DEF OnRspSettlementInfoConfirm, Upcoming
        <3>. QED BY <1>11, <3>1
    <2>. QED BY <1>13, <2>1, <2>2, <2>3
<1>14. CASE StoreSession \/ StoreFront \/ StoreRef
    <2>1. /\ storing # NotStoring
          /\ UNCHANGED <<connect_status, login_status, link, authenticated, serving, news>>
          /\ UNCHANGED <<asked, rejected>> \/ (storing' = NotStoring /\ Ask("confirm"))
        BY <1>14 DEF StoreSession, StoreFront, StoreRef, NotStoring, AfterLogin
    <2>2. (asked' = asked \/ (link /\ asked' = "confirm")) /\ rejected' = rejected
        BY <1>1, <2>1, AskResult
    <2>3. LinkState'
        BY <1>1, <2>1, <2>2 DEF LinkState
    <2>4. NewsCurrent'
        BY <1>1, <2>1 DEF NewsCurrent, Fits, Outdated
    <2>5. login_status /\ Remembered'
        BY <1>1, <2>1 DEF Remembered
    <2>6. LoginUnderWay'
        <3> SUFFICES ASSUME link, ~Outdated(0), asked' = "confirm"
                     PROVE  connect_status /\ authenticated /\ serving # 0
            BY <1>1, <2>1, <2>2 DEF LoginUnderWay, Outdated
        <3>. QED BY <1>1, <2>1 DEF NewsCurrent, LinkState, LoginUnderWay
    <2>. QED BY <2>3, <2>4, <2>5, <2>6 DEF Reaching
<1>15. CASE SendBegin \/ LoadRef \/ SendEnd \/ CancelEnd \/ \E o \in placed : CancelBegin(o)
    BY <1>3, <1>15 DEF SendBegin, LoadRef, SendEnd, CancelBegin, CancelEnd
<1>16. CASE UNCHANGED vars
    BY <1>3, <1>16
<1>. QED
    BY <1>4, <1>5, <1>8, <1>9, <1>10, <1>12, <1>13, <1>14, <1>15, <1>16
    DEF Next, Front, Callbacks, Requests

\* With the connection up and nothing outstanding the trader is logged in, unless its latest
\* request for authentication or login was refused by the API or rejected by the front, for
\* any number of breaks and however late the callbacks are run (NotStranded).
THEOREM NotStrandedCorrect == Spec => []NotStranded
<1>1. Init => Reaching
    <2> SUFFICES ASSUME Init PROVE Reaching
        OBVIOUS
    <2>1. ~link /\ asked = "nothing" /\ ~authenticated /\ serving = 0 /\ stored = 0
          /\ storing = NotStoring
        BY DEF Init
    <2>. QED BY <2>1 DEF Reaching, LinkState, NewsCurrent, LoginUnderWay, Remembered
<1>2. TypeOK /\ TypeOK' /\ Reaching /\ [Next]_vars => Reaching'
    BY ReachingStep
<1>3. IInv /\ Reaching => NotStranded
    <2> SUFFICES ASSUME IInv, Reaching, link, Quiet, asked = "nothing", ~rejected
                 PROVE  td_connect /\ serving # 0
        BY DEF NotStranded
    <2>1. storing = NotStoring /\ \A i \in DOMAIN news : FALSE
        BY DEF Quiet
    <2>2. connect_status /\ serving # 0
        BY <2>1 DEF Reaching, LoginUnderWay, Outdated
    <2>3. stored > 0
        <3>1. serving = logins /\ (logins = stored \/ logins = 0)
            BY <2>1, <2>2 DEF IInv, LoginsInOrder, NotStoring
        <3>2. stored = serving /\ stored \in {0} \cup Numbers
            BY <2>2, <3>1 DEF IInv, TypeOK
        <3>. QED BY <2>2, <3>2 DEF Numbers
    <2>. QED BY <2>2, <2>3 DEF Reaching, Remembered, td_connect
<1>4. IInv => TypeOK
    BY DEF IInv
<1>5. Spec => []TypeOK
    BY <1>4, Invariants, PTL
<1>. QED BY <1>1, <1>2, <1>3, <1>5, Invariants, PTL DEF Spec
=============================================================================
