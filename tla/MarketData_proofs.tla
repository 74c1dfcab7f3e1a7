-------------------------- MODULE MarketData_proofs --------------------------
(* Type correctness, and the proof that no Instrument is left without quotes. *)
EXTENDS MarketData, TLAPS

News == {"connected", "disconnected", "login", "rejected"}

\* News is only ever added at the end and taken from the front.
LEMMA NewsType ==
    ASSUME news \in Seq(News)
    PROVE  /\ \A n \in News : Append(news, n) \in Seq(News)
           /\ news # <<>> => Tail(news) \in Seq(News)
OBVIOUS

\* A request to subscribe touches only the front's sets.
LEMMA SubscribeType ==
    ASSUME TypeOK, NEW x \in Symbol, NEW ok \in BOOLEAN, Subscribe(x, ok)
    PROVE  subscribed' \subseteq Symbol /\ refused' \subseteq Symbol
BY DEF Subscribe, TypeOK

\* Every entry of Wanted is a call with a strategy and a symbol.
LEMMA CallType ==
    ASSUME NEW i \in Calls
    PROVE  Wanted[i].strategy \in Strategy /\ Wanted[i].symbol \in Symbol
<1>. DEFINE Call == [strategy : Strategy, symbol : Symbol]
<1>1. Wanted \in Seq(Call)
    BY WantedAssumption
<1>. HIDE DEF Call
<1>2. Wanted[i] \in Call
    BY <1>1 DEF Calls
<1>. QED BY <1>2 DEF Call

\* The call that the main thread is in is one of Wanted.
LEMMA CurrentCall ==
    ASSUME TypeOK, main = "asking"
    PROVE  /\ done + 1 \in Calls /\ done \in 0 .. Len(Wanted) - 1
           /\ Wanted[done + 1].symbol \in Symbol
           /\ Wanted[done + 1].strategy \in Strategy
<1>1. done \in Nat /\ Len(Wanted) \in Nat /\ done < Len(Wanted)
    BY WantedAssumption DEF TypeOK
<1>2. done + 1 \in Calls /\ done \in 0 .. Len(Wanted) - 1
    BY <1>1 DEF Calls
<1>. QED BY <1>2, CallType

\* Every callback, every step of the main thread and every move of the front keep the
\* types.
LEMMA TypeInductive == TypeOK /\ [Next]_vars => TypeOK'
<1> SUFFICES ASSUME TypeOK, [Next]_vars PROVE TypeOK'
    OBVIOUS
<1> USE DEF TypeOK, apiVars, engineVars, frontVars, vars
<1>1. CASE Establish
    <2>1. news' \in Seq(News)
        BY <1>1, NewsType DEF Establish, News
    <2>2. QED BY <1>1, <2>1 DEF Establish, News
<1>2. CASE Break
    <2>1. news' \in Seq(News) /\ breaks' \in Nat
        BY <1>2, NewsType DEF Break, News
    <2>2. QED BY <1>2, <2>1 DEF Break, News
<1>3. CASE AnswerLogin
    <2>1. news' \in Seq(News)
        BY <1>3, NewsType DEF AnswerLogin, News
    <2>2. login_sent' \in BOOLEAN /\ session' \in BOOLEAN /\ rejected' \in BOOLEAN
        BY <1>3 DEF AnswerLogin
    <2>3. QED BY <1>3, <2>1, <2>2 DEF AnswerLogin, News
<1>4. CASE TdChange
    BY <1>4 DEF TdChange
<1>5. CASE OnFrontConnected
    <2>1. news' \in Seq(News)
        BY <1>5, NewsType DEF OnFrontConnected, News
    <2>2. login_sent' \in BOOLEAN /\ rejected' \in BOOLEAN
        BY <1>5 DEF OnFrontConnected
    <2>3. QED BY <1>5, <2>1, <2>2 DEF OnFrontConnected, News
<1>6. CASE OnFrontDisconnected
    <2>1. news' \in Seq(News)
        BY <1>6, NewsType DEF OnFrontDisconnected, News
    <2>2. QED BY <1>6, <2>1 DEF OnFrontDisconnected, ConnectedAfter, News
<1>7. CASE OnRspUserLogin
    <2>1. news' \in Seq(News)
        BY <1>7, NewsType DEF OnRspUserLogin, News
    <2>2. login_status' \in BOOLEAN /\ walking' \in BOOLEAN /\ unvisited' \subseteq instruments
        BY <1>7 DEF OnRspUserLogin, ToResubscribe
    <2>3. QED BY <1>7, <2>1, <2>2 DEF OnRspUserLogin, News
<1>8. ASSUME NEW x \in Symbol, Resubscribe(x) PROVE TypeOK'
    BY <1>8, SubscribeType DEF Resubscribe
<1>9. CASE WalkEnds
    <2>1. walking' \in BOOLEAN
        BY <1>9, Zenon DEF WalkEnds
    <2>2. UNCHANGED <<connect_status, login_status, instruments, unvisited, td_connect,
                      engineVars, frontVars, news>>
        BY <1>9 DEF WalkEnds
    <2>. QED BY <2>1, <2>2
<1>10. CASE Connect
    BY <1>10 DEF Connect
<1>11. CASE StartInit
    BY <1>11 DEF StartInit
<1>12. CASE SubscribeBegin
    <2>1. /\ done < Len(Wanted) /\ done \in Nat /\ Len(Wanted) \in Nat
          /\ done + 1 \in Calls /\ done + 1 \in 0 .. Len(Wanted)
        BY <1>12, WantedAssumption DEF SubscribeBegin, Calls
    <2>2. Wanted[done + 1].symbol \in Symbol
        BY <2>1, CallType
    <2>. QED BY <1>12, <2>1, <2>2 DEF SubscribeBegin, Remember
<1>13. CASE SubscribeEnd
    <2>1. main = "asking"
        BY <1>13 DEF SubscribeEnd
    <2>2. /\ done + 1 \in Calls /\ done \in 0 .. Len(Wanted) - 1
          /\ Wanted[done + 1].symbol \in Symbol
          /\ Wanted[done + 1].strategy \in Strategy
        BY <2>1, CurrentCall
    <2>3. done' \in 0 .. Len(Wanted) /\ main' = "init"
        BY <1>13, <2>2 DEF SubscribeEnd
    <2>4. result' \in [Calls -> {"none", "instrument", "null", "undefined"}]
        BY <1>13, <2>2 DEF SubscribeEnd
    <2>5. subscribers' \in [Symbol -> Seq(Strategy)]
        <3>1. \A q \in Seq(Strategy) :
                 Append(q, Wanted[done + 1].strategy) \in Seq(Strategy)
            BY <2>2
        <3>2. \/ subscribers' = subscribers
              \/ subscribers' =
                   [subscribers EXCEPT ![Wanted[done + 1].symbol] =
                      Append(subscribers[Wanted[done + 1].symbol], Wanted[done + 1].strategy)]
            BY <1>13 DEF SubscribeEnd
        <3>3. subscribers[Wanted[done + 1].symbol] \in Seq(Strategy)
            BY <2>2
        <3>. QED BY <3>1, <3>2, <3>3, <2>2
    <2>6. subscribed' \subseteq Symbol /\ refused' \subseteq Symbol
        BY <1>13, <2>2, SubscribeType DEF SubscribeEnd
    <2>. QED BY <1>13, <2>3, <2>4, <2>5, <2>6 DEF SubscribeEnd
<1>14. CASE Run
    BY <1>14 DEF Run
<1>15. CASE UNCHANGED vars
    BY <1>15
<1>16. QED
    BY <1>1, <1>2, <1>3, <1>4, <1>5, <1>6, <1>7, <1>8, <1>9, <1>10, <1>11, <1>12, <1>13,
       <1>14, <1>15 DEF Next, Front, Callbacks, Main

\* The program's members and the front keep their types (TypeOK) in every behaviour.
THEOREM TypeCorrect == Spec => []TypeOK
<1>1. Init => TypeOK
    <2> SUFFICES ASSUME Init PROVE TypeOK
        OBVIOUS
    <2>1. news \in Seq({"connected", "disconnected", "login", "rejected"})
        BY DEF Init
    <2>2. done \in 0 .. Len(Wanted) /\ (main = "asking" => done < Len(Wanted))
        BY WantedAssumption DEF Init
    <2>3. /\ result \in [Calls -> {"none", "instrument", "null", "undefined"}]
          /\ subscribers \in [Symbol -> Seq(Strategy)]
        BY DEF Init
    <2>. QED BY <2>1, <2>2, <2>3 DEF Init, TypeOK
<1>. QED BY <1>1, TypeInductive, PTL DEF Spec

----------------------------------------------------------------------------

\* The API thread has a login callback yet to run.
LoginComing == \E k \in 1 .. Len(news) : news[k] = "login"

\* Why quotes follow.  A returned symbol is in instruments_, so every login callback has
\* it before it; and once that callback is no longer to come, the symbol has been asked
\* for in this session or the walk has still to come to it.
Following ==
    /\ session => link
    /\ login_sent => link
    /\ ~walking => unvisited = {}
    /\ main = "asking" => Wanted[done + 1].symbol \in instruments
    /\ \A i \in Calls :
         result[i] = "instrument" =>
            /\ Wanted[i].symbol \in instruments
            /\ session /\ ~LoginComing =>
                 Wanted[i].symbol \in subscribed \cup refused \cup unvisited

\* What is appended to news leaves the login callbacks in it.
LEMMA LoginComingAppend ==
    ASSUME TypeOK, NEW n \in News, news' = Append(news, n)
    PROVE  /\ LoginComing => LoginComing'
           /\ n = "login" => LoginComing'
<1>1. /\ news \in Seq(News) /\ Len(news) \in Nat
      /\ Len(news') = Len(news) + 1 /\ news'[Len(news) + 1] = n
      /\ \A k \in 1 .. Len(news) : news'[k] = news[k]
    BY DEF TypeOK, News
<1>. QED BY <1>1 DEF LoginComing

\* A callback other than the login leaves the login callbacks in news.
LEMMA LoginComingTail ==
    ASSUME TypeOK, news # <<>>, Head(news) # "login", news' = Tail(news), LoginComing
    PROVE  LoginComing'
<1>1. news \in Seq(News) /\ Len(news) \in Nat /\ Head(news) = news[1]
    BY DEF TypeOK, News
<1>2. Len(news') = Len(news) - 1 /\ \A k \in 1 .. Len(news) - 1 : news'[k] = news[k + 1]
    BY <1>1
<1>3. PICK k \in 1 .. Len(news) : news[k] = "login"
    BY DEF LoginComing
<1>4. k - 1 \in 1 .. Len(news) - 1 /\ (k - 1) + 1 = k
    BY <1>1, <1>3
<1>. QED BY <1>1, <1>2, <1>3, <1>4 DEF LoginComing

\* Every step keeps Following.
LEMMA FollowingInductive == TypeOK /\ Following /\ [Next]_vars => Following'
<1> SUFFICES ASSUME TypeOK, Following, [Next]_vars PROVE Following'
    OBVIOUS
<1> USE DEF Following, apiVars, engineVars, frontVars, vars
<1>1. CASE Establish
    <2>1. LoginComing => LoginComing'
        BY <1>1, LoginComingAppend DEF Establish, News
    <2>. QED BY <1>1, <2>1 DEF Establish
<1>2. CASE Break
    BY <1>2 DEF Break
<1>3. CASE AnswerLogin
    <2>1. (LoginComing => LoginComing') /\ (session' # session => LoginComing')
        BY <1>3, LoginComingAppend DEF AnswerLogin, News
    <2>2. session' => link
        BY <1>3 DEF AnswerLogin
    <2>. QED BY <1>3, <2>1, <2>2 DEF AnswerLogin
<1>4. CASE TdChange
    BY <1>4 DEF TdChange, LoginComing
<1>5. CASE OnFrontConnected
    <2>1. LoginComing => LoginComing'
        BY <1>5, LoginComingTail DEF OnFrontConnected
    <2>. QED BY <1>5, <2>1 DEF OnFrontConnected, TypeOK
<1>6. CASE OnFrontDisconnected
    <2>1. LoginComing => LoginComing'
        BY <1>6, LoginComingTail DEF OnFrontDisconnected
    <2>. QED BY <1>6, <2>1 DEF OnFrontDisconnected
<1>7. CASE OnRspUserLogin
    <2>1. CASE Head(news) = "login"
        BY <1>7, <2>1 DEF OnRspUserLogin, ToResubscribe
    <2>2. CASE Head(news) # "login"
        <3>1. LoginComing => LoginComing'
            BY <1>7, <2>2, LoginComingTail DEF OnRspUserLogin
        <3>. QED BY <1>7, <2>2, <3>1 DEF OnRspUserLogin
    <2>. QED BY <2>1, <2>2
<1>8. ASSUME NEW x \in Symbol, Resubscribe(x) PROVE Following'
    <2>1. LoginComing' <=> LoginComing
        BY <1>8 DEF Resubscribe, LoginComing
    <2>2. /\ subscribed \subseteq subscribed' /\ refused \subseteq refused'
          /\ session => x \in subscribed' \cup refused'
        BY <1>8 DEF Resubscribe, Subscribe
    <2>3. unvisited' = unvisited \ {x}
        BY <1>8 DEF Resubscribe
    <2>. QED BY <1>8, <2>1, <2>2, <2>3 DEF Resubscribe
<1>9. CASE WalkEnds
    BY <1>9 DEF WalkEnds, LoginComing
<1>10. CASE Connect
    BY <1>10 DEF Connect, LoginComing
<1>11. CASE StartInit
    BY <1>11 DEF StartInit, LoginComing
<1>12. CASE SubscribeBegin
    <2>1. LoginComing' <=> LoginComing
        BY <1>12 DEF SubscribeBegin, LoginComing
    <2>2. /\ unvisited \subseteq unvisited' /\ instruments \subseteq instruments'
          /\ ~walking => unvisited' = unvisited
        BY <1>12 DEF SubscribeBegin, Remember
    <2>3. \A i \in Calls : result'[i] = "instrument" => result[i] = "instrument"
        BY <1>12 DEF SubscribeBegin, TypeOK
    <2>4. main' = "asking" => Wanted[done' + 1].symbol \in instruments'
        BY <1>12 DEF SubscribeBegin, Remember
    <2>. QED BY <1>12, <2>1, <2>2, <2>3, <2>4 DEF SubscribeBegin
<1>13. CASE SubscribeEnd
    <2>1. main = "asking" /\ Wanted[done + 1].symbol \in instruments
        BY <1>13 DEF SubscribeEnd
    <2>2. LoginComing' <=> LoginComing
        BY <1>13 DEF SubscribeEnd, LoginComing
    <2>3. subscribed \subseteq subscribed' /\ refused \subseteq refused'
        BY <1>13 DEF SubscribeEnd, Subscribe
    <2>4. \A i \in Calls : result'[i] = "instrument" =>
             \/ result[i] = "instrument"
             \/ i = done + 1 /\ (session => Wanted[done + 1].symbol \in subscribed')
        BY <1>13 DEF SubscribeEnd, Subscribe, TypeOK
    <2>. QED BY <1>13, <2>1, <2>2, <2>3, <2>4 DEF SubscribeEnd
<1>14. CASE Run
    BY <1>14 DEF Run, LoginComing
<1>15. CASE UNCHANGED vars
    BY <1>15 DEF LoginComing
<1>16. QED
    BY <1>1, <1>2, <1>3, <1>4, <1>5, <1>6, <1>7, <1>8, <1>9, <1>10, <1>11, <1>12, <1>13,
       <1>14, <1>15 DEF Next, Front, Callbacks, Main

\* An Instrument that subscribe has returned has its quotes in every session of the front
\* that follows, unless the API refused (QuotesFollow), whatever the calls, the breaks and
\* the steps of the two threads.
THEOREM QuotesFollowCorrect == Spec => []QuotesFollow
<1>1. Init => Following
    BY DEF Init, Following
<1>2. Following => QuotesFollow
    BY DEF Following, QuotesFollow, Quiet, LoginComing
<1>. QED BY <1>1, <1>2, FollowingInductive, TypeCorrect, PTL DEF Spec

----------------------------------------------------------------------------

\* The callbacks that tell of the connection itself.
LinkNews == {"connected", "disconnected"}

\* The news at k is the last word on the connection.
LastLinkNews(k) == news[k] \in LinkNews /\ \A j \in k + 1 .. Len(news) : news[j] \notin LinkNews

\* Why the flags tell a session.  The last word on the connection is true: connect_status_
\* will be right once the API thread has caught up.  login_status_ is set or will be while
\* there is a session; and on a connection without one, either the callback that asks for
\* the login is still to come, or the login is under way, or it was rejected.
Informed ==
    /\ session => link
    /\ login_sent => link
    /\ (\A k \in 1 .. Len(news) : news[k] \notin LinkNews) => (connect_status <=> link)
    /\ \A k \in 1 .. Len(news) : LastLinkNews(k) => (news[k] = "connected" <=> link)
    /\ session => login_status \/ LoginComing
    /\ link /\ ~session /\ ~login_sent /\ ~rejected =>
          \E k \in 1 .. Len(news) : news[k] = "connected"

\* News that is appended comes last and leaves what was there.
LEMMA NewsAppend ==
    ASSUME TypeOK, NEW n \in News, news' = Append(news, n)
    PROVE  /\ Len(news) \in Nat /\ Len(news') = Len(news) + 1 /\ news'[Len(news) + 1] = n
           /\ \A k \in 1 .. Len(news) : news'[k] = news[k]
BY DEF TypeOK, News

\* News that is taken moves the rest up by one.
LEMMA NewsTail ==
    ASSUME TypeOK, news # <<>>, news' = Tail(news)
    PROVE  /\ Len(news) \in Nat \ {0} /\ Head(news) = news[1]
           /\ Len(news') = Len(news) - 1
           /\ \A k \in 1 .. Len(news) - 1 : news'[k] = news[k + 1]
BY DEF TypeOK, News

\* A word on the connection that is appended is the last one.
LEMMA LinkNewsAppend ==
    ASSUME TypeOK, NEW n \in LinkNews, news' = Append(news, n)
    PROVE  /\ news'[Len(news) + 1] = n /\ Len(news) + 1 \in 1 .. Len(news')
           /\ \A k \in 1 .. Len(news') : LastLinkNews(k)' => k = Len(news) + 1
<1>1. /\ Len(news) \in Nat /\ Len(news') = Len(news) + 1 /\ news'[Len(news) + 1] = n
      /\ \A k \in 1 .. Len(news) : news'[k] = news[k]
    BY NewsAppend DEF LinkNews, News
<1>2. ASSUME NEW k \in 1 .. Len(news'), LastLinkNews(k)', k # Len(news) + 1 PROVE FALSE
    <2>1. Len(news) + 1 \in k + 1 .. Len(news')
        BY <1>1, <1>2
    <2>. QED BY <1>1, <1>2, <2>1 DEF LastLinkNews
<1>. QED BY <1>1, <1>2

\* Another word changes nothing of that.
LEMMA OtherNewsAppend ==
    ASSUME TypeOK, NEW n \in News \ LinkNews, news' = Append(news, n)
    PROVE  /\ Len(news') = Len(news) + 1 /\ Len(news) \in Nat
           /\ \A k \in 1 .. Len(news) : news'[k] = news[k]
           /\ news'[Len(news) + 1] \notin LinkNews
           /\ \A k \in 1 .. Len(news') :
                 LastLinkNews(k)' => k \in 1 .. Len(news) /\ LastLinkNews(k)
<1>1. /\ Len(news) \in Nat /\ Len(news') = Len(news) + 1 /\ news'[Len(news) + 1] = n
      /\ \A k \in 1 .. Len(news) : news'[k] = news[k]
    BY NewsAppend
<1>2. ASSUME NEW k \in 1 .. Len(news'), LastLinkNews(k)'
      PROVE  k \in 1 .. Len(news) /\ LastLinkNews(k)
    <2>1. k \in 1 .. Len(news)
        BY <1>1, <1>2 DEF LastLinkNews
    <2>2. \A j \in k + 1 .. Len(news) : j \in k + 1 .. Len(news') /\ j \in 1 .. Len(news)
        BY <1>1, <2>1
    <2>. QED BY <1>1, <1>2, <2>1, <2>2 DEF LastLinkNews
<1>. QED BY <1>1, <1>2

\* When a callback is run, the last word stays the last unless it is that callback's.
LEMMA LinkNewsTail ==
    ASSUME TypeOK, news # <<>>, news' = Tail(news)
    PROVE  /\ Head(news) = news[1] /\ 1 \in 1 .. Len(news)
           /\ \A k \in 1 .. Len(news') :
                 /\ k + 1 \in 1 .. Len(news) /\ news'[k] = news[k + 1]
                 /\ LastLinkNews(k)' => LastLinkNews(k + 1)
           /\ (\A k \in 1 .. Len(news') : news'[k] \notin LinkNews) =>
                 \/ LastLinkNews(1)
                 \/ \A k \in 1 .. Len(news) : news[k] \notin LinkNews
           /\ \A k \in 1 .. Len(news) : k = 1 \/ (k - 1 \in 1 .. Len(news') /\ news'[k - 1] = news[k])
<1>1. /\ Len(news) \in Nat \ {0} /\ Head(news) = news[1]
      /\ Len(news') = Len(news) - 1
      /\ \A k \in 1 .. Len(news) - 1 : news'[k] = news[k + 1]
    BY NewsTail
<1>2. \A k \in 1 .. Len(news') : k + 1 \in 1 .. Len(news) /\ news'[k] = news[k + 1]
    BY <1>1
<1>3. ASSUME NEW k \in 1 .. Len(news) PROVE k = 1 \/ (k - 1 \in 1 .. Len(news') /\ news'[k - 1] = news[k])
    <2>1. k # 1 => k - 1 \in 1 .. Len(news) - 1 /\ (k - 1) + 1 = k
        BY <1>1
    <2>. QED BY <1>1, <2>1
<1>4. ASSUME NEW k \in 1 .. Len(news'), LastLinkNews(k)' PROVE LastLinkNews(k + 1)
    <2>1. news[k + 1] \in LinkNews
        BY <1>2, <1>4 DEF LastLinkNews
    <2>2. ASSUME NEW j \in (k + 1) + 1 .. Len(news) PROVE news[j] \notin LinkNews
        <3>1. j - 1 \in k + 1 .. Len(news') /\ j - 1 \in 1 .. Len(news) - 1 /\ (j - 1) + 1 = j
            BY <1>1
        <3>2. news'[j - 1] = news[j]
            BY <1>1, <3>1
        <3>. QED BY <1>4, <3>1, <3>2 DEF LastLinkNews
    <2>. QED BY <2>1, <2>2 DEF LastLinkNews
<1>5. ASSUME \A k \in 1 .. Len(news') : news'[k] \notin LinkNews
      PROVE  LastLinkNews(1) \/ \A k \in 1 .. Len(news) : news[k] \notin LinkNews
    <2>1. \A k \in 1 .. Len(news) : k # 1 => news[k] \notin LinkNews
        BY <1>3, <1>5
    <2>2. \A j \in 1 + 1 .. Len(news) : j \in 1 .. Len(news) /\ j # 1
        BY <1>1
    <2>. QED BY <2>1, <2>2 DEF LastLinkNews
<1>. QED BY <1>1, <1>2, <1>3, <1>4, <1>5

\* A step that leaves the news and the connection alone.
LEMMA InformedSame ==
    ASSUME Informed, UNCHANGED <<news, link, session, login_sent, login_status, connect_status>>,
           rejected => rejected'
    PROVE  Informed'
BY DEF Informed, LastLinkNews, LoginComing

\* Every step keeps Informed.
LEMMA InformedInductive == TypeOK /\ Informed /\ [Next]_vars => Informed'
<1> SUFFICES ASSUME TypeOK, Informed, [Next]_vars PROVE Informed'
    OBVIOUS
<1> USE DEF apiVars, engineVars, frontVars, vars
<1>1. CASE Establish
    <2>1. news' = Append(news, "connected") /\ link' = TRUE /\ ~link
        BY <1>1 DEF Establish
    <2>2. /\ news'[Len(news) + 1] = "connected" /\ Len(news) + 1 \in 1 .. Len(news')
          /\ \A k \in 1 .. Len(news') : LastLinkNews(k)' => k = Len(news) + 1
        BY <2>1, LinkNewsAppend DEF LinkNews
    <2>3. ~session' /\ ~login_sent'
        BY <1>1, <2>1 DEF Establish, Informed
    <2>. QED BY <2>1, <2>2, <2>3 DEF Informed, LinkNews
<1>2. CASE Break
    <2>1. news' = Append(news, "disconnected") /\ ~link' /\ ~session' /\ ~login_sent'
        BY <1>2 DEF Break
    <2>2. /\ news'[Len(news) + 1] = "disconnected" /\ Len(news) + 1 \in 1 .. Len(news')
          /\ \A k \in 1 .. Len(news') : LastLinkNews(k)' => k = Len(news) + 1
        BY <2>1, LinkNewsAppend DEF LinkNews
    <2>. QED BY <2>1, <2>2 DEF Informed, LinkNews
<1>3. CASE AnswerLogin
    <2>1. PICK n \in News \ LinkNews :
             /\ news' = Append(news, n)
             /\ \/ n = "login" /\ session' /\ rejected' = rejected
                \/ n = "rejected" /\ rejected' /\ session' = session
        <3>1. "login" \in News \ LinkNews /\ "rejected" \in News \ LinkNews
            BY DEF News, LinkNews
        <3>2. CASE news' = Append(news, "login") /\ session' /\ rejected' = rejected
            BY <3>1, <3>2
        <3>3. CASE news' = Append(news, "rejected") /\ rejected' /\ session' = session
            BY <3>1, <3>3
        <3>. QED BY <1>3, <3>2, <3>3 DEF AnswerLogin
    <2>2. /\ Len(news') = Len(news) + 1 /\ Len(news) \in Nat
          /\ \A k \in 1 .. Len(news) : news'[k] = news[k]
          /\ news'[Len(news) + 1] \notin LinkNews
          /\ \A k \in 1 .. Len(news') :
                LastLinkNews(k)' => k \in 1 .. Len(news) /\ LastLinkNews(k)
        BY <2>1, OtherNewsAppend
    <2>3. (LoginComing => LoginComing') /\ (n = "login" => LoginComing')
        BY <2>1, LoginComingAppend
    <2>4. link /\ UNCHANGED <<link, connect_status, login_status>> /\ ~login_sent'
        BY <1>3 DEF AnswerLogin, Informed
    <2>5. (\A k \in 1 .. Len(news') : news'[k] \notin LinkNews) =>
             \A k \in 1 .. Len(news) : news[k] \notin LinkNews
        BY <2>2
    <2>. QED BY <2>1, <2>2, <2>3, <2>4, <2>5 DEF Informed
<1>4. CASE TdChange
    BY <1>4, InformedSame DEF TdChange
<1>5. CASE OnFrontConnected
    <2>1. /\ news # <<>> /\ Head(news) = "connected" /\ news' = Tail(news)
          /\ connect_status' = TRUE /\ link' = link
          /\ session' = session /\ login_status' = login_status
          /\ link => login_sent' \/ rejected'
          /\ login_sent' => link
        BY <1>5 DEF OnFrontConnected, Informed
    <2>2. LoginComing => LoginComing'
        BY <2>1, LoginComingTail
    <2>3. \A k \in 1 .. Len(news') : LastLinkNews(k)' => (news'[k] = "connected" <=> link)
        BY <2>1, LinkNewsTail DEF Informed
    <2>4. (\A k \in 1 .. Len(news') : news'[k] \notin LinkNews) => link
        <3>1. SUFFICES ASSUME \A k \in 1 .. Len(news') : news'[k] \notin LinkNews PROVE link
            OBVIOUS
        <3>2. LastLinkNews(1) /\ news[1] = "connected" /\ 1 \in 1 .. Len(news)
            BY <2>1, <3>1, LinkNewsTail DEF LinkNews
        <3>. QED BY <3>2 DEF Informed
    <2>. QED BY <2>1, <2>2, <2>3, <2>4 DEF Informed
<1>6. CASE OnFrontDisconnected
    <2>1. /\ news # <<>> /\ Head(news) = "disconnected" /\ news' = Tail(news)
          /\ connect_status' = FALSE
          /\ UNCHANGED <<link, session, login_status, login_sent, rejected>>
        BY <1>6 DEF OnFrontDisconnected, ConnectedAfter
    <2>2. LoginComing => LoginComing'
        BY <2>1, LoginComingTail
    <2>3. \A k \in 1 .. Len(news') : LastLinkNews(k)' => (news'[k] = "connected" <=> link)
        BY <2>1, LinkNewsTail DEF Informed
    <2>4. (\A k \in 1 .. Len(news') : news'[k] \notin LinkNews) => ~link
        <3>1. SUFFICES ASSUME \A k \in 1 .. Len(news') : news'[k] \notin LinkNews PROVE ~link
            OBVIOUS
        <3>2. LastLinkNews(1) /\ news[1] = "disconnected" /\ 1 \in 1 .. Len(news)
            BY <2>1, <3>1, LinkNewsTail DEF LinkNews
        <3>. QED BY <3>2 DEF Informed
    <2>5. (\E k \in 1 .. Len(news) : news[k] = "connected") =>
             \E k \in 1 .. Len(news') : news'[k] = "connected"
        BY <2>1, LinkNewsTail
    <2>. QED BY <2>1, <2>2, <2>3, <2>4, <2>5 DEF Informed
<1>7. CASE OnRspUserLogin
    <2>1. /\ news # <<>> /\ Head(news) \in {"login", "rejected"} /\ news' = Tail(news)
          /\ UNCHANGED <<connect_status, link, session, login_sent, rejected>>
          /\ Head(news) = "login" => login_status'
          /\ Head(news) # "login" => login_status' = login_status
        BY <1>7 DEF OnRspUserLogin
    <2>2. Head(news) # "login" /\ LoginComing => LoginComing'
        BY <2>1, LoginComingTail
    <2>3. \A k \in 1 .. Len(news') : LastLinkNews(k)' => (news'[k] = "connected" <=> link)
        BY <2>1, LinkNewsTail DEF Informed
    <2>4. (\A k \in 1 .. Len(news') : news'[k] \notin LinkNews) =>
             \A k \in 1 .. Len(news) : news[k] \notin LinkNews
        BY <2>1, LinkNewsTail DEF LinkNews, LastLinkNews
    <2>5. (\E k \in 1 .. Len(news) : news[k] = "connected") =>
             \E k \in 1 .. Len(news') : news'[k] = "connected"
        BY <2>1, LinkNewsTail
    <2>. QED BY <2>1, <2>2, <2>3, <2>4, <2>5 DEF Informed
<1>8. ASSUME NEW x \in Symbol, Resubscribe(x) PROVE Informed'
    BY <1>8, InformedSame DEF Resubscribe
<1>9. CASE WalkEnds
    BY <1>9, InformedSame DEF WalkEnds
<1>10. CASE Connect
    BY <1>10, InformedSame DEF Connect
<1>11. CASE StartInit
    BY <1>11, InformedSame DEF StartInit
<1>12. CASE SubscribeBegin
    BY <1>12, InformedSame DEF SubscribeBegin
<1>13. CASE SubscribeEnd
    BY <1>13, InformedSame DEF SubscribeEnd
<1>14. CASE Run
    BY <1>14, InformedSame DEF Run
<1>15. CASE UNCHANGED vars
    BY <1>15, InformedSame
<1>16. QED
    BY <1>1, <1>2, <1>3, <1>4, <1>5, <1>6, <1>7, <1>8, <1>9, <1>10, <1>11, <1>12, <1>13,
       <1>14, <1>15 DEF Next, Front, Callbacks, Main

\* md_connect() tells a session from none, and no connection stays without one
\* (FlagsTellSession), once the callbacks have caught up, whatever login_status_ was left
\* over from earlier sessions.
THEOREM FlagsTellSessionCorrect == Spec => []FlagsTellSession
<1>1. Init => Informed
    BY DEF Init, Informed, LastLinkNews
<1>2. TypeOK /\ Informed => FlagsTellSession
    <2>. SUFFICES ASSUME TypeOK, Informed, Quiet, ~login_sent, ~rejected
                  PROVE  (md_connect <=> session) /\ (session <=> link)
        BY DEF FlagsTellSession
    <2>1. 1 .. Len(news) = {}
        BY DEF Quiet
    <2>2. (connect_status <=> link) /\ ~LoginComing
        BY <2>1 DEF Informed, LoginComing
    <2>3. session <=> link
        BY <2>1 DEF Informed
    <2>4. session => login_status
        BY <2>2 DEF Informed
    <2>. QED BY <2>2, <2>3, <2>4 DEF md_connect
<1>. QED BY <1>1, <1>2, InformedInductive, TypeCorrect, PTL DEF Spec
=============================================================================
