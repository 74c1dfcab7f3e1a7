# smartquant in TLA+

smartquant is a single-process trading system: market data, trading interface and strategies
live in one program. These modules model what the program does with events and orders, TLC
checks them on small instances, and TLAPS proves the central properties for every instance.
Paths below are relative to `src/smartquant/`.

## 1. The system

### Threads and how they interact

* The **main thread** builds the engines, adds gateways and strategies, and calls
  `AlgoEngine::start`, which connects every gateway, runs `init` of every strategy and then
  blocks in `EventEngine::start` until the event thread ends.
* Each CTP API (market data, trading) has a **thread of its own** that runs the callbacks of
  `CtpMd` and `CtpTd`, and the Level-2 gateway has one that receives its quotes. A callback that carries data turns into one `EventEngine::push`.
* The **event thread** takes one event after the other and runs its handlers. Strategies run
  only here (after `init`), so `send` and `kill` are called on this thread, between or
  inside handlers.
* Each `add_timer` starts a **detached thread** that sleeps, pushes one event and ends.

All shared state of the trading logic (SmartOrders, the id map, the Instruments) belongs to
the event thread. What crosses threads is the event queue, `is_active_` of the engine, the
members of the gateways, and the requests given to the CTP APIs.

### Components, their state, and what makes them correct

| component | state | operations | correct when |
|---|---|---|---|
| `EventEngine` (`event/`) | queue, handlers, `is_active_` | `push`, `register_handler`, `start`, `stop`, `run`, `add_timer` | every event reaches every handler once or is lost at a full queue; events of one thread stay in order; stop takes effect; no timer is forgotten |
| `SmartOrder` (`algo/src/smartorder.cpp`) | `order_id_`, `status_`, `is_active_` | `send` (two overloads), `kill`, `operator=` | one live order at most; active exactly as long as the order has news to give |
| `AlgoEngine` order handlers (`algo/src/algo.cpp`) | `id_to_smartorder_` | `process_on_order`, `process_on_trade` | every report and trade finds its SmartOrder; the slot is released after the last one, and only then |
| `Instrument` (`algo/src/instrument.cpp`) | four position counters, `long_times_`, `short_times_`, `kill_times_`, `tradable_` | getters, setters | the counters are the account's; cancellations are counted once |
| `AlgoEngine` start, subscription and routing | gateways, strategies, last ticks, subscribers | `start`, `subscribe`, `process_on_tick`, `send_order`, `cancel_order` | a strategy's `init` gets its instruments, ticks reach the subscribers, orders and cancel requests reach the gateway of their Instrument |
| `CtpTd` (`gateway/ctp/ctptd.cpp`) | session, front, `order_ref_`, connection flags | callbacks, `send_order`, `cancel_order` | ids are fresh, a cancel names the order it means |
| `CtpMd` (`gateway/ctp/ctpmd.cpp`) | connection flags, subscribed instruments | callbacks, `subscribe` | every subscription survives a reconnect |
| CTP conversions (`gateway/ctp/ctp_utils.h`) | none | `to_ctp*`, `from_ctp*` | what goes out comes back as the same value |
| `Date`, `Time`, `DateTime` (`utils.cpp`) | none | comparisons | a total order that is the calendar's |
| `IndexArb_v2` (`strategy/example.cpp`) | indicator, four SmartOrders, flags | `on_event` and what it calls | opens and closes as intended, position bounded |
| Level-2 gateway (`gateway/stock_level2/`) | the subscriptions of its socket | `subscribe`, the receiving loop | its quotes do not disturb what is traded at CTP |
| REM gateway, bar generator, backtesting, `Config` | | | not modelled, see section 7 |

### What is hard

Reports and trades race the strategy: an order may be filled while it is being cancelled,
a report may be in the queue before `send` has stored the id it is about, `status_` survives
from one order to the next, and several SmartOrders share one position. Insert requests
fail, the queue may be full, sessions end and begin anew. An Instrument has no gateway: each
request looks it up in the last tick of its symbol, which any tick and any `subscribe`
overwrites. `PROJECT.json` lists each hazard at
the line where it bites with the properties that cover it.

## 2. The modules

| module | models | role |
|---|---|---|
| `Positions` | the position counters, the two switches of `process_on_trade`, `Offset::AUTO`; a reference settlement | pure operators |
| `CtpConversions` | the tables between CTP's direction, offset, price type and status codes and the program's enumerations | pure operators |
| `SmartOrders` | `SmartOrder`, the order handlers of `AlgoEngine`, one `Instrument`, the order side of the gateway, against a nondeterministic exchange; uses `Positions` and `CtpConversions` | the core state machine |
| `OrderSlots` | what a strategy may rely on: a slot holds at most one live order and is given back afterwards | abstract specification, implemented by `SmartOrders` |
| `EventEngine` | queue, event loop, start and stop, timers | state machine of its own |
| `MarketData` | `AlgoEngine::start` and `subscribe`, `CtpMd` and its front | state machine of its own |
| `CtpTd` | connection, login, order ids and cancel requests of `CtpTd`, and its front | state machine of its own |
| `Routing` | `subscribe`, `process_on_tick`, `send_order` and `cancel_order` of `AlgoEngine` with several strategies and two gateways, `Instrument::gateway` and `exchange`, the Level-2 gateway | state machine of its own |
| `DateTimes` | `Date`, `Time`, `DateTime` and their comparisons; the order of calendar and clock | pure operators |
| `IndexArb` | the strategy of `strategy/example.cpp` and `process_on_tick`, on slots as `OrderSlots` has them; uses `DateTimes` | state machine on top of the order engine |
| `MCSmartOrders`, `MCEventEngine`, `MCMarketData`, `MCCtpTd`, `MCRouting`, `MCIndexArb` | values of the constants for TLC | |
| `SmartOrders_proofs` | theorems about `Positions`, `CtpConversions` and the invariants of `SmartOrders` | proofs |
| `SmartOrders_slots` | the steps of a slot and of its counters: refinement of `OrderSlots`, release, cancellations | proofs |
| `EventEngine_proofs`, `MarketData_proofs`, `CtpTd_proofs`, `Routing_proofs` | the safety properties of the module of that name | proofs |
| `IndexArb_proofs` | the comparisons of `DateTimes`, and the safety properties of `IndexArb` | proofs |
| `Counting` | how often a value occurs in a sequence, with the lemmas that the proofs about queues cite | lemmas |

Operators whose comment begins with "A slip" are plausible mistakes in the code. No
specification uses them; `PROJECT.json` lists, for each property of each run, the slip that
breaks it.

### SmartOrders

`orders[s]` is `[id, status, active]`, the three members of a SmartOrder that the protocol
reads; `registered` is `id_to_smartorder_`; `pos`, `sent`, `kills`, `tradable` are the
Instrument; `queue` is the part of the event queue that the trader-API thread feeds.

| action | code |
|---|---|
| `SendBegin`, `SendEnd` | `SmartOrder::send`, both overloads, split where it calls the gateway: the counter can answer before the call returns |
| `Kill` | `SmartOrder::kill` and the cancel request it hands over |
| `SetTradable` | `Instrument::set_tradable` |
| `ProcessOnOrder`, `ProcessOnTrade` | the two handlers, whole; the strategy callback at their end is any sequence of `Kill`, `SendBegin`, `SendEnd`, `SetTradable` before the next dispatch |
| `Acknowledge`, `Refuse`, `Withdraw`, `Match`, `ReportTrade`, `RefuseCancel` | the exchange and the CTP front with the callbacks of `CtpTd` that push what they report; external |

The exchange speaks CTP: `counter` keeps the direction and the offset flag that
`to_ctp_direction` and `to_ctp_comb_offset` made of the request, and a report is a pair of
order status and submit status that `from_ctp_order_status` decodes on its way into the
queue. A code that no case of a table assigns keeps the zero of the record it is stored in
(`OrderData order {}`), which the `OTHER` arms spell out.

Prices are left out: `send` refuses a price that is not positive and no property depends on
one. Times and sizes of ticks play no role either, since strategies are arbitrary: any
SmartOrder may be told to send any request or to kill between any two events.

What the model takes from the exchange is what the handlers are written for:

* events of one order come in the order in which they happened, and the report of a match
  comes before its trade. The trader API has one thread and the queue keeps the order of one
  thread (`HandledInOrder` of `EventEngine`);
* a match is followed by one trade, unless `SplitTrades`;
* a refusal is reported as `Unknown` with `InsertRejected`, or answered by
  `OnRspOrderInsert`. One that is reported as `Canceled` with `InsertRejected` is a branch of
  `Withdraw`: `from_ctp_order_status` looks at `Canceled` first, so the program counts it as a
  cancellation, and so does `KillTimesExact`. An order that is over without a trade is reported as `Canceled`. Reports
  that only confirm that a cancel request was submitted, or refused, change nothing that a
  property looks at and are left out;
* an id is handed out at most once (`IdsAreFresh` of `CtpTd`); a request that the front
  refuses at once is `Refuse`, one that the API refuses is the `FailedId` branch of
  `SendBegin` (`SendMayFail`);
* the account is never overdrawn: the exchange does not fill a close for which nothing is
  held;
* a cancel request reaches the order it names, within one session of the trader
  (`SessionCanCancel` of `CtpTd`; section 6 has what happens across sessions).

`book` in an event, `dropped` and `overtaken` are history fields: no action of the program reads
them.
The status that a trade event carries, likewise, only names the report it belongs to.

### EventEngine

The queue library keeps the events of one thread in order and promises nothing across
threads, so the queue is one FIFO per thread with a common `Size`. `run` is the cycle
`Test` (the loop condition), `Dequeue` (`wait_dequeue`), `Callback` per handler, `AllCalled`.
`is_active_` is a plain `bool`: a racing read sees the stop or not yet, which are the two
orders of `Stop` and `Test`. A stop before start is overwritten by `Start`, as in the code.
A sleeping timer wakes at or after `due`. Pushes are bounded: that a steady stream of one thread
does not starve the events of another is left to the library.

### MarketData

| action | code |
|---|---|
| `Connect`, `StartInit`, `Run` | `AlgoEngine::start`: connect, the end of the wait, the event loop after all `init` |
| `SubscribeBegin`, `SubscribeEnd` | `AlgoEngine::subscribe` with `CtpMd::subscribe`, split before the call into the API |
| `OnFrontConnected`, `OnFrontDisconnected`, `OnRspUserLogin` | the callbacks of `CtpMd` |
| `Resubscribe`, `WalkEnds` | the loop over `instruments_` in `OnRspUserLogin`, one symbol at a time |
| `Establish`, `Break`, `AnswerLogin`, `TdChange` | the API library and the front; external |

`Wanted` is the sequence of all subscribe calls that the strategies' `init` make. `news` is
the queue of callbacks of the API library: they are run in the order of their causes, also
those of a connection that is gone by then. The main thread's insert into `instruments_` and
the walk over it race; the model lets the walk find a new symbol or pass it by, which are
the outcomes of a `std::set` whose nodes stay in place. Whether a torn rebalancing could do
worse is outside the model.

### CtpTd

`session_id_`, `front_id_` and `order_ref_` are written by the API thread in
`OnRspUserLogin` and read and incremented by the event thread in `send_order` and
`cancel_order`, without a lock. `StoreSession`, `StoreFront`, `StoreRef` are the three
assignments; `SendBegin`, `LoadRef`, `SendEnd` the two loads of `session_id_ +
order_ref_++` and the store with the request; `CancelBegin`, `CancelEnd` the two loads of a
cancel request. `placed` is what the front has got, each order with the number of the
session it was inserted in: that session's front and session id with the OrderRef are the
key under which CTP knows the order, and `Found` is what a cancel request names. The members
start with any value of `Garbage`, since the constructor leaves them uninitialised. `meant` (the
orders a cancel request was made for), `stored` (the last login whose callback was run to its end)
and `raced` are history.

A request can be refused by the API at once (`Ask`): always without a connection, and for reasons of
its own on one that is up. `login` and `req_auth` log that at most, and nobody asks again before
the next connection. `rejected` says that the latest request for an authentication or a login ended
so, or was rejected by the front; it is history as well.

`raced` marks the behaviours in which an order was sent before the first login was stored or
while one was. In those the code can give an id twice (old session plus new number, or an
increment that undoes the assignment), and `IdsAreFresh`, `NoWrongCancel` and
`SessionCanCancel` make no claim. They also suppose `SessionsApart`: an id is a sum, so it
can only be fresh if the session numbers of the counter lie apart.

### Routing

| action | code |
|---|---|
| `Subscribe` | `AlgoEngine::subscribe` (both overloads) with `md_connect` and `subscribe` of the gateway; in `init` or while a strategy is called |
| `Send`, `Kill` | `SmartOrder::send` and `kill` as far as routing goes: the lookup of gateway and exchange, then `AlgoEngine::send_order` or `cancel_order` |
| `Run` | `AlgoEngine::start` after the last `init` |
| `ProcessOnTick`, `OnEventReturns` | `process_on_tick`: the entry and the copy of the subscribers; then one strategy after the other |
| `OnRtnDepthMarketData` | the callback of `CtpMd` and the loop of `L2Md` of that name |
| `Release` | the order is over; the whole of it is in `SmartOrders` |

`ticks` is `symbol_to_tickdata_`, of which only the gateway and whether there is an exchange
matter here; `subscribers` is `symbol_to_strategy_impl_`; `left` is what is left of the copy
that `process_on_tick` walks. `out[c]` is the order on the Instrument that subscribe call `c`
returned, with the tick it was routed by and those its cancel requests were routed by; one
order at a time is enough, since each is routed alone. `watched` and `Matching` say what a
gateway delivers: a zmq subscription lets every symbol through that begins with its name.

The sessions of CTP are the matter of `MarketData`: here a `subscribe` at CTP may be answered
in each of the three ways it can. `anew`, `heard` and `due` are history fields. A request that is
routed to a gateway that `gateways_` does not have calls a null pointer; the model stops there
(`crashed`), and `OrdersGoHome` says for which Instruments that never happens.

### IndexArb

`strategy/example.cpp` is the program's `main` and the only strategy of the repository. Its
`on_event` runs on the event thread alone, so an action is the dispatch of one event: what the
handler of `AlgoEngine` does to the SmartOrder and the position, then all of `on_event`.
The operators `Open`, `Close`, `KillAll`, `OnTrade`, `OnFutureTick` are the methods of those
names, as functions from the members to the members; `open_long` and `open_short`, and
`close_long` and `close_short`, differ in the side only.

* A SmartOrder is what `ImplementsSlots` says a strategy may take it for: an order with lots
  left or a free slot. The position is one number, since every trade moves `net_pos` by its
  signed volume (`TradeMovesNetPos`), whatever its offset.
* The match that ends an order may come in several trades, as with `SplitTrades` in `SmartOrders`.
  `TradedOut` is the first of them, which frees the slot, and `trailing` what is still to come. A
  further trade moves the position as long as the slot has no new order (`Trailed`); an order that
  is sent before has another id, and the lots are discarded (`overtaken`). `OnTheWay` is what the
  account at the exchange is ahead of the position.
* Prices are reduced to decisions: whether the quotes are positive, the two signals (which
  `on_tick` sets together with the count), and for a closing order whether the market pays its
  price at once (`through`), which each tick of the future decides anew.
* `since` is `time_`, in the three values the wait distinguishes. `priced` says that
  `trade_price_` was ever assigned; before that the profit target may be a price that `send`
  refuses (`Targets`).
* Times of the day are places in `Stages`; the comparisons with the strategy's hours
  (`CountedHours`, `SessionHours`, `LateHours`) are those of `DateTimes`.
* `n_` is uninitialised in the code: `InitCounts` are the values it may start with.
* Prices the strategy sends are positive and the Instrument is tradable, so that an opening
  order is always sent when the code calls `send`.

`missed`, `inherited`, `overtaken` and `mishaps`, and `opens`, `opened` and `flagged` among the
members, are history fields. `inherited` marks a position that one trade turned over while
`close_flag_` was set: `on_trade` asks for a position of zero only, so the new one keeps that flag,
and the `time_` of the one before.

## 3. The runs

| run | question | bounds |
|---|---|---|
| `orders_pair` | two SmartOrders of one instrument: does each wait for exactly its own order, do their trades make one position? | two SmartOrders, two order ids, the requests `InAndOut` (LONG OPEN 2 and SHORT AUTO 1), flat at the start, nothing lost |
| `orders_reuse` | one SmartOrder, two orders in a row: is the slot given back after every ending, does kill free it, does it implement `OrderSlots`? | two ids, the requests `RoundTrip` (adds SHORT CLOSE 2), flat or one lot of yesterday, a fresh or a left-over `status_`; fair |
| `orders_hostile` | with refused inserts, lost events and fills split into several trades: is there never a second order, are cancellations counted once, does the position follow the account until an event is lost or a trade overtaken, is the close split right? | one SmartOrder, two ids, `RoundTrip`, flat or one lot of yesterday |
| `orders_send_fails` | an insert the API refuses; expected violation, section 6 | as `orders_pair` |
| `engine_queue` | which events reach which handlers, in which order, and what of stop and timers | queue of two places, two API threads, two timers with latencies 0 and 1, two handlers per type, two pushes per thread, clock to 1 |
| `engine_live` | does the queue drain, does stop return, does a timer fire? | one push per thread, one handler; fair |
| `md_reconnect` | is every returned Instrument subscribed in every session, do the flags tell a session from none, do quotes come back after a break, does start reach the event loop? | two breaks, three subscribe calls of two strategies with two symbols, one of them twice; requests and logins may be refused; fair |
| `md_start_order` | does subscribe in `init` return an Instrument? Expected violation, section 6 | no breaks, no refusals |
| `td_sessions` | are ids fresh over all sessions, do cancel requests hit what they mean, is a connection without a login never left alone, does the trader end up logged in? | two breaks, so three sessions on two fronts, two orders, requests that the API refuses or the front rejects; fair |
| `td_cancel` | does kill name its order after a reconnect? Expected violation, section 6 | one break, one order |
| `routing` | do orders and cancel requests go to the gateway of their Instrument, and is every tick told to every subscriber? | two strategies, a future, an index and a symbol that begins with the index's name; two calls in `init`, then the future once more and the index at the other gateway; two quotes of CTP, one of Level-2 |
| `strategy_day` | does closing never overshoot, do time and flag follow the position, are orders sent and withdrawn at their hours and is a position never without its closing order, is the strategy flat before the close and quiet after it? | opening orders of 2 lots, filled in any parts, two counted ticks, a window of two, `n_` starting at 0 or at 1, the wall clock stopping at 9:31, 10:00, 14:55, 14:56 and 14:58, one mishap (a refusal, an unasked cancellation or a moment without a price); fair |

Why the bounds are enough to be worth something: every hazard of the order engine involves
at most two orders (an old one whose events are still on their way and a new one, of the
same SmartOrder or of two on one position), and volume 2 is the smallest that has partial
fills and a close split between yesterday and today. A reconnect hazard involves an old and
a new session; a second break adds the callbacks of a dead connection that are run after the
next one is up. Two pushes per thread are the least that have an order, and a queue of two
places is full with one event of each API thread. In
`strategy_day` two counted ticks are what it takes to open on both sides, which is how the
position can pass the volume of one order; the stops of the clock are the boundaries that the
code compares with and one time between each two. In `routing` the four calls are the least that
have a symbol subscribed twice, one subscribed at both gateways, and one that only the prefix
brings; two quotes let a strategy subscribe between a quote's push and its dispatch and still
hear the next one. The proofs of section 5 have no bounds.

Deadlock checking is off where a system may stop: in `engine_*` once all events are handled
or the engine is stopped, in `td_*` once the breaks and the orders are used up, in `routing`
once the quotes are used up or a null pointer was called. `orders_*`
and `md_*` never stop, because a strategy may call `set_tradable` and the trader's flag may
change at any time, so it is on there; that says little, and what must go on is stated by
the liveness properties.

## 4. Fairness

* `SmartOrders`: the event thread keeps dispatching, a gateway call returns, the exchange
  reports the trade of a match and acts on a cancel request of a live order. The first two
  are the program's threads, which nothing blocks; the last two are the counter's service.
  Strategies get no fairness: they need not do anything.
* `EventEngine`: the event thread, the clock, and each sleeping timer. The event thread
  blocks in `wait_dequeue` only while the queue is empty; producers get no fairness.
* `MarketData` and `CtpTd`: the API library reconnects, the front answers, the API thread
  runs its callbacks, and (in `MarketData`) the main thread runs. Breaks are bounded, that is,
  the network is finally stable, which is the premise of any such promise. `LogsIn` supposes
  that from some time on the latest request was neither refused nor rejected, `QuotesReturn` and `StartReturns` what was rejected or refused,
  since the code does not try again.

* `IndexArb`: ticks of the future keep coming, if only with the quotes of the last one, time passes until the wait is over, a cancel
  request is answered, the trades of a match arrive, and a closing order that is again and again at a price the market pays is
  filled at last. The last is strong fairness, one condition for
  all closing orders, because the next tick may take the price away
  again, and it is the market's part of the promise: nobody can close at a price that is
  never paid. The wall clock need not move. Refusals are bounded (`MaxMishaps`), and must
  be: an order that is refused between any two ticks is never active when the strategy
  looks, so its wait is never found to be over and it is sent at the profit target for ever.

All other fairness is weak: no action of the program competes with another for being enabled, but
for the alternatives of one thread, which are one fairness condition together.

## 5. What is proved

Each theorem is for every value of the constants that satisfies the ASSUMEs of its module,
so for any number of SmartOrders, orders, threads, timers, symbols, calls and breaks.

* `SmartOrders_proofs` begins with the pure operators. `ApplyTradeIsSettle` says that
  `from_ctp_direction`, `from_ctp_offset` and the two nested switches of `process_on_trade`
  together compute the reference settlement for every position, direction, flag and volume;
  `TradeMovesNetPos` that a trade moves `net_pos` by its signed volume; `CloseKeepsCovered` that
  a CLOSE no larger than the holding leaves no counter negative; `IntentSurvives` that side,
  offset (AUTO included) and type of an order are decoded from CTP's report as they were sent;
  `ReleasedIffEnded` that the status table, `process_on_order` and `process_on_trade` together
  release a SmartOrder exactly for the statuses with which the order is over.
* `SmartOrders_proofs`, the state machine: `TypeCorrect`, `OneOutstandingCorrect`,
  `NoEventIsStaleCorrect` and `BookFollowsExchangeCorrect`, without assumptions on what may fail,
  and as the properties say, while nothing was lost. None is inductive alone. The invariant is `Bookkeeping` (who owns which order, what the id map and the queue may name; holds
  whatever is lost), `Tracking` (every live, queued or owed order is held by its SmartOrder; a
  queued trade is announced by the last report before it, so that `status_` is that report's when
  the trade is dispatched; after a final event of an order nothing of it follows) and `Ledger`
  (the account after the events dispatched so far is the Instrument's position, and each queued
  trade leads from one account to the next). `TrackingCorrect` states the first two, `BookkeepingCorrect` the
  one that needs no event to arrive; `Tracking` speaks of the time before one is lost.
  `Announced` is the heart of it: `process_on_trade` trusts a `status_` that may have been
  left by another order, and the induction shows that by then it is this order's.
  With `SplitTrades` an order may be over with several trades on their way. The first of them
  releases the SmartOrder, which may have the next order when the others come. Such a trade is
  `Trailing`: what `Tracking` says of the rest of the queue it does not say of these, but that
  nothing of the order follows them but others of the same report. That suffices: a trailing trade
  that still finds its order's id in the SmartOrder finds it inactive or still waiting for the
  release, and one that finds another id is discarded. The history variable `overtaken` records
  that: from then on the position lacks its lots, and `Ledger` speaks of the time before. That
  the trades of a match add up to the match, and that each of them is covered if the match is,
  are `SettleInParts` and `PartIsCovered`.
* `SmartOrders_slots`: `ReleaseOnlyWhenDoneCorrect` without assumptions, and
  `ImplementsSlotsCorrect`: with no loss and no failed insert every step of `SmartOrders` is a
  step of `OrderSlots` or a stutter, however many trades a match has. A slot is taken from
  `SendBegin`, not from the moment `is_active_` is set: in between the order may already be live.
  `ActiveMeansOutstandingCorrect` (assuming `~SendMayFail`): the property says that some event is
  on its way, the invariant `Awaited` that a *final* one is, since any other event would be
  dispatched and leave nothing to wait for. `KillTimesExactCorrect`, without assumptions: `Tally`
  counts the cancellations in the queue with `Times`, since a cardinality of positions cannot be
  followed through `Tail`.
* `EventEngine_proofs`: `TypeCorrect`, `OneAfterStopCorrect`;
  `HandledInOrderCorrect`, whose invariant orders what was handled before what is in hand
  before what is queued, all below the number of the last push; and `EveryHandlerOnceCorrect`,
  whose invariant `Accounted` puts every event in exactly one place (lost, waiting, in hand,
  handled) and says how many handlers have seen it there. It needs the order as well: an event
  that is taken must not be one that was taken before.
* `MarketData_proofs`: `TypeCorrect` and `QuotesFollowCorrect`. The invariant `Following`
  says: a returned symbol is in `instruments_`; and unless a login callback is still to
  come, the symbol was asked for in this session or the walk has it before it.
  `FlagsTellSessionCorrect`, that with no callback and no answer outstanding `md_connect()` is
  true exactly if there is a session, and there is one exactly if there is a connection, unless
  a login was rejected: by `Informed` the last callback about the connection that is still
  waiting tells the truth about it, and a connection without a session has a callback or a login
  that will lead to one.
* `CtpTd_proofs`: `TypeCorrect`, whose only difficulty is that logins are bounded: `LoginsBounded`
  counts the answered logins and everything that may still become one, each with a connection of
  its own. `IdsAreFreshCorrect`, `NoWrongCancelCorrect`, `SessionCanCancelCorrect`: unless an
  order was sent while a login was stored, the ids of a session lie in a block that begins at
  session number plus first OrderRef, below the next id (`IdsInBlocks`); `MembersAgree` and
  `LoadsHold` say when the three members and what was loaded of them belong together. The number
  of sessions, orders and breaks is arbitrary; that the blocks do not meet is `SessionsApart`.
  `NotStrandedCorrect` is the safety behind `LogsIn`: no callback of a dead connection, which may
  set flags, ask for a second time or overwrite a request that the front has not answered yet, can
  leave a connection without both a login and anything that will lead to one, unless the latest
  request was refused by the API or rejected. Its invariant
  `Reaching` tells the callbacks of the present connection from the `Outdated` ones by what
  follows them in the queue. What the front holds goes with the connection (`LinkState`), the
  present callbacks fit it (`NewsCurrent`), the outdated ones are harmless because the present
  connection's first callback is behind them and begins the login anew (`LoginUnderWay`), and
  `login_status_`, which no break clears, is never lost again (`Remembered`).
* `Routing_proofs`: `TypeCorrect`; `OrdersGoHomeCorrect` and `CancelNamesExchangeCorrect` by
  `AllAtHome`, that the entry of a symbol with nothing but CTP quotes names CTP, always; for that
  no tick from the Level-2 thread may be of such a symbol, neither in the queue nor later.
  `EachSubscriptionToldCorrect`: a strategy stands in the list once per Instrument, and what a
  tick owes it is what it has heard plus how often it is still in the copy.
* `IndexArb_proofs`, the comparisons: `TimeOrderIsClock`, that those of `Time`, which the strategy
  relies on, are right; `DateOrderIsCalendar` and `DateTimeOrderIsCalendar`, that those of
  `Date` and `DateTime` fail at most at the end of a month of 31 days; `MonthEndMisordered`,
  that the latter does fail there, in every year. Days are up to more than two billion units of
  54 seconds, so no run could have found these bounds.
* `IndexArb_proofs`, the strategy: `TypeCorrect`, `OneOpenPerTickCorrect`, `OneSidedBoundCorrect`,
  `FlagsFollowPositionCorrect`, `OrdersKeepHoursCorrect`, for any volume, window, count and day. Every method is shown to
  keep `Sound`, whatever the position. The bound on the position is not inductive: `OneSide` adds
  that the position, what is left of the opening order and what is `Due` of its last match together
  make no more than `vol_`, and that a closing order with what is due of it is no larger than what
  is held, so that late kills do no harm; for the account only until an order is sent over trades
  still to come. `Fitting` ties `time_` and `close_flag_` to the position, but for one that a single
  trade turned over. `OrdersKeepHours` relates the two ends of a step: an event shrinks the orders at most
  (`EventShrinks`), and from there each method is shown to keep every order but the one it is for
  (`Kept`) and to leave a position with its closing order, or every order with a cancel request
  (`ReactKeeps`).

Only model-checked is what is about fairness and so out of the prover's reach:
`ImplementsFairSlots` (its safety part is proved), `KillReleases`, `Drains`, `StopReturns`,
`TimerFires`, `QuotesReturn`, `StartReturns`, `LogsIn`, `GetsFlat` and `Quiets`. Every invariant
and every action property of the runs is proved.

## 6. Disagreements between code and documentation

The repository's `README.md` describes what a strategy may rely on; three of its statements
do not hold, each with a run that shows it.

* **A failed insert leaves the SmartOrder active** (`orders_send_fails`,
  `algo/src/smartorder.cpp:119`). `send` sets `is_active_` whatever `send_order` returned,
  so a refused insert (-1) blocks that SmartOrder for good: the README says that `is_active`
  marks that an order is out.
* **init may run before the market data session** (`md_start_order`,
  `algo/src/algo.cpp:275`). The loop in `start` ends as soon as one of the two connections is
  ready; with the trader first, `subscribe` returns null and nobody asks again. The README
  says that it returns an Instrument.
* **An order cannot be cancelled after a reconnect** (`td_cancel`,
  `gateway/ctp/ctptd.cpp:272`). The cancel request carries the session of the latest login;
  the order was inserted in an earlier one. The README says that calling `kill()` is enough.

Not a contradiction of any document, but stated by the models: a report lost at a full queue
or while the trader is disconnected (the private stream is resumed with `QUICK`) leaves its
SmartOrder active for good (`MayDrop`); an order sent while a login is being stored may get
an id that was given before (`raced`); a refused resubscription is not repeated (`refused`);
a stop takes effect only at the next event (`OneAfterStop` rather than none); a trade that
is dispatched while a quote is zero is not told to the strategy, which then may hold a position
without a price to close it at (`missed`, `priced`); a closing order that was
freed by the first of several trades and is sent again before the others arrive sells their lots a
second time, so that the account overshoots (`overtaken`, excepted by `OneSidedBound` for the account);
a position that one trade turns over goes on with the `time_` and the `close_flag_` of the one before
(`inherited`, excepted by `FlagsFollowPosition`); a request for authentication or login that the API
refuses on a live connection is not repeated (`rejected`, excepted by `NotStranded` and `LogsIn`); with orders of both sides out the position
is bounded by the number of ticks only (`OneSidedBound`); `open_long` runs only until the
indicator's window is full, because the `if` before it has no braces and no other statement; a
Level-2 tick names no gateway, so that after it an order or a kill on an Instrument of its symbol
calls a null pointer (`crashed`, excepted by `OrdersGoHome`); when the last report of an order is followed by several
trades, the first one gives the SmartOrder back, and those that come after its next order was sent
are discarded, so that the position loses them (`Trailing` of `SmartOrders`, excepted by `NoEventIsStale`;
`BookFollowsExchange` holds until the first such trade, `overtaken`); the strategy judges the session by the time
of the last quote of the future and the closing minutes by the wall clock, so that while the
future's quotes pause it trades on in the session of the last one (`OrdersKeepHours`); and subscribing to a symbol again
empties its entry until the next tick (`anew`, excepted by `CancelNamesExchange`).

## 7. What is not modelled

* Prices, the fields of requests that routing does not read, and the text of logs; tick
  contents other than gateway and exchange.
* `force_close` of the strategy, which nothing calls, and its parameters.
* `int` overflow of an order id: CTP's session numbers and OrderRefs are ints and their sum
  is formatted and parsed back. Signed overflow would be undefined behaviour.
* Orders of other programs on the same account, whose reports the private stream also
  carries.
* `SmartOrder::operator=`, beyond the left-over status it causes (`InitStatuses`).
* The REM gateway: `RemGateway` declares `subscribe` with an instrument type without defining
  it, `remtd.cpp` is empty, `login` of the market data has no return, and nothing creates one. It
  cannot be linked into the program, so there is no behaviour to translate.
* Of the Level-2 gateway: prices and times of its quotes, its publisher, and the flags that
  `connect` sets before any strategy runs.
* The bar generator and backtesting (stubs), `Config` and logging (wrappers around libraries).
* The libraries in `../3rd` and the CTP headers in `api/`, which are by far the largest part of the
  source tree: vendored code, modelled by what this program uses of it.
* The statuses of orders with a trigger price, which the program does not send, and
  `NoTradeNotQueueing`, for which `from_ctp_order_status` has no case.

## 8. Plan

What is left, in this order:

1. A composition of `CtpTd` and `SmartOrders`, in which a kill after a reconnect never
   releases its SmartOrder: today `td_cancel` shows the request and `KillReleases` supposes
   that requests arrive.
2. Reports of orders that this program did not send: which ids keep them from reaching a
   SmartOrder.
