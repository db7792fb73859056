# A verification project for exchanges-wrapper

exchanges-wrapper is an asyncio gRPC server between trading strategies and five
crypto exchanges (Binance, Bitfinex, Huobi/HTX, OKX, ByBit). It translates all
of them to the vocabulary of Binance. This directory holds TLA+ models of the
parts of it in which several activities meet, TLC configurations that check
them on small instances, and theorems proved with TLAPS for all instances.

One event loop runs everything. An action of a model is therefore the code
between two awaits that may suspend; what can happen in an await is any action
of the others.

## 1. The system: components, state, operations

| component | module | state | operations | hard because |
|---|---|---|---|---|
| Event streams (`exch_srv.py` On\*Update, StartStream, StopStream; `client.py` listeners; `events.py`; `web_sockets.py` tasks) | `StreamHub`, `StreamContract` | a queue and a generator per streaming call, `stream_queue`, `events.handlers`, `registered_streams`, `data_streams`, `tasks` | subscribe, deliver an event, yield, overflow, start, stop | events fire inside WebSocket tasks; a stop suspends while it iterates over a set others change; a stop may run inside a task it cancels; handlers are shared by all trades of an account |
| Request gate (`send_request`, `rate_limit_control`, `_bitfinex_request`) | `RequestGate` | `ts_rlc`, `request_event`, `rest_cycle_lock` | arrive, sleep, wait, call, release | an Event is no lock; timeouts and cancellation at every await |
| Rate limit flag (`handle_errors`, `send_api_call`, ResetRateLimit) | `RateLimitFlag` | `rate_limit_reached`, `Martin.rate_limit_reached_time` | reach, refuse, reset | one time for all clients of the server, a flag per client |
| ByBit limiter (`RateLimitHandler`) | `BybitLimiter` | `stats`, `path_fired`, `path_count` | wait, update, exceed | the first request of a path may get no answer |
| Client registry (`OpenClient`) | `ClientRegistry` | `open_clients`, ids | open, load, restart, remove | a second open finds a client whose load has not ended; a client is removed while others use it; ids are addresses |
| HTTP session (`HttpClient`) | `HttpSession` | `session`, `_session_mutex` | create, use, close, give up | closed under the feet of other requests; the call that closes it may be given up there |
| WebSocket connection (`EventsDataStream`) | `WssConnection` | `websocket`, `tasks`, `ping` | connect, log in, listen, keep alive, reconnect, stop | a stop during a reconnect; helper tasks of connections that are gone |
| Order tracking (`client.py`, `BfxPrivateEventsDataStream`, `HbpPrivateEventsDataStream`) | `OrderTracking` | `active_orders`, `wss_event_buffer` | create, fetch, trade, cancel, expire | REST answers and WebSocket messages about one order in any order |
| Confirmation of cancellations (OKX, ByBit) | `CancelConfirm` | `on_order_update_queues`, `wss_buffer` | cancel one, cancel all, confirm, time out | the answer and the message race; batches and a task per order |
| Reports of an order (parsers, `create_trade_stream_event`) | `OrderReports` | the answer FetchOrder holds | trade, cancel, fetch, make events | each exchange says something else; events made from an old answer |
| Ledgers (`fetch_ledgers`) | `Ledgers` | `ledgers_id`, `ts_start` | begin, load, poll, report, fail | one list for all trades of a client, cut to a length; a failed call ends a stream |
| Order books (`OrderBook` of Bitfinex and ByBit) | `OrderBooks` | bids, asks | snapshot, difference, show | a difference against the wrong base |
| Candles of FetchKlines | `Candles`, `Intervals` | none | ask, answer | names and lengths from tables with a default; months of 28 to 31 days |
| Market channels (subscription names, events, CheckStream) | `MarketChannels`, `Intervals` | `handlers`, `registered_streams`, `candles_max_time`, `ticker_update_time` | subscribe, message, read, check | names made in two ways; a LIFO queue; old candles |
| Funds of an account | `AccountFunds` | `wss_event_buffer` (OKX) | message, transfer, fetch | a difference of two totals, one of which is kept |

`definitions.py`, `lib.py`, `errors.py` and the start-up keep no state;
`martin/__init__.py` is generated. `crypto_ws_api` (UserWSSession, tasks_manage,
tasks_cancel), grpclib, aiohttp and websockets are external.

How they interact: a strategy opens a client (registry), makes its streaming
calls (streams), then calls StartStream, whose WebSocket tasks (connections)
turn messages into events (market channels, funds, order tracking) and fire them
through `Events.handlers` into the queues. Orders go through `send_request`
(gate, flag, limiter, session) and their results meet the events of the private
WebSocket in `active_orders`. StopStream and ClientRestart undo it.

What should make each correct: streams keep order, lose nothing they accepted,
end when stopped, do not see other trades' events, and a stop always ends; the
gate is never lost and nonces arrive in order; the flag stops requests until its
time is over; an account has one client; a closed session is replaced; a
connection that is dead is found out and one that is not is left alone; an
order's executed quantity counts each trade once and its status is the
exchange's; a cancellation is confirmed by the order's own message; a transfer is
reported to each trade it concerns; a book equals its snapshot with the
differences applied; a market message reaches exactly those who asked for it.
How far the code is so is what sections 9 to 11 say.

The hazards, each at its line, are listed in PROJECT.json.

## 2. The plan

Done, in this order: the event streams with their contract, the request gate,
and their proofs; then the parts between a strategy's calls and the network
(`WssConnection`, `BybitLimiter`, `HttpSession`, `ClientRegistry`,
`RateLimitFlag`), what a strategy is told of orders (`OrderTracking`,
`CancelConfirm`, `OrderReports`) and of funds and markets (`Ledgers`,
`OrderBooks`, `Candles`, `MarketChannels`, `AccountFunds`); then the proofs of
all safety properties that the passing runs check.

Left: a composition of the registry with the streams and the session (a restart
while calls run); the retry of a creation that was not confirmed; Binance's
combined stream.

## 3. StreamHub, StreamContract

Module `StreamHub` is one account with its trades. A streaming call (`Subs`) is
any On\*Update; what tells them apart is the event types it registers, the size
of its queue and whether the queue is LIFO (OnOrderBookUpdate). The variables
are the code's:

| variable | code |
|---|---|
| `gen`, `queue` | the generator and its asyncio.Queue or LifoQueue |
| `streamQueue` | `client.stream_queue[trade_id]` |
| `handlers`, `registered` | `client.events.handlers`, `registered_streams` |
| `dataStreams`, `tasks`, `taskSt`, `feeds` | `client.data_streams`, `client.tasks` and the tasks in them |
| `strays` | tasks that reconnected after their stop raised RuntimeError |
| `pc`, `snap`, `reached`, `blockedOn` | a running `stop_stream_ex`: its position, the set its loop found, what it has come to, the queue its put waits for |
| `detached`, `frozen` | the loop keeps iterating over a set that another stop popped from `stream_queue` |
| `overflowed` | history |

A stop is named by who runs it: a StopStream request, or the WebSocket task whose
event found a queue full. `BeginStop` is the code up to its first await, `CancelTasks`
the cancellation of the trade's tasks, `Unregister` the rest up to the first put that
suspends, `ResumePut` and `FailPut` the continuation (`FailPut` when Python raises
"set changed size during iteration", which ends the stop), `FinishStop` the code after
`sleep(0)`. `Overflow` is `event_handler`'s except branch.

`StreamContract` is what one stream promises its client: messages are handed out
in the order they were accepted (LIFO: the newest, the older ones are dropped
knowingly), none is accepted behind a stop token, the stream ends exactly when
the token comes out. `ImplementsContract` says every call of the hub implements
it under the mapping `st <- gen[s]`, `q <- queue[s]`. Only `Subscribe`,
`Accept`, `Tell`, `Leave` and `Give` may touch a stream.

Abstractions and assumptions:

- The order of handlers in a list is left open: which handlers before a full one
  get the event is any subset of those with room.
- A WebSocket task stands for a connection with its listener tasks. Handlers run
  in it, so it receives nothing while it runs its own stop.
- `tasks_cancel` (external) cancels all tasks it is given before it waits. What
  becomes of a task that cancels itself is not known: it ends there
  (`SelfCancelled`, if `CancelEnds`) or goes on (`Unregister`).
- After an overflow the handler loop is not continued for calls registered while
  the stop ran.
- A client may disconnect (`Leave`): generators have no clean-up.
- In modules of their own: `ticker_update_time` (`MarketChannels`),
  `on_order_update_queues` (`CancelConfirm`), the ledger poll (`Ledgers`),
  reconnection (`WssConnection`). Left out: cancellation of the StopStream request.

## 4. RequestGate

The requests of one Bitfinex account. `Arrive` is `send_request` up to its first
suspension; `SleepEnds` and `Woken` continue it; `Sign`, `Transmit`, `Respond`
are one signed HTTP call under `rest_cycle_lock`; `Succeed` and `Abort` are the
ways out, both through `finally`. `Event.set()` resolves the future of every
waiter, so `Release` makes all waiting requests `woken`, and a woken one passes
whatever the event is by then.

Time is discrete and relative (`age`, `left`, `ago`), so there is no horizon.
The microsecond clock is a counter that moves on between two signatures:
`time.time()` is assumed to do so. A cancelled call that was signed but not sent
never reaches the exchange.

## 5. Between a strategy's calls and the network

**WssConnection**: the connections of one trade (`EventsDataStream` and its
subclasses). `Connect` is the next turn of `async for websocket in connect()`
with `cycle_init`; `Answered` the private `start_wss` after its last `recv()`;
`Raises` and `Notice` the ways out of the loop's body; `Check` and `PingTimeout`
one round of `htx_keepalive`, `HeartbeatEnds` the end of `bybit_heartbeat`;
`Stop`, `Stopped` and `TasksCancelled` are `stop_events_listener`. `link` is the
network: a connection may be closed by the peer at any time or die without
anybody being told, which only the library's pings (not on HTX) or the
keep-alive find out. `fresh` says which keep-alive task has seen a ping since
its last check; a live server pings once in an interval. `MaxConnects` bounds
the connections of a stream.

**BybitLimiter**: `RateLimitHandler` for one path. `Wait` is the body of
`wait()`, which counts the request at each call, its own recursive ones too;
`Update` is `update()`. `stats` is `limit_status`. The server counts `Limit`
requests a window. Time is only what the code compares: a window is over or not,
a TIMEOUT is over or not. A request that waits is ended by `send_request`'s 90 s,
at its third TIMEOUT of 30 s (`MaxTries`).

**HttpSession**: `SendRequest` is a call up to its request, `CloseSession` and
`SessionClosed` are `close_session` before and after its await. Nothing suspends
between the test for a session and its creation while the mutex is free, so
creation is part of `SendRequest`. A call is given up, by `send_request`'s 90 s or
by a client that leaves, at its request (`GivenUp`) or while it closes the session
(`ClosingGivenUp`), which then stays in place, closed.

**ClientRegistry**: `open_client_connection`, `get_client`, `client_restart`,
`remove_client`. The id of a client is the address of its object: the model
frees an object when neither the registry nor a running call refers to it, and
a new one may get its address. A load that fails (`LoadFails`) removes the client
or leaves it, by the exception; a restart removes it (`ClientRemoved`); calls and
streams that hold it go on. `removed` is history: the accounts of which a client
was removed.

**RateLimitFlag**: `handle_errors`, `send_api_call` and `reset_rate_limit` for several
accounts, any of which may raise its flag: by status 429 or ByBit's 403, or by
ERR_RATE_LIMIT in an answer with status 400, which is tested on all exchanges. Times
are ages up to one unit past the longest pause. The condition `time.time() - t > 600
if bybit else 60` is modelled as Python parses it (`PauseOver`).

## 6. What a strategy is told of orders

The modules of this section and of the next that branch on the exchange extend
`Exchanges`, whose variable `exchange` is `client.exchange`: it is given with the
account and no action changes it, so that a theorem is about all exchanges.

**OrderTracking**: Bitfinex and HTX, whose messages do not tell the cumulative
quantity. `entry` is `active_orders[order_id]`, `cids` the entries under a client
order id, `held` the connection's `wss_event_buffer`. `inbox` is a set, and
`Receive` takes any message under way, so that messages overtake one another and
REST answers; only the two messages about one execution (`te`, `tu`) keep their
order. `BfxNew`, `BfxTrade`, `BfxClosed`, `HtxOrder` and `HtxTrade` are the branches
of `_handle_event`; `CreateOrder` .. `GiveUp` the requests, each cut at its awaits
(`pc`), so that a REST answer (`snap`) is applied when it may be old;
`LifeTimeOver` and `FetchOpenOrders` forget entries; `Reconnect` loses what was
under way. Quantities are units of execution, all of one size. `told` is the last
order event of a connection; `fetched` is history: the orders of whose entry a
REST answer has changed what it counts.

**CancelConfirm**: OKX and ByBit, whose REST answer only says that a cancellation was
accepted. `queue` and `got` are OKX's `on_order_update_queues`, `buffer` ByBit's
`wss_buffer`, an ExpiringDict that drops its oldest at `max_len`. A message may list
several orders of which the connection handles the first. Timeouts fire only when
nothing is available, as `fetch_object` and `queue.get` take at once what is there.
`CancelAll` .. `FetchPending` is ByBit's CancelAllOrders (a task per order, and REST
for those that time out if the exchange's answer has a `success`; if it has none,
`AllWaited` leaves them out of the answer), `CancelBatch` OKX's, by twenty orders
(`Batch`), which answers on the exchange's acceptance and waits for no message. A
request cancels the orders of `Target`; any number of single and bulk requests
(`Bulk`) may name the same order.

**OrderReports**: the conversions of an order's answers and messages on four
exchanges, and the events FetchOrder makes with `filled_update_call`. Prices and
quantities are small integers. `trades` are the order's executions with the
totals after each. What is told is kept beside what is so (`really`, `of`).
Messages come in order and once here; `OrderTracking` is about the rest.

## 7. What a strategy is told of funds and markets

**Ledgers**: `fetch_ledgers` of each trade's `on_balance_update`, cut at its awaits
(`SendApiCall` per list, then `FetchLedgers`). `OnBalanceUpdate` begins a stream and
`StreamEnds` ends it, with what it has in hand: a call of the poll that fails raises
GRPCError out of the generator, and a stop or a client that leaves end it as well.
`load` sets `ts_start` of a symbol. A unit of time is the 30 seconds between two
calls; `Window` are the 300 s of the request, and `Wanted` the records that are not
older than that and not from before `ts_start`. `began` is history: the transfers
before a stream began. The exchange decides the lists that are asked for (`ListsOf`:
Bitfinex's categories, HTX's one list, ByBit's two and its log, which is asked for
while they are empty, `LastNeeded`), how many records an answer has (`PerAnswer`) and
how many ids are kept (`Kept`). `ListedOn` says which lists have a record of a
transfer, `Concerned` which trades hold its asset. `New` is the loop over the records,
`Take` its body. The instance keeps to behaviours with few recent transfers
(`FewRecent`): a list has no more of them than an answer has records, all lists
together have no more in twice the window than ids are kept, and ByBit shows no
transfer in its log only beside another that a list has. Beyond these limits the code
loses or repeats transfers, see section 11.

**OrderBooks**: the exchange's book, what it has shown, the messages on their way,
and the server's `_order_book`, a side of which is the list of levels a Python
dict is. ByBit shows the best level of a side and its book is sorted when several
levels change, Bitfinex shows `BfxDepth` levels and its book is sorted when it is
shown. The reference is `Shows`, the first levels of the sorted list made of what
the exchange has shown.

**Sorting**: `sorted()` by keys that differ, as the sequence in which the place of
an element is the number of those before it.

**Intervals, Candles**: the tables of names and lengths, complete, and
FetchKlines. Times are in minutes; a close time is one millisecond later than the
code's (`start + length - 1`), so that it equals the next start. The exchange's
candles are `Opens`: those of months are the calendar's (`MonthStart`), 28 to 31
days long, whereas the code's tables say 31.

**MarketChannels**: from a channel's message to the clients. The name under which
a call registers its handler (`Key`) and the one an event is fired with
(`StreamOf`) are made separately, as in the code. `streams` is the set of the
connections, each with its trade, channel and StartStream, what it sent last and
`candles_max_time`. `Ticker`, `Candle` and `Book` are `_handle_event` of the market
streams, `ReadTicker`, `ReadKlines` and `ReadBook` the generators, `CheckStream`
compares `ticker_update_time` with the age it allows. A candle message is of any
length that the exchange's candle may have (`Lengths`); `ends`, kept beside the
event, is when it is over, and only ByBit tells that (`Close`). `CallsOn` are the calls that
the strategies make on each exchange. A stop is one step and queues have room:
that is StreamHub's subject.

**AccountFunds**: `on_funds_update`, OKX's balance updates (the difference of two
totals, the last of which `wss_event_buffer` keeps), FetchAccountInformation,
FetchFundingWallet, TransferToMaster. A message is told in the step that causes
it. `moved` and `missed` are history: what was moved into the account, and how
much of it while its connection was lost; `stale` are the assets that changed then.

## 8. How the instances are composed

`ConnectionsMC`, `OrdersMC` and `DataMC` extend the modules they check, and so have
their variables, constants and properties; `ProgressMC` holds instances, one per
exchange where exchanges differ. The modules share no state but `exchange`. A variable
`part`, chosen at the start, says which one moves while the others rest in their
initial state: the state space is the sum of those of the parts and not their product,
and nothing is lost, since no part reads another. `exchange` is chosen with the part,
among the exchanges it is about. A property of an instance is stated under `part =
...`, or holds of the resting ones too.

What is not composed: the real interactions of section 1 are modelled as inputs
of each module (a lost request, a message at any time, a stream that ends at any
time, a call that is given up: at every await of RequestGate, at the request and
while the session is closed in HttpSession), which allows at least what the other
component does.

## 9. The runs

| run | question | bounds | result |
|---|---|---|---|
| two_trades | do trades of an account see each other's events? can a running task escape the next stop, unless its own stop was ended by RuntimeError? | 2 trades, 3 streams, 4 tasks, 1 request, queues of 1 and 2 | holds |
| stop | does every stream keep its contract, through overflows, self-stops and a client that left? | 1 trade, 3 streams with queues of 1 and 2, 3 tasks, 1 request | holds |
| two_stops | when others race with a stop and calls are added: does one whose loop comes to its end reach all queues it found, and one that RuntimeError ends those it had come to? | 3 streams, 2 tasks, 2 requests, late subscription | holds |
| liveness | do stops and stopped streams end? | 3 streams, 2 tasks, 1 request, clients that stay | holds |
| overflow_closes | is the overflowed stream closed, as its log line says? | 2 streams, 2 tasks | violated |
| gate | is the gate never lost, are nonces in order? | 4 requests (3 paced), 2 HTTP calls each, interval 2 | holds |
| gate_liveness | does every request end? | 3 requests, interval 1 | holds |
| gate_rate | are there at most 90 requests per minute? | 3 paced requests, window of 2 intervals | violated |
| connections | is a live connection left alone (`NoFalseTimeout`)? is a closed session replaced, unless the call that closes it is given up (`Restored`)? has an account one registered client, and one in use until one is removed (`OneClient`)? do requests of an unknown limit go alone (`FirstAlone`)? is the pause of ByBit accounts kept, whatever accounts of any exchange do (`PauseKept`)? | HTX market and private stream, 3 connections each; 4 ByBit requests, limit 3, responses without headers, 2 lost; 4 calls, 3 sessions, calls given up at each await; 3 trades of 2 accounts, 3 ids, loads that fail; 2 ByBit accounts (one goes on sending) and one of HTX, all with errors, pause 4 and 1 | holds |
| orders | are events never ahead of the exchange (`ReportTrue`)? is an execution never missed (`NoTradeMissed`)? is CANCELED true of CancelOrder, and of ByBit's CancelAllOrders (`CancelAnswerTrue`), an early message used (`EarlyMessageUsed`), CancelAllOrders complete where ByBit's answer has a success (`AllCancelled`)? is an order's status the exchange's (`StatusTrue`) and does it only go forward (`Forward`)? | tracking: one order of 2 units, 2 strategies of its symbol, FetchOpenOrders, both cancellations, 1 lost connection; cancellation: 2 orders, 2 connections, CancelAllOrders and a CancelOrder for each, batches and `wss_buffer` of 1; reports: 3 units at limit price 3 filled at 2 or 3, FetchOrder of new and closed orders, 8 reports | holds |
| data | is a transfer told by a stream that runs on (`TransferTold`), a book the exchange's (`BookTrue`), a candle where it should be, a month's at most 3 days late (`CandlesTrue`)? does a message reach whom it should (`EveryCallOnce`) and in order (`MarketForward`)? does CheckStream fail only for a reason (`CheckTrue`)? are funds (`FundsTrue`) and balance updates (`AllMoved`) right? | 3 transfers of 2 trades, answers of 1 record (ByBit: 3), window 1, one stream that ends, one symbol loaded again, on Bitfinex, HTX and ByBit; one side of 3 prices of which 2 are shown (Bitfinex) or two sides of 2 prices (ByBit), sizes 1 and 2; all intervals, up to 12 candles, months of 28 to 31 days; 2 or 3 calls, 1 StartStream, 3 messages, prices, times and ids 1 and 2, timeout 1; 2 assets of up to 2 units (1 after the connection was lost), 1 lost connection | holds |
| progress | is a dead connection given up (`DeadIsReplaced`), do helper tasks end (`HelpersEnd`), is a waiting request sent (`RequestSent`), a flag cleared (`FlagCleared`), a filled order told (`FilledIsTold`)? | 2 HTX and 2 ByBit streams, 2 connections each; 3 requests, none lost; 3 accounts, pause 2 and 1; 1 order of 2 units | holds |

Exchanges per property (the others either do not run that code or deviate, see section
11; a property says so itself): `ReportTrue` and `NoTradeMissed` Bitfinex and HTX;
`CancelAnswerTrue` CancelOrder of Bitfinex (closed), HTX, OKX and ByBit and
CancelAllOrders of ByBit; `EarlyMessageUsed` OKX; `AllCancelled` ByBit and OKX;
`PauseKept` ByBit; `StatusTrue` and `Forward` Bitfinex, HTX, OKX, ByBit (quote
amounts: OKX); `TransferTold` Bitfinex and HTX (at all, and once) and ByBit (at all);
`BookTrue` Bitfinex and ByBit; `CandlesTrue` all for FetchKlines, but for hours on
ByBit and months up to three days late, and Bitfinex for a stream, which is proved for
all; `EveryCallOnce`, `CheckTrue` and `MarketForward` are run on OKX (tickers of two
trades, a book) and Bitfinex (candles, a book) and proved for all; `FundsTrue` OKX,
ByBit, HTX; `AllMoved` OKX; `FilledIsTold` Bitfinex.

Why the bounds suffice. Streams: a queue of one item is full after one event, so with
capacity 1 or 2 a run meets empty, partly full and full queues, tokens that wait and
tokens that do not; three tasks and one request give stops that cancel one another in
every order; two requests and two tasks give four competing stops. `StopTerminates`
needs no more than Capacity + 1 stops of a trade waiting to put tokens at once, for a
generator ends at its first token and reads no further: the run has two competing
stops and capacities of 1 and 2, the code a capacity of 100. Connections: the third
connection meets what the first two left. Limiter: with four requests one is sent, one
waits, and a lost first request leaves others behind it; a limit of 3 is met with one
request to spare. Sessions: two calls close one session while a third makes another
and a fourth uses it. Registry: two trades share an account and a third has another,
and with three addresses one is used again; one trade's failed load or restart removes
what another one uses. Flag: one account's time is moved by another of its own kind
and by one of another kind, each of which has errors of its own. Orders: two units
make a partial execution, three (reports) one that is neither first nor last; every
order of messages is met. With a `wss_buffer` of one the second message drops the
first, and a batch of one is followed by another. Funds: two units tell an order's
part from the rest. Books: with a depth of two of three prices a level leaves what is
shown and comes back. One
message at a time is under way (`MaxWaiting`): they are handled in order, and the
proof is for any number. Ledgers: two lists of Bitfinex have records, HTX keeps one id;
ByBit has a transfer in a list and in the log, and one in the log only. A transfer
stays in the answers for two calls of a stream, so that it is asked for again after it
was told; one stream that ends, at any of its awaits, and begins again meets transfers
before, between and after, and so does the one symbol that is loaded again. The run
has 1.2 million states. The mutants of PROJECT.json, each a plausible slip in the
code, show that every property can be violated within its run's bounds.

`MaxCalls`, `Window` (of the gate), `MaxConnects`, `MaxSessions`, `Ids`, `Failures`,
`Losses`, `MaxEnds`, `MaxLoads`, `MaxReports`, `MaxMessages`, `MaxStamp`, `MaxStarts`,
`MaxFunds`, `MaxDrops`, `MaxLimit` are bounds of the models, not of the code.
`connections` uses symmetry of the two trades of one account and of the ids, which no
action tells apart. Deadlock is not checked: when every call has ended, or a bound is
reached, the system rests.

### Fairness

- `WF(StopSteps(p))`, `WF(Take(s))` of StreamHub: the event loop runs what is
  ready, and a connected client keeps reading (the runs with liveness have no
  client that leaves).
- `WF(Tick)`, `WF(Steps(r))` of RequestGate: time passes, and `wait_for` ends a
  client method after 90 seconds.
- `ConnectionFairness`: the stop, the helper tasks and the listener are tasks
  that the loop runs; where the library pings, its timeout comes.
- `LimiterFairness`: timers run, the server answers what is not lost and its
  windows end. `RequestSent` is checked where no request is lost.
- `FlagFairness`: time passes, a strategy that was told calls ResetRateLimit
  again and again, and from some time on no request is refused by the exchange;
  without the last no flag stays cleared.
- `TrackingFairness` of OrderTracking: a connection handles what it has received.

Events, requests, fills, starts, losses and disconnections are never fair.

## 10. Findings

Disagreements of the code with what a log line or a comment says of it, each
shown by a run:

- `OverflowedStreamCloses`: the log says the full queue "wold be closed"; the
  queue leaves `stream_queue` before the stop puts its tokens, so its generator
  hands out the backlog and then waits for ever, without handlers.
- `RateKept` (gate_rate): the comment "90 requests per minute" holds only for
  requests that succeed one after another. `ts_rlc` is set only on success and
  read before the wait at the gate: failing requests are not counted, and
  requests that waited together start together.

## 11. Known deviations

Nothing in the repository says that the following should be otherwise, so they
are no findings. The models have these behaviours, and the properties say for
which exchanges and calls they are stated. Some modules define the property that
does not hold, marked so.

Streams
- A stop whose loop waits on a full queue is ended by RuntimeError when the set it
  iterates over has changed size meanwhile (`exch_srv.py:827`): a generator that read
  its token has discarded its queue, or a call has subscribed. The queues that the
  loop had not come to get no token. They have no handlers any more and stay in
  `stream_queue`, so their streams wait for ever unless the trade is stopped again
  (`FailedStopReachesAll`). `StopReachesAll` is about what a stop has come to.
- If that stop ran in a WebSocket task, `start()` catches the error and the task
  connects again (`web_sockets.py:93`), though no entry of `client.tasks` or
  `data_streams` has it: no stop can end it (`strays`, left out of
  `NoUntrackedTask`).
- A call that subscribes while a stop of its trade runs is fed and its queue is
  dropped from `stream_queue` (`exch_srv.py:452`): nothing ends it.

Orders
- Bitfinex FetchOrder (`client.py:957`) and HTX's creation (`web_sockets.py:463`)
  set the executed quantity of an entry from a REST answer; messages about the
  same trades, still under way, are added to it. `ReportTrue` is about the orders
  whose entry no REST answer has changed so (`fetched`).
- Two trades of one Bitfinex account: each connection hears of all orders, and
  the one whose trade does not own the order may count an execution first
  (`web_sockets.py:507`); the owner then sends no event for it. `FilledIsTold`
  fails with two strategies.
- An entry that was not touched for its life time is forgotten by
  FetchOpenOrders (`client.py:273`), also that of an order of another symbol which
  still rests. `NoTradeMissed` is stated for strategies of one symbol.
- Bitfinex CancelOrder answers CANCELED for an order that was executed meanwhile
  (`client.py:1050`), CancelAllOrders too, there and on HTX (`client.py:1151`), and on
  OKX, where it says CANCELED of each order of a batch whose request was accepted
  (`client.py:1183-1211`, `BatchAnswerIsTrue`) and waits for no message.
- ByBit's CancelAllOrders fetches the orders whose messages did not come in time
  only if the exchange's answer has a `success` (`client.py:1228`): without it they
  are left out of the answer, cancelled or not. An order that another request has
  cancelled may be left out too. `AllCancelled` says both.
- FetchOrder's events are made of an answer older than the stream's
  (`exch_srv.py:280`): `Forward` is stated for clients that do not call it for an
  order that is partially filled. They are made of orders that are not filled as well
  (`exch_srv.py:273`, `FetchedFilled`). HTX's quote amount is at the order's
  price and not the trades' (`parsers/huobi.py:413`).

Connections and requests
- A private connection of HTX that dies during its login has no keep-alive yet
  (`web_sockets.py:447`).
- BybitLimiter: if the first request of a path is lost, the path stays fired, all
  later requests wait and are given up (`parsers/bybit.py:111`). Requests that see the
  same statistics exceed the limit together (`parsers/bybit.py:95`, `RateKept`).
- HttpSession: a session that is made while two calls close the one before is
  forgotten by the second and never closed (`http_client.py:78`, `NoSessionLost`). A
  call that is cancelled or meets `send_request`'s 90 s while it waits in
  `session.close()` (`http_client.py:77`) leaves the closed session in place: all
  later requests of the account raise, until a restart or a failed load closes it
  again (`RestoredAlways`).
- ClientRegistry: a client that a failed load or a restart removes is used on by the
  calls and streams that hold it, while the next open registers another one of the
  same account (`exch_srv.py:90`, `OneInUse`): two nonces, two gates. The failed load
  of one trade removes a client whose id another one is given (`exch_srv.py:135`,
  `IdRegistered`); an id may be that of another account's client later
  (`exch_srv.py:80`, `OwnAccount`).
- RateLimitFlag: the pause of all exchanges but ByBit is over at once
  (`exch_srv.py:170`, `PauseOfOthers`); one account that goes on sending puts off the
  resets of the others (`exch_srv.py:199`).

Funds and markets
- Ledgers: a call of the poll that fails raises GRPCError and ends the balance stream
  (`exch_srv.py:649`, `send_request`). A strategy that subscribes again waits 30
  seconds for its first call, and is told of what occurred in the gap only as far as
  it is in answers still (`ToldLater`); what the ended call had put into `ledgers_id`
  before its client left is not told any more. `load()`, called by each
  OpenClientConnection, resets `ts_start` of its symbol (`client.py:130`), also while
  the streams of other trades of that symbol run: a transfer of the last seconds is
  not asked for any more (`client.py:449`, `476`, `487`; `ToldThroughLoad`).
- Ledgers: ids are shared by the trades of a client, so of two trades that hold one
  asset the first to ask is told (`client.py:460`). On ByBit a transfer that is in a
  list and in the log may be told twice, and one that is in the log only is not looked
  for while the lists have something (`client.py:514`). On HTX as many ids are kept as
  an answer has records (`client.py:480`).
- Candles: ByBit's table of lengths has no '60', and half the length for 2h and 4h
  (`parsers/bybit.py:362`): FetchKlines' candles of hours close too early
  (`HoursOfBybit`).
- Candles: a month has 31 days in every table (`parsers/bitfinex.py:351`,
  `parsers/huobi.py:326`, `parsers/okx.py:343`, `parsers/bybit.py:366`), so that the
  candles of shorter months close up to three days into the next (`MonthsClose`). Only
  ByBit's streamed candles close when the exchange says.
- MarketChannels: HTX's ticker is not passed on while the price stays, so CheckStream
  fails on a quiet market (`web_sockets.py:233`): `CheckTrue` is about the others. A
  second StartStream of a trade opens a second connection for each channel
  (`client.py:191`); their events come between one another, and `MarketForward` is
  stated for trades that called it once.
- AccountFunds: Bitfinex's free amount of zero is taken for no value
  (`parsers/bitfinex.py:467`); HTX's FetchAccountInformation puts entries in the class
  `dict` and raises TypeError (`parsers/huobi.py:208`); a transfer while OKX's
  connection is lost makes no balance update (`web_sockets.py:100`), nor does the
  first deposit of an asset that the connection's snapshot did not list
  (`parsers/okx.py:473`), which the model does not meet, as its snapshot lists all
  assets; OKX's FetchFundingWallet asks for one asset by the name of a symbol
  (`client.py:1358`, `FundingAnswered`).

## 12. The proofs

All proofs hold for every value of the constants that satisfies the named assumption
of the module, which gives parameters their types and says what a bound must be: a
natural number, positive where the code's is (a queue's capacity, `max_len`, the size
of a batch, an order's quantity, the ticker's timeout). The others are
`StreamHubAssumption`: the token of a stop is no event, `NoSub` no subscription, tasks
and requests differ, and so do market and user types; `RequestGateAssumption`:
`NoRequest` is no request; `CancelConfirmAssumption`: a CancelOrder names one order,
and `NoQueue` is no request; `OrderTrackingAssumption`: an order is of its strategy's
symbol; `LedgersAssumption`: each trade has a symbol, the lists that have a transfer
are the exchange's, and only on ByBit are there two; `OrderBooksAssumption`: prices
are finitely many; `CandlesAssumption`: the intervals that are asked for are among
those that the server has a length of (Bitfinex) or a name of (HTX), and the exchange
has more candles than are asked for; `CalendarAssumption`: months come one after
another and have 28 to 31 days. TLC evaluates all of them on the runs.

`StreamHub_proofs`
- `TypeCorrect`: `Spec => []TypeOK`.
- `StopsReachAll`: `Spec => []StopReachesAll`, which says of a stop that RuntimeError
  ended only what it had come to. It is not inductive. `StopInv`
  adds why it holds: what is listed belongs to its trade (`Listed`), handlers
  belong to calls that registered (`Handling`), the queues a loop found are fed
  by no handler from `Unregister` on (`Cut`), and a waiting loop has each of them
  still before it unless its generator ended (`StillIterated`). `StopInvFail` is the
  step that ends a loop early. An unfed queue is
  discarded by its generator only, and nothing follows its token.
- `TasksTracked`: `Spec => []NoUntrackedTask`, inductive given `TypeOK`.
- `TradesIsolated`: `Spec => []Isolation`, from `StopInv`.
- `ContractKept`: `~LateSubscribe` implies `Spec => ImplementsContract`. It needs
  `TokenInv`: a queue with a token is unfed (`TokenCut`), and a waiting loop
  iterates over nothing it did not find (`NoneLate`). The assumption is needed:
  a call added to the set under a waiting loop is still fed and may get a token.
- `OverflowFreesStop`: `~LateSubscribe` implies `Spec => []OverflowNeverBlocksStop`.
  `OverflowInv` adds that an overflowed queue is in no entry of `stream_queue` and
  in no set that a waiting loop found: it still had a handler when it overflowed,
  and those have none (`Cut`). With `NoneLate` the loop waits for none of them.

`RequestGate_proofs`
- `GateTypeCorrect`, `GateKept` (`GateInv`: a shut gate has a request in its
  call, and who waits found it shut), `NoncesOrdered` (`LockInv`: a signed or
  sent call holds the lock, and its nonce is newer than what was sent).

`Connections_proofs`, the five modules between a strategy's calls and the network
- HttpSession: `SessionTypeCorrect`, `SessionIsRestored` (`Restored`).
  `ClosedIsClosing` names the call that closes: after a session was closed and
  before it is set to None some call is suspended in `close_session`, or was given
  up there; when that call ends otherwise, so is the session it left behind.
- RateLimitFlag: `FlagTypeCorrect`; `PauseIsKept` (`PauseKept`): whatever the
  accounts of all exchanges do to the shared time, a reset lets a ByBit account
  through only after its own pause. The invariant `TimeIsLater` says that the shared
  time is never before a flagged client's last error. Of the other exchanges it is
  not so, as `PauseOver` shows.
- ClientRegistry: `RegistryTypeCorrect`, `AccountsHaveOneClient` (`OneClient`), from
`NamesDiffer`: registered clients differ in their accounts, for a client is made
  and registered in one step and only when there is none; and from `UsedIsThere`: a
  client that a call or stream holds is registered, or one of its account was
  removed.
- BybitLimiter: `LimiterTypeCorrect`, `FirstIsAlone` (`FirstAlone`), from `Unknown`:
  while nothing is known of the limit at most one request is sent, none is delayed,
  and who is sent has marked the path.
- WssConnection: `ConnectionTypeCorrect`, `NoConnectionTimesOutFalsely`
  (`NoFalseTimeout`), from `PingSeen` (a keep-alive that has seen a ping is that of
  the last connection, and `self.ping` is then 0) and `Connected` (who logs in has
  a connection).
- `TypesAreKept`: `TypesOK` of the run connections, in every behaviour of its
  specification, from the five inductive invariants together (`AllInv`).

`OrderTracking_proofs`, from the inductive `TrackingInv`
- `ReportsAreTrue` (`ReportTrue`): a message about an execution was sent after it
  (`MessagesTrue`), an entry has the ids of the executions it counts and counts
  none twice (`CountedOnce`), an old REST answer was true and what it says remains
  so (`AnswersTrue`), and FILLED is said when the count reaches the order's
  quantity, which is known (`QuantityKnown`).
- `NoTradeIsMissed` (`NoTradeMissed`): an execution of an open order is counted or
  some connection has still to hear of it (`NoneMissed`), and a set of k ids counts
  k executions.
- `CancelledAnswers` (`CancelledIsClosed`), `TrackingTypes`.

`Orders_proofs`
- CancelConfirm, from the inductive `ConfirmInv`. `AnswersAreTrue` (`AnswerIsTrue`,
  which leaves out OKX's CancelAllOrders): messages, wherever they wait, are about
  cancelled orders (`MessagesCanceled`), a queue is registered under the order of its
  request (`QueuesOwn`). `EarlyMessagesAreUsed` (`EarlyMessageUsed`): from its request
  to its end the queue of the only cancel_order of an order is the registered one, and
  has what came early (`QueueHears`). `CancelAllIsComplete` (`AllCancelled`): each
  order of a CancelAllOrders is still to be cancelled, waited for, in the answer, or
  asked for by another request (`BulkCovers`, `Asked`); when it is done nothing is
  left but, without a success, the orders that have no message (`PhasesOwn`).
  `ConfirmTypes`: `wss_buffer` has an order once, and at most `max_len` of them.
- OrderReports, from `ReportsInv`: `StatusesAreTrue` (`StatusTrue`): the conversions
  of each exchange, as lemmas, give the status of the order they are made of;
  `ReportsGoForward` (`Forward`): no report is ahead of the order (`Behind`), and an
  answer about executions is about a closed order (`AnswerCurrent`).
- `OrdersTypes` (`OrdersTypeOK`) and `CancelAnswers` (`CancelAnswerTrue`: CancelOrder
  of the four exchanges, CancelAllOrders of ByBit) are about the specification of the
  run orders, in which each module moves or rests.

`Data_proofs`
- AccountFunds, from `FundsInv`: `FundsAreTrue` (`FundsTrue`): each exchange's
  numbers but Bitfinex's give free and locked funds back (`Conversions`), and a
  currency that HTX's stream does not pass is never told (`OthersUntold`).
  `AllIsMoved` (`AllMoved`): the total that OKX's connection keeps is the account's,
  also after orders (`TotalsKept`), so that the difference of two is what was moved.
- MarketChannels, from `MarketInv`: `CallsHearOnce` (`EveryCallOnce`, an action
  property): the handlers under a stream's name are those of the open calls that
  asked for its channel (`HandlersOfOpen`), and the two ways to make the name agree
  and keep channels apart (`StreamsOfChannels`). `MarketGoesForward`
  (`MarketForward`): what was told and what waits are in order (`MessagesOrdered`),
  and nothing of them is newer than what the only connection of its channel sent
  last (`SentIsLast`, `OneConnection`); the lemmas `AppendOrdered`, `EventRead` and
  `NewestRead` say what a message and its reader do to the order. `ChecksAreTrue`
  (`CheckTrue`): while no ticker waits, the trade's time is not older than its
  ticker channel's last message (`TickersHeard`).
- `FundsTypesKept` and `MarketTypesKept` are their part of `DataTypeOK`.

`SequenceLemmas` has what the next module needs of loops and sorting, for every
length: `Induction` (what holds of 0 and passes on to the next number holds up to
n) and `Loop` (a loop of n turns has values after each), both from the fact that
every set of numbers has a least one, by the library's theorem about well-founded
relations; `SortedRange` (elements whose keys differ are all in their sorted
sequence, once) and `SortedIs` (a sequence in the order of the keys is the sorted
one), by counting what is below an element.

`Feeds_proofs`
- OrderBooks, from `BooksInv`: `BookIsTrue` (`BookTrue`). `Agrees` relates the book
  that is kept, the messages on their way and what the exchange has shown: of each
  price the last message that touches it says its size, and where none does the book
  says it. `BookUpdated` follows `update` through any list of levels, `LevelChanged`
  through one (`PutLevel`, `PopLevel`); `DifferencesSay` and `MessagesSay` are about
  what the exchange sends. A book with one level for a price that says what the
  exchange has shown has the same levels (`SameLevels`), and sorted they are the same
  list. ByBit's book is sorted only when several levels change; it shows one level
  (`OneShown`), so that a list of one level is sorted too. `BooksTypesKept` is its
  type invariant.
- Candles, from `CandlesInv`: `KlinesAreTrue` (`KlinesTrue`): the exchange's candles,
  turned round or sorted, are the requested number of candles in the order of time
  (`OldestFirst`), and on every exchange the name that is sent and the length that is
  looked up for it agree with the exchange's candle (`LengthRight`, by the tables),
  but for ByBit's hours and, by up to three days, for months, whose calendar is any
  (`CalendarAssumption`). `StreamedCandlesClose` (`CandleCloses`) adds to `MarketInv`
  that all events told and waiting close rightly (`CandlesClose`), a month as in
  FetchKlines; it assumes `IntervalsKnown`: calls are for intervals that the exchange
  has. `CandlesTypesKept` is the type invariant.
- Ledgers, from `PollInv` (transfers are numbered as they occur; what a stream has in
  hand is recent, concerns its trade and is of the lists it has asked for) and
  `TellInv`: `TransfersAreTold` (`LedgersSpec /\ []FewRecent => []TransferTold`). A
  stream expects a transfer (`Expects`) if it runs and the transfer concerns its trade
  and is not from before the stream or the load of its symbol; a stream that ends
  expects nothing more. That a transfer is told at all is `SoonTold`: one that a
  stream expects and has not told is new, or the stream is still to call in this unit,
  and has its records of all the lists it has asked for; `AnswersHaveAll` and
  `AwaitedHere` say that one of these lists has it. That it is told once is
  `ToldKept`: ids are distinct, of each transfer that was told and is in answers still
  one is kept, and ids are kept nearly in the order of age (`InTime`). So an id that
  is cut from a full list is of a transfer that no answer has any more, for otherwise
  there would be more records of twice the window than ids kept (`CutOld`); `NewOnce`
  takes this through the loop over the records in hand. `LedgersTypesKept` is the type
  invariant. The theorem assumes `TradesApart`: of two trades that hold one asset the
  first to ask is told (section 11).
- The instance: `PartsKept` says that a behaviour of the run data is one of each
  module; with it `DataTransfersAreTold`, `DataBookIsTrue`, `CandlesAreTrue` and
  `DataTypesKept` are `TransferTold`, `BookTrue`, `CandlesTrue` and `DataTypeOK` of
  the run's specification. The hypotheses `TradesApart` and `IntervalsKnown` are part
  of its `DataAssumption`, which TLC evaluates, and `FewRecent` is an invariant of it
  (`FewAreRecent`), as its steps keep to it.

Each of these inductive invariants was an invariant of a run of TLC before it was
proved. The theorems of `MarketChannels` and `AccountFunds` are about `MarketSpec`
and `FundsSpec`, which the run data composes as the run orders does its modules.

Only model-checked:
- all liveness properties (runs liveness, gate_liveness, progress): fairness and
  ENABLED are out of the prover's reach;
- the two violated properties are counterexamples by TLC.

## 13. Not modelled

- Binance's combined stream, which passes events on as they are.
- The retry of a creation that was not confirmed (`client.py:803`): what an
  exchange does with a client order id that it already has is not in the
  repository.
- TransferToSub, which only Binance has, and the rounding of ByBit's amount.
- The remaining conversions (symbols' filters, statistics, trade lists, formats):
  renaming and formatting of fields, without state or control.
- Configuration and start-up, the generated messages and stubs, the error classes.
