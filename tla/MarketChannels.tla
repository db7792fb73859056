--------------------------- MODULE MarketChannels ---------------------------
(***************************************************************************)
(* Market data on its way from the exchange's channel to the strategy that *)
(* asked for it: each channel of each trade has a connection of its own,   *)
(* its messages become Binance's events, which find the queues of the      *)
(* trade's streaming calls by the name of a stream; and CheckStream, which *)
(* takes the ticker for the sign that the trade's connections are alive.   *)
(*                                                                         *)
(* StreamHub is about full queues and the stop; here no queue is full, and *)
(* a stop is one step. Times are in units of an age, see Timeout.          *)
(***************************************************************************)
EXTENDS Intervals, Sequences, SequencesExt

CONSTANTS
    Trades,
    CallsOn,        \* the streaming calls on each exchange: [trade, symbol, kind, intervals]
    MaxStamp,       \* bound: prices, open times and update ids
    MaxStarts,      \* bound: StartStream requests of a trade
    MaxMessages,    \* bound: messages of the exchange
    Timeout         \* WSS_TICKER_TIMEOUT

Kinds == {"ticker", "book", "klines"}

MarketChannelsAssumption ==
    /\ \A e \in Exchanges : \A c \in CallsOn[e] :
         c.trade \in Trades /\ c.kind \in Kinds /\ c.intervals \subseteq IntervalNames
    /\ {MaxStamp, MaxStarts, MaxMessages} \subseteq Nat /\ Timeout \in Nat \ {0}

(* An exchange sends candles of the intervals that it has; ByBit tells     *)
(* with each when it ends, of the others it is known by their tables.      *)
IntervalsKnown ==
    \A e \in Exchanges : \A c \in CallsOn[e] : c.intervals \subseteq
        CASE e = "bitfinex" -> DOMAIN BfxLengths [] e = "huobi" -> DOMAIN HtxNames
          [] e = "okx" -> DOMAIN OkxNames [] OTHER -> IntervalNames

VARIABLES
    handlers,       \* events.handlers: which calls are told of a stream
    registered,     \* events.registered_streams: the channels of a trade
    streams,        \* data_streams: [trade, channel, start, sent, candles_max_time, price]
    queue,          \* of a call
    told,           \* what the call's client was sent
    open,           \* the calls that have not ended
    age,            \* since the trade's ticker_update_time
    silent,         \* since a message of the trade's ticker channel, or its call
    check,          \* the last answer of CheckStream
    last,           \* the last message: its [trade, channel], and was it passed on
    starts, messages

marketVars ==
    <<handlers, registered, streams, queue, told, open, age, silent, check, last, starts, messages>>
clocks == <<age, silent>>
counters == <<last, starts, messages>>

Calls == CallsOn[exchange]

NoMessage == [trade |-> "none", channel |-> "none", passed |-> FALSE]
NoCheck == [success |-> TRUE, silent |-> 0, unread |-> FALSE]

(* The exchange's way to write a symbol: tBTCUSD, BTC-USDT, BTCUSDT.       *)
Native(s) == [symbol |-> s, form |-> CASE exchange \in {"bitfinex", "okx"} -> "pair"
                                       [] exchange = "bybit" -> "upper" [] OTHER -> "lower"]

Lower(name) == [name EXCEPT !.form = "lower"]

Types(c) == CASE c.kind = "ticker" -> {"miniTicker"} [] c.kind = "book" -> {"depth5"}
              [] OTHER -> c.intervals

Channels(c) == {[name |-> Native(c.symbol), type |-> ty] : ty \in Types(c)}

(* register_event: the handler is kept under the name in small letters.    *)
Key(channel) ==
    IF exchange \in {"bitfinex", "okx", "bybit"}
    THEN [channel EXCEPT !.name = Lower(channel.name)] ELSE channel

MarketInit ==
    /\ handlers = {} /\ registered = [t \in Trades |-> {}] /\ streams = {}
    /\ queue = [c \in Calls |-> <<>>] /\ told = [c \in Calls |-> <<>>] /\ open = {}
    /\ age = [t \in Trades |-> Timeout] /\ silent = [t \in Trades |-> Timeout]
    /\ check = NoCheck /\ last = NoMessage /\ starts = [t \in Trades |-> 0] /\ messages = 0

register_event(c) ==
    /\ c \notin open /\ told[c] = <<>> /\ starts[c.trade] = 0
    /\ open' = open \cup {c}
    /\ handlers' = handlers \cup {[stream |-> Key(ch), call |-> c] : ch \in Channels(c)}
    /\ registered' = [registered EXCEPT ![c.trade] = @ \cup Channels(c)]
    /\ UNCHANGED <<streams, queue, told, check, counters>>

OnTickerUpdate(c) ==
    /\ c.kind = "ticker" /\ register_event(c)
    /\ age' = [age EXCEPT ![c.trade] = 0] /\ silent' = [silent EXCEPT ![c.trade] = 0]

OnOrderBookUpdate(c) == c.kind = "book" /\ register_event(c) /\ UNCHANGED clocks

OnKlinesUpdate(c) == c.kind = "klines" /\ register_event(c) /\ UNCHANGED clocks

(* start_stream(), once all that its client asks for is registered: a      *)
(* connection for each channel.                                            *)
StartStream(t) ==
    /\ starts[t] < MaxStarts /\ registered[t] # {}
    /\ \A c \in Calls : c.trade = t => c \in open
    /\ starts' = [starts EXCEPT ![t] = @ + 1]
    /\ streams' = streams \cup
         {[trade |-> t, channel |-> ch, start |-> starts[t], sent |-> 0, candles_max_time |-> 0,
           price |-> 0] : ch \in registered[t]}
    /\ UNCHANGED <<handlers, registered, queue, told, open, clocks, check, last, messages>>

-----------------------------------------------------------------------------
(* Messages                                                                *)

(* An event goes to all calls for its stream, whatever their trade is.     *)
FireAll(event, t) ==
    queue' = [c \in Calls |-> IF [stream |-> event.stream, call |-> c] \in handlers
                              THEN Append(queue[c], event) ELSE queue[c]]

fire(event, t) ==
    queue' = [c \in Calls |-> IF [stream |-> event.stream, call |-> c] \in handlers /\ c.trade = t
                              THEN Append(queue[c], event) ELSE queue[c]]

Message(s, types, passed) ==
    /\ messages < MaxMessages /\ messages' = messages + 1
    /\ s.channel.type \in types
    /\ last' = [trade |-> s.trade, channel |-> s.channel, passed |-> passed]
    /\ UNCHANGED <<handlers, registered, told, open, check, starts, age>>

(* The name under which wrap_event looks for the handlers of a message.    *)
StreamOf(channel) == [channel EXCEPT !.name = Lower(channel.name)]

Becomes(s, after) == streams' = (streams \ {s}) \cup {after}

(* HTX's tickers are passed on when the price has changed.                 *)
Ticker(s, price) ==
    /\ Message(s, {"miniTicker"}, exchange # "huobi" \/ s.price # price)
    /\ silent' = [silent EXCEPT ![s.trade] = 0]
    /\ Becomes(s, [s EXCEPT !.price = price])
    /\ IF last'.passed THEN fire([stream |-> StreamOf(s.channel), stamp |-> price], s.trade)
       ELSE UNCHANGED queue

(* By the exchange's names of another exchange. *)
CloseByOtherNames(start, i, length) == start + Get(OkxLengths, i, 0)

(* candle(): ByBit tells when a candle ends.                               *)
Close(start, i, length) ==
    start + IF exchange = "bybit" THEN length ELSE interval2value(interval(i))

(* Whatever comes is passed on. *)
EveryCandle(stream, start) == TRUE

(* Bitfinex begins with old candles, and may come back to one that is over. *)
NotOlder(stream, start) == exchange # "bitfinex" \/ start >= stream.candles_max_time

(* The exchange's candle is of some length; ends is when it is over, for   *)
(* CandleCloses.                                                           *)
Candle(s, start, length) ==
    /\ Message(s, IntervalNames, NotOlder(s, start))
    /\ exchange = "bitfinex" \/ start >= s.sent
    /\ IF last'.passed
       THEN /\ Becomes(s, [s EXCEPT !.sent = start, !.candles_max_time = start])
            /\ fire([stream |-> StreamOf(s.channel), stamp |-> start,
                     close |-> Close(start, s.channel.type, length),
                     ends |-> start + length], s.trade)
       ELSE UNCHANGED <<streams, queue>>
    /\ UNCHANGED silent

Book(s, id, empty) ==
    /\ Message(s, {"depth5"}, TRUE) /\ id > s.sent
    /\ Becomes(s, [s EXCEPT !.sent = id])
    /\ fire([stream |-> StreamOf(s.channel), stamp |-> id, empty |-> empty], s.trade)
    /\ UNCHANGED silent

(* A message of a connection is of the type of its channel.                *)
ws_listener(s, stamp) ==
    \/ Ticker(s, stamp)
    \/ \E length \in Lengths(s.channel.type) : Candle(s, stamp, length)
    \/ \E empty \in BOOLEAN : Book(s, stamp, empty)

-----------------------------------------------------------------------------
(* What the clients are sent                                               *)

Unread(c) == c \in open /\ queue[c] # <<>>

Tell(c, event) ==
    /\ told' = [told EXCEPT ![c] = Append(@, event)]
    /\ UNCHANGED <<handlers, registered, streams, open, silent, check, counters>>

(* The ticker's time is that of the call. *)
NotRefreshed(t) == UNCHANGED age
Refreshed(t) == age' = [age EXCEPT ![t] = 0]

ReadTicker(c) ==
    /\ c.kind = "ticker" /\ Unread(c)
    /\ Tell(c, Head(queue[c])) /\ Refreshed(c.trade)
    /\ queue' = [queue EXCEPT ![c] = Tail(@)]

ReadKlines(c) ==
    /\ c.kind = "klines" /\ Unread(c)
    /\ Tell(c, Head(queue[c])) /\ UNCHANGED age
    /\ queue' = [queue EXCEPT ![c] = Tail(@)]

(* The newest book is taken and the others stay. *)
LeaveOlder(s) == Front(s)
DropOlder(s) == <<>>

(* A book with an empty side is not sent.                                  *)
ReadBook(c) ==
    /\ c.kind = "book" /\ Unread(c)
    /\ queue' = [queue EXCEPT ![c] = DropOlder(@)]
    /\ IF Last(queue[c]).empty
       THEN UNCHANGED <<handlers, registered, streams, told, open, silent, check, counters>>
       ELSE Tell(c, Last(queue[c]))
    /\ UNCHANGED age

Tick ==
    /\ \E t \in Trades : silent[t] < Timeout
    /\ age' = [t \in Trades |-> IF age[t] < Timeout THEN age[t] + 1 ELSE Timeout]
    /\ silent' = [t \in Trades |-> IF silent[t] < Timeout THEN silent[t] + 1 ELSE Timeout]
    /\ UNCHANGED <<handlers, registered, streams, queue, told, open, check, counters>>

Tickers(t) == {c \in open : c.trade = t /\ c.kind = "ticker"}

(* A failed check forgets the time.                                        *)
CheckStream(t) ==
    /\ Tickers(t) # {}
    /\ check' = [success |-> age[t] < Timeout, silent |-> silent[t],
                 unread |-> \E c \in Tickers(t) : Unread(c)]
    /\ UNCHANGED <<handlers, registered, streams, queue, told, open, clocks, counters>>

Unregistered(t) == {h \in handlers : h.call.trade # t}

StopStream(t) ==
    /\ starts[t] > 0
    /\ streams' = {s \in streams : s.trade # t}
    /\ handlers' = Unregistered(t)
    /\ registered' = [registered EXCEPT ![t] = {}]
    /\ open' = {c \in open : c.trade # t}
    /\ age' = [age EXCEPT ![t] = Timeout]
    /\ UNCHANGED <<queue, told, silent, check, counters>>

MarketNext ==
    /\ \/ \E c \in Calls : \/ OnTickerUpdate(c) \/ OnOrderBookUpdate(c) \/ OnKlinesUpdate(c)
                           \/ ReadTicker(c) \/ ReadKlines(c) \/ ReadBook(c)
       \/ \E t \in Trades : StartStream(t) \/ CheckStream(t) \/ StopStream(t)
       \/ \E s \in streams, stamp \in 1..MaxStamp : ws_listener(s, stamp)
       \/ Tick
    /\ UNCHANGED exchange

MarketSpec == exchange \in Exchanges /\ MarketInit /\ [][MarketNext]_<<exchange, marketVars>>
-----------------------------------------------------------------------------
(* Properties *)

(* Every variable holds a value of its kind; handlers are of open calls.   *)
MarketTypeOK ==
    /\ \A h \in handlers : h.call \in open
    /\ \A s \in streams : /\ s.trade \in Trades
                          /\ {s.sent, s.candles_max_time, s.price} \subseteq 0..MaxStamp
    /\ open \subseteq Calls
    /\ age \in [Trades -> 0..Timeout] /\ silent \in [Trades -> 0..Timeout]

(* A message of a trade's connection reaches the queue of every call of    *)
(* that trade for that channel, once, and no queue of another trade,       *)
(* although the handlers of all trades are kept under the same names, made *)
(* from the channel when a call begins and from the message when it comes. *)
ReachesItsCalls ==
    \A c \in Calls : Len(queue'[c]) - Len(queue[c]) =
        IF c \in open /\ last'.passed /\ last'.trade = c.trade /\ last'.channel \in Channels(c)
        THEN 1 ELSE 0

EveryCallOnce == [][messages' > messages => ReachesItsCalls]_marketVars

(* Of one interval, a strategy is told of no candle that is older than one *)
(* it was told of.  A second StartStream makes a second connection for     *)
(* each channel, whose candles come between.                               *)
CandlesForward ==
    \A c \in Calls : c.kind = "klines" /\ starts[c.trade] <= 1 =>
        \A i, j \in DOMAIN told[c] : i < j /\ told[c][i].stream = told[c][j].stream
            => told[c][i].stamp <= told[c][j].stamp

(* A strategy is told of candles of the intervals it asked for, each of    *)
(* which closes when the exchange's candle ends; but a month's up to three *)
(* days late, where the exchange does not tell.                            *)
CandleCloses ==
    \A c \in Calls : c.kind = "klines" =>
        \A i \in DOMAIN told[c] : LET e == told[c][i] IN
            /\ e.stream.type \in c.intervals
            /\ e.close - e.ends \in IF exchange = "bybit" THEN {0} ELSE Late(e.stream.type)

(* The books that a strategy is sent are each newer than the one before,   *)
(* though its queue gives the newest first.                                *)
BooksForward ==
    \A c \in Calls : c.kind = "book" /\ starts[c.trade] <= 1 =>
        \A i, j \in DOMAIN told[c] : i < j => told[c][i].stamp < told[c][j].stamp

MarketForward == CandlesForward /\ BooksForward

(* CheckStream fails only if the ticker's channel has been silent for the  *)
(* time it allows, or what it sent is still to be read; and on HTX, if the *)
(* price has not changed.                                                  *)
CheckTrue ==
    exchange # "huobi" => check.success \/ check.silent = Timeout \/ check.unread
=============================================================================
