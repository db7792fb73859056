------------------------------- MODULE Candles -------------------------------
(***************************************************************************)
(* FetchKlines: the candles of each exchange made to look like Binance's,  *)
(* which have a close time as well, and put in the order of time.          *)
(*                                                                         *)
(* Times are in minutes, and a close time one millisecond later than       *)
(* what is sent (start + length - 1): the start of the next candle.        *)
(***************************************************************************)
EXTENDS Intervals, Sorting, Sequences, SequencesExt

CONSTANTS
    AskedOn,        \* the intervals a client asks each exchange for
    MaxLimit,       \* bound: candles asked for
    MaxPerAnswer,   \* OKX: min(limit, 300)
    Now,            \* the number of a candle that is not over yet
    MonthStart      \* the calendar: when each month begins, Now the last one

(* HTX is asked for an interval that it has not, and Bitfinex for one that *)
(* the server has no length of, in vain.                                   *)
CandlesAssumption ==
    /\ \A e \in Exchanges : AskedOn[e] \subseteq IntervalNames
    /\ AskedOn["bitfinex"] \subseteq DOMAIN BfxLengths /\ AskedOn["huobi"] \subseteq DOMAIN HtxNames
    /\ MaxLimit \in Nat /\ MaxPerAnswer \in Nat \ {0} /\ Now \in Nat /\ MaxLimit < Now

CalendarAssumption ==
    /\ MonthStart \in [0..Now -> Nat]
    /\ \A n \in 1..Now : MonthStart[n] - MonthStart[n - 1] \in Lengths("1M")
    /\ \A m, n \in 0..Now : m < n => MonthStart[m] < MonthStart[n]

VARIABLES
    request,        \* the request of a client: [interval, limit], or NoRequest
    candles,        \* the answer of the exchange: the candles' open times
    klines          \* what the client is answered: [start, close]

candleVars == <<request, candles, klines>>

NoRequest == [interval |-> "none", limit |-> 0]

CandlesInit == request = NoRequest /\ candles = <<>> /\ klines = <<>>

(* When the n-th candle of an interval begins on the exchange.             *)
Opens(i, n) == IF i = "1M" THEN MonthStart[n] ELSE Length[i] * n

(* The exchange answers with its newest candles, the newest first.         *)
Newest(i, count) == [k \in 1..count |-> Opens(i, Now - k)]

FewEnough(limit) == IF exchange # "okx" \/ limit < MaxPerAnswer THEN limit ELSE MaxPerAnswer

(* fetch_klines(): a name the exchange has not is refused before a request *)
(* is made, but HTX's, which no exchange has; OKX gives fewer at a time.   *)
FetchKlines ==
    /\ request = NoRequest
    /\ \E i \in AskedOn[exchange], limit \in 1..MaxLimit :
         /\ interval(i) # ""
         /\ request' = [interval |-> i, limit |-> limit]
         /\ candles' = Newest(i, FewEnough(limit))
         /\ UNCHANGED klines

Bar(start, i) == [start |-> start, close |-> start + interval2value(interval(i))]

(* The answer of the exchange is taken to be in the order of time.         *)
AnswerAsIs == [k \in DOMAIN candles |-> Bar(candles[k], request.interval)]

(* HTX's answer is turned round, the other exchanges' is sorted.           *)
Answer ==
    LET ordered == IF exchange = "huobi" THEN Reverse(candles)
                   ELSE SortedBy(Range(candles), [start \in Range(candles) |-> start])
    IN  [k \in DOMAIN ordered |-> Bar(ordered[k], request.interval)]

KlinesAnswered ==
    /\ candles # <<>>
    /\ klines' = Answer
    /\ candles' = <<>>
    /\ UNCHANGED request

CandlesNext == (FetchKlines \/ KlinesAnswered) /\ UNCHANGED exchange

CandlesSpec ==
    exchange \in Exchanges /\ CandlesInit /\ [][CandlesNext]_<<exchange, candleVars>>
-----------------------------------------------------------------------------
(* Properties *)

(* Every variable holds a value of its kind.                               *)
CandlesTypeOK ==
    /\ request = NoRequest \/ request \in [interval : AskedOn[exchange], limit : 1..MaxLimit]
    /\ \A k \in DOMAIN candles : candles[k] \in Nat
    /\ Len(candles) <= IF exchange = "okx" THEN MaxPerAnswer ELSE MaxLimit
    /\ \A k \in DOMAIN klines : DOMAIN klines[k] = {"start", "close"}

(* ByBit's table of lengths has other names for hours than ByBit.          *)
HoursOfBybit == IF exchange = "bybit" THEN {"1h", "2h", "4h"} ELSE {}

(* The answer of FetchKlines is a run of candles in the order of time that *)
(* ends with the newest one, and a candle closes when the exchange's next  *)
(* begins; but ByBit's of hours close too early, and every exchange's of   *)
(* months up to three days late, in the time of the next candle.           *)
KlinesTrue ==
    LET i == request.interval
        first == Now - Len(klines)      \* the number of the answer's first candle
    IN  \A k \in DOMAIN klines :
          /\ klines[k].start = Opens(i, first + k - 1)
          /\ i \notin HoursOfBybit => klines[k].close - Opens(i, first + k) \in Late(i)

(* Does not hold: months close when the next begins, too.                  *)
MonthsClose ==
    request.interval = "1M" =>
        \A k \in 1..(Len(klines) - 1) : klines[k].close = klines[k + 1].start
=============================================================================
