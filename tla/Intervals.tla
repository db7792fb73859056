------------------------------ MODULE Intervals ------------------------------
(***************************************************************************)
(* The intervals of candles: what each exchange calls them, and how long   *)
(* its table says they are. Times are in minutes.                          *)
(***************************************************************************)
EXTENDS Exchanges, Naturals

Get(table, key, default) == IF key \in DOMAIN table THEN table[key] ELSE default

Hour == 60
Day == 24 * Hour

IntervalNames == {"1m", "3m", "5m", "15m", "30m", "1h", "2h", "3h", "4h", "6h", "12h",
                  "1d", "1D", "1w", "1W", "14D", "1M"}

(* How long a candle is, but a month's.                                    *)
Length ==
    [i \in IntervalNames \ {"1M"} |->
       CASE i = "1m" -> 1 [] i = "3m" -> 3 [] i = "5m" -> 5 [] i = "15m" -> 15 [] i = "30m" -> 30
         [] i = "1h" -> Hour [] i = "2h" -> 2 * Hour [] i = "3h" -> 3 * Hour [] i = "4h" -> 4 * Hour
         [] i = "6h" -> 6 * Hour [] i = "12h" -> 12 * Hour [] i \in {"1d", "1D"} -> Day
         [] i \in {"1w", "1W"} -> 7 * Day [] i = "14D" -> 14 * Day]

(* A month of the calendar, which is what the exchanges' candles are of,   *)
(* has 28 to 31 days; the tables below say 31.                             *)
Lengths(i) ==
    CASE i = "1M" -> {days * Day : days \in 28..31}
      [] i \in DOMAIN Length -> {Length[i]}
      [] OTHER -> {}

(* How much later than the candle ends it may close by a table.            *)
Late(i) == IF i = "1M" THEN 0..(3 * Day) ELSE {0}

BfxLengths ==
    [i \in {"1m", "5m", "15m", "30m", "1h", "3h", "6h", "12h", "1D", "1W", "14D", "1M"} |->
       CASE i = "1m" -> 1 [] i = "5m" -> 5 [] i = "15m" -> 15 [] i = "30m" -> 30
         [] i = "1h" -> Hour [] i = "3h" -> 3 * Hour [] i = "6h" -> 6 * Hour
         [] i = "12h" -> 12 * Hour [] i = "1D" -> Day [] i = "1W" -> 7 * Day
         [] i = "14D" -> 14 * Day [] i = "1M" -> 31 * Day]

HtxNames ==
    [i \in {"1m", "5m", "15m", "30m", "1h", "4h", "1d", "1w", "1M"} |->
       CASE i = "1m" -> "1min" [] i = "5m" -> "5min" [] i = "15m" -> "15min"
         [] i = "30m" -> "30min" [] i = "1h" -> "60min" [] i = "4h" -> "4hour"
         [] i = "1d" -> "1day" [] i = "1w" -> "1week" [] i = "1M" -> "1mon"]
HtxLengths ==
    [i \in {"1min", "5min", "15min", "30min", "60min", "4hour", "1day", "1week", "1mon"} |->
       CASE i = "1min" -> 1 [] i = "5min" -> 5 [] i = "15min" -> 15 [] i = "30min" -> 30
         [] i = "60min" -> Hour [] i = "4hour" -> 4 * Hour [] i = "1day" -> Day
         [] i = "1week" -> 7 * Day [] i = "1mon" -> 31 * Day]

OkxNames ==
    [i \in {"1m", "3m", "5m", "15m", "30m", "1h", "2h", "4h", "1d", "1w", "1M"} |->
       CASE i = "1m" -> "1m" [] i = "3m" -> "3m" [] i = "5m" -> "5m"
         [] i = "15m" -> "15m" [] i = "30m" -> "30m" [] i = "1h" -> "1H"
         [] i = "2h" -> "2H" [] i = "4h" -> "4H" [] i = "1d" -> "1Dutc"
         [] i = "1w" -> "1Wutc" [] i = "1M" -> "1Mutc"]
OkxLengths ==
    [i \in {"1m", "3m", "5m", "15m", "30m", "1H", "2H", "4H", "1Dutc", "1Wutc", "1Mutc"} |->
       CASE i = "1m" -> 1 [] i = "3m" -> 3 [] i = "5m" -> 5 [] i = "15m" -> 15
         [] i = "30m" -> 30 [] i = "1H" -> Hour [] i = "2H" -> 2 * Hour
         [] i = "4H" -> 4 * Hour [] i = "1Dutc" -> Day [] i = "1Wutc" -> 7 * Day
         [] i = "1Mutc" -> 31 * Day]

BybitNames ==
    [i \in {"1m", "3m", "5m", "15m", "30m", "1h", "2h", "4h", "1d", "1w", "1M"} |->
       CASE i = "1m" -> "1" [] i = "3m" -> "3" [] i = "5m" -> "5" [] i = "15m" -> "15"
         [] i = "30m" -> "30" [] i = "1h" -> "60" [] i = "2h" -> "120"
         [] i = "4h" -> "240" [] i = "1d" -> "D" [] i = "1w" -> "W" [] i = "1M" -> "M"]
BybitLengths ==
    [i \in {"1", "3", "5", "15", "30", "120", "240", "D", "W", "M"} |->
       CASE i = "1" -> 1 [] i = "3" -> 3 [] i = "5" -> 5 [] i = "15" -> 15
         [] i = "30" -> 30 [] i = "120" -> Hour [] i = "240" -> 2 * Hour
         [] i = "D" -> Day [] i = "W" -> 7 * Day [] i = "M" -> 31 * Day]

(* interval(): the exchange's name; Bitfinex is asked in its own.          *)
interval(i) ==
    CASE exchange = "huobi" -> Get(HtxNames, i, "unresolved")
      [] exchange = "okx" -> Get(OkxNames, i, "")
      [] exchange = "bybit" -> Get(BybitNames, i, "")
      [] OTHER -> i

interval2value(name) ==
    CASE exchange = "huobi" -> Get(HtxLengths, name, 0)
      [] exchange = "okx" -> Get(OkxLengths, name, 0)
      [] exchange = "bybit" -> Get(BybitLengths, name, 0)
      [] OTHER -> Get(BfxLengths, name, 0)
=============================================================================
