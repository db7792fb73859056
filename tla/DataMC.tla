------------------------------- MODULE DataMC -------------------------------
(* Small instances of the modules about market data and funds, on the      *)
(* exchanges that they are about.  A behaviour is one of one instance, its *)
(* part, and the other modules rest: the run checks the parts, not their   *)
(* product.                                                                *)
EXTENDS MarketChannels, AccountFunds, Ledgers, OrderBooks, Candles

VARIABLE part

allVars == <<part, exchange, ledgerVars, bookVars, candleVars, marketVars, fundVars>>

(* Ledgers: each transfer concerns one trade; Bitfinex's third is of       *)
(* another category; ByBit's first is in a list and in the log, as it was  *)
(* made in the web interface, and its second in the log only.              *)
SymbolsTraded == [t \in {"t1", "t2"} |-> IF t = "t1" THEN "s1" ELSE "s2"]
TransfersConcern == [x \in Transfers |-> IF x = "x2" THEN {"t2"} ELSE {"t1"}]

TransfersListed ==
    [e \in Exchanges |-> [x \in Transfers |->
       CASE e = "bitfinex" -> IF x = "x3" THEN {"101"} ELSE {"51"}
         [] e = "bybit" /\ x = "x1" -> {"internal", "log"}
         [] e = "bybit" /\ x = "x2" -> {"log"}
         [] e = "huobi" /\ x \in {"x1", "x2"} -> {"ledger"}
         [] OTHER -> {}]]

(* OrderBooks: one side of three prices for Bitfinex, two of two for ByBit. *)
SidesShown == [e \in Exchanges |-> IF e = "bybit" THEN {"bids", "asks"} ELSE {"asks"}]
PricesShown == [e \in Exchanges |-> IF e = "bybit" THEN 1..2 ELSE 1..3]

(* Candles: every interval of an exchange, up to twelve candles.           *)
IntervalsAsked ==
    [e \in Exchanges |-> CASE e = "bitfinex" -> DOMAIN BfxLengths [] e = "huobi" -> DOMAIN HtxNames
                          [] OTHER -> IntervalNames]

(* The months of a year with a February of 28 days, and of the next one.   *)
DaysOfMonth(n) == CASE n % 12 = 1 -> 28 [] n % 12 \in {3, 5, 8, 10} -> 30 [] OTHER -> 31
MonthsBegin[n \in 0..20] == IF n = 0 THEN 0 ELSE MonthsBegin[n - 1] + DaysOfMonth(n - 1) * Day

(* MarketChannels: OKX, two trades of one symbol; Bitfinex, candles of two *)
(* intervals and a book.                                                   *)
Ask(trade, kind, intervals) ==
    [trade |-> trade, symbol |-> "s1", kind |-> kind, intervals |-> intervals]

MarketCalls ==
    [e \in Exchanges |->
       CASE e = "okx" -> {Ask("t1", "ticker", {}), Ask("t2", "ticker", {}), Ask("t2", "book", {})}
         [] e = "bitfinex" -> {Ask("t1", "klines", {"1h", "1M"}), Ask("t1", "book", {})}
         [] OTHER -> {}]

ASSUME DataAssumption ==
    /\ LedgersAssumption /\ TradesApart /\ OrderBooksAssumption /\ CandlesAssumption
    /\ CalendarAssumption /\ MarketChannelsAssumption /\ IntervalsKnown /\ AccountFundsAssumption

-----------------------------------------------------------------------------
Parts == {"ledgers", "books", "candles", "market", "funds"}

(* The exchanges that a part is about.                                     *)
ExchangesOf(p) ==
    CASE p = "ledgers" -> {"bitfinex", "huobi", "bybit"}
      [] p = "books" -> {"bitfinex", "bybit"}
      [] p = "candles" -> Exchanges
      [] p = "market" -> {"bitfinex", "okx"}
      [] p = "funds" -> {"huobi", "okx", "bybit"}

(* A module that rests begins in a single state.                           *)
Init ==
    /\ part \in Parts /\ exchange \in ExchangesOf(part)
    /\ LedgersInit /\ BooksInit /\ CandlesInit /\ MarketInit /\ FundsInit
    /\ part # "books" => market = [s \in Sides |-> [p \in Prices |-> 0]]
    /\ part # "funds" => free = [a \in Assets |-> 0]

LedgersPart ==
    /\ part = "ledgers" /\ LedgersNext /\ FewRecent'
    /\ UNCHANGED <<part, bookVars, candleVars, marketVars, fundVars>>

BooksPart ==
    part = "books" /\ BooksNext /\ UNCHANGED <<part, ledgerVars, candleVars, marketVars, fundVars>>

CandlesPart ==
    part = "candles" /\ CandlesNext /\ UNCHANGED <<part, ledgerVars, bookVars, marketVars, fundVars>>

MarketPart ==
    part = "market" /\ MarketNext /\ UNCHANGED <<part, ledgerVars, bookVars, candleVars, fundVars>>

(* After a loss of the connection, one unit of each asset is enough.       *)
OneUnit ==
    \A a \in Assets : free[a] + locked[a] <= 1 /\ fund[a] <= 1 /\ moved[a] \in -1..0

FundsPart ==
    /\ part = "funds" /\ FundsNext /\ (drops' > 0 => OneUnit')
    /\ UNCHANGED <<part, ledgerVars, bookVars, candleVars, marketVars>>

Next == LedgersPart \/ BooksPart \/ CandlesPart \/ MarketPart \/ FundsPart

Spec == Init /\ [][Next]_allVars
-----------------------------------------------------------------------------
(* The properties of the modules together *)

(* Every variable holds a value of its kind.                               *)
DataTypeOK == LedgersTypeOK /\ BooksTypeOK /\ CandlesTypeOK /\ MarketTypeOK /\ FundsTypeOK

(* FetchKlines answers a run of candles in the order of time that ends     *)
(* with the newest, each closing when the exchange's next begins; those of *)
(* Bitfinex's stream are of the intervals that were asked for and close    *)
(* when the exchange's end.  Months close up to three days late.           *)
CandlesTrue == KlinesTrue /\ CandleCloses
=============================================================================
