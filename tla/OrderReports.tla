---------------------------- MODULE OrderReports ----------------------------
(***************************************************************************)
(* What a strategy is told of one order: the conversions of each           *)
(* exchange's messages and answers to Binance's, and the events that       *)
(* FetchOrder makes of the order's trades when filled_update_call is set.  *)
(*                                                                         *)
(* The messages of the stream come in order and once; OrderTracking is     *)
(* about what happens when they do not. Prices and quantities are small    *)
(* integers, so that a product stands for an amount of the quote asset.    *)
(***************************************************************************)
EXTENDS Exchanges, Naturals, Sequences

CONSTANTS
    Qty, Price,     \* the order's
    Prices,         \* ... and those it may be filled at, not worse
    Calls,          \* the states of an order in which FetchOrder is called
    MaxReports      \* bound: reports of the order

OrderReportsAssumption ==
    /\ Qty \in Nat \ {0} /\ Price \in Prices /\ Prices \subseteq Nat
    /\ Calls \subseteq Statuses
    /\ MaxReports \in Nat

VARIABLES
    trades,         \* the order's trades: what was executed, and paid, with each
    canceled,
    order,          \* FetchOrder: the answer it has, or NotFetched
    reports         \* what the strategy was told

reportVars == <<trades, canceled, order, reports>>

NotFetched == [status |-> "none"]

Executed(ts) == IF ts = <<>> THEN 0 ELSE ts[Len(ts)].executed
Quote(ts) == IF ts = <<>> THEN 0 ELSE ts[Len(ts)].quote

(* The order's true status. *)
TrueStatus(ts, gone) ==
    CASE gone -> "CANCELED"
      [] ~gone /\ ts = <<>> -> "NEW"
      [] ~gone /\ Executed(ts) \in 1..(Qty - 1) -> "PARTIALLY_FILLED"
      [] OTHER -> "FILLED"

(* The state an exchange gives it in an answer or a message.               *)
State(ts, gone) ==
    LET some == ts # <<>>
        all == Executed(ts) = Qty
    IN  CASE gone -> (IF some /\ exchange \in {"huobi", "bybit"} THEN "partial-canceled" ELSE "canceled")
          [] all /\ ~gone -> "filled"
          [] some /\ ~all /\ ~gone -> "partial-filled"
          [] OTHER -> "submitted"

Told(status, executed, quote) == [status |-> status, executed |-> executed, quote |-> quote]

ByQuantity(executed) ==
    IF executed >= Qty THEN "FILLED" ELSE IF executed > 0 THEN "PARTIALLY_FILLED" ELSE "NEW"

ByState(state) ==
    CASE state \in {"canceled", "partial-canceled"} -> "CANCELED"
      [] state = "partial-filled" -> "PARTIALLY_FILLED"
      [] state = "filled" -> "FILLED"
      [] OTHER -> "NEW"

(* The quantities are looked at before the order is known to be cancelled. *)
QuantityFirst(ts, gone) ==
    LET executed == Executed(ts)
    IN  Told(IF executed > 0 \/ ~gone THEN ByQuantity(executed) ELSE "CANCELED", executed, Quote(ts))

(* All at the order's price. *)
AtOrderPrice(ts, gone) == Told(ByState(State(ts, gone)), Executed(ts), Executed(ts) * Price)

-----------------------------------------------------------------------------
(* order(): the answers. Bitfinex's and OKX's quantities of the quote      *)
(* asset are made of the average price, HTX and ByBit give them.           *)
BfxAnswer(ts, gone) ==
    LET executed == Qty - (Qty - Executed(ts))
    IN  Told(IF gone THEN "CANCELED" ELSE ByQuantity(executed), executed, Quote(ts))

HtxAnswer(ts, gone) == Told(ByState(State(ts, gone)), Executed(ts), Quote(ts))

OkxAnswer(ts, gone) == Told(ByState(State(ts, gone)), Executed(ts), Quote(ts))

BybitAnswer(ts, gone) ==
    LET state == State(ts, gone)
    IN  Told(IF state = "partial-canceled" THEN "CANCELED" ELSE ByState(state), Executed(ts), Quote(ts))

AnswerOf(ts, gone) ==
    CASE exchange = "bitfinex" -> BfxAnswer(ts, gone) [] exchange = "huobi" -> HtxAnswer(ts, gone)
      [] exchange = "okx" -> OkxAnswer(ts, gone) [] OTHER -> BybitAnswer(ts, gone)

(* The messages. Bitfinex has one for the order and one for a trade, which *)
(* knows the order's price only; so does HTX's, that also has the order's  *)
(* state; ByBit's execution has what is left of the order.                 *)
BfxOrderUpdate(ts, gone) ==
    Told(IF gone THEN "CANCELED" ELSE ByQuantity(Executed(ts)), Executed(ts), Quote(ts))

BfxOrderTrade(ts, gone) == Told(ByQuantity(Executed(ts)), Executed(ts), Executed(ts) * Price)

HtxOrderUpdate(ts, gone) ==
    LET state == State(ts, gone)
    IN  Told(CASE state \in {"canceled", "partial-canceled"} -> "CANCELED"
               [] state = "partial-filled" /\ Executed(ts) < Qty -> "PARTIALLY_FILLED"
               [] OTHER -> ByQuantity(Executed(ts)),
             Executed(ts), Executed(ts) * Price)

OkxOrderUpdate(ts, gone) == Told(ByState(State(ts, gone)), Executed(ts), Quote(ts))

BybitTradeUpdate(ts, gone) ==
    LET leavesQty == Qty - Executed(ts)
    IN  Told(IF leavesQty = Qty THEN "NEW" ELSE IF leavesQty > 0 THEN "PARTIALLY_FILLED" ELSE "FILLED",
             Qty - leavesQty, Executed(ts) * Price)

MessageOf(about, ts, gone) ==
    CASE exchange = "bitfinex" ->
            (IF about = "trade" THEN BfxOrderTrade(ts, gone) ELSE BfxOrderUpdate(ts, gone))
      [] exchange = "huobi" -> HtxOrderUpdate(ts, gone)
      [] exchange = "okx" -> OkxOrderUpdate(ts, gone)
      [] OTHER -> BybitTradeUpdate(ts, gone)

(* What is told, with what is so. *)
Really(what, ts, gone) ==
    [status |-> what.status, executed |-> what.executed, quote |-> what.quote,
     really |-> TrueStatus(ts, gone), of |-> ts]

Reported(about, ts, gone) == Really(MessageOf(about, ts, gone), ts, gone)

ReportsInit == trades = <<>> /\ canceled = FALSE /\ order = NotFetched /\ reports = <<>>

Room == Len(reports) < MaxReports
Open == ~canceled /\ Executed(trades) < Qty

(* A trade; Bitfinex closes a filled order with an order message.          *)
Trade(qty, price) ==
    /\ Open /\ Room /\ Executed(trades) + qty <= Qty
    /\ trades' = Append(trades, [executed |-> Executed(trades) + qty,
                                 quote |-> Quote(trades) + qty * price])
    /\ reports' = Append(reports, Reported("trade", trades', canceled)) \o
         (IF exchange = "bitfinex" /\ Executed(trades') = Qty
          THEN <<Reported("order", trades', canceled)>> ELSE <<>>)
    /\ UNCHANGED <<canceled, order>>

(* Bitfinex and OKX tell of it; ByBit and HTX have no report for it.       *)
Cancel ==
    /\ Open /\ Room
    /\ canceled' = TRUE
    /\ reports' = IF exchange \in {"bitfinex", "okx"}
                  THEN Append(reports, Reported("order", trades, canceled')) ELSE reports
    /\ UNCHANGED <<trades, order>>

Fetch ==
    /\ order = NotFetched /\ Room
    /\ TrueStatus(trades, canceled) \in Calls
    /\ order' = Really(AnswerOf(trades, canceled), trades, canceled)
    /\ UNCHANGED <<trades, canceled, reports>>

NothingExecuted ==
    /\ order # NotFetched /\ order.executed = 0
    /\ order' = NotFetched
    /\ UNCHANGED <<trades, canceled, reports>>

(* Each trade's event has the status that it alone would make.             *)
EstimatedEvents ==
    [i \in DOMAIN trades |->
        LET ts == SubSeq(trades, 1, i) IN
        [order EXCEPT !.status = ByQuantity(Executed(ts)), !.of = ts]]

(* Each trade's event has the order's status, and its quantities, as they  *)
(* were before the trades were asked for.                                  *)
TradeEvents == [i \in DOMAIN trades |-> order]

CreateTradeStreamEvent ==
    /\ order # NotFetched /\ order.executed > 0
    /\ reports' = reports \o TradeEvents
    /\ order' = NotFetched
    /\ UNCHANGED <<trades, canceled>>

ReportsNext ==
    /\ \/ \E qty \in 1..Qty, price \in Prices : Trade(qty, price)
       \/ Cancel \/ Fetch \/ NothingExecuted \/ CreateTradeStreamEvent
    /\ UNCHANGED exchange

ReportsSpec == exchange \in Exchanges /\ ReportsInit /\ [][ReportsNext]_<<exchange, reportVars>>
-----------------------------------------------------------------------------
(* Properties *)

TradeFacts == [executed : 1..Qty, quote : Nat]
Reports == [status : Statuses, executed : 0..Qty, quote : Nat, really : Statuses, of : Seq(TradeFacts)]

(* Every variable holds a value of its kind.                               *)
ReportsTypeOK ==
    /\ trades \in Seq(TradeFacts)
    /\ canceled \in BOOLEAN
    /\ reports \in Seq(Reports)
    /\ order \in Reports \cup {NotFetched}

(* The stream and the answers give the same status to the same order, the  *)
(* one that it has, although each is converted in its own way from the     *)
(* state or the quantities of its own exchange; OKX's reports also tell    *)
(* the quote asset that the trades have cost.                              *)
StatusTrue ==
    /\ \A i \in DOMAIN reports :
            /\ reports[i].status = reports[i].really
            /\ exchange = "okx" => reports[i].quote = Quote(reports[i].of)
    /\ order # NotFetched => order.status = order.really

(* An order that was reported as filled or cancelled stays so, and what    *)
(* was executed never becomes less, if FetchOrder is not called for an     *)
(* order that is partially filled: its events are made of the old answer.  *)
Forward ==
    "PARTIALLY_FILLED" \notin Calls =>
        \A i, j \in DOMAIN reports : i < j =>
            /\ reports[i].executed <= reports[j].executed
            /\ reports[i].status \in {"FILLED", "CANCELED"} => reports[j].status = reports[i].status

(* Does not hold, see README: FetchOrder makes events of orders that are   *)
(* not filled.                                                             *)
FetchedFilled ==
    [][CreateTradeStreamEvent => order.status = "FILLED"]_reportVars
=============================================================================
