------------------------------ MODULE Exchanges ------------------------------
(***************************************************************************)
(* What the modules about orders, funds and markets share: the exchange of *)
(* a client.  It is given with the account when the client is made, every  *)
(* handler branches on it, and nothing changes it.                         *)
(***************************************************************************)

VARIABLE exchange       \* client.exchange

Exchanges == {"bitfinex", "huobi", "okx", "bybit"}

(* Binance's vocabulary, to which all orders are translated.               *)
Statuses == {"NEW", "PARTIALLY_FILLED", "FILLED", "CANCELED"}
=============================================================================
