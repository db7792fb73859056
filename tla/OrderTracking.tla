---------------------------- MODULE OrderTracking ----------------------------
(***************************************************************************)
(* What the wrapper believes of orders on Bitfinex and HTX.  Neither tells *)
(* the cumulative executed quantity with an execution, so client.py keeps  *)
(* active_orders, fed by REST answers and by the messages of the private   *)
(* WebSocket of every trade, and the events sent to the strategies, which  *)
(* speak Binance's vocabulary, are computed from it.                       *)
(*                                                                         *)
(* The exchange is external: it places, fills by units and cancels orders, *)
(* and tells every connection that watches an order.  Its messages may     *)
(* overtake one another, except the two about one execution.               *)
(***************************************************************************)
EXTENDS Exchanges, Naturals, FiniteSets

CONSTANTS
    Strategies,     \* trades of the account, each with its own connection
    Orders,
    Owner,          \* the strategy that places an order
    Listed,         \* the orders of a strategy's symbol
    Size,           \* the quantity of an order, in units of execution
    Fetches,        \* what strategies ask for: "order", "open" (orders)
    Cancels,        \* how they cancel: "one" order, "all" orders
    Losses          \* connections that may be lost (bound)

OrderTrackingAssumption ==
    /\ Owner \in [Orders -> Strategies]
    /\ Listed \in [Strategies -> SUBSET Orders] /\ \A o \in Orders : o \in Listed[Owner[o]]
    /\ Size \in Nat \ {0}
    /\ Fetches \subseteq {"order", "open"} /\ Cancels \subseteq {"one", "all"} /\ Losses \in Nat

VARIABLES
    state,      \* exchange: "none", "open", "filled" or "canceled"
    filled,     \* exchange: how much of an order is executed
    asked,      \* exchange: orders whose cancellation it has accepted
    inbox,      \* messages under way to a strategy's connection
    entry,      \* client.active_orders[order_id]; NoEntry if there is none
    cids,       \* orders with an entry under their client order id
    old,        \* entries whose lifeTime is over
    held,       \* wss_event_buffer of a connection: orders closed too early
    pc,         \* the request of an order's strategy that is running
    snap,       \* the REST answer that request is about to apply
    answer,     \* what the last cancellation returned
    told,       \* the last order event sent: status and quantity
    fetched,    \* history: orders of whose entry a REST answer has changed
                \* what it counts
    losses

placed == <<state, filled, asked>>
known == <<entry, cids, old, held>>
request == <<pc, snap, answer>>
history == <<told, fetched>>
trackingVars == <<placed, inbox, known, request, history, losses>>

NoEntry == [orig |-> 0, exec |-> 0, ids |-> {}, cancelled |-> FALSE]

NoAnswer == <<"NEW", 0>>

(* A Bitfinex connection hears of all orders of the account, a HTX one of  *)
(* those of its symbol.                                                    *)
Watched(s) == IF exchange = "bitfinex" THEN Orders ELSE Listed[s]

Send(kinds, o, k) ==
    inbox' = [s \in Strategies |-> IF o \in Watched(s)
                THEN inbox[s] \cup {<<kind, o, k>> : kind \in kinds} ELSE inbox[s]]

Kinds == {"new", "trade", "update", "closed"}

TrackingInit ==
    /\ state = [o \in Orders |-> "none"]
    /\ filled = [o \in Orders |-> 0]
    /\ asked = {}
    /\ inbox = [s \in Strategies |-> {}]
    /\ entry = [o \in Orders |-> NoEntry]
    /\ cids = {} /\ old = {}
    /\ held = [s \in Strategies |-> {}]
    /\ pc = [o \in Orders |-> "idle"]
    /\ snap = [o \in Orders |-> NoAnswer]
    /\ answer = [o \in Orders |-> "none"]
    /\ told = [s \in Strategies |-> [o \in Orders |-> <<"none", 0>>]]
    /\ fetched = {}
    /\ losses = 0

-----------------------------------------------------------------------------
(* active_orders *)

(* A quantity that is added to the one known. *)
ActiveOrderAdds(e, quantity, executed_qty) ==
    [e EXCEPT !.orig = @ + quantity,
              !.exec = IF @ < executed_qty THEN executed_qty ELSE @]

(* Client.active_order: an absent entry is one of zeros.                   *)
active_order(e, quantity, executed_qty) ==
    [e EXCEPT !.orig = IF @ = 0 THEN quantity ELSE @,
              !.exec = IF @ < executed_qty THEN executed_qty ELSE @]

(* Every call of active_order renews the entry's lifeTime.                 *)
Keep(o, e) ==
    /\ entry' = [entry EXCEPT ![o] = e]
    /\ old' = old \ {o}

(* An execution counted each time it is told. *)
CountAlways(e, k) == [e EXCEPT !.ids = @ \cup {k}, !.exec = @ + 1]

Counted(e, k) ==
    IF k \in e.ids THEN e ELSE [e EXCEPT !.ids = @ \cup {k}, !.exec = @ + 1]

(* FILLED only above the order's quantity. *)
StatusAbove(orig, exec) ==
    CASE 0 < exec /\ exec <= orig -> "PARTIALLY_FILLED"
      [] exec > orig              -> "FILLED"
      [] OTHER                    -> "NEW"

(* The status of the parsers, from the quantities of an entry.             *)
QuantityStatus(orig, exec) ==
    CASE 0 < exec /\ exec < orig -> "PARTIALLY_FILLED"
      [] exec >= orig            -> "FILLED"
      [] OTHER                   -> "NEW"

(* bfx.on_order_update gives CANCELED priority over the quantities.        *)
CloseStatus(o, e) ==
    IF state[o] = "canceled" THEN "CANCELED" ELSE QuantityStatus(e.orig, e.exec)

(* bfx.order and hbp.order: the exchange's own state of an order.          *)
RestStatus(o) ==
    IF state[o] = "canceled" THEN "CANCELED" ELSE QuantityStatus(Size, filled[o])

Tell(s, o, status, e) == told' = [told EXCEPT ![s][o] = <<status, e.exec>>]

-----------------------------------------------------------------------------
(* The exchange *)

Place(o) ==
    /\ pc[o] = "creating" /\ state[o] = "none"
    /\ state' = [state EXCEPT ![o] = "open"]
    /\ Send({"new"}, o, 0)
    /\ UNCHANGED <<filled, asked, known, request, history, losses>>

(* On Bitfinex 'te' and, with the fees, 'tu'; 'oc' after the last one.     *)
Fill(o) ==
    LET k == filled[o] + 1
        news == {<<"trade", o, k>>}
                \cup (IF exchange = "bitfinex" THEN {<<"update", o, k>>} ELSE {})
                \cup (IF exchange = "bitfinex" /\ k = Size THEN {<<"closed", o, 0>>} ELSE {})
    IN /\ state[o] = "open"
       /\ filled' = [filled EXCEPT ![o] = k]
       /\ state' = [state EXCEPT ![o] = IF k = Size THEN "filled" ELSE @]
       /\ inbox' = [s \in Strategies |-> IF o \in Watched(s)
                        THEN inbox[s] \cup news ELSE inbox[s]]
       /\ UNCHANGED <<asked, known, request, history, losses>>

(* A cancellation that was accepted takes effect.                          *)
CancelTakesEffect(o) ==
    /\ o \in asked /\ state[o] = "open"
    /\ state' = [state EXCEPT ![o] = "canceled"]
    /\ Send({"closed"}, o, 0)
    /\ UNCHANGED <<filled, asked, known, request, history, losses>>

(* The connection of a strategy is lost and restored: what was under way   *)
(* is not repeated, cycle_init clears the buffer.                          *)
Reconnect(s) ==
    /\ losses < Losses
    /\ losses' = losses + 1
    /\ inbox' = [inbox EXCEPT ![s] = {}]
    /\ held' = [held EXCEPT ![s] = {}]
    /\ UNCHANGED <<placed, entry, cids, old, request, history>>

-----------------------------------------------------------------------------
(* The private WebSocket of a strategy: _handle_event *)

Receive(s, kind, o, k) ==
    /\ <<kind, o, k>> \in inbox[s]
    /\ kind = "update" => <<"trade", o, k>> \notin inbox[s]
    /\ inbox' = [inbox EXCEPT ![s] = @ \ {<<kind, o, k>>}]
    /\ UNCHANGED <<placed, request, fetched, losses>>

(* 'on' *)
BfxNew(s, o) ==
    /\ exchange = "bitfinex"
    /\ Receive(s, "new", o, 0)
    /\ LET e == active_order(entry[o], Size, 0)
       IN Keep(o, e) /\ Tell(s, o, QuantityStatus(e.orig, e.exec), e)
    /\ UNCHANGED <<cids, held>>

(* 'te', 'tu': an execution already counted releases a closing event that  *)
(* was held back.                                                          *)
BfxTrade(s, o, k) ==
    LET quantity == IF o \in cids THEN Size ELSE 0
        before == active_order(entry[o], quantity, 0)
        after == Counted(before, k)
    IN /\ exchange = "bitfinex"
       /\ \E kind \in {"trade", "update"} : Receive(s, kind, o, k)
       /\ cids' = cids \ {o}
       /\ Keep(o, after)
       /\ \/ /\ after # before
             /\ Tell(s, o, QuantityStatus(after.orig, after.exec), after)
             /\ UNCHANGED held
          \/ /\ after = before /\ o \in held[s]
             /\ held' = [held EXCEPT ![s] = @ \ {o}]
             /\ Tell(s, o, QuantityStatus(after.orig, after.exec), after)
          \/ /\ after = before /\ o \notin held[s]
             /\ UNCHANGED <<held, told>>

(* 'oc': the event of an executed order waits for its executions.          *)
BfxClosed(s, o) ==
    LET e == active_order(entry[o], Size, 0)
        closed == [e EXCEPT !.cancelled = TRUE]
    IN /\ exchange = "bitfinex"
       /\ Receive(s, "closed", o, 0)
       /\ \/ /\ state[o] = "canceled" \/ e.exec >= Size
             /\ Keep(o, closed)
             /\ Tell(s, o, CloseStatus(o, closed), closed)
             /\ UNCHANGED held
          \/ /\ state[o] # "canceled" /\ e.exec < Size
             /\ Keep(o, e)
             /\ held' = [held EXCEPT ![s] = @ \cup {o}]
             /\ UNCHANGED told
       /\ UNCHANGED cids

(* orders#symbol: 'creation' and 'cancellation' *)
HtxOrder(s, o) ==
    LET e == active_order(entry[o], Size, 0)
    IN /\ exchange = "huobi"
       /\ \/ Receive(s, "new", o, 0) /\ Keep(o, e)
          \/ /\ Receive(s, "closed", o, 0)
             /\ Keep(o, [e EXCEPT !.cancelled = TRUE])
       /\ UNCHANGED <<cids, held, told>>

(* trade.clearing#symbol: the quantity of the order is in the message.     *)
HtxTrade(s, o, k) ==
    LET after == Counted(entry[o], k)
    IN /\ exchange = "huobi"
       /\ Receive(s, "trade", o, k)
       /\ Keep(o, after)
       /\ IF after # entry[o] THEN Tell(s, o, QuantityStatus(Size, after.exec), after)
                              ELSE UNCHANGED told
       /\ UNCHANGED <<cids, held>>

-----------------------------------------------------------------------------
(* The requests of an order's strategy *)

(* create_order: on Bitfinex with an entry under the client order id, from *)
(* which the first 'te' takes the quantity.                                *)
CreateOrder(o) ==
    /\ pc[o] = "idle" /\ state[o] = "none"
    /\ pc' = [pc EXCEPT ![o] = "creating"]
    /\ cids' = IF exchange = "bitfinex" THEN cids \cup {o} ELSE cids
    /\ UNCHANGED <<placed, inbox, entry, old, held, snap, answer, history, losses>>

(* The exchange's answer; on HTX create_order goes on to wait for an entry *)
(* at most 5 s and fetches the order.                                      *)
Created(o) ==
    /\ pc[o] = "creating" /\ state[o] # "none"
    /\ \/ /\ exchange = "bitfinex"
          /\ Keep(o, active_order(entry[o], Size, 0))
          /\ pc' = [pc EXCEPT ![o] = "idle"]
       \/ /\ exchange = "huobi"
          /\ pc' = [pc EXCEPT ![o] = "settling"]
          /\ UNCHANGED <<entry, old>>
    /\ UNCHANGED <<placed, inbox, cids, held, snap, answer, history, losses>>

(* fetch_order: the exchange answers with the order as it is now.          *)
FetchOrder(o) ==
    /\ snap' = [snap EXCEPT ![o] = <<RestStatus(o), filled[o]>>]
    /\ \/ /\ "order" \in Fetches /\ pc[o] = "idle" /\ state[o] # "none"
          /\ pc' = [pc EXCEPT ![o] = "fetched"]
       \/ /\ pc[o] = "settling"
          /\ pc' = [pc EXCEPT ![o] = "created"]
       \/ /\ exchange = "huobi" /\ pc[o] = "cancelling"
          /\ pc' = [pc EXCEPT ![o] = "cancelled"]
    /\ UNCHANGED <<placed, inbox, known, answer, history, losses>>

(* A REST answer that raises the quantity of an entry is noted.            *)
Disturbed(o) == IF entry'[o].exec # entry[o].exec THEN fetched \cup {o} ELSE fetched

(* A cancelled order in any case. *)
ApplyCancelled(o) ==
    /\ pc[o] \in {"fetched", "created", "cancelled"}
    /\ Keep(o, active_order(entry[o], Size, snap[o][2]))
    /\ pc' = [pc EXCEPT ![o] = "idle"] /\ snap' = [snap EXCEPT ![o] = NoAnswer]
    /\ answer' = [answer EXCEPT ![o] = IF pc[o] = "cancelled" THEN "CANCELED" ELSE @]
    /\ fetched' = Disturbed(o)
    /\ UNCHANGED <<placed, inbox, cids, held, told, losses>>

(* The answer is applied.  FetchOrder with filled_update_call sends the    *)
(* order's executions to the strategy (create_trade_stream_event).         *)
Apply(o) ==
    LET status == snap[o][1]
        executed_qty == snap[o][2]
    IN /\ pc[o] \in {"fetched", "created", "cancelled"}
       /\ Keep(o, active_order(entry[o], Size, executed_qty))
       /\ pc' = [pc EXCEPT ![o] = "idle"] /\ snap' = [snap EXCEPT ![o] = NoAnswer]
       /\ answer' = [answer EXCEPT ![o] = IF pc[o] = "cancelled" THEN status ELSE @]
       /\ \/ UNCHANGED told
          \/ /\ pc[o] = "fetched" /\ executed_qty > 0
             /\ told' = [told EXCEPT ![Owner[o]][o] = snap[o]]
       /\ fetched' = Disturbed(o)
       /\ UNCHANGED <<placed, inbox, cids, held, losses>>

(* cancel_order: the exchange accepts the cancellation of an open order.   *)
CancelOrder(o) ==
    /\ "one" \in Cancels /\ pc[o] = "idle" /\ state[o] = "open"
    /\ pc' = [pc EXCEPT ![o] = "cancelling"]
    /\ asked' = asked \cup {o}
    /\ UNCHANGED <<state, filled, inbox, known, snap, answer, history, losses>>

(* Bitfinex: the flag set by 'oc' makes the answer; after 5 s it is empty. *)
BfxCancelled(o) ==
    /\ exchange = "bitfinex" /\ pc[o] = "cancelling"
    /\ pc' = [pc EXCEPT ![o] = "idle"]
    /\ \/ entry[o].cancelled /\ answer' = [answer EXCEPT ![o] = "CANCELED"]
       \/ ~entry[o].cancelled /\ answer' = [answer EXCEPT ![o] = "empty"]
    /\ UNCHANGED <<placed, inbox, known, snap, history, losses>>

(* cancel_all_orders: the cancellation of the symbol's open orders is      *)
(* accepted, and that alone makes the answer CANCELED ("accepted" here).   *)
CancelAllOrders(s) ==
    LET accepted == {o \in Listed[s] : state[o] = "open"}
    IN /\ "all" \in Cancels /\ accepted # {}
       /\ asked' = asked \cup accepted
       /\ answer' = [o \in Orders |-> IF o \in accepted THEN "accepted" ELSE answer[o]]
       /\ UNCHANGED <<state, filled, inbox, known, pc, snap, history, losses>>

(* A request that fails, times out or whose caller is gone.                *)
GiveUp(o) ==
    /\ pc[o] # "idle"
    /\ pc' = [pc EXCEPT ![o] = "idle"] /\ snap' = [snap EXCEPT ![o] = NoAnswer]
    /\ UNCHANGED <<placed, inbox, known, answer, history, losses>>

(* 60 * STATUS_TIMEOUT seconds without a call of active_order; messages    *)
(* are not under way as long as that.                                      *)
LifeTimeOver(o) ==
    /\ "open" \in Fetches
    /\ entry[o] # NoEntry /\ o \notin old
    /\ \A s \in Strategies : \A m \in inbox[s] : m[2] # o
    /\ old' = old \cup {o}
    /\ UNCHANGED <<placed, inbox, entry, cids, held, request, history, losses>>

(* Entries that are too old cleared, whatever the answer. *)
FetchOpenOrdersClears(s) ==
    /\ "open" \in Fetches
    /\ entry' = [o \in Orders |-> IF o \in old THEN NoEntry ELSE entry[o]]
    /\ old' = {}
    /\ fetched' = fetched \cup old
    /\ UNCHANGED <<placed, inbox, cids, held, request, told, losses>>

(* FetchOpenOrders: the orders of the symbol are renewed, then all entries *)
(* of the account that are too old are cleared.  The answer is applied as  *)
(* it is given.  An entry under a client order id may be too old once      *)
(* create_order has ended and the order's first message was received.      *)
FetchOpenOrders(s) ==
    LET found == {o \in Listed[s] : state[o] = "open"}
        ended == {o \in cids : pc[o] # "creating" /\ \A r \in Strategies :
                                    <<"new", o, 0>> \notin inbox[r]}
    IN /\ "open" \in Fetches
       /\ \E gone \in SUBSET ended : cids' = cids \ gone
       /\ entry' = [o \in Orders |->
                        CASE o \in found       -> active_order(entry[o], Size, filled[o])
                          [] o \in old \ found -> NoEntry
                          [] OTHER             -> entry[o]]
       /\ old' = {}
       /\ fetched' = fetched \cup {o \in Orders : entry'[o] # entry[o] \/ (o \in cids) # (o \in cids')}
       /\ UNCHANGED <<placed, inbox, held, request, told, losses>>

-----------------------------------------------------------------------------
Handle(s, o) ==
    \/ BfxNew(s, o) \/ BfxClosed(s, o) \/ HtxOrder(s, o)
    \/ \E k \in 1..Size : BfxTrade(s, o, k) \/ HtxTrade(s, o, k)

OrderRequest(o) ==
    \/ CreateOrder(o) \/ Created(o) \/ FetchOrder(o) \/ Apply(o)
    \/ CancelOrder(o) \/ BfxCancelled(o) \/ GiveUp(o) \/ LifeTimeOver(o)

TrackingNext ==
    /\ \/ \E o \in Orders : Place(o) \/ Fill(o) \/ CancelTakesEffect(o) \/ OrderRequest(o)
       \/ \E s \in Strategies : Reconnect(s) \/ FetchOpenOrders(s) \/ CancelAllOrders(s)
       \/ \E s \in Strategies, o \in Orders : Handle(s, o)
    /\ UNCHANGED exchange

TrackingSpec ==
    exchange \in {"bitfinex", "huobi"} /\ TrackingInit /\ [][TrackingNext]_<<exchange, trackingVars>>

(* Connections deliver what they have; nothing else has to happen.         *)
TrackingFairness == \A s \in Strategies, o \in Orders : WF_trackingVars(Handle(s, o))
-----------------------------------------------------------------------------
(* Properties *)

Entries == [orig : {0, Size}, exec : Nat, ids : SUBSET (1..Size), cancelled : BOOLEAN]

(* Every variable holds a value of its kind. *)
TrackingTypeOK ==
    /\ state \in [Orders -> {"none", "open", "filled", "canceled"}]
    /\ filled \in [Orders -> 0..Size]
    /\ asked \subseteq Orders /\ cids \subseteq Orders /\ old \subseteq Orders
    /\ inbox \in [Strategies -> SUBSET (Kinds \X Orders \X (0..Size))]
    /\ entry \in [Orders -> Entries]
    /\ held \in [Strategies -> SUBSET Orders]
    /\ pc \in [Orders -> {"idle", "creating", "settling", "fetched", "created",
                          "cancelling", "cancelled"}]
    /\ snap \in [Orders -> Statuses \X (0..Size)]
    /\ answer \in [Orders -> Statuses \cup {"none", "empty", "accepted"}]
    /\ told \in [Strategies -> [Orders -> (Statuses \cup {"none"}) \X Nat]]
    /\ fetched \subseteq Orders
    /\ losses \in 0..Losses

(* An event never tells more than the exchange has executed, neither in    *)
(* its cumulative quantity nor by the status FILLED, in whatever order the *)
(* messages come and however often a connection was lost, as long as no    *)
(* REST answer has changed what the order's entry counts.                  *)
ReportTrue ==
    \A s \in Strategies, o \in Orders : o \notin fetched =>
        /\ told[s][o][2] <= filled[o]
        /\ told[s][o][1] = "FILLED" => state[o] = "filled"

(* An execution is never missed: when no message about an order is under   *)
(* way and no connection was lost, its entry counts all that was executed, *)
(* whatever REST answers came between and whichever connection was first.  *)
(* FetchOpenOrders must not be asked for by strategies of other symbols:   *)
(* it forgets entries of all symbols.                                      *)
NoTradeMissed ==
    \A o \in Orders :
        (/\ "open" \in Fetches => \A s \in Strategies : o \in Listed[s]
         /\ losses = 0 /\ state[o] = "open"
         /\ \A s \in Strategies, k \in 1..Size : <<"trade", o, k>> \notin inbox[s])
        => entry[o].exec >= filled[o]

(* CancelOrder answers CANCELED only of an order that is closed, on HTX    *)
(* only if it was cancelled, not if it was executed while the cancellation *)
(* was under way.                                                          *)
CancelledIsClosed ==
    \A o \in Orders : answer[o] = "CANCELED" =>
        state[o] = "canceled" \/ (exchange = "bitfinex" /\ state[o] = "filled")

(* The strategy of an executed order is told so in the end.                *)
FilledIsTold ==
    \A o \in Orders : <>(state[o] = "filled") => <>(told[Owner[o]][o][1] = "FILLED")
=============================================================================
