---------------------------- MODULE CancelConfirm ----------------------------
(***************************************************************************)
(* Cancellation of orders on OKX and ByBit.  The REST answer only says     *)
(* that a cancellation was accepted; cancel_order then waits, at most      *)
(* STATUS_TIMEOUT, for the order's closing message, which any private      *)
(* connection of the account may receive, before or after that answer: on  *)
(* OKX through a queue of the request, on ByBit through wss_buffer.        *)
(*                                                                         *)
(* The exchange and its messages are external.  A message may list several *)
(* orders; the connections look at the first one only, so a message is its *)
(* first order here.                                                       *)
(***************************************************************************)
EXTENDS Exchanges, Naturals, FiniteSets, SequencesExt

CONSTANTS
    Trades,         \* each with a connection
    OpenOrders,     \* the orders of the account, open at the start
    Requests,
    Target,         \* the orders a request cancels
    Bulk,           \* the requests that are CancelAllOrders
    MaxLen,         \* max_len of wss_buffer
    Batch           \* orders in one request to OKX; i in cancel_all_orders

NoQueue == "none"

CancelConfirmAssumption ==
    /\ Target \in [Requests -> SUBSET OpenOrders] /\ Bulk \subseteq Requests
    /\ \A r \in Requests \ Bulk : \E o \in OpenOrders : Target[r] = {o}
    /\ NoQueue \notin Requests
    /\ MaxLen \in Nat \ {0} /\ Batch \in Nat \ {0}

VARIABLES
    standing,       \* exchange: "open", "closing" (accepted), "canceled", "filled"
    confirmations,  \* messages under way to a trade's connection
    queue,          \* on_order_update_queues: the queue registered for an order
    got,            \* orders in the queue of a request
    buffer,         \* wss_buffer, oldest first
    phase,          \* of a request
    left,           \* orders a request has still to cancel (OKX), wait for (ByBit)
    result,         \* what the request returns: <<order, status>>
    early           \* history: messages handled between a request and its answer

confirmVars == <<standing, confirmations, queue, got, buffer, phase, left, result, early>>

OKX == exchange = "okx"
ByBit == exchange = "bybit"
Order(r) == CHOOSE o \in Target[r] : TRUE

ConfirmInit ==
    /\ standing = [o \in OpenOrders |-> "open"]
    /\ confirmations = [t \in Trades |-> {}]
    /\ queue = [o \in OpenOrders |-> NoQueue]
    /\ got = [r \in Requests |-> {}]
    /\ buffer = <<>>
    /\ phase = [r \in Requests |-> "idle"]
    /\ left = [r \in Requests |-> {}]
    /\ result = [r \in Requests |-> {}]
    /\ early = [r \in Requests |-> {}]

-----------------------------------------------------------------------------
(* The exchange *)

Executes(o) ==
    /\ standing[o] \in {"open", "closing"}
    /\ standing' = [standing EXCEPT ![o] = "filled"]
    /\ UNCHANGED <<confirmations, queue, got, buffer, phase, left, result, early>>

(* Accepted cancellations take effect; every connection is told, in a      *)
(* message with one or several orders.                                     *)
Cancelled(S) ==
    /\ S # {} /\ \A o \in S : standing[o] = "closing"
    /\ standing' = [o \in OpenOrders |-> IF o \in S THEN "canceled" ELSE standing[o]]
    /\ \E first \in S : confirmations' = [t \in Trades |-> confirmations[t] \cup {first}]
    /\ UNCHANGED <<queue, got, buffer, phase, left, result, early>>

-----------------------------------------------------------------------------
(* The private connections: _handle_event *)

(* wss_buffer.pop(key, None); wss_buffer[key] = order, where ExpiringDict  *)
(* drops the oldest at max_len.                                            *)
Popped(o) ==
    IF o \in ToSet(buffer) THEN RemoveAt(buffer, CHOOSE i \in DOMAIN buffer : buffer[i] = o)
                          ELSE buffer

Stored(o) ==
    Append(IF o \in ToSet(buffer) \/ Len(buffer) < MaxLen THEN Popped(o) ELSE Tail(buffer), o)

(* The queue of whichever request was registered last. *)
AnyQueue(o) == {r \in Requests : \E x \in OpenOrders : queue[x] = r}

(* on_order_update_queues.get(symbol + order id)                           *)
QueueOf(o) == {queue[o]} \cap Requests

HandleEvent(t, o) ==
    /\ o \in confirmations[t]
    /\ confirmations' = [confirmations EXCEPT ![t] = @ \ {o}]
    /\ \/ /\ OKX
          /\ got' = [r \in Requests |-> IF r \in QueueOf(o) THEN got[r] \cup {o} ELSE got[r]]
          /\ UNCHANGED buffer
       \/ ByBit /\ buffer' = Stored(o) /\ UNCHANGED got
    /\ early' = [r \in Requests |-> IF phase[r] = "sent" THEN early[r] \cup {o} ELSE early[r]]
    /\ UNCHANGED <<standing, queue, phase, left, result>>

-----------------------------------------------------------------------------
(* cancel_order *)

(* The request is sent first. *)
SendCancelUnheard(r) ==
    /\ r \notin Bulk /\ phase[r] = "idle"
    /\ phase' = [phase EXCEPT ![r] = "sent"]
    /\ UNCHANGED <<standing, confirmations, queue, got, buffer, left, result, early>>

(* On OKX the queue is registered before the request is sent.              *)
SendCancel(r) ==
    /\ r \notin Bulk /\ phase[r] = "idle"
    /\ phase' = [phase EXCEPT ![r] = "sent"]
    /\ queue' = IF OKX THEN [queue EXCEPT ![Order(r)] = r] ELSE queue
    /\ UNCHANGED <<standing, confirmations, got, buffer, left, result, early>>

(* The exchange receives the request: phase "sent" lasts until its answer  *)
(* is here, so messages may be handled in between.                         *)
Arrives(r) ==
    /\ phase[r] = "sent" /\ r \notin Bulk
    /\ standing[Order(r)] = "open"
    /\ standing' = [standing EXCEPT ![Order(r)] = "closing"]
    /\ left' = [left EXCEPT ![r] = Target[r]]
    /\ UNCHANGED <<confirmations, queue, got, buffer, phase, result, early>>

(* The answer: accepted, sCode '0' or an orderId.                          *)
Accepted(r) ==
    /\ phase[r] = "sent" /\ r \notin Bulk /\ left[r] # {}
    /\ phase' = [phase EXCEPT ![r] = "waiting"]
    /\ UNCHANGED <<standing, confirmations, queue, got, buffer, left, result, early>>

(* The cancellation is refused, or accepted once, its answer lost, and     *)
(* refused when repeated by REST: cancel_order raises, and on OKX leaves   *)
(* its queue registered.                                                   *)
Refused(r) ==
    /\ phase[r] = "sent" /\ r \notin Bulk /\ standing[Order(r)] # "open"
    /\ phase' = [phase EXCEPT ![r] = "failed"]
    /\ UNCHANGED <<standing, confirmations, queue, got, buffer, left, result, early>>

Available(r) == IF OKX THEN got[r] ELSE ToSet(buffer) \cap left[r]

(* _queue.get() or fetch_object() has it.                                  *)
Confirmed(r) ==
    \E o \in Available(r) :
        /\ phase[r] = "waiting" /\ r \notin Bulk
        /\ phase' = [phase EXCEPT ![r] = "done"]
        /\ result' = [result EXCEPT ![r] = {<<o, "CANCELED">>}]
        /\ queue' = IF OKX THEN [queue EXCEPT ![Order(r)] = NoQueue] ELSE queue
        /\ buffer' = IF ByBit THEN Popped(o) ELSE buffer
        /\ UNCHANGED <<standing, confirmations, got, left, early>>

(* STATUS_TIMEOUT: what is available at once is taken, so nothing is.      *)
WaitedTooLong(r) ==
    /\ phase[r] = "waiting" /\ r \notin Bulk
    /\ Available(r) = {}
    /\ phase' = [phase EXCEPT ![r] = "timeout"]
    /\ queue' = IF OKX THEN [queue EXCEPT ![Order(r)] = NoQueue] ELSE queue
    /\ UNCHANGED <<standing, confirmations, got, buffer, left, result, early>>

(* The caller is gone, or a call failed: no queue is popped, no task ended. *)
CancelGivenUp(r) ==
    /\ phase[r] \in {"sent", "waiting", "fetching", "batch"}
    /\ phase' = [phase EXCEPT ![r] = "failed"]
    /\ UNCHANGED <<standing, confirmations, queue, got, buffer, left, result, early>>

-----------------------------------------------------------------------------
(* cancel_all_orders *)

(* ByBit: one request cancels all open orders and lists them; a task per   *)
(* order waits for its message.                                            *)
CancelAll(r) ==
    LET open == {o \in Target[r] : standing[o] = "open"}
    IN /\ ByBit /\ r \in Bulk /\ phase[r] = "idle"
       /\ standing' = [o \in OpenOrders |-> IF o \in open THEN "closing" ELSE standing[o]]
       /\ left' = [left EXCEPT ![r] = open]
       /\ phase' = [phase EXCEPT ![r] = "waiting"]
       /\ UNCHANGED <<confirmations, queue, got, buffer, result, early>>

TaskDone(r) ==
    \E o \in Available(r) :
        /\ ByBit /\ r \in Bulk /\ phase[r] \in {"waiting", "failed"}
        /\ result' = [result EXCEPT ![r] = @ \cup {<<o, "CANCELED">>}]
        /\ left' = [left EXCEPT ![r] = @ \ {o}]
        /\ buffer' = Popped(o)
        /\ UNCHANGED <<standing, confirmations, queue, got, phase, early>>

(* The orders whose messages did not come are never fetched. *)
AllWaitedDrops(r) ==
    /\ ByBit /\ r \in Bulk /\ phase[r] = "waiting"
    /\ Available(r) = {}
    /\ phase' = [phase EXCEPT ![r] = "done"]
    /\ UNCHANGED <<standing, confirmations, queue, got, buffer, left, result, early>>

(* All tasks are done, or STATUS_TIMEOUT is over: the orders of pending    *)
(* tasks are fetched one by one if ByBit's answer had a "success", and     *)
(* left out of the answer if it had none.                                  *)
AllWaited(r) ==
    /\ ByBit /\ r \in Bulk /\ phase[r] = "waiting"
    /\ Available(r) = {}
    /\ \/ left[r] = {} /\ phase' = [phase EXCEPT ![r] = "done"]
       \/ left[r] # {} /\ \E next \in {"fetching", "unfetched"} : phase' = [phase EXCEPT ![r] = next]
    /\ UNCHANGED <<standing, confirmations, queue, got, buffer, left, result, early>>

FetchPending(r) ==
    \E o \in left[r] :
        /\ ByBit /\ phase[r] = "fetching"
        /\ left' = [left EXCEPT ![r] = @ \ {o}]
        /\ result' = [result EXCEPT ![r] = @ \cup {<<o, CASE standing[o] = "canceled" -> "CANCELED"
                                                          [] standing[o] = "filled" -> "FILLED"
                                                          [] OTHER -> "NEW">>}]
        /\ phase' = [phase EXCEPT ![r] = IF left'[r] = {} THEN "done" ELSE @]
        /\ UNCHANGED <<standing, confirmations, queue, got, buffer, early>>

(* OKX: the open orders are fetched, then cancelled in batches.            *)
FetchOrders(r) ==
    /\ OKX /\ r \in Bulk /\ phase[r] = "idle"
    /\ left' = [left EXCEPT ![r] = {o \in Target[r] : standing[o] = "open"}]
    /\ phase' = [phase EXCEPT ![r] = "batch"]
    /\ UNCHANGED <<standing, confirmations, queue, got, buffer, result, early>>

(* The next orders of the list, Batch of them as long as there are so many *)
Batches(r) ==
    {S \in SUBSET left[r] : Cardinality(S) = Batch \/ (S = left[r] /\ Cardinality(S) < Batch)}

(* They are asked for together, then deleted from the list.                *)
CancelBatch(r, batch) ==
    LET accepted == {o \in batch : standing[o] = "open"}
    IN /\ OKX /\ phase[r] = "batch" /\ left[r] # {}
       /\ left' = [left EXCEPT ![r] = @ \ batch]
       /\ standing' = [o \in OpenOrders |-> IF o \in accepted THEN "closing" ELSE standing[o]]
       /\ result' = [result EXCEPT ![r] = @ \cup {<<o, "CANCELED">> : o \in accepted}]
       /\ UNCHANGED <<confirmations, queue, got, buffer, phase, early>>

BatchesDone(r) ==
    /\ OKX /\ phase[r] = "batch" /\ left[r] = {}
    /\ phase' = [phase EXCEPT ![r] = "done"]
    /\ UNCHANGED <<standing, confirmations, queue, got, buffer, left, result, early>>
-----------------------------------------------------------------------------
CancelRequest(r) ==
    \/ SendCancel(r) \/ Arrives(r) \/ Accepted(r) \/ Refused(r)
    \/ Confirmed(r) \/ WaitedTooLong(r) \/ CancelGivenUp(r)
    \/ CancelAll(r) \/ TaskDone(r) \/ AllWaited(r) \/ FetchPending(r)
    \/ FetchOrders(r) \/ BatchesDone(r)
    \/ \E batch \in Batches(r) : CancelBatch(r, batch)

ConfirmNext ==
    /\ \/ \E o \in OpenOrders : Executes(o)
       \/ \E S \in SUBSET OpenOrders : Cancelled(S)
       \/ \E t \in Trades, o \in OpenOrders : HandleEvent(t, o)
       \/ \E r \in Requests : CancelRequest(r)
    /\ UNCHANGED exchange

ConfirmSpec ==
    exchange \in {"okx", "bybit"} /\ ConfirmInit /\ [][ConfirmNext]_<<exchange, confirmVars>>
-----------------------------------------------------------------------------
(* Properties *)

(* Every variable holds a value of its kind. *)
ConfirmTypeOK ==
    /\ standing \in [OpenOrders -> {"open", "closing", "canceled", "filled"}]
    /\ confirmations \in [Trades -> SUBSET OpenOrders]
    /\ queue \in [OpenOrders -> Requests \cup {NoQueue}]
    /\ got \in [Requests -> SUBSET OpenOrders] /\ left \in [Requests -> SUBSET OpenOrders]
    /\ early \in [Requests -> SUBSET OpenOrders]
    /\ buffer \in Seq(OpenOrders) /\ IsInjective(buffer) /\ Len(buffer) <= MaxLen
    /\ phase \in [Requests -> {"idle", "sent", "waiting", "fetching", "batch", "done",
                            "unfetched", "timeout", "failed"}]
    /\ result \in [Requests -> SUBSET (OpenOrders \X {"CANCELED", "FILLED", "NEW"})]

(* A request is answered with its own orders, never with one another       *)
(* request cancels.  CANCELED means that the order is, neither open nor    *)
(* executed meanwhile, in the answers of CancelOrder of OKX and ByBit and  *)
(* of CancelAllOrders of ByBit.                                            *)
AnswerIsTrue ==
    \A r \in Requests : \A x \in result[r] :
        /\ x[1] \in Target[r]
        /\ x[2] = "CANCELED" /\ (r \notin Bulk \/ ByBit) => standing[x[1]] = "canceled"

(* Does not hold, see README: CancelAllOrders of OKX answers CANCELED on   *)
(* acceptance alone, also of an order that is then executed.               *)
BatchAnswerIsTrue ==
    \A r \in Bulk : OKX => \A x \in result[r] : x[2] = "CANCELED" => standing[x[1]] = "canceled"

(* OKX: a closing message that overtook the answer to its request is not   *)
(* lost: cancel_order does not wait in vain for it.  Another cancel_order  *)
(* for the same order would replace its queue.                             *)
EarlyMessageUsed ==
    \A r \in Requests :
        (/\ OKX /\ phase[r] = "timeout"
         /\ \A q \in Requests \ (Bulk \cup {r}) : Target[q] # Target[r])
        => early[r] \cap Target[r] = {}

(* A cancel_order that was accepted, a CancelAllOrders that has begun.     *)
CancelledFor(q, o) ==
    IF q \in Bulk THEN o \in Target[q] /\ phase[q] # "idle" ELSE o \in left[q]

(* When CancelAllOrders has answered, no order it was about is open, and   *)
(* the answer has every one that is cancelled, whether its message came or *)
(* not.  It lacks only orders that another request had cancelled, and on   *)
(* ByBit those without a message if the exchange's answer had no           *)
(* "success".                                                              *)
AllCancelled ==
    \A r \in Bulk : phase[r] \in {"done", "unfetched"} => \A o \in Target[r] :
        /\ standing[o] # "open"
        /\ standing[o] = "canceled" =>
               \/ \E x \in result[r] : x[1] = o
               \/ \E q \in Requests \ {r} : CancelledFor(q, o)
               \/ phase[r] = "unfetched" /\ o \in left[r]
=============================================================================
