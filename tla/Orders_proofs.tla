---------------------------- MODULE Orders_proofs ----------------------------
(***************************************************************************)
(* What is answered to cancellations on OKX and ByBit, for any number of   *)
(* orders, of connections and of requests, single ones and CancelAllOrders *)
(* of any orders, and for every size of wss_buffer and of the batches;     *)
(* what the reports of an order tell, for any quantity, prices and order   *)
(* of calls; and that the modules about orders hold together in OrdersMC,  *)
(* for all values of their constants.                                      *)
(***************************************************************************)
EXTENDS OrdersMC, OrderTracking_proofs, SequenceTheorems

-----------------------------------------------------------------------------
(* Confirmation of cancellations                                           *)

Stopped == {"closing", "canceled"}

(* Messages are about orders that are cancelled, wherever they wait. *)
MessagesCanceled ==
    /\ \A t \in Trades : \A o \in confirmations[t] : standing[o] = "canceled"
    /\ \A o \in ToSet(buffer) : standing[o] = "canceled"
    /\ \A r \in Requests : \A o \in got[r] : standing[o] = "canceled" /\ o \in Target[r]

(* A queue is registered under the order of its request. *)
QueuesOwn ==
    \A o \in OpenOrders : queue[o] # NoQueue => queue[o] \notin Bulk /\ o \in Target[queue[o]]

(* What a request has still to do is part of what it was asked, and a      *)
(* request is in a phase of its kind.                                      *)
PhasesOwn ==
    \A r \in Requests :
        /\ left[r] \subseteq Target[r]
        /\ phase[r] \in {"sent", "timeout"} => r \notin Bulk
        /\ phase[r] \in {"fetching", "batch"} => r \in Bulk
        /\ phase[r] = "done" /\ r \in Bulk => left[r] = {}
        /\ phase[r] = "unfetched" => ByBit
        /\ phase[r] = "idle" => early[r] = {}

(* No other cancel_order has the order of this one. *)
Sole(r) == \A q \in Requests \ (Bulk \cup {r}) : Target[q] # Target[r]

(* OKX: from its request to its end the queue of a cancel_order gets the   *)
(* closing message of its order.                                           *)
QueueHears ==
    \A r \in Requests \ Bulk : OKX /\ Sole(r) /\ phase[r] \in {"sent", "waiting"} =>
        queue[Order(r)] = r /\ early[r] \cap Target[r] \subseteq got[r]

(* Another request had the order cancelled, or may have. *)
OtherAsks(r, o) == \E q \in Requests \ {r} : CancelledFor(q, o)

(* Only a request has an order cancelled. *)
Asked ==
    \A o \in OpenOrders : standing[o] \in Stopped => \E q \in Requests : CancelledFor(q, o)

(* CancelAllOrders: an order is cancelled, to be cancelled (OKX) or waited *)
(* for (ByBit); one it had cancelled is in its answer or waited for.       *)
BulkCovers ==
    \A r \in Bulk : phase[r] # "idle" => \A o \in Target[r] :
        /\ standing[o] = "open" => OKX /\ o \in left[r]
        /\ standing[o] \in Stopped =>
             \/ ByBit /\ o \in left[r]
             \/ \E x \in result[r] : x[1] = o
             \/ OtherAsks(r, o)

ConfirmInv ==
    /\ ConfirmTypeOK /\ MessagesCanceled /\ QueuesOwn /\ PhasesOwn /\ QueueHears /\ Asked
    /\ BulkCovers /\ AnswerIsTrue /\ EarlyMessageUsed
-----------------------------------------------------------------------------
(* wss_buffer *)

LEMMA Removed ==
    ASSUME NEW S, NEW s \in Seq(S), IsInjective(s), NEW i \in DOMAIN s
    PROVE  LET t == RemoveAt(s, i)
           IN  /\ t \in Seq(S) /\ IsInjective(t) /\ Len(t) = Len(s) - 1
               /\ ToSet(t) \subseteq ToSet(s) /\ s[i] \notin ToSet(t)
<1> DEFINE a == SubSeq(s, 1, i - 1)
           b == SubSeq(s, i + 1, Len(s))
           t == a \o b
<1>1. Len(s) \in Nat /\ i \in 1..Len(s) /\ DOMAIN s = 1..Len(s) /\ \A j \in 1..Len(s) : s[j] \in S
  BY LenProperties, ElementOfSeq
<1>2. a \in Seq(S) /\ Len(a) = i - 1 /\ \A j \in 1..(i - 1) : a[j] = s[j]
  <2>1. \A j \in 1..(i - 1) : s[j] \in S
    BY <1>1
  <2>2. /\ a \in Seq(S) /\ Len(a) = IF 1 <= i - 1 THEN i - 1 - 1 + 1 ELSE 0
        /\ \A j \in 1..(i - 1 - 1 + 1) : a[j] = s[1 + j - 1]
    BY <1>1, <2>1, SubSeqProperties
  <2> QED BY <1>1, <2>2
<1>3. b \in Seq(S) /\ Len(b) = Len(s) - i /\ \A j \in 1..(Len(s) - i) : b[j] = s[i + j]
  <2>1. \A j \in (i + 1)..Len(s) : s[j] \in S
    BY <1>1
  <2>2. /\ b \in Seq(S) /\ Len(b) = IF i + 1 <= Len(s) THEN Len(s) - (i + 1) + 1 ELSE 0
        /\ \A j \in 1..(Len(s) - (i + 1) + 1) : b[j] = s[i + 1 + j - 1]
    BY <1>1, <2>1, SubSeqProperties
  <2>3. ASSUME NEW j \in 1..(Len(s) - i) PROVE b[j] = s[i + j]
    <3>1. j \in 1..(Len(s) - (i + 1) + 1) /\ i + 1 + j - 1 = i + j
      BY <1>1
    <3> QED BY <2>2, <3>1
  <2>4. Len(b) = Len(s) - i
    BY <1>1, <2>2
  <2> QED BY <2>2, <2>3, <2>4
<1> HIDE DEF a, b
<1>4. /\ t \in Seq(S) /\ Len(t) = Len(s) - 1
      /\ \A j \in 1..(Len(s) - 1) : t[j] = IF j < i THEN s[j] ELSE s[j + 1]
  <2>1. /\ t \in Seq(S) /\ Len(t) = Len(a) + Len(b)
        /\ \A j \in 1..(Len(a) + Len(b)) : t[j] = IF j <= Len(a) THEN a[j] ELSE b[j - Len(a)]
    BY <1>2, <1>3, ConcatProperties
  <2>2. Len(a) + Len(b) = Len(s) - 1
    BY <1>1, <1>2, <1>3
  <2>3. ASSUME NEW j \in 1..(Len(s) - 1) PROVE t[j] = IF j < i THEN s[j] ELSE s[j + 1]
    <3>1. CASE j < i
      BY <1>1, <1>2, <2>1, <2>2, <3>1
    <3>2. CASE ~(j < i)
      <4>1. j - Len(a) \in 1..(Len(s) - i) /\ i + (j - Len(a)) = j + 1 /\ ~(j <= Len(a))
        BY <1>1, <1>2, <3>2
      <4> QED BY <1>3, <2>1, <2>2, <3>2, <4>1
    <3> QED BY <3>1, <3>2
  <2> QED BY <2>1, <2>2, <2>3
<1>5. RemoveAt(s, i) = t /\ DOMAIN t = 1..(Len(s) - 1)
  BY <1>4, LenProperties DEF RemoveAt, a, b
<1> HIDE DEF t
<1> DEFINE from(j) == IF j < i THEN j ELSE j + 1
<1>6. \A j \in DOMAIN t : from(j) \in DOMAIN s /\ from(j) # i /\ t[j] = s[from(j)]
  BY <1>1, <1>4, <1>5
<1>7. \A j, k \in DOMAIN t : from(j) = from(k) => j = k
  BY <1>1, <1>5
<1>8. IsInjective(t)
  BY <1>6, <1>7 DEF IsInjective
<1>9. ToSet(t) \subseteq ToSet(s) /\ s[i] \notin ToSet(t)
  BY <1>1, <1>6 DEF ToSet, IsInjective
<1> QED BY <1>4, <1>5, <1>8, <1>9

LEMMA TailRemoved ==
    ASSUME NEW S, NEW s \in Seq(S), IsInjective(s), s # <<>>
    PROVE  /\ Tail(s) \in Seq(S) /\ IsInjective(Tail(s)) /\ Len(Tail(s)) = Len(s) - 1
           /\ ToSet(Tail(s)) \subseteq ToSet(s)
<1>1. /\ Tail(s) \in Seq(S) /\ Len(Tail(s)) = Len(s) - 1
      /\ \A i \in 1..Len(Tail(s)) : Tail(s)[i] = s[i + 1]
  BY HeadTailProperties
<1>2. Len(s) \in Nat /\ DOMAIN s = 1..Len(s) /\ DOMAIN Tail(s) = 1..Len(Tail(s))
  BY <1>1, LenProperties
<1>3. \A i \in DOMAIN Tail(s) : i + 1 \in DOMAIN s /\ Tail(s)[i] = s[i + 1] /\ i \in Nat
  BY <1>1, <1>2
<1>4. IsInjective(Tail(s))
  BY <1>3 DEF IsInjective
<1> QED BY <1>1, <1>3, <1>4 DEF ToSet

LEMMA Appended ==
    ASSUME NEW S, NEW s \in Seq(S), IsInjective(s), NEW x \in S, x \notin ToSet(s)
    PROVE  /\ Append(s, x) \in Seq(S) /\ IsInjective(Append(s, x)) /\ Len(Append(s, x)) = Len(s) + 1
           /\ ToSet(Append(s, x)) \subseteq ToSet(s) \cup {x}
<1> DEFINE t == Append(s, x)
<1>1. Len(s) \in Nat /\ DOMAIN s = 1..Len(s)
  BY LenProperties
<1>2. /\ t \in Seq(S) /\ Len(t) = Len(s) + 1 /\ DOMAIN t = 1..(Len(s) + 1)
      /\ \A i \in 1..(Len(s) + 1) : t[i] = IF i = Len(s) + 1 THEN x ELSE s[i]
  BY <1>1
<1> HIDE DEF t
<1>3. \A i \in DOMAIN t : (i \in DOMAIN s /\ t[i] = s[i]) \/ (i = Len(s) + 1 /\ t[i] = x)
  BY <1>1, <1>2
<1>4. IsInjective(t)
  BY <1>3 DEF IsInjective, ToSet
<1>5. ToSet(t) \subseteq ToSet(s) \cup {x}
  BY <1>3 DEF ToSet
<1> QED BY <1>2, <1>4, <1>5 DEF t

(* Storing a message keeps the buffer without repetition and not longer    *)
(* than max_len; taking one out keeps it so.                               *)
LEMMA BufferOperations ==
    ASSUME CancelConfirmAssumption, ConfirmTypeOK, NEW o \in OpenOrders
    PROVE  /\ Popped(o) \in Seq(OpenOrders) /\ IsInjective(Popped(o)) /\ Len(Popped(o)) <= MaxLen
           /\ ToSet(Popped(o)) \subseteq ToSet(buffer) \ {o}
           /\ Stored(o) \in Seq(OpenOrders) /\ IsInjective(Stored(o)) /\ Len(Stored(o)) <= MaxLen
           /\ ToSet(Stored(o)) \subseteq ToSet(buffer) \cup {o}
<1>1. /\ buffer \in Seq(OpenOrders) /\ IsInjective(buffer) /\ Len(buffer) <= MaxLen
      /\ MaxLen \in Nat \ {0} /\ Len(buffer) \in Nat
  BY LenProperties DEF ConfirmTypeOK, CancelConfirmAssumption
<1>2. /\ Popped(o) \in Seq(OpenOrders) /\ IsInjective(Popped(o)) /\ Len(Popped(o)) <= MaxLen
      /\ ToSet(Popped(o)) \subseteq ToSet(buffer) \ {o}
      /\ Len(Popped(o)) = Len(buffer) - (IF o \in ToSet(buffer) THEN 1 ELSE 0)
  <2>1. CASE o \in ToSet(buffer)
    <3> DEFINE i == CHOOSE i \in DOMAIN buffer : buffer[i] = o
    <3>1. i \in DOMAIN buffer /\ buffer[i] = o
      BY <2>1 DEF ToSet
    <3>2. Popped(o) = RemoveAt(buffer, i)
      BY <2>1 DEF Popped
    <3> HIDE DEF i
    <3> QED BY <1>1, <2>1, <3>1, <3>2, Removed
  <2>2. CASE o \notin ToSet(buffer)
    BY <1>1, <2>2 DEF Popped
  <2> QED BY <2>1, <2>2
<1>3. CASE o \in ToSet(buffer) \/ Len(buffer) < MaxLen
  <2>1. Stored(o) = Append(Popped(o), o)
    BY <1>3 DEF Stored
  <2>2. o \notin ToSet(Popped(o))
    BY <1>2
  <2> HIDE DEF Popped
  <2>3. /\ Stored(o) \in Seq(OpenOrders) /\ IsInjective(Stored(o)) /\ Len(Stored(o)) = Len(Popped(o)) + 1
        /\ ToSet(Stored(o)) \subseteq ToSet(Popped(o)) \cup {o}
    BY <1>2, <2>1, <2>2, Appended
  <2>4. Len(Stored(o)) <= MaxLen
    BY <1>1, <1>2, <1>3, <2>3
  <2> QED BY <1>2, <2>3, <2>4
<1>4. CASE ~(o \in ToSet(buffer) \/ Len(buffer) < MaxLen)
  <2> DEFINE rest == Tail(buffer)
  <2>1. Stored(o) = Append(rest, o)
    BY <1>4 DEF Stored
  <2>2. buffer # <<>>
    BY <1>1, <1>4
  <2>3. /\ rest \in Seq(OpenOrders) /\ IsInjective(rest) /\ Len(rest) = Len(buffer) - 1
        /\ ToSet(rest) \subseteq ToSet(buffer)
    BY <1>1, <2>2, TailRemoved
  <2> HIDE DEF rest
  <2>4. o \notin ToSet(rest)
    BY <1>4, <2>3
  <2>5. /\ Stored(o) \in Seq(OpenOrders) /\ IsInjective(Stored(o)) /\ Len(Stored(o)) = Len(rest) + 1
        /\ ToSet(Stored(o)) \subseteq ToSet(rest) \cup {o}
    BY <2>1, <2>3, <2>4, Appended
  <2>6. Len(Stored(o)) <= MaxLen
    BY <1>1, <2>3, <2>5
  <2> QED BY <1>2, <2>3, <2>5, <2>6
<1> QED BY <1>2, <1>3, <1>4

LEMMA SetOfBuffer ==
    ASSUME ConfirmTypeOK PROVE ToSet(buffer) \subseteq OpenOrders
BY LenProperties, ElementOfSeq DEF ConfirmTypeOK, ToSet

(* A cancel_order has one order. *)
LEMMA OrderOfRequest ==
    ASSUME CancelConfirmAssumption, NEW r \in Requests \ Bulk
    PROVE  Target[r] = {Order(r)} /\ Order(r) \in OpenOrders
BY DEF CancelConfirmAssumption, Order

-----------------------------------------------------------------------------
(* The steps *)

LEMMA ExecutesStep ==
    ASSUME CancelConfirmAssumption, ConfirmInv, UNCHANGED exchange,
           NEW o \in OpenOrders, Executes(o)
    PROVE  ConfirmInv'
<1> USE DEF ConfirmInv, Executes, OKX, ByBit
<1>1. ConfirmTypeOK'
  BY DEF ConfirmTypeOK, CancelConfirmAssumption
<1>2. MessagesCanceled' /\ QueuesOwn' /\ PhasesOwn' /\ AnswerIsTrue'
  BY DEF MessagesCanceled, QueuesOwn, PhasesOwn, AnswerIsTrue, ConfirmTypeOK,
         CancelConfirmAssumption
<1>3. QueueHears' /\ EarlyMessageUsed'
  BY DEF QueueHears, EarlyMessageUsed, ConfirmTypeOK, Sole, CancelConfirmAssumption
<1>4. Asked' /\ BulkCovers'
  BY DEF Asked, BulkCovers, ConfirmTypeOK, Stopped, OtherAsks, CancelledFor,
                        CancelConfirmAssumption
<1> QED BY <1>1, <1>2, <1>3, <1>4

LEMMA CancelledStep ==
    ASSUME CancelConfirmAssumption, ConfirmInv, UNCHANGED exchange,
           NEW S \in SUBSET OpenOrders, Cancelled(S)
    PROVE  ConfirmInv'
<1> USE DEF ConfirmInv, Cancelled, OKX, ByBit
<1>1. ConfirmTypeOK'
  BY DEF ConfirmTypeOK, CancelConfirmAssumption
<1>2. QueuesOwn' /\ PhasesOwn' /\ AnswerIsTrue'
  BY DEF QueuesOwn, PhasesOwn, AnswerIsTrue, ConfirmTypeOK, CancelConfirmAssumption
<1>3. QueueHears' /\ EarlyMessageUsed'
  BY DEF QueueHears, EarlyMessageUsed, ConfirmTypeOK, Sole, CancelConfirmAssumption
<1>4. Asked' /\ BulkCovers'
  BY DEF Asked, BulkCovers, ConfirmTypeOK, Stopped, OtherAsks, CancelledFor,
                        CancelConfirmAssumption
<1>5. MessagesCanceled'
  <2>1. \A o \in OpenOrders : standing[o] = "canceled" => standing'[o] = "canceled"
    OBVIOUS
  <2>2. PICK first \in S : confirmations' = [t \in Trades |-> confirmations[t] \cup {first}]
    OBVIOUS
  <2>3. standing'[first] = "canceled"
    BY <2>2
  <2>4. \A t \in Trades : \A o \in confirmations'[t] : standing'[o] = "canceled"
    BY <2>1, <2>2, <2>3 DEF MessagesCanceled, ConfirmTypeOK
  <2>5. ToSet(buffer) \subseteq OpenOrders
    BY SetOfBuffer
  <2> QED BY <2>1, <2>4, <2>5 DEF MessagesCanceled, ConfirmTypeOK
<1> QED BY <1>1, <1>2, <1>3, <1>4, <1>5

LEMMA HandleEventStep ==
    ASSUME CancelConfirmAssumption, ConfirmInv, UNCHANGED exchange,
           NEW t \in Trades, NEW o \in OpenOrders, HandleEvent(t, o)
    PROVE  ConfirmInv'
<1> USE DEF ConfirmInv, HandleEvent, OKX, ByBit
<1>1. QueuesOwn' /\ PhasesOwn' /\ AnswerIsTrue'
  BY DEF QueuesOwn, PhasesOwn, AnswerIsTrue, ConfirmTypeOK, CancelConfirmAssumption
<1>2. EarlyMessageUsed'
  BY DEF EarlyMessageUsed, ConfirmTypeOK, CancelConfirmAssumption
<1>3. Asked' /\ BulkCovers'
  BY DEF Asked, BulkCovers, ConfirmTypeOK, Stopped, OtherAsks, CancelledFor,
                        CancelConfirmAssumption
<1>4. ConfirmTypeOK'
  <2>1. buffer' \in Seq(OpenOrders) /\ IsInjective(buffer') /\ Len(buffer') <= MaxLen
    BY BufferOperations DEF ConfirmTypeOK
  <2>2. got' \in [Requests -> SUBSET OpenOrders]
    BY DEF ConfirmTypeOK
  <2>3. confirmations' \in [Trades -> SUBSET OpenOrders] /\ early' \in [Requests -> SUBSET OpenOrders]
    BY DEF ConfirmTypeOK
  <2> QED BY <2>1, <2>2, <2>3 DEF ConfirmTypeOK
<1>5. MessagesCanceled'
  <2>1. standing[o] = "canceled" /\ (\A u \in Trades : confirmations'[u] \subseteq confirmations[u])
    BY DEF MessagesCanceled, ConfirmTypeOK
  <2>2. ToSet(buffer') \subseteq ToSet(buffer) \cup {o}
    BY BufferOperations
  <2>3. \A r \in Requests : got'[r] = got[r] \/ (got'[r] = got[r] \cup {o} /\ r = queue[o])
    BY DEF QueueOf, ConfirmTypeOK
  <2>4. \A r \in Requests : r = queue[o] => o \in Target[r]
    BY DEF QueuesOwn, CancelConfirmAssumption
  <2> QED BY <2>1, <2>2, <2>3, <2>4 DEF MessagesCanceled
<1>6. QueueHears'
  <2> SUFFICES ASSUME NEW r \in Requests \ Bulk, OKX, Sole(r), phase[r] \in {"sent", "waiting"}
               PROVE  queue'[Order(r)] = r /\ early'[r] \cap Target[r] \subseteq got'[r]
    BY DEF QueueHears, OKX
  <2>1. queue[Order(r)] = r /\ early[r] \cap Target[r] \subseteq got[r] /\ Target[r] = {Order(r)}
    BY OrderOfRequest DEF QueueHears
  <2>2. got' = [q \in Requests |-> IF q \in QueueOf(o) THEN got[q] \cup {o} ELSE got[q]]
    BY DEF OKX
  <2>3. got[r] \subseteq got'[r] /\ (o = Order(r) => o \in got'[r])
    BY <2>1, <2>2 DEF QueueOf
  <2>4. early'[r] \subseteq early[r] \cup {o}
    OBVIOUS
  <2> QED BY <2>1, <2>3, <2>4
<1> QED BY <1>1, <1>2, <1>3, <1>4, <1>5, <1>6

LEMMA SendCancelStep ==
    ASSUME CancelConfirmAssumption, ConfirmInv, UNCHANGED exchange,
           NEW r \in Requests, SendCancel(r)
    PROVE  ConfirmInv'
<1> USE DEF ConfirmInv, SendCancel, OKX, ByBit
<1>1. ConfirmTypeOK'
  BY OrderOfRequest DEF ConfirmTypeOK, CancelConfirmAssumption
<1>2. MessagesCanceled' /\ QueuesOwn' /\ PhasesOwn' /\ AnswerIsTrue'
  BY OrderOfRequest DEF MessagesCanceled, QueuesOwn, PhasesOwn, AnswerIsTrue, ConfirmTypeOK,
                        CancelConfirmAssumption
<1>3. EarlyMessageUsed'
  BY OrderOfRequest DEF EarlyMessageUsed, ConfirmTypeOK, CancelConfirmAssumption
<1>4. Asked' /\ BulkCovers'
  BY OrderOfRequest DEF Asked, BulkCovers, ConfirmTypeOK, Stopped, OtherAsks, CancelledFor,
                        CancelConfirmAssumption
<1>5. QueueHears'
  <2> SUFFICES ASSUME NEW q \in Requests \ Bulk, OKX, Sole(q), phase'[q] \in {"sent", "waiting"}
               PROVE  queue'[Order(q)] = q /\ early[q] \cap Target[q] \subseteq got[q]
    BY DEF QueueHears
  <2>1. queue' = [queue EXCEPT ![Order(r)] = r] /\ Order(r) \in OpenOrders /\ Order(q) \in OpenOrders
    BY OrderOfRequest
  <2>2. CASE q = r
    BY <2>1, <2>2 DEF PhasesOwn, ConfirmTypeOK
  <2>3. CASE q # r
    <3>1. Order(q) # Order(r)
      BY <2>3, OrderOfRequest DEF Sole
    <3>2. phase[q] = phase'[q]
      BY <2>3 DEF ConfirmTypeOK
    <3> QED BY <2>1, <3>1, <3>2 DEF QueueHears, ConfirmTypeOK
  <2> QED BY <2>2, <2>3
<1> QED BY <1>1, <1>2, <1>3, <1>4, <1>5

LEMMA ArrivesStep ==
    ASSUME CancelConfirmAssumption, ConfirmInv, UNCHANGED exchange,
           NEW r \in Requests, Arrives(r)
    PROVE  ConfirmInv'
<1> USE DEF ConfirmInv, Arrives, OKX, ByBit
<1>1. ConfirmTypeOK'
  BY OrderOfRequest DEF ConfirmTypeOK, CancelConfirmAssumption
<1>2. MessagesCanceled' /\ QueuesOwn' /\ PhasesOwn' /\ AnswerIsTrue'
  BY OrderOfRequest DEF MessagesCanceled, QueuesOwn, PhasesOwn, AnswerIsTrue, ConfirmTypeOK,
                        CancelConfirmAssumption
<1>3. QueueHears' /\ EarlyMessageUsed'
  BY OrderOfRequest DEF QueueHears, EarlyMessageUsed, ConfirmTypeOK, Sole, CancelConfirmAssumption
<1>6. /\ r \notin Bulk /\ left'[r] = Target[r] /\ \A q \in Requests \ {r} : left'[q] = left[q]
      /\ Target[r] = {Order(r)} /\ UNCHANGED <<phase, result>>
      /\ \A o \in OpenOrders : standing'[o] = IF o = Order(r) THEN "closing" ELSE standing[o]
  BY OrderOfRequest DEF ConfirmTypeOK
<1>7. \A q \in Requests, o \in OpenOrders : CancelledFor(q, o) => CancelledFor(q, o)'
  BY <1>6 DEF CancelledFor, PhasesOwn
<1>4. Asked'
  <2> SUFFICES ASSUME NEW o \in OpenOrders, standing'[o] \in Stopped
               PROVE  \E q \in Requests : CancelledFor(q, o)'
    BY DEF Asked
  <2>1. CASE o = Order(r)
    BY <1>6, <2>1 DEF CancelledFor
  <2>2. CASE o # Order(r)
    BY <1>6, <1>7, <2>2 DEF Asked
  <2> QED BY <2>1, <2>2
<1>5. BulkCovers'
  <2> SUFFICES ASSUME NEW b \in Bulk, phase[b] # "idle", NEW o \in Target[b]
               PROVE  /\ standing'[o] = "open" => OKX /\ o \in left'[b]
                      /\ standing'[o] \in Stopped => \/ ByBit /\ o \in left'[b]
                                                     \/ \E x \in result[b] : x[1] = o
                                                     \/ OtherAsks(b, o)'
    BY <1>6 DEF BulkCovers
  <2>1. o \in OpenOrders /\ b \in Requests /\ b # r /\ left'[b] = left[b]
    BY <1>6 DEF CancelConfirmAssumption
  <2>2. CASE o = Order(r)
    <3>1. CancelledFor(r, o)' /\ standing'[o] # "open"
      BY <1>6, <2>1, <2>2 DEF CancelledFor
    <3> QED BY <2>1, <3>1 DEF OtherAsks
  <2>3. CASE o # Order(r)
    <3>1. standing'[o] = standing[o] /\ (OtherAsks(b, o) => OtherAsks(b, o)')
      BY <1>6, <1>7, <2>1, <2>3 DEF OtherAsks
    <3> QED BY <2>1, <3>1 DEF BulkCovers
  <2> QED BY <2>2, <2>3
<1> QED BY <1>1, <1>2, <1>3, <1>4, <1>5

LEMMA AcceptedStep ==
    ASSUME CancelConfirmAssumption, ConfirmInv, UNCHANGED exchange,
           NEW r \in Requests, Accepted(r)
    PROVE  ConfirmInv'
<1> USE DEF ConfirmInv, Accepted, OKX, ByBit
<1>1. ConfirmTypeOK'
  BY DEF ConfirmTypeOK, CancelConfirmAssumption
<1>2. MessagesCanceled' /\ QueuesOwn' /\ PhasesOwn' /\ AnswerIsTrue'
  BY DEF MessagesCanceled, QueuesOwn, PhasesOwn, AnswerIsTrue, ConfirmTypeOK,
         CancelConfirmAssumption
<1>3. QueueHears' /\ EarlyMessageUsed'
  BY DEF QueueHears, EarlyMessageUsed, ConfirmTypeOK, Sole, CancelConfirmAssumption
<1>4. Asked' /\ BulkCovers'
  BY DEF Asked, BulkCovers, ConfirmTypeOK, Stopped, OtherAsks, CancelledFor,
                        CancelConfirmAssumption
<1> QED BY <1>1, <1>2, <1>3, <1>4

LEMMA RefusedStep ==
    ASSUME CancelConfirmAssumption, ConfirmInv, UNCHANGED exchange,
           NEW r \in Requests, Refused(r)
    PROVE  ConfirmInv'
<1> USE DEF ConfirmInv, Refused, OKX, ByBit
<1>1. ConfirmTypeOK'
  BY OrderOfRequest DEF ConfirmTypeOK, CancelConfirmAssumption
<1>2. MessagesCanceled' /\ QueuesOwn' /\ PhasesOwn' /\ AnswerIsTrue'
  BY OrderOfRequest DEF MessagesCanceled, QueuesOwn, PhasesOwn, AnswerIsTrue, ConfirmTypeOK,
                        CancelConfirmAssumption
<1>3. QueueHears' /\ EarlyMessageUsed'
  BY OrderOfRequest DEF QueueHears, EarlyMessageUsed, ConfirmTypeOK, Sole, CancelConfirmAssumption
<1>4. Asked' /\ BulkCovers'
  BY OrderOfRequest DEF Asked, BulkCovers, ConfirmTypeOK, Stopped, OtherAsks, CancelledFor,
                        CancelConfirmAssumption
<1> QED BY <1>1, <1>2, <1>3, <1>4

LEMMA ConfirmedStep ==
    ASSUME CancelConfirmAssumption, ConfirmInv, UNCHANGED exchange,
           NEW r \in Requests, Confirmed(r)
    PROVE  ConfirmInv'
<1> USE DEF ConfirmInv, OKX, ByBit
<1>0. PICK o \in Available(r) :
        /\ phase[r] = "waiting" /\ r \notin Bulk
        /\ phase' = [phase EXCEPT ![r] = "done"]
        /\ result' = [result EXCEPT ![r] = {<<o, "CANCELED">>}]
        /\ queue' = (IF OKX THEN [queue EXCEPT ![Order(r)] = NoQueue] ELSE queue)
        /\ buffer' = (IF ByBit THEN Popped(o) ELSE buffer)
        /\ UNCHANGED <<standing, confirmations, got, left, early>>
  BY DEF Confirmed
<1>10. o \in Target[r] /\ o \in OpenOrders /\ standing[o] = "canceled" /\ ToSet(buffer') \subseteq ToSet(buffer)
  <2>1. o \in Target[r] /\ standing[o] = "canceled"
    BY DEF Available, MessagesCanceled, PhasesOwn
  <2>2. o \in OpenOrders
    BY <2>1 DEF CancelConfirmAssumption
  <2> QED BY <1>0, <2>1, <2>2, BufferOperations
<1>1. QueuesOwn' /\ PhasesOwn'
  BY <1>0 DEF QueuesOwn, PhasesOwn, ConfirmTypeOK, CancelConfirmAssumption
<1>2. EarlyMessageUsed'
  BY <1>0 DEF EarlyMessageUsed, ConfirmTypeOK, CancelConfirmAssumption
<1>3. Asked' /\ BulkCovers'
  BY <1>0 DEF Asked, BulkCovers, ConfirmTypeOK, Stopped, OtherAsks, CancelledFor,
                        CancelConfirmAssumption
<1>4. ConfirmTypeOK'
  <2>1. buffer' \in Seq(OpenOrders) /\ IsInjective(buffer') /\ Len(buffer') <= MaxLen
    BY <1>0, <1>10, BufferOperations DEF ConfirmTypeOK
  <2>2. queue' \in [OpenOrders -> Requests \cup {NoQueue}]
    BY <1>0 DEF ConfirmTypeOK
  <2> QED BY <1>0, <1>10, <2>1, <2>2 DEF ConfirmTypeOK
<1>5. MessagesCanceled'
  BY <1>0, <1>10 DEF MessagesCanceled
<1>6. QueueHears'
  <2> SUFFICES ASSUME NEW q \in Requests \ Bulk, OKX, Sole(q), phase'[q] \in {"sent", "waiting"}
               PROVE  queue'[Order(q)] = q /\ early[q] \cap Target[q] \subseteq got[q]
    BY <1>0 DEF QueueHears
  <2>1. q # r /\ phase[q] = phase'[q]
    BY <1>0 DEF ConfirmTypeOK
  <2>2. Order(q) # Order(r)
    BY <1>0, <2>1, OrderOfRequest DEF Sole
  <2> QED BY <1>0, <2>1, <2>2, OrderOfRequest DEF QueueHears, ConfirmTypeOK
<1>7. AnswerIsTrue'
  <2>1. \A q \in Requests : result'[q] = IF q = r THEN {<<o, "CANCELED">>} ELSE result[q]
    BY <1>0 DEF ConfirmTypeOK
  <2> QED BY <1>0, <1>10, <2>1 DEF AnswerIsTrue
<1> QED BY <1>1, <1>2, <1>3, <1>4, <1>5, <1>6, <1>7

LEMMA WaitedTooLongStep ==
    ASSUME CancelConfirmAssumption, ConfirmInv, UNCHANGED exchange,
           NEW r \in Requests, WaitedTooLong(r)
    PROVE  ConfirmInv'
<1> USE DEF ConfirmInv, WaitedTooLong, OKX, ByBit
<1>1. ConfirmTypeOK'
  BY DEF ConfirmTypeOK, CancelConfirmAssumption
<1>2. MessagesCanceled' /\ QueuesOwn' /\ PhasesOwn' /\ AnswerIsTrue'
  BY DEF MessagesCanceled, QueuesOwn, PhasesOwn, AnswerIsTrue, ConfirmTypeOK,
         CancelConfirmAssumption
<1>3. Asked' /\ BulkCovers'
  BY DEF Asked, BulkCovers, ConfirmTypeOK, Stopped, OtherAsks, CancelledFor,
                        CancelConfirmAssumption
<1>4. QueueHears'
  <2> SUFFICES ASSUME NEW q \in Requests \ Bulk, OKX, Sole(q), phase'[q] \in {"sent", "waiting"}
               PROVE  queue'[Order(q)] = q /\ early[q] \cap Target[q] \subseteq got[q]
    BY DEF QueueHears
  <2>1. q # r /\ phase[q] = phase'[q]
    BY DEF ConfirmTypeOK
  <2>2. Order(q) # Order(r)
    BY <2>1, OrderOfRequest DEF Sole
  <2> QED BY <2>1, <2>2, OrderOfRequest DEF QueueHears, ConfirmTypeOK
<1>5. EarlyMessageUsed'
  <2> SUFFICES ASSUME NEW q \in Requests, OKX, phase'[q] = "timeout", Sole(q)
               PROVE  early[q] \cap Target[q] = {}
    BY DEF EarlyMessageUsed, Sole
  <2>1. CASE q = r
    <3>1. early[r] \cap Target[r] \subseteq got[r]
      BY <2>1 DEF QueueHears
    <3>2. got[r] = {}
      BY DEF Available
    <3> QED BY <2>1, <3>1, <3>2
  <2>2. CASE q # r
    BY <2>2 DEF EarlyMessageUsed, Sole, ConfirmTypeOK
  <2> QED BY <2>1, <2>2
<1> QED BY <1>1, <1>2, <1>3, <1>4, <1>5

LEMMA CancelGivenUpStep ==
    ASSUME CancelConfirmAssumption, ConfirmInv, UNCHANGED exchange,
           NEW r \in Requests, CancelGivenUp(r)
    PROVE  ConfirmInv'
<1> USE DEF ConfirmInv, CancelGivenUp, OKX, ByBit
<1>1. ConfirmTypeOK'
  BY DEF ConfirmTypeOK, CancelConfirmAssumption
<1>2. MessagesCanceled' /\ QueuesOwn' /\ PhasesOwn' /\ AnswerIsTrue'
  BY DEF MessagesCanceled, QueuesOwn, PhasesOwn, AnswerIsTrue, ConfirmTypeOK,
         CancelConfirmAssumption
<1>3. QueueHears' /\ EarlyMessageUsed'
  BY DEF QueueHears, EarlyMessageUsed, ConfirmTypeOK, Sole, CancelConfirmAssumption
<1>4. Asked' /\ BulkCovers'
  BY DEF Asked, BulkCovers, ConfirmTypeOK, Stopped, OtherAsks, CancelledFor,
                        CancelConfirmAssumption
<1> QED BY <1>1, <1>2, <1>3, <1>4

LEMMA CancelAllStep ==
    ASSUME CancelConfirmAssumption, ConfirmInv, UNCHANGED exchange,
           NEW r \in Requests, CancelAll(r)
    PROVE  ConfirmInv'
<1> USE DEF ConfirmInv, CancelAll, OKX, ByBit
<1>1. ConfirmTypeOK'
  BY DEF ConfirmTypeOK, CancelConfirmAssumption
<1>2. QueuesOwn' /\ PhasesOwn' /\ AnswerIsTrue'
  BY DEF QueuesOwn, PhasesOwn, AnswerIsTrue, ConfirmTypeOK, CancelConfirmAssumption
<1>3. QueueHears' /\ EarlyMessageUsed'
  BY DEF QueueHears, EarlyMessageUsed, ConfirmTypeOK, Sole, CancelConfirmAssumption
<1>4. Asked'
  BY DEF Asked, ConfirmTypeOK, Stopped, CancelledFor, CancelConfirmAssumption
<1>5. MessagesCanceled'
  <2>1. \A o \in OpenOrders : standing[o] = "canceled" => standing'[o] = "canceled"
    OBVIOUS
  <2>2. ToSet(buffer) \subseteq OpenOrders
    BY SetOfBuffer
  <2> QED BY <2>1, <2>2 DEF MessagesCanceled, ConfirmTypeOK
<1>6. BulkCovers'
  <2>0. \A q \in Requests : phase'[q] = IF q = r THEN "waiting" ELSE phase[q]
    BY DEF ConfirmTypeOK
  <2> SUFFICES ASSUME NEW b \in Bulk, phase'[b] # "idle", NEW o \in Target[b]
               PROVE  /\ standing'[o] = "open" => OKX /\ o \in left'[b]
                      /\ standing'[o] \in Stopped => \/ ByBit /\ o \in left'[b]
                                                     \/ \E x \in result'[b] : x[1] = o
                                                     \/ OtherAsks(b, o)'
    BY DEF BulkCovers, OKX, ByBit
  <2>1. o \in OpenOrders /\ b \in Requests
    BY DEF CancelConfirmAssumption
  <2>2. OtherAsks(b, o) => OtherAsks(b, o)'
    BY <2>0 DEF OtherAsks, CancelledFor
  <2>3. CASE b = r
    <3>1. left'[r] = {q \in Target[r] : standing[q] = "open"} /\ standing'[o] # "open"
      BY <2>1, <2>3 DEF ConfirmTypeOK
    <3>2. standing[o] \in Stopped => OtherAsks(r, o)
      BY <2>1, <2>3 DEF Asked, OtherAsks, CancelledFor
    <3> QED BY <2>1, <2>2, <2>3, <3>1, <3>2 DEF ConfirmTypeOK, Stopped
  <2>4. CASE b # r
    <3>1. phase[b] # "idle" /\ left'[b] = left[b]
      BY <2>0, <2>1, <2>4 DEF ConfirmTypeOK
    <3>2. standing[o] = "open" /\ standing'[o] # "open" => OtherAsks(b, o)'
      BY <2>0, <2>1, <2>4 DEF OtherAsks, CancelledFor
    <3>3. standing'[o] = standing[o] \/ (standing[o] = "open" /\ standing'[o] # "open")
      BY <2>1
    <3> QED BY <2>1, <2>2, <2>4, <3>1, <3>2, <3>3 DEF BulkCovers
  <2> QED BY <2>3, <2>4
<1> QED BY <1>1, <1>2, <1>3, <1>4, <1>5, <1>6

LEMMA TaskDoneStep ==
    ASSUME CancelConfirmAssumption, ConfirmInv, UNCHANGED exchange,
           NEW r \in Requests, TaskDone(r)
    PROVE  ConfirmInv'
<1> USE DEF ConfirmInv, OKX, ByBit
<1>0. PICK o \in Available(r) :
        /\ ByBit /\ r \in Bulk /\ phase[r] \in {"waiting", "failed"}
        /\ result' = [result EXCEPT ![r] = @ \cup {<<o, "CANCELED">>}]
        /\ left' = [left EXCEPT ![r] = @ \ {o}]
        /\ buffer' = Popped(o)
        /\ UNCHANGED <<standing, confirmations, queue, got, phase, early>>
  BY DEF TaskDone
<1>10. o \in Target[r] /\ o \in OpenOrders /\ standing[o] = "canceled" /\ ToSet(buffer') \subseteq ToSet(buffer)
  <2>1. o \in Target[r] /\ standing[o] = "canceled"
    BY <1>0 DEF Available, MessagesCanceled, PhasesOwn
  <2>2. o \in OpenOrders
    BY <2>1 DEF CancelConfirmAssumption
  <2> QED BY <1>0, <2>1, <2>2, BufferOperations
<1>11. \A q \in Requests : /\ result'[q] = IF q = r THEN result[q] \cup {<<o, "CANCELED">>} ELSE result[q]
                           /\ left'[q] = IF q = r THEN left[q] \ {o} ELSE left[q]
  BY <1>0 DEF ConfirmTypeOK
<1>1. QueuesOwn' /\ PhasesOwn'
  BY <1>0 DEF QueuesOwn, PhasesOwn, ConfirmTypeOK, CancelConfirmAssumption
<1>2. QueueHears' /\ EarlyMessageUsed'
  BY <1>0 DEF QueueHears, EarlyMessageUsed, ConfirmTypeOK, Sole, CancelConfirmAssumption
<1>3. Asked'
  BY <1>0 DEF Asked, ConfirmTypeOK, Stopped, CancelledFor, CancelConfirmAssumption
<1>4. ConfirmTypeOK'
  <2>1. buffer' \in Seq(OpenOrders) /\ IsInjective(buffer') /\ Len(buffer') <= MaxLen
    BY <1>0, <1>10, BufferOperations DEF ConfirmTypeOK
  <2>2. result' \in [Requests -> SUBSET (OpenOrders \X {"CANCELED", "FILLED", "NEW"})]
    BY <1>0, <1>10 DEF ConfirmTypeOK
  <2> QED BY <1>0, <2>1, <2>2 DEF ConfirmTypeOK
<1>5. MessagesCanceled'
  BY <1>0, <1>10 DEF MessagesCanceled
<1>6. BulkCovers'
  <2>1. \A b \in Requests : \A x \in result[b] : x \in result'[b]
    BY <1>11
  <2>2. <<o, "CANCELED">> \in result'[r] /\ <<o, "CANCELED">>[1] = o
    BY <1>11
  <2>3. \A b \in Bulk, p \in OpenOrders : OtherAsks(b, p)' <=> OtherAsks(b, p)
    BY <1>0 DEF OtherAsks, CancelledFor
  <2>4. \A b \in Bulk : b \in Requests /\ Target[b] \subseteq OpenOrders
    BY DEF CancelConfirmAssumption
  <2> QED BY <1>0, <1>11, <2>1, <2>2, <2>3, <2>4 DEF BulkCovers
<1>7. AnswerIsTrue'
  BY <1>0, <1>10, <1>11 DEF AnswerIsTrue
<1> QED BY <1>1, <1>2, <1>3, <1>4, <1>5, <1>6, <1>7

LEMMA AllWaitedStep ==
    ASSUME CancelConfirmAssumption, ConfirmInv, UNCHANGED exchange,
           NEW r \in Requests, AllWaited(r)
    PROVE  ConfirmInv'
<1> USE DEF ConfirmInv, AllWaited, OKX, ByBit
<1>1. ConfirmTypeOK'
  BY DEF ConfirmTypeOK, CancelConfirmAssumption
<1>2. MessagesCanceled' /\ QueuesOwn' /\ PhasesOwn' /\ AnswerIsTrue'
  BY DEF MessagesCanceled, QueuesOwn, PhasesOwn, AnswerIsTrue, ConfirmTypeOK,
         CancelConfirmAssumption
<1>3. QueueHears' /\ EarlyMessageUsed'
  BY DEF QueueHears, EarlyMessageUsed, ConfirmTypeOK, Sole, CancelConfirmAssumption
<1>4. Asked' /\ BulkCovers'
  BY DEF Asked, BulkCovers, ConfirmTypeOK, Stopped, OtherAsks, CancelledFor,
                        CancelConfirmAssumption
<1> QED BY <1>1, <1>2, <1>3, <1>4

LEMMA FetchPendingStep ==
    ASSUME CancelConfirmAssumption, ConfirmInv, UNCHANGED exchange,
           NEW r \in Requests, FetchPending(r)
    PROVE  ConfirmInv'
<1> USE DEF ConfirmInv, OKX, ByBit
<1>0. PICK o \in left[r] :
        /\ ByBit /\ phase[r] = "fetching"
        /\ left' = [left EXCEPT ![r] = @ \ {o}]
        /\ result' = [result EXCEPT ![r] = @ \cup {<<o, CASE standing[o] = "canceled" -> "CANCELED"
                                                         [] standing[o] = "filled" -> "FILLED"
                                                         [] OTHER -> "NEW">>}]
        /\ phase' = [phase EXCEPT ![r] = IF left'[r] = {} THEN "done" ELSE @]
        /\ UNCHANGED <<standing, confirmations, queue, got, buffer, early>>
  BY DEF FetchPending
<1> DEFINE status == CASE standing[o] = "canceled" -> "CANCELED"
                       [] standing[o] = "filled" -> "FILLED"
                       [] OTHER -> "NEW"
<1>10. /\ status \in {"CANCELED", "FILLED", "NEW"} /\ (status = "CANCELED" => standing[o] = "canceled")
       /\ o \in Target[r] /\ o \in OpenOrders
  BY DEF PhasesOwn, CancelConfirmAssumption
<1>12. result' = [result EXCEPT ![r] = @ \cup {<<o, status>>}]
  BY <1>0
<1> HIDE DEF status
<1>11. \A q \in Requests : /\ result'[q] = IF q = r THEN result[q] \cup {<<o, status>>} ELSE result[q]
                           /\ left'[q] = IF q = r THEN left[q] \ {o} ELSE left[q]
                           /\ phase'[q] = phase[q] \/ (q = r /\ phase'[q] = "done" /\ left'[q] = {})
  <2>1. phase' = [phase EXCEPT ![r] = IF left'[r] = {} THEN "done" ELSE phase[r]]
    BY <1>0
  <2>2. \A q \in Requests : phase'[q] = phase[q] \/ (q = r /\ phase'[q] = "done" /\ left'[q] = {})
    BY <2>1 DEF ConfirmTypeOK
  <2> QED BY <1>0, <1>12, <2>2 DEF ConfirmTypeOK
<1>1. MessagesCanceled' /\ QueuesOwn' /\ PhasesOwn'
  BY <1>0 DEF MessagesCanceled, QueuesOwn, PhasesOwn, ConfirmTypeOK, CancelConfirmAssumption
<1>2. QueueHears' /\ EarlyMessageUsed'
  BY <1>0 DEF QueueHears, EarlyMessageUsed, ConfirmTypeOK, Sole, CancelConfirmAssumption
<1>13. \A q \in Requests, p \in OpenOrders : CancelledFor(q, p) => CancelledFor(q, p)'
  <2>1. r \in Bulk
    BY <1>0 DEF PhasesOwn
  <2> QED BY <1>0, <1>11, <2>1 DEF CancelledFor
<1>3. Asked'
  BY <1>0, <1>13 DEF Asked
<1>4. ConfirmTypeOK'
  <2>1. result' \in [Requests -> SUBSET (OpenOrders \X {"CANCELED", "FILLED", "NEW"})]
    BY <1>10, <1>12 DEF ConfirmTypeOK
  <2>2. phase' \in [Requests -> {"idle", "sent", "waiting", "fetching", "batch", "done", "unfetched", "timeout", "failed"}]
    BY <1>0 DEF ConfirmTypeOK
  <2> QED BY <1>0, <2>1, <2>2 DEF ConfirmTypeOK
<1>5. BulkCovers'
  <2>1. \A b \in Requests : \A x \in result[b] : x \in result'[b]
    BY <1>11
  <2>2. <<o, status>> \in result'[r] /\ <<o, status>>[1] = o
    BY <1>11
  <2>3. \A b \in Bulk, p \in OpenOrders : OtherAsks(b, p) => OtherAsks(b, p)'
    BY <1>13 DEF OtherAsks
  <2>4. \A b \in Bulk : b \in Requests /\ Target[b] \subseteq OpenOrders
    BY DEF CancelConfirmAssumption
  <2>5. \A b \in Bulk : phase'[b] # "idle" => phase[b] # "idle"
    BY <1>0, <1>11, <2>4
  <2>6. ~OKX
    BY <1>0
  <2> QED BY <1>0, <1>11, <2>1, <2>2, <2>3, <2>4, <2>5, <2>6 DEF BulkCovers
<1>6. AnswerIsTrue'
  BY <1>0, <1>10, <1>11 DEF AnswerIsTrue
<1> QED BY <1>1, <1>2, <1>3, <1>4, <1>5, <1>6

LEMMA FetchOrdersStep ==
    ASSUME CancelConfirmAssumption, ConfirmInv, UNCHANGED exchange,
           NEW r \in Requests, FetchOrders(r)
    PROVE  ConfirmInv'
<1> USE DEF ConfirmInv, FetchOrders, OKX, ByBit
<1>1. ConfirmTypeOK'
  BY DEF ConfirmTypeOK, CancelConfirmAssumption
<1>2. MessagesCanceled' /\ QueuesOwn' /\ PhasesOwn' /\ AnswerIsTrue'
  BY DEF MessagesCanceled, QueuesOwn, PhasesOwn, AnswerIsTrue, ConfirmTypeOK,
         CancelConfirmAssumption
<1>3. QueueHears' /\ EarlyMessageUsed'
  <2>1. \A q \in Requests : phase'[q] = IF q = r THEN "batch" ELSE phase[q]
    BY DEF ConfirmTypeOK
  <2>2. UNCHANGED <<queue, got, early, exchange>>
    OBVIOUS
  <2>3. QueueHears'
    BY <2>1, <2>2 DEF QueueHears, Sole
  <2>4. EarlyMessageUsed'
    BY <2>1, <2>2 DEF EarlyMessageUsed
  <2> QED BY <2>3, <2>4
<1>4. Asked'
  BY DEF Asked, ConfirmTypeOK, Stopped, CancelledFor, CancelConfirmAssumption
<1>5. BulkCovers'
  <2>0. \A q \in Requests : phase'[q] = IF q = r THEN "batch" ELSE phase[q]
    BY DEF ConfirmTypeOK
  <2> SUFFICES ASSUME NEW b \in Bulk, phase'[b] # "idle", NEW o \in Target[b]
               PROVE  /\ standing'[o] = "open" => OKX /\ o \in left'[b]
                      /\ standing'[o] \in Stopped => \/ ByBit /\ o \in left'[b]
                                                     \/ \E x \in result'[b] : x[1] = o
                                                     \/ OtherAsks(b, o)'
    BY DEF BulkCovers, OKX, ByBit
  <2>1. o \in OpenOrders /\ b \in Requests
    BY DEF CancelConfirmAssumption
  <2>2. OtherAsks(b, o) => OtherAsks(b, o)'
    BY <2>0 DEF OtherAsks, CancelledFor
  <2>3. CASE b = r
    <3>1. left'[r] = {q \in Target[r] : standing[q] = "open"}
      BY <2>3 DEF ConfirmTypeOK
    <3>2. standing[o] \in Stopped => OtherAsks(r, o)
      BY <2>1, <2>3 DEF Asked, OtherAsks, CancelledFor
    <3> QED BY <2>1, <2>2, <2>3, <3>1, <3>2
  <2>4. CASE b # r
    <3>1. phase[b] # "idle" /\ left'[b] = left[b]
      BY <2>0, <2>1, <2>4 DEF ConfirmTypeOK
    <3> QED BY <2>1, <2>2, <2>4, <3>1 DEF BulkCovers
  <2> QED BY <2>3, <2>4
<1> QED BY <1>1, <1>2, <1>3, <1>4, <1>5

LEMMA BatchesDoneStep ==
    ASSUME CancelConfirmAssumption, ConfirmInv, UNCHANGED exchange,
           NEW r \in Requests, BatchesDone(r)
    PROVE  ConfirmInv'
<1> USE DEF ConfirmInv, BatchesDone, OKX, ByBit
<1>1. ConfirmTypeOK'
  BY DEF ConfirmTypeOK, CancelConfirmAssumption
<1>2. MessagesCanceled' /\ QueuesOwn' /\ PhasesOwn' /\ AnswerIsTrue'
  BY DEF MessagesCanceled, QueuesOwn, PhasesOwn, AnswerIsTrue, ConfirmTypeOK,
         CancelConfirmAssumption
<1>3. QueueHears' /\ EarlyMessageUsed'
  BY DEF QueueHears, EarlyMessageUsed, ConfirmTypeOK, Sole, CancelConfirmAssumption
<1>4. Asked' /\ BulkCovers'
  BY DEF Asked, BulkCovers, ConfirmTypeOK, Stopped, OtherAsks, CancelledFor,
                        CancelConfirmAssumption
<1> QED BY <1>1, <1>2, <1>3, <1>4

LEMMA CancelBatchStep ==
    ASSUME CancelConfirmAssumption, ConfirmInv, UNCHANGED exchange,
           NEW r \in Requests, NEW batch \in Batches(r), CancelBatch(r, batch)
    PROVE  ConfirmInv'
<1> USE DEF ConfirmInv, OKX, ByBit
<1> DEFINE accepted == {o \in batch : standing[o] = "open"}
<1>0. /\ OKX /\ r \in Bulk /\ phase[r] = "batch" /\ batch \subseteq left[r] /\ left[r] \subseteq Target[r]
      /\ Target[r] \subseteq OpenOrders
      /\ left' = [left EXCEPT ![r] = @ \ batch]
      /\ standing' = [o \in OpenOrders |-> IF o \in accepted THEN "closing" ELSE standing[o]]
      /\ result' = [result EXCEPT ![r] = @ \cup {<<o, "CANCELED">> : o \in accepted}]
      /\ UNCHANGED <<confirmations, queue, got, buffer, phase, early>>
  BY DEF CancelBatch, Batches, PhasesOwn, CancelConfirmAssumption
<1>10. \A o \in OpenOrders : standing[o] = "canceled" => standing'[o] = "canceled"
  BY <1>0
<1>11. \A q \in Requests : /\ result'[q] = IF q = r THEN result[q] \cup {<<o, "CANCELED">> : o \in accepted} ELSE result[q]
                           /\ left'[q] = IF q = r THEN left[q] \ batch ELSE left[q]
  BY <1>0 DEF ConfirmTypeOK
<1>1. QueuesOwn' /\ PhasesOwn'
  BY <1>0 DEF QueuesOwn, PhasesOwn, ConfirmTypeOK, CancelConfirmAssumption
<1>2. QueueHears' /\ EarlyMessageUsed'
  BY <1>0 DEF QueueHears, EarlyMessageUsed, ConfirmTypeOK, Sole, CancelConfirmAssumption
<1>3. ConfirmTypeOK'
  <2>1. result' \in [Requests -> SUBSET (OpenOrders \X {"CANCELED", "FILLED", "NEW"})]
    <3>1. {<<o, "CANCELED">> : o \in accepted} \subseteq OpenOrders \X {"CANCELED", "FILLED", "NEW"}
      BY <1>0
    <3> QED BY <1>0, <3>1 DEF ConfirmTypeOK
  <2>2. standing' \in [OpenOrders -> {"open", "closing", "canceled", "filled"}]
    BY <1>0 DEF ConfirmTypeOK
  <2> QED BY <1>0, <2>1, <2>2 DEF ConfirmTypeOK
<1>4. MessagesCanceled'
  BY <1>0, <1>10, SetOfBuffer DEF MessagesCanceled, ConfirmTypeOK
<1>5. Asked'
  <2>1. \A o \in accepted : o \in Target[r] /\ phase[r] # "idle"
    BY <1>0
  <2>2. \A o \in OpenOrders : standing'[o] = standing[o] \/ o \in accepted
    BY <1>0
  <2> QED BY <1>0, <2>1, <2>2 DEF Asked, CancelledFor
<1>6. BulkCovers'
  <2> SUFFICES ASSUME NEW b \in Bulk, phase[b] # "idle", NEW o \in Target[b]
               PROVE  /\ standing'[o] = "open" => OKX /\ o \in left'[b]
                      /\ standing'[o] \in Stopped => \/ \E x \in result'[b] : x[1] = o
                                                     \/ OtherAsks(b, o)
    BY <1>0 DEF BulkCovers, OtherAsks, CancelledFor
  <2>1. o \in OpenOrders /\ b \in Requests
    BY DEF CancelConfirmAssumption
  <2>2. \/ standing'[o] = standing[o] /\ (b # r \/ o \notin batch \/ standing[o] # "open")
        \/ o \in accepted /\ standing'[o] = "closing"
    BY <1>0, <2>1
  <2>3. CASE standing'[o] = standing[o] /\ (b # r \/ o \notin batch \/ standing[o] # "open")
    <3>1. /\ standing[o] = "open" => o \in left[b]
          /\ standing[o] \in Stopped => (\E x \in result[b] : x[1] = o) \/ OtherAsks(b, o)
      BY <1>0 DEF BulkCovers
    <3>2. result[b] \subseteq result'[b]
      BY <1>11, <2>1
    <3>3. standing[o] = "open" => o \in left'[b]
      BY <1>11, <2>1, <2>3, <3>1
    <3> QED BY <1>0, <2>3, <3>1, <3>2, <3>3
  <2>4. CASE o \in accepted /\ standing'[o] = "closing"
    <3>1. CASE b = r
      <4>1. <<o, "CANCELED">> \in result'[b]
        BY <1>11, <2>1, <2>4, <3>1
      <4> QED BY <2>4, <4>1
    <3>2. CASE b # r
      <4>1. OtherAsks(b, o)
        BY <1>0, <2>4, <3>2 DEF OtherAsks, CancelledFor
      <4> QED BY <2>4, <4>1
    <3> QED BY <3>1, <3>2
  <2> QED BY <2>2, <2>3, <2>4
<1>7. AnswerIsTrue'
  <2>1. \A q \in Requests : \A x \in result[q] : x[1] \in OpenOrders
    BY DEF ConfirmTypeOK
  <2>2. \A x \in {<<o, "CANCELED">> : o \in accepted} : x[1] \in Target[r]
    BY <1>0
  <2>3. ~ByBit
    BY <1>0
  <2> QED BY <1>0, <1>10, <1>11, <2>1, <2>2, <2>3 DEF AnswerIsTrue
<1> QED BY <1>1, <1>2, <1>3, <1>4, <1>5, <1>6, <1>7

-----------------------------------------------------------------------------
(* The theorems *)

LEMMA InitConfirmInv == CancelConfirmAssumption /\ ConfirmInit => ConfirmInv
<1> SUFFICES ASSUME CancelConfirmAssumption, ConfirmInit PROVE ConfirmInv
  OBVIOUS
<1>1. ConfirmTypeOK /\ ToSet(buffer) = {}
  BY DEF ConfirmInit, ConfirmTypeOK, CancelConfirmAssumption, IsInjective, ToSet
<1>2. MessagesCanceled /\ QueuesOwn /\ PhasesOwn /\ QueueHears
  BY <1>1 DEF ConfirmInit, MessagesCanceled, QueuesOwn, PhasesOwn, QueueHears
<1>3. Asked /\ BulkCovers /\ AnswerIsTrue /\ EarlyMessageUsed
  BY DEF ConfirmInit, Asked, BulkCovers, AnswerIsTrue, EarlyMessageUsed, Stopped, CancelConfirmAssumption
<1> QED BY <1>1, <1>2, <1>3 DEF ConfirmInv

LEMMA ConfirmStep ==
    CancelConfirmAssumption /\ ConfirmInv /\ [ConfirmNext]_<<exchange, confirmVars>> => ConfirmInv'
<1> SUFFICES ASSUME CancelConfirmAssumption, ConfirmInv, [ConfirmNext]_<<exchange, confirmVars>>
             PROVE  ConfirmInv'
  OBVIOUS
<1>1. CASE UNCHANGED <<exchange, confirmVars>>
  BY <1>1 DEF confirmVars, ConfirmInv, ConfirmTypeOK, MessagesCanceled, QueuesOwn, PhasesOwn, QueueHears, Asked,
              BulkCovers, OtherAsks, CancelledFor, AnswerIsTrue, EarlyMessageUsed, OKX, ByBit
<1>2. CASE ConfirmNext
  <2>1. UNCHANGED exchange
    BY <1>2 DEF ConfirmNext
  <2>2. ASSUME NEW o \in OpenOrders, Executes(o) PROVE ConfirmInv'
    BY <2>1, <2>2, ExecutesStep
  <2>3. ASSUME NEW S \in SUBSET OpenOrders, Cancelled(S) PROVE ConfirmInv'
    BY <2>1, <2>3, CancelledStep
  <2>4. ASSUME NEW t \in Trades, NEW o \in OpenOrders, HandleEvent(t, o) PROVE ConfirmInv'
    BY <2>1, <2>4, HandleEventStep
  <2>5. ASSUME NEW r \in Requests, CancelRequest(r) PROVE ConfirmInv'
    <3>1. CASE SendCancel(r) \/ Arrives(r) \/ Accepted(r) \/ Refused(r)
      BY <2>1, <3>1, SendCancelStep, ArrivesStep, AcceptedStep, RefusedStep
    <3>2. CASE Confirmed(r) \/ WaitedTooLong(r) \/ CancelGivenUp(r)
      BY <2>1, <3>2, ConfirmedStep, WaitedTooLongStep, CancelGivenUpStep
    <3>3. CASE CancelAll(r) \/ TaskDone(r) \/ AllWaited(r) \/ FetchPending(r)
      BY <2>1, <3>3, CancelAllStep, TaskDoneStep, AllWaitedStep, FetchPendingStep
    <3>4. CASE FetchOrders(r) \/ BatchesDone(r)
      BY <2>1, <3>4, FetchOrdersStep, BatchesDoneStep
    <3>5. ASSUME NEW batch \in Batches(r), CancelBatch(r, batch) PROVE ConfirmInv'
      BY <2>1, <3>5, CancelBatchStep
    <3> QED BY <2>5, <3>1, <3>2, <3>3, <3>4, <3>5 DEF CancelRequest
  <2> QED BY <1>2, <2>2, <2>3, <2>4, <2>5 DEF ConfirmNext
<1> QED BY <1>1, <1>2

LEMMA BulkIsComplete == CancelConfirmAssumption /\ ConfirmInv => AllCancelled
<1> SUFFICES ASSUME CancelConfirmAssumption, ConfirmInv,
                    NEW r \in Bulk, phase[r] \in {"done", "unfetched"}, NEW o \in Target[r]
             PROVE  /\ standing[o] # "open"
                    /\ standing[o] = "canceled" =>
                           \/ \E x \in result[r] : x[1] = o
                           \/ OtherAsks(r, o)
                           \/ phase[r] = "unfetched" /\ o \in left[r]
  BY DEF AllCancelled, OtherAsks
<1>1. phase[r] = "done" => left[r] = {}
  BY DEF ConfirmInv, PhasesOwn, CancelConfirmAssumption
<1>2. phase[r] = "unfetched" => ~OKX
  BY DEF ConfirmInv, PhasesOwn, CancelConfirmAssumption, OKX, ByBit
<1> QED BY <1>1, <1>2 DEF ConfirmInv, BulkCovers, Stopped

THEOREM ConfirmInvariant ==
    ASSUME CancelConfirmAssumption PROVE ConfirmSpec => []ConfirmInv
<1>1. ConfirmInit => ConfirmInv
  BY InitConfirmInv
<1>2. ConfirmInv /\ [ConfirmNext]_<<exchange, confirmVars>> => ConfirmInv'
  BY ConfirmStep
<1> QED BY <1>1, <1>2, PTL DEF ConfirmSpec

(* Every variable holds a value of its kind: wss_buffer has an order once  *)
(* and at most max_len of them.                                            *)
THEOREM ConfirmTypes ==
    ASSUME CancelConfirmAssumption PROVE ConfirmSpec => []ConfirmTypeOK
BY ConfirmInvariant, PTL DEF ConfirmInv

(* Requests are answered with their own orders, and CANCELED is said of    *)
(* cancelled ones in the answers of CancelOrder and of ByBit's             *)
(* CancelAllOrders; OKX's CancelAllOrders is exempt.                       *)
THEOREM AnswersAreTrue ==
    ASSUME CancelConfirmAssumption PROVE ConfirmSpec => []AnswerIsTrue
BY ConfirmInvariant, PTL DEF ConfirmInv

(* OKX: a closing message handled before its request was answered is not   *)
(* lost to the only cancel_order of its order.                             *)
THEOREM EarlyMessagesAreUsed ==
    ASSUME CancelConfirmAssumption PROVE ConfirmSpec => []EarlyMessageUsed
BY ConfirmInvariant, PTL DEF ConfirmInv

(* A CancelAllOrders that has answered leaves no order open, and answered  *)
(* each that is cancelled, unless another request had it cancelled, or, on *)
(* ByBit, its message did not come and the exchange's answer had no        *)
(* "success"; however many requests run at the same time.                  *)
THEOREM CancelAllIsComplete ==
    ASSUME CancelConfirmAssumption PROVE ConfirmSpec => []AllCancelled
BY ConfirmInvariant, BulkIsComplete, PTL

-----------------------------------------------------------------------------
(* Reports of an order                                                     *)

Closed == {"FILLED", "CANCELED"}

(* A report, or an answer, tells what is so. *)
Truly(x) ==
    /\ x.status = x.really
    /\ exchange = "okx" => x.quote = Quote(x.of)

(* What was told is behind the order as it is, and never beyond its end.   *)
Behind(x) ==
    /\ x.executed <= Executed(trades)
    /\ x.status \in Closed => x.status = TrueStatus(trades, canceled)

(* If partially filled orders are not fetched, an answer about executions  *)
(* is one about a closed order, and so remains true.                       *)
AnswerCurrent ==
    order # NotFetched /\ order.executed > 0 =>
        /\ order.executed = Executed(trades)
        /\ order.status = TrueStatus(trades, canceled) /\ order.status \in Closed

ReportsInv ==
    /\ exchange \in Exchanges /\ ReportsTypeOK /\ Forward
    /\ \A i \in DOMAIN reports : Truly(reports[i])
    /\ order # NotFetched => Truly(order)
    /\ "PARTIALLY_FILLED" \notin Calls =>
          AnswerCurrent /\ \A i \in DOMAIN reports : Behind(reports[i])

-----------------------------------------------------------------------------
(* The conversions *)

(* What the last of the trades says. *)
LEMMA ExecutedQuantity ==
    ASSUME OrderReportsAssumption, NEW ts \in Seq(TradeFacts)
    PROVE  /\ Qty \in Nat /\ Qty > 0 /\ Executed(ts) \in 0..Qty /\ Quote(ts) \in Nat
           /\ ts = <<>> <=> Executed(ts) = 0
<1>1. Qty \in Nat /\ Qty > 0
  BY DEF OrderReportsAssumption
<1>2. CASE ts = <<>>
  BY <1>1, <1>2 DEF Executed, Quote
<1>3. CASE ts # <<>>
  <2>1. Len(ts) \in 1..Len(ts)
    BY <1>3, EmptySeq
  <2>2. ts[Len(ts)] \in TradeFacts
    BY <2>1, ElementOfSeq
  <2> QED BY <1>1, <1>3, <2>2 DEF Executed, Quote, TradeFacts
<1> QED BY <1>2, <1>3

LEMMA TrueStatusCases ==
    ASSUME OrderReportsAssumption, NEW ts \in Seq(TradeFacts), NEW gone \in BOOLEAN
    PROVE  /\ gone => TrueStatus(ts, gone) = "CANCELED"
           /\ ~gone /\ Executed(ts) = 0 => TrueStatus(ts, gone) = "NEW"
           /\ ~gone /\ 0 < Executed(ts) /\ Executed(ts) < Qty => TrueStatus(ts, gone) = "PARTIALLY_FILLED"
           /\ ~gone /\ Executed(ts) = Qty => TrueStatus(ts, gone) = "FILLED"
           /\ TrueStatus(ts, gone) \in Statuses
<1>1. /\ Qty \in Nat /\ Qty > 0 /\ Executed(ts) \in 0..Qty
      /\ ts = <<>> <=> Executed(ts) = 0
  BY ExecutedQuantity
<1> QED BY <1>1 DEF TrueStatus, Statuses

LEMMA ByQuantityCases ==
    ASSUME OrderReportsAssumption, NEW x \in 0..Qty
    PROVE  /\ x = 0 => ByQuantity(x) = "NEW"
           /\ 0 < x /\ x < Qty => ByQuantity(x) = "PARTIALLY_FILLED"
           /\ x = Qty => ByQuantity(x) = "FILLED"
BY DEF ByQuantity, OrderReportsAssumption

LEMMA ByStateCases ==
    ASSUME OrderReportsAssumption, exchange \in Exchanges, NEW ts \in Seq(TradeFacts), NEW gone \in BOOLEAN
    PROVE  /\ State(ts, gone) \in {"canceled", "partial-canceled"} <=> gone
           /\ ByState(State(ts, gone)) = TrueStatus(ts, gone)
           /\ State(ts, gone) = "partial-canceled" => ByState(State(ts, gone)) = "CANCELED"
           /\ State(ts, gone) = "partial-filled" <=> ~gone /\ 0 < Executed(ts) /\ Executed(ts) < Qty
<1>1. /\ Qty \in Nat /\ Qty > 0 /\ Executed(ts) \in 0..Qty
      /\ ts = <<>> <=> Executed(ts) = 0
  BY ExecutedQuantity
<1>2. CASE gone
  <2>1. State(ts, gone) = IF ts # <<>> /\ exchange \in {"huobi", "bybit"} THEN "partial-canceled" ELSE "canceled"
    BY <1>2, Zenon DEF State
  <2>2. ByState(State(ts, gone)) = "CANCELED"
    BY <2>1 DEF ByState
  <2>3. TrueStatus(ts, gone) = "CANCELED"
    BY <1>2, TrueStatusCases
  <2> QED BY <1>2, <2>1, <2>2, <2>3
<1>3. CASE ~gone /\ Executed(ts) = 0
  BY <1>1, <1>3, TrueStatusCases DEF State, ByState
<1>4. CASE ~gone /\ 0 < Executed(ts) /\ Executed(ts) < Qty
  BY <1>1, <1>4, TrueStatusCases DEF State, ByState
<1>5. CASE ~gone /\ Executed(ts) = Qty
  BY <1>1, <1>5, TrueStatusCases DEF State, ByState
<1> QED BY <1>1, <1>2, <1>3, <1>4, <1>5

(* What makes a report true.                                               *)
LEMMA ReportOf ==
    ASSUME NEW ts \in Seq(TradeFacts), NEW st \in Statuses, NEW x \in 0..Qty, NEW quote \in Nat,
           exchange = "okx" => quote = Quote(ts)
    PROVE  LET r == [status |-> st, executed |-> x, quote |-> quote, really |-> st, of |-> ts]
           IN  r \in Reports /\ Truly(r) /\ r.executed = x /\ r.status = st
BY DEF Reports, Truly

(* Every exchange's answer, whatever the order's state.                    *)
LEMMA AnswerTrue ==
    ASSUME OrderReportsAssumption, exchange \in Exchanges, NEW ts \in Seq(TradeFacts), NEW gone \in BOOLEAN
    PROVE  LET x == Really(AnswerOf(ts, gone), ts, gone)
           IN  x \in Reports /\ Truly(x) /\ x.executed = Executed(ts) /\ x.status = TrueStatus(ts, gone)
<1>1. /\ Qty \in Nat /\ Executed(ts) \in 0..Qty /\ Quote(ts) \in Nat /\ Qty - (Qty - Executed(ts)) = Executed(ts)
  BY ExecutedQuantity
<1>2. AnswerOf(ts, gone) = Told(TrueStatus(ts, gone), Executed(ts), Quote(ts))
  <2>1. CASE exchange = "bitfinex"
    <3>1. AnswerOf(ts, gone) = BfxAnswer(ts, gone)
      BY <2>1 DEF AnswerOf
    <3>2. (IF gone THEN "CANCELED" ELSE ByQuantity(Executed(ts))) = TrueStatus(ts, gone)
      BY <1>1, TrueStatusCases, ByQuantityCases
    <3> QED BY <1>1, <3>1, <3>2 DEF BfxAnswer
  <2>2. CASE exchange = "huobi"
    BY <2>2, ByStateCases DEF AnswerOf, HtxAnswer
  <2>3. CASE exchange = "okx"
    BY <2>3, ByStateCases DEF AnswerOf, OkxAnswer
  <2>4. CASE exchange = "bybit"
    BY <2>4, ByStateCases DEF AnswerOf, BybitAnswer
  <2> QED BY <2>1, <2>2, <2>3, <2>4 DEF Exchanges
<1> QED BY <1>1, <1>2, TrueStatusCases DEF Told, Really, Reports, Truly

(* Every exchange's message about a trade.                                 *)
LEMMA MessageTrue ==
    ASSUME OrderReportsAssumption, exchange \in Exchanges, NEW ts \in Seq(TradeFacts), ts # <<>>,
           NEW gone \in BOOLEAN, ~gone
    PROVE  LET x == Reported("trade", ts, gone)
           IN  x \in Reports /\ Truly(x) /\ x.executed = Executed(ts) /\ x.status = TrueStatus(ts, gone)
<1>1. /\ Qty \in Nat /\ Executed(ts) \in 1..Qty /\ Executed(ts) \in 0..Qty /\ Quote(ts) \in Nat
      /\ Qty - (Qty - Executed(ts)) = Executed(ts)
  BY ExecutedQuantity
<1>2. Executed(ts) * Price \in Nat
  <2>1. Price \in Nat /\ Executed(ts) \in Nat
    BY <1>1 DEF OrderReportsAssumption
  <2> QED BY <2>1
<1>3. ByQuantity(Executed(ts)) = TrueStatus(ts, gone)
  <2>1. /\ Executed(ts) < Qty => TrueStatus(ts, gone) = "PARTIALLY_FILLED"
        /\ Executed(ts) = Qty => TrueStatus(ts, gone) = "FILLED"
    BY <1>1, TrueStatusCases
  <2> QED BY <1>1, <2>1, ByQuantityCases
<1>4. PICK q \in Nat : /\ MessageOf("trade", ts, gone) = Told(TrueStatus(ts, gone), Executed(ts), q)
                       /\ exchange = "okx" => q = Quote(ts)
  <2>1. CASE exchange = "bitfinex"
    BY <1>2, <1>3, <2>1 DEF MessageOf, BfxOrderTrade
  <2>2. CASE exchange = "huobi"
    <3>1. /\ State(ts, gone) \notin {"canceled", "partial-canceled"}
          /\ State(ts, gone) = "partial-filled" => TrueStatus(ts, gone) = "PARTIALLY_FILLED"
      BY ByStateCases, TrueStatusCases
    <3>2. HtxOrderUpdate(ts, gone) = Told(TrueStatus(ts, gone), Executed(ts), Executed(ts) * Price)
      BY <1>3, <3>1 DEF HtxOrderUpdate
    <3> QED BY <1>2, <2>2, <3>2 DEF MessageOf
  <2>3. CASE exchange = "okx"
    BY <1>1, <2>3, ByStateCases DEF MessageOf, OkxOrderUpdate
  <2>4. CASE exchange = "bybit"
    <3>1. BybitTradeUpdate(ts, gone) = Told(TrueStatus(ts, gone), Executed(ts), Executed(ts) * Price)
      <4>1. /\ Executed(ts) < Qty => TrueStatus(ts, gone) = "PARTIALLY_FILLED"
            /\ Executed(ts) = Qty => TrueStatus(ts, gone) = "FILLED"
        BY <1>1, TrueStatusCases
      <4>2. (IF Qty - Executed(ts) = Qty THEN "NEW"
             ELSE IF Qty - Executed(ts) > 0 THEN "PARTIALLY_FILLED" ELSE "FILLED") = TrueStatus(ts, gone)
        BY <1>1, <4>1
      <4> QED BY <1>1, <4>2 DEF BybitTradeUpdate
    <3> QED BY <1>2, <2>4, <3>1 DEF MessageOf
  <2> QED BY <2>1, <2>2, <2>3, <2>4 DEF Exchanges
<1>5. TrueStatus(ts, gone) \in Statuses
  BY TrueStatusCases
<1> DEFINE st == TrueStatus(ts, gone)
<1>6. Reported("trade", ts, gone) = [status |-> st, executed |-> Executed(ts), quote |-> q, really |-> st, of |-> ts]
  BY <1>4 DEF Reported, Really, Told
<1> HIDE DEF st
<1> QED BY <1>1, <1>4, <1>5, <1>6, ReportOf DEF st

(* The messages of Bitfinex and OKX about the order itself.                *)
LEMMA OrderMessageTrue ==
    ASSUME OrderReportsAssumption, NEW ts \in Seq(TradeFacts), NEW gone \in BOOLEAN,
           exchange \in {"bitfinex", "okx"}
    PROVE  LET x == Reported("order", ts, gone)
           IN  x \in Reports /\ Truly(x) /\ x.executed = Executed(ts) /\ x.status = TrueStatus(ts, gone)
<1>1. Qty \in Nat /\ Executed(ts) \in 0..Qty /\ Quote(ts) \in Nat /\ exchange \in Exchanges
  BY ExecutedQuantity DEF Exchanges
<1>2. MessageOf("order", ts, gone) = Told(TrueStatus(ts, gone), Executed(ts), Quote(ts))
  <2>1. CASE exchange = "bitfinex"
    <3>1. (IF gone THEN "CANCELED" ELSE ByQuantity(Executed(ts))) = TrueStatus(ts, gone)
      BY <1>1, TrueStatusCases, ByQuantityCases
    <3> QED BY <2>1, <3>1 DEF MessageOf, BfxOrderUpdate
  <2>2. CASE exchange = "okx"
    BY <1>1, <2>2, ByStateCases DEF MessageOf, OkxOrderUpdate
  <2> QED BY <2>1, <2>2
<1>3. TrueStatus(ts, gone) \in Statuses
  BY TrueStatusCases
<1> DEFINE st == TrueStatus(ts, gone)
<1>4. Reported("order", ts, gone)
        = [status |-> st, executed |-> Executed(ts), quote |-> Quote(ts), really |-> st, of |-> ts]
  BY <1>2 DEF Reported, Really, Told
<1> HIDE DEF st
<1> QED BY <1>1, <1>3, <1>4, ReportOf DEF st

-----------------------------------------------------------------------------
(* The reports *)

(* New reports that are true, and that tell the order as it has become, go *)
(* with the old ones.                                                      *)
LEMMA ReportsGrow ==
    ASSUME OrderReportsAssumption, ReportsInv, UNCHANGED exchange,
           NEW new \in Seq(Reports), reports' = reports \o new,
           \A i \in DOMAIN new : Truly(new[i]),
           trades \in Seq(TradeFacts), trades' \in Seq(TradeFacts), Executed(trades) <= Executed(trades'),
           "PARTIALLY_FILLED" \notin Calls =>
                /\ TrueStatus(trades, canceled) \in Closed
                        => TrueStatus(trades', canceled') = TrueStatus(trades, canceled)
                /\ \A i \in DOMAIN new : /\ new[i].executed = Executed(trades')
                                         /\ new[i].status = TrueStatus(trades', canceled')
    PROVE  /\ reports' \in Seq(Reports) /\ Forward'
           /\ (\A i \in DOMAIN reports : Truly(reports[i]))'
           /\ "PARTIALLY_FILLED" \notin Calls => (\A i \in DOMAIN reports : Behind(reports[i]))'
<1>1. reports \in Seq(Reports) /\ Len(reports) \in Nat /\ Len(new) \in Nat
      /\ DOMAIN reports = 1..Len(reports) /\ DOMAIN new = 1..Len(new)
  BY LenProperties DEF ReportsInv, ReportsTypeOK
<1>2. /\ reports' \in Seq(Reports) /\ DOMAIN reports' = 1..(Len(reports) + Len(new))
      /\ \A i \in DOMAIN reports' : reports'[i] = IF i <= Len(reports) THEN reports[i] ELSE new[i - Len(reports)]
  BY <1>1, ConcatProperties, LenProperties
<1>3. \A i \in DOMAIN reports' : \/ i \in DOMAIN reports /\ reports'[i] = reports[i]
                                 \/ i \notin DOMAIN reports /\ \E k \in DOMAIN new : reports'[i] = new[k]
  <2> SUFFICES ASSUME NEW i \in DOMAIN reports'
               PROVE  \/ i \in DOMAIN reports /\ reports'[i] = reports[i]
                      \/ i \notin DOMAIN reports /\ \E k \in DOMAIN new : reports'[i] = new[k]
    OBVIOUS
  <2>1. CASE i <= Len(reports)
    BY <1>1, <1>2, <2>1
  <2>2. CASE ~(i <= Len(reports))
    <3>1. i - Len(reports) \in DOMAIN new /\ reports'[i] = new[i - Len(reports)] /\ i \notin DOMAIN reports
      BY <1>1, <1>2, <2>2
    <3> QED BY <3>1
  <2> QED BY <2>1, <2>2
<1>4. /\ Executed(trades) \in Nat /\ Executed(trades') \in Nat
      /\ \A i \in DOMAIN reports' : reports'[i].executed \in Nat
  <2>1. Executed(trades) \in Nat /\ Executed(trades') \in Nat
    BY ExecutedQuantity
  <2>2. \A i \in DOMAIN reports' : reports'[i] \in Reports
    BY <1>2, ElementOfSeq, LenProperties
  <2>3. \A x \in Reports : x.executed \in Nat
    BY ExecutedQuantity DEF Reports
  <2> QED BY <2>1, <2>2, <2>3
<1>5. (\A i \in DOMAIN reports : Truly(reports[i]))'
  BY <1>3 DEF ReportsInv, Truly
<1>6. ASSUME "PARTIALLY_FILLED" \notin Calls, NEW i \in DOMAIN reports'
      PROVE  /\ reports'[i].executed <= Executed(trades')
             /\ reports'[i].status \in Closed => reports'[i].status = TrueStatus(trades', canceled')
  <2>1. CASE i \in DOMAIN reports /\ reports'[i] = reports[i]
    <3>1. /\ reports[i].executed <= Executed(trades)
          /\ reports[i].status \in Closed => reports[i].status = TrueStatus(trades, canceled)
      BY <1>6, <2>1 DEF ReportsInv, Behind
    <3> QED BY <1>4, <1>6, <2>1, <3>1
  <2>2. CASE \E k \in DOMAIN new : reports'[i] = new[k]
    BY <1>4, <1>6, <2>2
  <2> QED BY <1>3, <2>1, <2>2
<1>7. Forward'
  <2> SUFFICES ASSUME "PARTIALLY_FILLED" \notin Calls,
                      NEW i \in DOMAIN reports', NEW j \in DOMAIN reports', i < j
               PROVE  /\ reports'[i].executed <= reports'[j].executed
                      /\ reports'[i].status \in Closed => reports'[j].status = reports'[i].status
    BY DEF Forward, Closed
  <2>1. CASE j \in DOMAIN reports /\ reports'[j] = reports[j]
    <3>1. i \in DOMAIN reports /\ reports'[i] = reports[i]
      BY <1>1, <1>2, <2>1
    <3> QED BY <2>1, <3>1 DEF ReportsInv, Forward, Closed
  <2>2. CASE \E k \in DOMAIN new : reports'[j] = new[k]
    BY <1>6, <2>2
  <2> QED BY <1>3, <2>1, <2>2
<1> QED BY <1>2, <1>5, <1>6, <1>7 DEF Behind

LEMMA TradeStep ==
    ASSUME OrderReportsAssumption, ReportsInv, UNCHANGED exchange,
           NEW qty \in 1..Qty, NEW price \in Prices, Trade(qty, price)
    PROVE  ReportsInv'
<1> DEFINE news == <<Reported("trade", trades', canceled)>>
                   \o (IF exchange = "bitfinex" /\ Executed(trades') = Qty
                       THEN <<Reported("order", trades', canceled)>> ELSE <<>>)
<1>1. /\ exchange \in Exchanges /\ trades \in Seq(TradeFacts) /\ canceled \in BOOLEAN
      /\ reports \in Seq(Reports) /\ ~canceled /\ UNCHANGED <<canceled, order>>
      /\ Executed(trades) < Qty /\ Executed(trades) + qty <= Qty
      /\ Qty \in Nat /\ Executed(trades) \in Nat /\ Quote(trades) \in Nat
  BY ExecutedQuantity DEF ReportsInv, ReportsTypeOK, Trade, Open
<1>2. /\ trades' \in Seq(TradeFacts) /\ trades' # <<>>
      /\ Executed(trades') = Executed(trades) + qty
  <2> DEFINE x == [executed |-> Executed(trades) + qty, quote |-> Quote(trades) + qty * price]
  <2>1. price \in Nat /\ qty * price \in Nat
    BY DEF OrderReportsAssumption
  <2>2. x \in TradeFacts
    <3>1. Executed(trades) + qty \in 1..Qty /\ Quote(trades) + qty * price \in Nat
      BY <1>1, <2>1
    <3> QED BY <3>1 DEF TradeFacts
  <2>3. trades' = Append(trades, x)
    BY DEF Trade
  <2> HIDE DEF x
  <2>4. /\ trades' \in Seq(TradeFacts) /\ trades' # <<>> /\ Len(trades') = Len(trades) + 1
        /\ trades'[Len(trades')] = x
    BY <1>1, <2>2, <2>3
  <2> QED BY <2>4 DEF Executed, x
<1>3. LET x == Reported("trade", trades', canceled)
      IN  x \in Reports /\ Truly(x) /\ x.executed = Executed(trades') /\ x.status = TrueStatus(trades', canceled)
  BY <1>1, <1>2, MessageTrue
<1>4. exchange = "bitfinex" =>
        LET x == Reported("order", trades', canceled)
        IN  x \in Reports /\ Truly(x) /\ x.executed = Executed(trades') /\ x.status = TrueStatus(trades', canceled)
  BY <1>1, <1>2, OrderMessageTrue
<1>5. /\ news \in Seq(Reports) /\ reports' = reports \o news
      /\ \A i \in DOMAIN news : /\ Truly(news[i]) /\ news[i].executed = Executed(trades')
                                /\ news[i].status = TrueStatus(trades', canceled)
  <2> DEFINE x == Reported("trade", trades', canceled)
             y == Reported("order", trades', canceled)
  <2>1. CASE exchange = "bitfinex" /\ Executed(trades') = Qty
    <3>1. reports' = Append(reports, x) \o <<y>> /\ news = <<x>> \o <<y>>
      BY <2>1 DEF Trade
    <3>2. /\ x \in Reports /\ Truly(x) /\ x.executed = Executed(trades')
          /\ x.status = TrueStatus(trades', canceled)
          /\ y \in Reports /\ Truly(y) /\ y.executed = Executed(trades')
          /\ y.status = TrueStatus(trades', canceled)
      BY <1>3, <1>4, <2>1
    <3> HIDE DEF x, y, news
    <3>3. news \in Seq(Reports) /\ DOMAIN news = 1..2 /\ news[1] = x /\ news[2] = y
      BY <3>1, <3>2
    <3>4. reports' = reports \o news
      <4>1. Append(reports, x) = reports \o <<x>> /\ <<x>> \in Seq(Reports) /\ <<y>> \in Seq(Reports)
        BY <1>1, <3>2, AppendIsConcat
      <4> QED BY <1>1, <3>1, <4>1, ConcatAssociative
    <3> QED BY <3>2, <3>3, <3>4
  <2>2. CASE ~(exchange = "bitfinex" /\ Executed(trades') = Qty)
    <3>1. reports' = Append(reports, x) \o <<>> /\ news = <<x>> \o <<>>
      BY <2>2 DEF Trade
    <3>2. /\ x \in Reports /\ Truly(x) /\ x.executed = Executed(trades')
          /\ x.status = TrueStatus(trades', canceled)
      BY <1>3
    <3> HIDE DEF x, y, news
    <3>3. news \in Seq(Reports) /\ DOMAIN news = 1..1 /\ news[1] = x
      BY <3>1, <3>2
    <3>4. reports' = reports \o news
      BY <1>1, <3>1, <3>2
    <3> QED BY <3>2, <3>3, <3>4
  <2> QED BY <2>1, <2>2
<1> HIDE DEF news
<1>6. TrueStatus(trades, canceled) \notin Closed
  BY <1>1, TrueStatusCases, ExecutedQuantity DEF Closed
<1>7. /\ reports' \in Seq(Reports) /\ Forward'
      /\ (\A i \in DOMAIN reports : Truly(reports[i]))'
      /\ "PARTIALLY_FILLED" \notin Calls => (\A i \in DOMAIN reports : Behind(reports[i]))'
  <2>1. /\ "PARTIALLY_FILLED" \notin Calls =>
             /\ TrueStatus(trades, canceled) \in Closed
                     => TrueStatus(trades', canceled') = TrueStatus(trades, canceled)
             /\ \A i \in DOMAIN news : /\ news[i].executed = Executed(trades')
                                       /\ news[i].status = TrueStatus(trades', canceled')
        /\ \A i \in DOMAIN news : Truly(news[i])
    BY <1>1, <1>5, <1>6
  <2>2. trades \in Seq(TradeFacts) /\ trades' \in Seq(TradeFacts) /\ Executed(trades) <= Executed(trades')
    BY <1>1, <1>2
  <2> QED BY <1>5, <2>1, <2>2, ReportsGrow
<1>8. "PARTIALLY_FILLED" \notin Calls => ~(order # NotFetched /\ order.executed > 0)
  BY <1>6 DEF ReportsInv, AnswerCurrent
<1> QED BY <1>1, <1>2, <1>7, <1>8 DEF ReportsInv, ReportsTypeOK, AnswerCurrent, Truly

LEMMA CancelStep ==
    ASSUME OrderReportsAssumption, ReportsInv, UNCHANGED exchange, Cancel
    PROVE  ReportsInv'
<1> DEFINE x == Reported("order", trades, canceled')
           news == IF exchange \in {"bitfinex", "okx"} THEN <<x>> ELSE <<>>
<1>1. /\ exchange \in Exchanges /\ trades \in Seq(TradeFacts) /\ canceled \in BOOLEAN
      /\ reports \in Seq(Reports) /\ ~canceled /\ canceled' /\ canceled' \in BOOLEAN /\ UNCHANGED <<trades, order>>
      /\ Executed(trades) < Qty /\ Qty \in Nat /\ Executed(trades) \in Nat
      /\ reports' = IF exchange \in {"bitfinex", "okx"} THEN Append(reports, x) ELSE reports
  BY ExecutedQuantity DEF ReportsInv, ReportsTypeOK, Cancel, Open
<1>2. exchange \in {"bitfinex", "okx"} =>
        /\ x \in Reports /\ Truly(x) /\ x.executed = Executed(trades)
        /\ x.status = TrueStatus(trades, canceled')
  BY <1>1, OrderMessageTrue
<1> HIDE DEF x
<1>3. /\ news \in Seq(Reports) /\ reports' = reports \o news
      /\ \A i \in DOMAIN news : /\ Truly(news[i]) /\ news[i].executed = Executed(trades)
                                /\ news[i].status = TrueStatus(trades, canceled')
  <2>1. CASE exchange \in {"bitfinex", "okx"}
    <3>1. news = <<x>> /\ reports' = Append(reports, x) /\ DOMAIN news = 1..1 /\ news[1] = x
      BY <1>1, <2>1
    <3>2. reports \in Seq(Reports) /\ x \in Reports
      BY <1>1, <1>2, <2>1
    <3>3. Append(reports, x) = reports \o <<x>> /\ <<x>> \in Seq(Reports)
      BY <3>2, AppendIsConcat
    <3> QED BY <1>2, <2>1, <3>1, <3>3
  <2>2. CASE exchange \notin {"bitfinex", "okx"}
    <3>1. news = <<>> /\ reports' = reports /\ DOMAIN news = 1..0
      BY <1>1, <2>2
    <3>2. reports \in Seq(Reports)
      BY <1>1
    <3>3. reports \o <<>> = reports /\ <<>> \in Seq(Reports)
      BY <3>2, ConcatEmptySeq, EmptySeq
    <3> HIDE DEF news
    <3>4. news \in Seq(Reports) /\ reports' = reports \o news
      BY <3>1, <3>3
    <3>5. DOMAIN news = {}
      BY <3>1
    <3> QED BY <3>4, <3>5
  <2> QED BY <2>1, <2>2
<1> HIDE DEF news
<1>4. TrueStatus(trades, canceled) \notin Closed
  BY <1>1, TrueStatusCases, ExecutedQuantity DEF Closed
<1>5. /\ reports' \in Seq(Reports) /\ Forward'
      /\ (\A i \in DOMAIN reports : Truly(reports[i]))'
      /\ "PARTIALLY_FILLED" \notin Calls => (\A i \in DOMAIN reports : Behind(reports[i]))'
  <2>1. /\ "PARTIALLY_FILLED" \notin Calls =>
             /\ TrueStatus(trades, canceled) \in Closed
                     => TrueStatus(trades', canceled') = TrueStatus(trades, canceled)
             /\ \A i \in DOMAIN news : /\ news[i].executed = Executed(trades')
                                       /\ news[i].status = TrueStatus(trades', canceled')
        /\ \A i \in DOMAIN news : Truly(news[i])
    BY <1>1, <1>3, <1>4
  <2>2. trades \in Seq(TradeFacts) /\ trades' \in Seq(TradeFacts) /\ Executed(trades) <= Executed(trades')
    BY <1>1
  <2> QED BY <1>3, <2>1, <2>2, ReportsGrow
<1>6. "PARTIALLY_FILLED" \notin Calls => ~(order # NotFetched /\ order.executed > 0)
  BY <1>4 DEF ReportsInv, AnswerCurrent
<1> QED BY <1>1, <1>5, <1>6 DEF ReportsInv, ReportsTypeOK, AnswerCurrent, Truly

(* The answer is about the order as it is. *)
LEMMA FetchStep ==
    ASSUME OrderReportsAssumption, ReportsInv, UNCHANGED exchange, Fetch
    PROVE  ReportsInv'
<1>1. /\ exchange \in Exchanges /\ trades \in Seq(TradeFacts) /\ canceled \in BOOLEAN
      /\ UNCHANGED <<trades, canceled, reports>> /\ TrueStatus(trades, canceled) \in Calls
      /\ order' = Really(AnswerOf(trades, canceled), trades, canceled)
  BY DEF ReportsInv, ReportsTypeOK, Fetch
<1>2. /\ order' \in Reports /\ Truly(order') /\ order'.executed = Executed(trades)
      /\ order'.status = TrueStatus(trades, canceled)
  BY <1>1, AnswerTrue
<1>3. ReportsTypeOK'
  BY <1>1, <1>2 DEF ReportsInv, ReportsTypeOK
<1>4. Truly(order)'
  BY <1>2 DEF Truly
<1>5. "PARTIALLY_FILLED" \notin Calls => AnswerCurrent'
  <2> SUFFICES ASSUME "PARTIALLY_FILLED" \notin Calls, order'.executed > 0
               PROVE  /\ order'.executed = Executed(trades')
                      /\ order'.status = TrueStatus(trades', canceled') /\ order'.status \in Closed
    BY DEF AnswerCurrent
  <2>1. TrueStatus(trades, canceled) \in Closed
    <3>1. Executed(trades) > 0 /\ Executed(trades) \in 0..Qty /\ Qty \in Nat
      BY <1>1, <1>2, ExecutedQuantity
    <3>2. TrueStatus(trades, canceled) # "NEW" /\ TrueStatus(trades, canceled) # "PARTIALLY_FILLED"
      <4>1. CASE canceled
        BY <1>1, <4>1, TrueStatusCases
      <4>2. CASE ~canceled /\ Executed(trades) < Qty
        BY <1>1, <3>1, <4>2, TrueStatusCases
      <4>3. CASE ~canceled /\ Executed(trades) = Qty
        BY <1>1, <4>3, TrueStatusCases
      <4> QED BY <3>1, <4>1, <4>2, <4>3
    <3> QED BY <1>1, <3>2, TrueStatusCases DEF Closed, Statuses
  <2> QED BY <1>1, <1>2, <2>1
<1> QED BY <1>1, <1>3, <1>4, <1>5 DEF ReportsInv, Forward, Truly, Behind

LEMMA NothingExecutedStep ==
    ASSUME OrderReportsAssumption, ReportsInv, UNCHANGED exchange, NothingExecuted
    PROVE  ReportsInv'
BY DEF ReportsInv, ReportsTypeOK, NothingExecuted, Forward, Truly, Behind, AnswerCurrent

(* Every trade's event is the answer again. *)
LEMMA CreateTradeStreamEventStep ==
    ASSUME OrderReportsAssumption, ReportsInv, UNCHANGED exchange, CreateTradeStreamEvent
    PROVE  ReportsInv'
<1>1. /\ trades \in Seq(TradeFacts) /\ reports \in Seq(Reports) /\ order \in Reports
      /\ Truly(order) /\ ("PARTIALLY_FILLED" \notin Calls => AnswerCurrent)
      /\ UNCHANGED <<trades, canceled>> /\ order # NotFetched /\ order.executed > 0
      /\ reports' = reports \o TradeEvents /\ order' = NotFetched
  BY DEF ReportsInv, ReportsTypeOK, CreateTradeStreamEvent
<1>2. /\ TradeEvents \in Seq(Reports) /\ \A i \in DOMAIN TradeEvents : TradeEvents[i] = order
  <2>1. Len(trades) \in Nat /\ DOMAIN trades = 1..Len(trades)
    BY <1>1, LenProperties
  <2>2. TradeEvents \in [1..Len(trades) -> Reports]
    BY <1>1, <2>1 DEF TradeEvents
  <2> QED BY <2>1, <2>2, SeqDef DEF TradeEvents
<1>3. /\ \A i \in DOMAIN TradeEvents : Truly(TradeEvents[i])
      /\ trades' \in Seq(TradeFacts) /\ Executed(trades) <= Executed(trades')
      /\ "PARTIALLY_FILLED" \notin Calls =>
             /\ TrueStatus(trades, canceled) \in Closed
                     => TrueStatus(trades', canceled') = TrueStatus(trades, canceled)
             /\ \A i \in DOMAIN TradeEvents : /\ TradeEvents[i].executed = Executed(trades')
                                              /\ TradeEvents[i].status = TrueStatus(trades', canceled')
  BY <1>1, <1>2, ExecutedQuantity DEF AnswerCurrent
<1>4. /\ reports' \in Seq(Reports) /\ Forward'
      /\ (\A i \in DOMAIN reports : Truly(reports[i]))'
      /\ "PARTIALLY_FILLED" \notin Calls => (\A i \in DOMAIN reports : Behind(reports[i]))'
  BY <1>1, <1>2, <1>3, ReportsGrow
<1> QED BY <1>1, <1>4 DEF ReportsInv, ReportsTypeOK, AnswerCurrent

LEMMA InitReportsInv ==
    ASSUME OrderReportsAssumption, exchange \in Exchanges, ReportsInit PROVE ReportsInv
<1>1. DOMAIN reports = {} /\ order = NotFetched /\ canceled = FALSE
  BY DEF ReportsInit
<1>2. ReportsTypeOK
  <2>1. trades \in Seq(TradeFacts) /\ reports \in Seq(Reports)
    BY EmptySeq DEF ReportsInit
  <2> QED BY <1>1, <2>1 DEF ReportsTypeOK
<1> QED BY <1>1, <1>2 DEF ReportsInv, Forward, AnswerCurrent

LEMMA ReportsStep ==
    OrderReportsAssumption /\ ReportsInv /\ [ReportsNext]_<<exchange, reportVars>> => ReportsInv'
<1> SUFFICES ASSUME OrderReportsAssumption, ReportsInv, [ReportsNext]_<<exchange, reportVars>>
             PROVE  ReportsInv'
  OBVIOUS
<1>1. CASE UNCHANGED <<exchange, reportVars>>
  BY <1>1 DEF reportVars, ReportsInv, ReportsTypeOK, Forward, Truly, Behind, AnswerCurrent
<1>2. CASE ReportsNext
  <2>1. UNCHANGED exchange
    BY <1>2 DEF ReportsNext
  <2>2. ASSUME NEW qty \in 1..Qty, NEW price \in Prices, Trade(qty, price) PROVE ReportsInv'
    BY <2>1, <2>2, TradeStep
  <2>3. CASE Cancel
    BY <2>1, <2>3, CancelStep
  <2>4. CASE Fetch
    BY <2>1, <2>4, FetchStep
  <2>5. CASE NothingExecuted
    BY <2>1, <2>5, NothingExecutedStep
  <2>6. CASE CreateTradeStreamEvent
    BY <2>1, <2>6, CreateTradeStreamEventStep
  <2> QED BY <1>2, <2>2, <2>3, <2>4, <2>5, <2>6 DEF ReportsNext
<1> QED BY <1>1, <1>2

THEOREM ReportsInvariant ==
    ASSUME OrderReportsAssumption PROVE ReportsSpec => []ReportsInv
<1>1. exchange \in Exchanges /\ ReportsInit => ReportsInv
  BY InitReportsInv
<1>2. ReportsInv /\ [ReportsNext]_<<exchange, reportVars>> => ReportsInv'
  BY ReportsStep
<1> QED BY <1>1, <1>2, PTL DEF ReportsSpec

(* Every report and answer has the status that the order had when it was   *)
(* made, on each of the exchanges, and OKX's also what the trades cost.    *)
THEOREM StatusesAreTrue ==
    ASSUME OrderReportsAssumption PROVE ReportsSpec => []StatusTrue
<1>1. ReportsInv => StatusTrue
  BY DEF ReportsInv, StatusTrue, Truly
<1> QED BY <1>1, ReportsInvariant, PTL

(* Reports never go back, for every order that is fetched only when it is  *)
(* new or closed.                                                          *)
THEOREM ReportsGoForward ==
    ASSUME OrderReportsAssumption PROVE ReportsSpec => []Forward
BY ReportsInvariant, PTL DEF ReportsInv

-----------------------------------------------------------------------------
(* Together *)

OrdersInv == TrackingInv /\ ConfirmInv /\ ReportsInv

(* The modules share the exchange only; a step of one is a step or a       *)
(* stutter of each.                                                        *)
THEOREM OrdersInvariant ==
    ASSUME OrderTrackingAssumption, CancelConfirmAssumption, OrderReportsAssumption
    PROVE  Spec => []OrdersInv
<1>1. Init => OrdersInv
  <2> SUFFICES ASSUME Init PROVE OrdersInv
    OBVIOUS
  <2>1. exchange \in Exchanges
    BY DEF Init, ExchangesOf, Exchanges
  <2>2. TrackingInit /\ ConfirmInit /\ ReportsInit
    BY DEF Init
  <2> QED BY <2>1, <2>2, InitTrackingInv, InitConfirmInv, InitReportsInv DEF OrdersInv
<1>2. OrdersInv /\ [Next]_allVars => OrdersInv'
  <2> SUFFICES ASSUME OrdersInv, [Next]_allVars PROVE OrdersInv'
    OBVIOUS
  <2>1. /\ [TrackingNext]_<<exchange, trackingVars>>
        /\ [ConfirmNext]_<<exchange, confirmVars>>
        /\ [ReportsNext]_<<exchange, reportVars>>
    <3>1. CASE TrackingPart
      BY <3>1 DEF TrackingPart, TrackingNext
    <3>2. CASE ConfirmPart
      BY <3>2 DEF ConfirmPart, ConfirmNext
    <3>3. CASE ReportsPart
      BY <3>3 DEF ReportsPart, ReportsNext
    <3>4. CASE UNCHANGED allVars
      BY <3>4 DEF allVars
    <3> QED BY <3>1, <3>2, <3>3, <3>4 DEF Next
  <2> QED BY <2>1, TrackingStep, ConfirmStep, ReportsStep DEF OrdersInv
<1> QED BY <1>1, <1>2, PTL DEF Spec

(* The variables of all modules about orders hold values of their kinds.   *)
THEOREM OrdersTypes ==
    ASSUME OrderTrackingAssumption, CancelConfirmAssumption, OrderReportsAssumption
    PROVE  Spec => []OrdersTypeOK
<1>1. OrdersInv => OrdersTypeOK
  BY DEF OrdersInv, OrdersTypeOK, TrackingInv, ConfirmInv, ReportsInv
<1> QED BY <1>1, OrdersInvariant, PTL

(* CANCELED is answered of cancelled orders: by CancelOrder of all four    *)
(* exchanges (Bitfinex: of closed ones) and by CancelAllOrders of ByBit.   *)
THEOREM CancelAnswers ==
    ASSUME OrderTrackingAssumption, CancelConfirmAssumption, OrderReportsAssumption
    PROVE  Spec => []CancelAnswerTrue
<1>1. OrdersInv => CancelAnswerTrue
  BY DEF OrdersInv, CancelAnswerTrue, TrackingInv, ConfirmInv
<1> QED BY <1>1, OrdersInvariant, PTL
=============================================================================
