------------------------ MODULE OrderTracking_proofs ------------------------
(***************************************************************************)
(* What is counted of an order on Bitfinex and HTX, for any number of      *)
(* strategies, of orders and of units, whichever connections are lost and  *)
(* in whatever order messages, answers and requests come.                  *)
(***************************************************************************)
EXTENDS OrderTracking, FiniteSetTheorems, TLAPS

ClosedStates == {"filled", "canceled"}

(* Only a placed order is executed; one that is so altogether is closed.   *)
FilledCloses ==
    \A o \in Orders : /\ filled[o] = Size => state[o] = "filled"
                      /\ state[o] = "none" => filled[o] = 0

(* A message about an execution or a closing was sent after it. *)
MessagesTrue ==
    \A s \in Strategies, o \in Orders :
        /\ \A k \in 0..Size :
               <<"trade", o, k>> \in inbox[s] \/ <<"update", o, k>> \in inbox[s] => k \in 1..filled[o]
        /\ <<"closed", o, 0>> \in inbox[s] => state[o] \in ClosedStates

(* An entry counts each execution once; only REST answers add to it. *)
CountedOnce ==
    \A o \in Orders :
        /\ entry[o].ids \subseteq 1..filled[o]
        /\ Cardinality(entry[o].ids) <= entry[o].exec
        /\ o \notin fetched => entry[o].exec = Cardinality(entry[o].ids)

ClosedMarked == \A o \in Orders : entry[o].cancelled => state[o] \in ClosedStates

(* On Bitfinex the quantity of an order is in its entry, or in the one     *)
(* under its client order id, from which its first execution takes it.     *)
QuantityKnown ==
    \A o \in Orders :
        exchange = "bitfinex" /\ o \notin fetched /\ (pc[o] = "creating" \/ state[o] # "none")
            => entry[o].orig = Size \/ o \in cids

(* A REST answer may be old, but what it says was true and remains so. *)
AnswersTrue ==
    \A o \in Orders :
        /\ snap[o][2] <= filled[o]
        /\ snap[o][1] = "FILLED" => state[o] = "filled"
        /\ snap[o][1] = "CANCELED" => state[o] = "canceled"

(* An execution is counted or some connection has still to hear of it. *)
NoneMissed ==
    \A o \in Orders :
        (/\ "open" \in Fetches => \A s \in Strategies : o \in Listed[s]
         /\ losses = 0 /\ state[o] = "open")
        => \A k \in 1..filled[o] :
               k \in entry[o].ids \/ \E s \in Strategies : <<"trade", o, k>> \in inbox[s]

TrackingInv ==
    /\ TrackingTypeOK /\ FilledCloses /\ MessagesTrue /\ CountedOnce /\ ClosedMarked
    /\ QuantityKnown /\ AnswersTrue /\ NoneMissed /\ ReportTrue /\ CancelledIsClosed

-----------------------------------------------------------------------------
(* The operators on entries *)

(* active_order changes an entry's quantity once and never lowers what is  *)
(* executed.                                                               *)
LEMMA ActiveOrder ==
    ASSUME OrderTrackingAssumption, NEW e \in Entries, NEW quantity \in {0, Size}, NEW x \in Nat
    PROVE  LET f == active_order(e, quantity, x)
           IN  /\ f \in Entries /\ f.ids = e.ids /\ f.cancelled = e.cancelled
               /\ f.orig = (IF e.orig = 0 THEN quantity ELSE e.orig)
               /\ f.exec = (IF e.exec < x THEN x ELSE e.exec)
BY DEF active_order, Entries

(* A set of numbers of executions has as many as there were at most. *)
LEMMA IdsFinite ==
    ASSUME NEW n \in Nat, NEW S \in SUBSET (1..n)
    PROVE  IsFiniteSet(S) /\ Cardinality(S) \in Nat /\ Cardinality(S) <= n
<1>1. IsFiniteSet(1..n) /\ Cardinality(1..n) = n
  BY FS_Interval
<1>2. IsFiniteSet(S) /\ Cardinality(S) <= Cardinality(1..n)
  BY <1>1, FS_Subset
<1> QED BY <1>1, <1>2, FS_CardinalityType

(* An execution is counted once. *)
LEMMA CountedEntry ==
    ASSUME OrderTrackingAssumption, NEW e \in Entries, NEW k \in 1..Size
    PROVE  LET f == Counted(e, k)
           IN  /\ f \in Entries /\ f.ids = e.ids \cup {k} /\ f.cancelled = e.cancelled
               /\ f.orig = e.orig
               /\ Cardinality(e.ids) <= e.exec => Cardinality(f.ids) <= f.exec
               /\ Cardinality(e.ids) = e.exec => Cardinality(f.ids) = f.exec
<1>1. CASE k \in e.ids
  BY <1>1 DEF Counted
<1>2. CASE k \notin e.ids
  <2> DEFINE f == [e EXCEPT !.ids = @ \cup {k}, !.exec = @ + 1]
  <2>1. Counted(e, k) = f
    BY <1>2 DEF Counted
  <2>2. f \in Entries /\ f.ids = e.ids \cup {k} /\ f.exec = e.exec + 1 /\ f.orig = e.orig
        /\ f.cancelled = e.cancelled
    <3>1. e.exec + 1 \in Nat /\ e.ids \cup {k} \in SUBSET (1..Size)
      BY DEF Entries
    <3>2. f.ids = e.ids \cup {k} /\ f.exec = e.exec + 1
      BY DEF Entries
    <3>3. f.orig = e.orig /\ f.cancelled = e.cancelled
      BY DEF Entries
    <3>4. f \in Entries
      BY <3>1 DEF Entries
    <3> QED BY <3>2, <3>3, <3>4
  <2>3. IsFiniteSet(e.ids) /\ Cardinality(e.ids) \in Nat
    BY IdsFinite DEF Entries, OrderTrackingAssumption
  <2>4. Cardinality(e.ids \cup {k}) = Cardinality(e.ids) + 1
    BY <1>2, <2>3, FS_AddElement
  <2> QED BY <2>1, <2>2, <2>3, <2>4 DEF Entries
<1> QED BY <1>1, <1>2

(* The status an event or an answer gets from the quantities. *)
LEMMA StatusOfQuantity ==
    ASSUME NEW orig \in Nat, NEW exec \in Nat
    PROVE  LET st == QuantityStatus(orig, exec)
           IN  st \in Statuses /\ st # "CANCELED" /\ (st = "FILLED" => exec >= orig)
BY DEF QuantityStatus, Statuses

LEMMA InitTrackingInv == OrderTrackingAssumption /\ TrackingInit => TrackingInv
<1> SUFFICES ASSUME OrderTrackingAssumption, TrackingInit PROVE TrackingInv
  OBVIOUS
<1>1. TrackingTypeOK
  BY DEF TrackingInit, TrackingTypeOK, OrderTrackingAssumption, Entries, NoEntry, NoAnswer, Statuses
<1>2. FilledCloses /\ MessagesTrue /\ ClosedMarked /\ NoneMissed
  BY DEF TrackingInit, FilledCloses, MessagesTrue, ClosedMarked, NoneMissed, NoEntry,
         OrderTrackingAssumption
<1>5. QuantityKnown
  BY DEF TrackingInit, QuantityKnown
<1>6. AnswersTrue
  BY DEF TrackingInit, AnswersTrue, NoAnswer
<1>3. ReportTrue /\ CancelledIsClosed
  BY DEF TrackingInit, ReportTrue, CancelledIsClosed
<1>4. CountedOnce
  <2>1. \A o \in Orders : entry[o].ids = {} /\ entry[o].exec = 0
    BY DEF TrackingInit, NoEntry
  <2>2. \A o \in Orders : Cardinality(entry[o].ids) = 0
    BY <2>1, FS_EmptySet
  <2> QED BY <2>1, <2>2 DEF CountedOnce
<1> QED BY <1>1, <1>2, <1>3, <1>4, <1>5, <1>6 DEF TrackingInv

-----------------------------------------------------------------------------
(* The exchange *)

LEMMA PlaceStep ==
    ASSUME OrderTrackingAssumption, TrackingInv, NEW o \in Orders, Place(o), UNCHANGED exchange
    PROVE  TrackingInv'
<1> USE DEF TrackingInv, Place, Send, placed, known, request, history
<1>1. TrackingTypeOK'
  BY DEF TrackingTypeOK, Kinds, OrderTrackingAssumption
<1>2. FilledCloses' /\ ClosedMarked' /\ AnswersTrue' /\ CancelledIsClosed' /\ CountedOnce' /\ ReportTrue'
  BY DEF FilledCloses, ClosedMarked, AnswersTrue, CancelledIsClosed, CountedOnce, ReportTrue, TrackingTypeOK,
         ClosedStates
<1>3. MessagesTrue'
  BY DEF MessagesTrue, TrackingTypeOK, ClosedStates
<1>4. QuantityKnown'
  BY DEF QuantityKnown, TrackingTypeOK
<1>5. NoneMissed'
  <2>1. \A q \in Orders : state'[q] = "open" => state[q] = "open" \/ (q = o /\ filled[q] = 0)
    BY DEF TrackingTypeOK, FilledCloses
  <2>2. \A s \in Strategies : inbox[s] \subseteq inbox'[s]
    OBVIOUS
  <2> QED BY <2>1, <2>2 DEF NoneMissed, TrackingTypeOK
<1> QED BY <1>1, <1>2, <1>3, <1>4, <1>5

LEMMA FillStep ==
    ASSUME OrderTrackingAssumption, TrackingInv, NEW o \in Orders, Fill(o), UNCHANGED exchange
    PROVE  TrackingInv'
<1> USE DEF TrackingInv, Fill, known, request, history
<1> DEFINE k == filled[o] + 1
<1>1. /\ state[o] = "open" /\ filled[o] \in 0..Size /\ filled[o] # Size
      /\ k \in 1..Size
  <2>1. state[o] = "open"
    OBVIOUS
  <2>2. filled[o] \in 0..Size /\ Size \in Nat
    BY DEF TrackingTypeOK, OrderTrackingAssumption
  <2>3. filled[o] # Size
    BY <2>1 DEF FilledCloses
  <2> QED BY <2>1, <2>2, <2>3
<1>2. /\ \A q \in Orders : filled'[q] = IF q = o THEN k ELSE filled[q]
      /\ \A q \in Orders : state'[q] = IF q = o /\ k = Size THEN "filled" ELSE state[q]
      /\ UNCHANGED <<entry, cids, snap, answer, told, fetched, pc, losses>>
  BY DEF TrackingTypeOK
<1>3. \A s \in Strategies :
        /\ inbox[s] \subseteq inbox'[s]
        /\ \A m \in inbox'[s] : m \in inbox[s] \/ m \in {<<"trade", o, k>>, <<"update", o, k>>}
                                                \/ (m = <<"closed", o, 0>> /\ k = Size)
        /\ o \in Watched(s) => <<"trade", o, k>> \in inbox'[s]
  OBVIOUS
<1>4. TrackingTypeOK'
  <2>1. inbox' \in [Strategies -> SUBSET (Kinds \X Orders \X (0..Size))]
    <3>1. /\ <<"trade", o, k>> \in Kinds \X Orders \X (0..Size)
          /\ <<"update", o, k>> \in Kinds \X Orders \X (0..Size)
          /\ <<"closed", o, 0>> \in Kinds \X Orders \X (0..Size)
      BY <1>1 DEF Kinds, OrderTrackingAssumption
    <3>2. \A s \in Strategies : inbox'[s] \in SUBSET (Kinds \X Orders \X (0..Size))
      BY <1>3, <3>1 DEF TrackingTypeOK
    <3> QED BY <3>2
  <2>2. state' \in [Orders -> {"none", "open", "filled", "canceled"}] /\ filled' \in [Orders -> 0..Size]
    BY <1>1 DEF TrackingTypeOK
  <2> QED BY <1>2, <2>1, <2>2 DEF TrackingTypeOK
<1>5. FilledCloses' /\ ClosedMarked' /\ AnswersTrue' /\ CancelledIsClosed' /\ ReportTrue' /\ QuantityKnown'
  BY <1>1, <1>2 DEF FilledCloses, ClosedMarked, AnswersTrue, CancelledIsClosed, ReportTrue, QuantityKnown,
                    TrackingTypeOK, ClosedStates
<1>6. CountedOnce'
  BY <1>1, <1>2 DEF CountedOnce, TrackingTypeOK
<1>7. MessagesTrue'
  <2> SUFFICES ASSUME NEW s \in Strategies, NEW q \in Orders
               PROVE  /\ \A j \in 0..Size : <<"trade", q, j>> \in inbox'[s] \/ <<"update", q, j>> \in inbox'[s]
                                               => j \in 1..filled'[q]
                      /\ <<"closed", q, 0>> \in inbox'[s] => state'[q] \in ClosedStates
    BY DEF MessagesTrue
  <2>1. \A j \in 0..Size : /\ <<"trade", q, j>> \in inbox'[s] =>
                                   <<"trade", q, j>> \in inbox[s] \/ (q = o /\ j = k)
                          /\ <<"update", q, j>> \in inbox'[s] =>
                                   <<"update", q, j>> \in inbox[s] \/ (q = o /\ j = k)
    BY <1>3
  <2>2. <<"closed", q, 0>> \in inbox'[s] => <<"closed", q, 0>> \in inbox[s] \/ (q = o /\ k = Size)
    BY <1>3
  <2>3. \A j \in 0..Size : j \in 1..filled[q] => j \in 1..filled'[q]
    BY <1>1, <1>2 DEF TrackingTypeOK
  <2> QED BY <1>1, <1>2, <2>1, <2>2, <2>3 DEF MessagesTrue, ClosedStates
<1>8. NoneMissed'
  <2>1. \E s \in Strategies : <<"trade", o, k>> \in inbox'[s]
    BY <1>3 DEF Watched, OrderTrackingAssumption
  <2>2. \A q \in Orders : \A j \in 1..filled'[q] : j \in 1..filled[q] \/ (q = o /\ j = k)
    BY <1>1, <1>2 DEF TrackingTypeOK
  <2>3. \A q \in Orders : state'[q] = "open" => state[q] = "open"
    BY <1>2
  <2> QED BY <1>2, <1>3, <2>1, <2>2, <2>3 DEF NoneMissed
<1> QED BY <1>4, <1>5, <1>6, <1>7, <1>8

LEMMA CancelTakesEffectStep ==
    ASSUME OrderTrackingAssumption, TrackingInv, NEW o \in Orders, CancelTakesEffect(o), UNCHANGED exchange
    PROVE  TrackingInv'
<1> USE DEF TrackingInv, CancelTakesEffect, Send, known, request, history
<1>1. TrackingTypeOK'
  BY DEF TrackingTypeOK, Kinds, OrderTrackingAssumption
<1>2. FilledCloses' /\ ClosedMarked' /\ AnswersTrue' /\ CancelledIsClosed' /\ CountedOnce' /\ ReportTrue'
  BY DEF FilledCloses, ClosedMarked, AnswersTrue, CancelledIsClosed, CountedOnce, ReportTrue, TrackingTypeOK,
         ClosedStates
<1>3. MessagesTrue'
  BY DEF MessagesTrue, TrackingTypeOK, ClosedStates
<1>4. QuantityKnown'
  BY DEF QuantityKnown, TrackingTypeOK
<1>5. NoneMissed'
  <2>1. /\ \A q \in Orders : state'[q] = "open" => state[q] = "open"
        /\ \A s \in Strategies : inbox[s] \subseteq inbox'[s]
    BY DEF TrackingTypeOK
  <2> QED BY <2>1 DEF NoneMissed, TrackingTypeOK
<1> QED BY <1>1, <1>2, <1>3, <1>4, <1>5

LEMMA ReconnectStep ==
    ASSUME OrderTrackingAssumption, TrackingInv, NEW r \in Strategies, Reconnect(r), UNCHANGED exchange
    PROVE  TrackingInv'
<1> USE DEF TrackingInv, Reconnect, placed, request, history
<1>1. TrackingTypeOK'
  BY DEF TrackingTypeOK, OrderTrackingAssumption
<1>2. FilledCloses' /\ ClosedMarked' /\ AnswersTrue' /\ CancelledIsClosed' /\ CountedOnce' /\ ReportTrue'
  BY DEF FilledCloses, ClosedMarked, AnswersTrue, CancelledIsClosed, CountedOnce, ReportTrue
<1>3. MessagesTrue'
  BY DEF MessagesTrue, TrackingTypeOK
<1>4. QuantityKnown' /\ NoneMissed'
  BY DEF QuantityKnown, NoneMissed, TrackingTypeOK
<1> QED BY <1>1, <1>2, <1>3, <1>4

-----------------------------------------------------------------------------
(* The requests *)

(* Requests that change no entry. *)
LEMMA PlainRequestStep ==
    ASSUME OrderTrackingAssumption, TrackingInv, NEW o \in Orders, UNCHANGED exchange,
           CreateOrder(o) \/ FetchOrder(o) \/ CancelOrder(o) \/ BfxCancelled(o) \/ GiveUp(o)
           \/ LifeTimeOver(o)
    PROVE  TrackingInv'
<1> USE DEF TrackingInv, placed, known, request, history
<1>1. UNCHANGED <<state, filled, inbox, entry, told, fetched, losses>>
  BY DEF CreateOrder, FetchOrder, CancelOrder, BfxCancelled, GiveUp, LifeTimeOver
<1>2. FilledCloses' /\ MessagesTrue' /\ CountedOnce' /\ ClosedMarked' /\ NoneMissed' /\ ReportTrue'
  BY <1>1 DEF FilledCloses, MessagesTrue, CountedOnce, ClosedMarked, NoneMissed, ReportTrue
<1>3. CASE CreateOrder(o)
  <2>1. TrackingTypeOK' /\ QuantityKnown'
    BY <1>3 DEF CreateOrder, TrackingTypeOK, QuantityKnown
  <2>2. AnswersTrue' /\ CancelledIsClosed'
    BY <1>3 DEF CreateOrder, AnswersTrue, CancelledIsClosed
  <2> QED BY <1>2, <2>1, <2>2
<1>4. CASE FetchOrder(o)
  <2>1. filled[o] \in 0..Size /\ Size \in Nat /\ filled[o] \in Nat
    BY DEF TrackingTypeOK, OrderTrackingAssumption
  <2>6. LET st == QuantityStatus(Size, filled[o])
        IN  st \in Statuses /\ st # "CANCELED" /\ (st = "FILLED" => filled[o] >= Size)
    BY <2>1, StatusOfQuantity
  <2>7. RestStatus(o) \in Statuses
    BY <2>6 DEF RestStatus, Statuses
  <2>2. TrackingTypeOK'
    BY <1>4, <2>1, <2>7 DEF FetchOrder, TrackingTypeOK
  <2>3. /\ RestStatus(o) = "FILLED" => state[o] = "filled"
        /\ RestStatus(o) = "CANCELED" => state[o] = "canceled"
    BY <2>1, <2>6 DEF RestStatus, FilledCloses
  <2>4. AnswersTrue'
    BY <1>1, <1>4, <2>1, <2>3 DEF FetchOrder, AnswersTrue, TrackingTypeOK
  <2>5. QuantityKnown' /\ CancelledIsClosed'
    BY <1>4 DEF FetchOrder, QuantityKnown, CancelledIsClosed, TrackingTypeOK
  <2> QED BY <1>2, <2>2, <2>4, <2>5
<1>5. CASE CancelOrder(o)
  <2>1. TrackingTypeOK' /\ QuantityKnown'
    BY <1>5 DEF CancelOrder, TrackingTypeOK, QuantityKnown
  <2>2. AnswersTrue' /\ CancelledIsClosed'
    BY <1>5 DEF CancelOrder, AnswersTrue, CancelledIsClosed
  <2> QED BY <1>2, <2>1, <2>2
<1>6. CASE BfxCancelled(o)
  <2>1. TrackingTypeOK' /\ QuantityKnown'
    BY <1>6 DEF BfxCancelled, TrackingTypeOK, QuantityKnown, Statuses
  <2>2. AnswersTrue' /\ CancelledIsClosed'
    BY <1>6 DEF BfxCancelled, AnswersTrue, CancelledIsClosed, ClosedMarked, ClosedStates, TrackingTypeOK
  <2> QED BY <1>2, <2>1, <2>2
<1>7. CASE GiveUp(o)
  <2>1. TrackingTypeOK' /\ QuantityKnown'
    BY <1>7 DEF GiveUp, TrackingTypeOK, QuantityKnown, NoAnswer, Statuses, OrderTrackingAssumption
  <2>2. AnswersTrue' /\ CancelledIsClosed'
    BY <1>7 DEF GiveUp, AnswersTrue, CancelledIsClosed, TrackingTypeOK, NoAnswer
  <2> QED BY <1>2, <2>1, <2>2
<1>8. CASE LifeTimeOver(o)
  <2>1. TrackingTypeOK' /\ QuantityKnown'
    BY <1>8 DEF LifeTimeOver, TrackingTypeOK, QuantityKnown
  <2>2. AnswersTrue' /\ CancelledIsClosed'
    BY <1>8 DEF LifeTimeOver, AnswersTrue, CancelledIsClosed
  <2> QED BY <1>2, <2>1, <2>2
<1> QED BY <1>3, <1>4, <1>5, <1>6, <1>7, <1>8

LEMMA CancelAllOrdersStep ==
    ASSUME OrderTrackingAssumption, TrackingInv, NEW s \in Strategies, UNCHANGED exchange, CancelAllOrders(s)
    PROVE  TrackingInv'
<1> USE DEF TrackingInv, placed, known, request, history, CancelAllOrders
<1>1. UNCHANGED <<state, filled, inbox, entry, told, fetched, losses, pc, snap, cids>>
  OBVIOUS
<1>2. FilledCloses' /\ MessagesTrue' /\ CountedOnce' /\ ClosedMarked' /\ NoneMissed' /\ ReportTrue'
  BY <1>1 DEF FilledCloses, MessagesTrue, CountedOnce, ClosedMarked, NoneMissed, ReportTrue
<1>3. AnswersTrue' /\ QuantityKnown' /\ CancelledIsClosed'
  BY <1>1 DEF AnswersTrue, QuantityKnown, CancelledIsClosed, TrackingTypeOK
<1>4. TrackingTypeOK'
  <2>1. asked' \subseteq Orders
    BY DEF TrackingTypeOK, OrderTrackingAssumption
  <2>2. answer' \in [Orders -> Statuses \cup {"none", "empty", "accepted"}]
    BY DEF TrackingTypeOK
  <2> QED BY <1>1, <2>1, <2>2 DEF TrackingTypeOK
<1> QED BY <1>2, <1>3, <1>4

(* The answer to CreateOrder: on Bitfinex it makes the order's entry.      *)
LEMMA CreatedStep ==
    ASSUME OrderTrackingAssumption, TrackingInv, NEW o \in Orders, UNCHANGED exchange, Created(o)
    PROVE  TrackingInv'
<1> USE DEF TrackingInv, placed, history, Created
<1>1. UNCHANGED <<state, filled, inbox, told, fetched, losses, snap, answer, cids>>
  OBVIOUS
<1>2. FilledCloses' /\ MessagesTrue' /\ ReportTrue' /\ AnswersTrue' /\ CancelledIsClosed'
  BY <1>1 DEF FilledCloses, MessagesTrue, ReportTrue, AnswersTrue, CancelledIsClosed
<1>3. CASE UNCHANGED <<entry, old>> /\ exchange = "huobi" /\ pc' = [pc EXCEPT ![o] = "settling"]
  <2>1. TrackingTypeOK'
    BY <1>1, <1>3 DEF TrackingTypeOK
  <2>2. CountedOnce' /\ ClosedMarked' /\ NoneMissed' /\ QuantityKnown'
    BY <1>1, <1>3 DEF CountedOnce, ClosedMarked, NoneMissed, QuantityKnown
  <2> QED BY <1>2, <2>1, <2>2
<1>4. CASE Keep(o, active_order(entry[o], Size, 0)) /\ pc' = [pc EXCEPT ![o] = "idle"]
  <2> DEFINE e == active_order(entry[o], Size, 0)
  <2>1. entry[o] \in Entries /\ entry[o].exec \in Nat /\ Size \in {0, Size}
    BY DEF TrackingTypeOK, Entries
  <2>2. /\ e \in Entries /\ e.ids = entry[o].ids /\ e.cancelled = entry[o].cancelled
        /\ e.orig = Size /\ e.exec = entry[o].exec
    BY <2>1, ActiveOrder DEF Entries
  <2> HIDE DEF e
  <2>3. /\ \A q \in Orders : /\ entry'[q].ids = entry[q].ids /\ entry'[q].exec = entry[q].exec
                             /\ entry'[q].cancelled = entry[q].cancelled
                             /\ entry'[q].orig = IF q = o THEN Size ELSE entry[q].orig
        /\ entry' \in [Orders -> Entries] /\ old' \subseteq Orders
    BY <1>4, <2>2 DEF Keep, TrackingTypeOK, e
  <2>4. TrackingTypeOK'
    BY <1>1, <1>4, <2>3 DEF TrackingTypeOK
  <2>5. CountedOnce' /\ ClosedMarked' /\ NoneMissed'
    BY <1>1, <2>3 DEF CountedOnce, ClosedMarked, NoneMissed
  <2>6. QuantityKnown'
    BY <1>1, <1>4, <2>3 DEF QuantityKnown, TrackingTypeOK
  <2> QED BY <1>2, <2>4, <2>5, <2>6
<1> QED BY <1>3, <1>4

(* An answer raises what an entry counts only if the entry is marked.      *)
LEMMA ApplyStep ==
    ASSUME OrderTrackingAssumption, TrackingInv, NEW o \in Orders, UNCHANGED exchange, Apply(o)
    PROVE  TrackingInv'
<1> USE DEF TrackingInv
<1> DEFINE e == active_order(entry[o], Size, snap[o][2])
<1>1. UNCHANGED <<state, filled, inbox, losses, cids, asked, held>>
  BY DEF Apply, placed
<1>6. /\ pc' = [pc EXCEPT ![o] = "idle"] /\ snap' = [snap EXCEPT ![o] = NoAnswer]
      /\ answer' = [answer EXCEPT ![o] = IF pc[o] = "cancelled" THEN snap[o][1] ELSE @]
      /\ entry' = [entry EXCEPT ![o] = e] /\ old' = old \ {o} /\ fetched' = Disturbed(o)
  BY DEF Apply, Keep
<1>9. \/ told' = told
      \/ told' = [told EXCEPT ![Owner[o]][o] = snap[o]]
  BY DEF Apply
<1>2. /\ entry[o] \in Entries /\ entry[o].exec \in Nat /\ Size \in {0, Size}
      /\ snap[o] \in Statuses \X (0..Size) /\ snap[o][2] \in Nat
  BY DEF TrackingTypeOK, Entries, OrderTrackingAssumption
<1>3. /\ e \in Entries /\ e.ids = entry[o].ids /\ e.cancelled = entry[o].cancelled
      /\ e.orig = Size /\ e.exec = IF entry[o].exec < snap[o][2] THEN snap[o][2] ELSE entry[o].exec
  BY <1>2, ActiveOrder DEF Entries
<1> HIDE DEF e
<1>4. /\ \A q \in Orders : /\ entry'[q].ids = entry[q].ids /\ entry'[q].cancelled = entry[q].cancelled
                           /\ entry'[q].orig = IF q = o THEN Size ELSE entry[q].orig
                           /\ entry'[q].exec >= entry[q].exec
                           /\ q \notin fetched' => entry'[q].exec = entry[q].exec
                           /\ entry[q].exec \in Nat
      /\ fetched \subseteq fetched' /\ fetched' \subseteq Orders
      /\ entry' \in [Orders -> Entries] /\ old' \subseteq Orders
  <2>1. \A q \in Orders : entry'[q] = (IF q = o THEN e ELSE entry[q]) /\ entry[q].exec \in Nat
    BY <1>6 DEF TrackingTypeOK, Entries
  <2>2. fetched' = fetched \/ fetched' = fetched \cup {o}
    BY <1>6 DEF Disturbed
  <2>3. o \notin fetched' => entry'[o].exec = entry[o].exec
    BY <1>6 DEF Disturbed
  <2>4. entry' \in [Orders -> Entries] /\ old' \subseteq Orders
    BY <1>3, <1>6 DEF TrackingTypeOK
  <2>5. /\ entry'[o] = e /\ entry[o].exec \in Nat /\ e.exec >= entry[o].exec
        /\ \A q \in Orders : q # o => entry'[q] = entry[q]
    BY <1>2, <1>3, <2>1
  <2>6. fetched \subseteq fetched' /\ fetched' \subseteq Orders
    BY <2>2 DEF TrackingTypeOK
  <2> SUFFICES ASSUME NEW q \in Orders
               PROVE  /\ entry'[q].ids = entry[q].ids /\ entry'[q].cancelled = entry[q].cancelled
                      /\ entry'[q].orig = IF q = o THEN Size ELSE entry[q].orig
                      /\ entry'[q].exec >= entry[q].exec
                      /\ q \notin fetched' => entry'[q].exec = entry[q].exec
                      /\ entry[q].exec \in Nat
    BY <2>4, <2>6
  <2>7. CASE q = o
    BY <1>3, <2>3, <2>5, <2>7
  <2>8. CASE q # o
    <3>1. entry'[q] = entry[q] /\ entry[q].exec \in Nat
      BY <2>1, <2>8
    <3> QED BY <2>8, <3>1
  <2> QED BY <2>7, <2>8
<1>5. CountedOnce' /\ ClosedMarked' /\ NoneMissed' /\ FilledCloses' /\ MessagesTrue'
  <2>1. FilledCloses' /\ MessagesTrue' /\ ClosedMarked' /\ NoneMissed'
    BY <1>1, <1>4 DEF FilledCloses, MessagesTrue, ClosedMarked, NoneMissed
  <2>2. \A q \in Orders : Cardinality(entry[q].ids) \in Nat
    BY IdsFinite DEF TrackingTypeOK, Entries, OrderTrackingAssumption
  <2>3. CountedOnce'
    <3>1. \A q \in Orders : /\ entry[q].ids \subseteq 1..filled[q] /\ Cardinality(entry[q].ids) <= entry[q].exec
                            /\ q \notin fetched => entry[q].exec = Cardinality(entry[q].ids)
      BY DEF CountedOnce
    <3>2. \A q \in Orders : entry'[q].exec \in Nat
      BY <1>4 DEF Entries
    <3> SUFFICES ASSUME NEW q \in Orders
                 PROVE  /\ entry'[q].ids \subseteq 1..filled'[q]
                        /\ Cardinality(entry'[q].ids) <= entry'[q].exec
                        /\ q \notin fetched' => entry'[q].exec = Cardinality(entry'[q].ids)
      BY DEF CountedOnce
    <3> QED BY <1>1, <1>4, <2>2, <3>1, <3>2
  <2> QED BY <2>1, <2>3
<1>7. QuantityKnown'
  BY <1>1, <1>2, <1>4, <1>6 DEF QuantityKnown, TrackingTypeOK, FilledCloses
<1>8. AnswersTrue' /\ CancelledIsClosed'
  BY <1>1, <1>2, <1>6 DEF AnswersTrue, CancelledIsClosed, NoAnswer, TrackingTypeOK
<1>10. ReportTrue'
  <2>1. Owner[o] \in Strategies /\ snap[o][2] <= filled[o] /\ (snap[o][1] = "FILLED" => state[o] = "filled")
    BY DEF OrderTrackingAssumption, AnswersTrue
  <2>2. \A s \in Strategies, q \in Orders :
          told'[s][q] = told[s][q] \/ (q = o /\ told'[s][q] = snap[o])
    <3> SUFFICES ASSUME NEW s \in Strategies, NEW q \in Orders
                 PROVE  told'[s][q] = told[s][q] \/ (q = o /\ told'[s][q] = snap[o])
      OBVIOUS
    <3>1. CASE told' = [told EXCEPT ![Owner[o]][o] = snap[o]]
      <4>1. told'[s] = told[s] \/ told'[s] = [told[s] EXCEPT ![o] = snap[o]]
        BY <2>1, <3>1 DEF TrackingTypeOK
      <4>2. DOMAIN told[s] = Orders
        BY DEF TrackingTypeOK
      <4> QED BY <4>1, <4>2
    <3> QED BY <1>9, <3>1
  <2> QED BY <1>1, <1>4, <2>1, <2>2 DEF ReportTrue
<1>11. TrackingTypeOK'
  <2>1. told' \in [Strategies -> [Orders -> (Statuses \cup {"none"}) \X Nat]]
    <3>1. snap[o] \in (Statuses \cup {"none"}) \X Nat
      BY <1>2 DEF OrderTrackingAssumption
    <3>2. Owner[o] \in Strategies
      BY DEF OrderTrackingAssumption
    <3>3. CASE told' = [told EXCEPT ![Owner[o]][o] = snap[o]]
      <4>1. told[Owner[o]] \in [Orders -> (Statuses \cup {"none"}) \X Nat]
        BY <3>2 DEF TrackingTypeOK
      <4>2. [told[Owner[o]] EXCEPT ![o] = snap[o]] \in [Orders -> (Statuses \cup {"none"}) \X Nat]
        BY <3>1, <4>1
      <4> QED BY <3>2, <3>3, <4>2 DEF TrackingTypeOK
    <3> QED BY <1>9, <3>3 DEF TrackingTypeOK
  <2>2. /\ pc' \in [Orders -> {"idle", "creating", "settling", "fetched", "created", "cancelling", "cancelled"}]
        /\ snap' \in [Orders -> Statuses \X (0..Size)]
        /\ answer' \in [Orders -> Statuses \cup {"none", "empty", "accepted"}]
    BY <1>2, <1>6 DEF TrackingTypeOK, NoAnswer, Statuses, OrderTrackingAssumption
  <2> QED BY <1>1, <1>4, <2>1, <2>2 DEF TrackingTypeOK
<1> QED BY <1>5, <1>7, <1>8, <1>10, <1>11

(* Entries that are cleared belong to orders that are closed or that some  *)
(* strategy does not list.                                                 *)
LEMMA FetchOpenOrdersStep ==
    ASSUME OrderTrackingAssumption, TrackingInv, NEW s \in Strategies, UNCHANGED exchange, FetchOpenOrders(s)
    PROVE  TrackingInv'
<1> USE DEF TrackingInv
<1> DEFINE found == {o \in Listed[s] : state[o] = "open"}
           e(o) == active_order(entry[o], Size, filled[o])
<1>1. UNCHANGED <<state, filled, inbox, losses, asked, held, pc, snap, answer, told>>
  BY DEF FetchOpenOrders, placed, request
<1>2. /\ "open" \in Fetches /\ cids' \subseteq cids /\ old' = {}
      /\ entry' = [o \in Orders |-> CASE o \in found       -> e(o)
                                       [] o \in old \ found -> NoEntry
                                       [] OTHER             -> entry[o]]
      /\ fetched' = fetched \cup {o \in Orders : entry'[o] # entry[o] \/ (o \in cids) # (o \in cids')}
  BY DEF FetchOpenOrders
<1>3. \A o \in Orders : /\ entry[o] \in Entries /\ entry[o].exec \in Nat /\ Cardinality(entry[o].ids) \in Nat
                        /\ filled[o] \in 0..Size /\ filled[o] \in Nat /\ Size \in Nat
  BY IdsFinite DEF TrackingTypeOK, Entries, OrderTrackingAssumption
<1>4. \A o \in Orders :
        /\ e(o) \in Entries /\ e(o).ids = entry[o].ids /\ e(o).cancelled = entry[o].cancelled
        /\ e(o).exec = IF entry[o].exec < filled[o] THEN filled[o] ELSE entry[o].exec
  BY <1>3, ActiveOrder
<1> HIDE DEF e
<1>5. NoEntry \in Entries /\ NoEntry.ids = {} /\ NoEntry.exec = 0 /\ ~NoEntry.cancelled /\ Cardinality({}) = 0
  BY FS_EmptySet DEF NoEntry, Entries
<1>6. \A o \in Orders :
        /\ entry'[o] = entry[o] \/ (o \in found /\ entry'[o] = e(o)) \/ (o \notin found /\ entry'[o] = NoEntry)
        /\ o \in found => entry'[o] = e(o)
  BY <1>2
<1>7. fetched \subseteq fetched' /\ fetched' \subseteq Orders
  BY <1>2 DEF TrackingTypeOK
<1>8. \A o \in Orders : o \notin fetched' =>
        o \notin fetched /\ entry'[o] = entry[o] /\ ((o \in cids) <=> (o \in cids'))
  BY <1>2
<1>9. TrackingTypeOK'
  <2>1. \A o \in Orders : entry'[o] \in Entries
    BY <1>3, <1>4, <1>5, <1>6
  <2>2. entry' \in [Orders -> Entries]
    BY <1>2, <2>1
  <2> QED BY <1>1, <1>2, <1>7, <2>2 DEF TrackingTypeOK
<1>10. FilledCloses' /\ MessagesTrue' /\ AnswersTrue' /\ CancelledIsClosed'
  BY <1>1 DEF FilledCloses, MessagesTrue, AnswersTrue, CancelledIsClosed
<1>11. ClosedMarked'
  BY <1>1, <1>4, <1>5, <1>6 DEF ClosedMarked
<1>12. QuantityKnown'
  BY <1>1, <1>8 DEF QuantityKnown
<1>13. ReportTrue'
  BY <1>1, <1>7 DEF ReportTrue
<1>14. CountedOnce'
  <2> SUFFICES ASSUME NEW o \in Orders
               PROVE  /\ entry'[o].ids \subseteq 1..filled'[o]
                      /\ Cardinality(entry'[o].ids) <= entry'[o].exec
                      /\ o \notin fetched' => entry'[o].exec = Cardinality(entry'[o].ids)
    BY DEF CountedOnce
  <2>1. /\ entry[o].ids \subseteq 1..filled[o] /\ Cardinality(entry[o].ids) <= entry[o].exec
        /\ o \notin fetched => entry[o].exec = Cardinality(entry[o].ids)
    BY DEF CountedOnce
  <2>2. CASE entry'[o] = entry[o]
    BY <1>1, <1>8, <2>1, <2>2
  <2>3. CASE entry'[o] = NoEntry
    BY <1>1, <1>5, <2>3
  <2>4. CASE entry'[o] = e(o)
    <3>1. e(o).exec >= entry[o].exec /\ e(o).exec \in Nat
      BY <1>3, <1>4
    <3> QED BY <1>1, <1>3, <1>4, <1>8, <2>1, <2>4, <3>1
  <2> QED BY <1>6, <2>2, <2>3, <2>4
<1>15. NoneMissed'
  <2> SUFFICES ASSUME NEW o \in Orders, \A r \in Strategies : o \in Listed[r], losses = 0, state[o] = "open",
                      NEW k \in 1..filled[o]
               PROVE  k \in entry'[o].ids \/ \E r \in Strategies : <<"trade", o, k>> \in inbox'[r]
    BY <1>1, <1>2 DEF NoneMissed
  <2>1. entry'[o].ids = entry[o].ids
    BY <1>4, <1>6
  <2> QED BY <1>1, <2>1 DEF NoneMissed
<1> QED BY <1>9, <1>10, <1>11, <1>12, <1>13, <1>14, <1>15

-----------------------------------------------------------------------------
(* The messages *)

(* What every handler does: it takes one message, and the entry of the     *)
(* message's order counts at most the execution that the message tells.    *)
LEMMA ReceiveStep ==
    ASSUME OrderTrackingAssumption, TrackingInv, UNCHANGED exchange,
           NEW s \in Strategies, NEW o \in Orders, NEW kind, NEW k, Receive(s, kind, o, k),
           NEW e \in Entries, Keep(o, e), cids' = cids \/ cids' = cids \ {o},
           held' \in [Strategies -> SUBSET Orders],
           NEW status \in Statuses, UNCHANGED told \/ Tell(s, o, status, e),
           e.ids = entry[o].ids \/ (kind \in {"trade", "update"} /\ e.ids = entry[o].ids \cup {k}),
           kind = "trade" => k \in e.ids,
           Cardinality(entry[o].ids) <= entry[o].exec => Cardinality(e.ids) <= e.exec,
           Cardinality(entry[o].ids) = entry[o].exec => Cardinality(e.ids) = e.exec,
           e.cancelled => entry[o].cancelled \/ kind = "closed",
           exchange = "bitfinex" /\ (entry[o].orig = Size \/ o \in cids) => e.orig = Size \/ o \in cids',
           status = "FILLED" => e.exec >= Size
              \/ (kind \in {"trade", "update"} /\ exchange = "bitfinex" /\ ~(entry[o].orig = Size \/ o \in cids)),
           kind = "closed" => k = 0
    PROVE  TrackingInv'
<1> USE DEF TrackingInv
<1>1. /\ <<kind, o, k>> \in inbox[s] /\ inbox' = [inbox EXCEPT ![s] = @ \ {<<kind, o, k>>}]
      /\ UNCHANGED <<state, filled, asked, pc, snap, answer, fetched, losses>>
  BY DEF Receive, placed, request
<1>2. /\ k \in 0..Size /\ Size \in Nat /\ filled[o] \in 0..Size /\ Cardinality(entry[o].ids) \in Nat
      /\ entry[o] \in Entries
  BY <1>1, IdsFinite DEF TrackingTypeOK, OrderTrackingAssumption, Entries
<1>3. /\ \A q \in Orders : entry'[q] = IF q = o THEN e ELSE entry[q]
      /\ entry' \in [Orders -> Entries] /\ old' \subseteq Orders
  BY DEF Keep, TrackingTypeOK
<1>4. \A r \in Strategies : /\ inbox'[r] \subseteq inbox[r]
                            /\ \A m \in inbox[r] : m \in inbox'[r] \/ m = <<kind, o, k>>
  BY <1>1 DEF TrackingTypeOK
<1>5. kind \in {"trade", "update"} => k \in 1..filled[o]
  BY <1>1, <1>2 DEF MessagesTrue
<1>6. kind = "closed" => state[o] \in ClosedStates
  BY <1>1 DEF MessagesTrue
<1>7. /\ e.ids \subseteq 1..filled[o] /\ Cardinality(e.ids) <= e.exec
      /\ o \notin fetched => e.exec = Cardinality(e.ids)
  BY <1>5 DEF CountedOnce
<1>8. o \notin fetched => e.exec <= filled[o]
  BY <1>2, <1>7, IdsFinite
<1>9. FilledCloses' /\ AnswersTrue' /\ CancelledIsClosed'
  BY <1>1 DEF FilledCloses, AnswersTrue, CancelledIsClosed
<1>10. MessagesTrue'
  BY <1>1, <1>4 DEF MessagesTrue
<1>11. CountedOnce'
  BY <1>1, <1>3, <1>7 DEF CountedOnce
<1>12. ClosedMarked'
  BY <1>1, <1>3, <1>6 DEF ClosedMarked
<1>13. QuantityKnown'
  BY <1>1, <1>3 DEF QuantityKnown
<1>14. NoneMissed'
  <2> SUFFICES ASSUME NEW q \in Orders, NEW j \in 1..filled[q],
                      j \in entry[q].ids \/ \E r \in Strategies : <<"trade", q, j>> \in inbox[r]
               PROVE  j \in entry'[q].ids \/ \E r \in Strategies : <<"trade", q, j>> \in inbox'[r]
    BY <1>1 DEF NoneMissed
  <2>1. CASE j \in entry[q].ids
    BY <1>3, <2>1
  <2>2. CASE \E r \in Strategies : <<"trade", q, j>> \in inbox[r]
    <3>1. <<"trade", q, j>> = <<kind, o, k>> => j \in entry'[q].ids
      BY <1>3
    <3> QED BY <1>4, <2>2, <3>1
  <2> QED BY <2>1, <2>2
<1>15. /\ told' \in [Strategies -> [Orders -> (Statuses \cup {"none"}) \X Nat]]
       /\ \A r \in Strategies, q \in Orders :
             told'[r][q] = told[r][q] \/ (q = o /\ told'[r][q] = <<status, e.exec>> /\ Tell(s, o, status, e))
  <2>1. CASE Tell(s, o, status, e)
    <3>1. <<status, e.exec>> \in (Statuses \cup {"none"}) \X Nat
      BY DEF Entries
    <3>2. told[s] \in [Orders -> (Statuses \cup {"none"}) \X Nat]
      BY DEF TrackingTypeOK
    <3>3. told' = [told EXCEPT ![s] = [told[s] EXCEPT ![o] = <<status, e.exec>>]]
      BY <2>1 DEF Tell
    <3>4. [told[s] EXCEPT ![o] = <<status, e.exec>>] \in [Orders -> (Statuses \cup {"none"}) \X Nat]
      BY <3>1, <3>2
    <3>5. told' \in [Strategies -> [Orders -> (Statuses \cup {"none"}) \X Nat]]
      BY <3>3, <3>4 DEF TrackingTypeOK
    <3>6. \A r \in Strategies : told'[r] = IF r = s THEN [told[s] EXCEPT ![o] = <<status, e.exec>>] ELSE told[r]
      BY <3>3 DEF TrackingTypeOK
    <3>7. \A q \in Orders : [told[s] EXCEPT ![o] = <<status, e.exec>>][q]
                                = IF q = o THEN <<status, e.exec>> ELSE told[s][q]
      BY <3>2
    <3> QED BY <2>1, <3>5, <3>6, <3>7
  <2>2. CASE UNCHANGED told
    BY <2>2 DEF TrackingTypeOK
  <2> QED BY <2>1, <2>2
<1>16. TrackingTypeOK'
  <2>1. inbox' \in [Strategies -> SUBSET (Kinds \X Orders \X (0..Size))]
    BY <1>1 DEF TrackingTypeOK
  <2>2. cids' \subseteq Orders
    BY DEF TrackingTypeOK
  <2> QED BY <1>1, <1>3, <1>15, <2>1, <2>2 DEF TrackingTypeOK
<1>17. ReportTrue'
  <2>1. ASSUME o \notin fetched, status = "FILLED" PROVE state[o] = "filled"
    <3>1. CASE e.exec >= Size
      <4>1. e.exec \in Nat /\ e.exec <= filled[o] /\ filled[o] <= Size
        BY <1>2, <1>8, <2>1 DEF Entries
      <4>2. filled[o] = Size
        BY <1>2, <3>1, <4>1
      <4> QED BY <4>2 DEF FilledCloses
    <3>2. CASE kind \in {"trade", "update"} /\ exchange = "bitfinex" /\ ~(entry[o].orig = Size \/ o \in cids)
      <4>1. filled[o] # 0
        BY <1>2, <1>5, <3>2
      <4> QED BY <2>1, <3>2, <4>1 DEF QuantityKnown, FilledCloses
    <3> QED BY <2>1, <3>1, <3>2
  <2> SUFFICES ASSUME NEW r \in Strategies, NEW q \in Orders, q \notin fetched
               PROVE  told'[r][q][2] <= filled[q] /\ (told'[r][q][1] = "FILLED" => state[q] = "filled")
    BY <1>1 DEF ReportTrue
  <2>2. CASE told'[r][q] = told[r][q]
    BY <2>2 DEF ReportTrue
  <2>3. CASE q = o /\ told'[r][q] = <<status, e.exec>>
    <3>1. told'[r][q][1] = status /\ told'[r][q][2] = e.exec
      BY <2>3
    <3> QED BY <1>8, <2>1, <2>3, <3>1
  <2> QED BY <1>15, <2>2, <2>3
<1> QED BY <1>9, <1>10, <1>11, <1>12, <1>13, <1>14, <1>16, <1>17

LEMMA BfxNewStep ==
    ASSUME OrderTrackingAssumption, TrackingInv, UNCHANGED exchange,
           NEW s \in Strategies, NEW o \in Orders, BfxNew(s, o)
    PROVE  TrackingInv'
<1> DEFINE e == active_order(entry[o], Size, 0)
           status == QuantityStatus(e.orig, e.exec)
<1>1. entry[o] \in Entries /\ Size \in Nat
  BY DEF TrackingInv, TrackingTypeOK, OrderTrackingAssumption
<1>2. /\ e \in Entries /\ e.ids = entry[o].ids /\ e.cancelled = entry[o].cancelled
      /\ e.orig = Size /\ e.exec = entry[o].exec
  BY <1>1, ActiveOrder DEF Entries
<1>3. status \in Statuses /\ (status = "FILLED" => e.exec >= Size)
  BY <1>1, <1>2, StatusOfQuantity DEF Entries
<1>4. /\ Receive(s, "new", o, 0) /\ Keep(o, e) /\ Tell(s, o, status, e)
      /\ cids' = cids /\ held' \in [Strategies -> SUBSET Orders]
  BY DEF BfxNew, TrackingInv, TrackingTypeOK
<1> HIDE DEF e, status
<1> QED BY <1>2, <1>3, <1>4, ReceiveStep

LEMMA BfxTradeStep ==
    ASSUME OrderTrackingAssumption, TrackingInv, UNCHANGED exchange,
           NEW s \in Strategies, NEW o \in Orders, NEW k \in 1..Size, BfxTrade(s, o, k)
    PROVE  TrackingInv'
<1> DEFINE quantity == IF o \in cids THEN Size ELSE 0
           before == active_order(entry[o], quantity, 0)
           e == Counted(before, k)
           status == QuantityStatus(e.orig, e.exec)
<1>1. entry[o] \in Entries /\ Size \in Nat /\ quantity \in {0, Size}
  BY DEF TrackingInv, TrackingTypeOK, OrderTrackingAssumption
<1>2. /\ before \in Entries /\ before.ids = entry[o].ids /\ before.cancelled = entry[o].cancelled
      /\ before.orig = (IF entry[o].orig = 0 THEN quantity ELSE entry[o].orig) /\ before.exec = entry[o].exec
  BY <1>1, ActiveOrder DEF Entries
<1>3. /\ e \in Entries /\ e.ids = entry[o].ids \cup {k} /\ e.cancelled = entry[o].cancelled
      /\ e.orig = (IF entry[o].orig = 0 THEN quantity ELSE entry[o].orig)
      /\ Cardinality(entry[o].ids) <= entry[o].exec => Cardinality(e.ids) <= e.exec
      /\ Cardinality(entry[o].ids) = entry[o].exec => Cardinality(e.ids) = e.exec
  BY <1>2, CountedEntry
<1>4. /\ entry[o].orig \in {0, Size} /\ e.orig \in {0, Size} /\ e.exec \in Nat
      /\ entry[o].orig = Size \/ o \in cids => e.orig = Size
  BY <1>1, <1>3 DEF Entries
<1>5. status \in Statuses /\ (status = "FILLED" => e.exec >= e.orig)
  BY <1>1, <1>4, StatusOfQuantity
<1>6. PICK kind \in {"trade", "update"} : Receive(s, kind, o, k)
  BY DEF BfxTrade
<1>7. /\ Keep(o, e) /\ (UNCHANGED told \/ Tell(s, o, status, e))
      /\ cids' = cids \ {o} /\ held' \in [Strategies -> SUBSET Orders]
  <2>1. held \in [Strategies -> SUBSET Orders]
    BY DEF TrackingInv, TrackingTypeOK
  <2>2. Keep(o, e) /\ cids' = cids \ {o}
    BY DEF BfxTrade
  <2>3. (UNCHANGED told \/ Tell(s, o, status, e)) /\ (held' = held \/ held' = [held EXCEPT ![s] = @ \ {o}])
    BY DEF BfxTrade
  <2> QED BY <2>1, <2>2, <2>3
<1> HIDE DEF e, status, before
<1>8. exchange = "bitfinex" /\ (status = "FILLED" =>
            e.exec >= Size
              \/ (kind \in {"trade", "update"} /\ exchange = "bitfinex" /\ ~(entry[o].orig = Size \/ o \in cids)))
  BY <1>4, <1>5 DEF BfxTrade
<1> QED BY <1>3, <1>4, <1>5, <1>6, <1>7, <1>8, ReceiveStep

LEMMA BfxClosedStep ==
    ASSUME OrderTrackingAssumption, TrackingInv, UNCHANGED exchange,
           NEW s \in Strategies, NEW o \in Orders, BfxClosed(s, o)
    PROVE  TrackingInv'
<1> DEFINE e == active_order(entry[o], Size, 0)
           closed == [e EXCEPT !.cancelled = TRUE]
           status == CloseStatus(o, closed)
<1>1. entry[o] \in Entries /\ Size \in Nat
  BY DEF TrackingInv, TrackingTypeOK, OrderTrackingAssumption
<1>2. /\ e \in Entries /\ e.ids = entry[o].ids /\ e.cancelled = entry[o].cancelled
      /\ e.orig = Size /\ e.exec = entry[o].exec
  BY <1>1, ActiveOrder DEF Entries
<1>3. /\ closed \in Entries /\ closed.ids = entry[o].ids /\ closed.orig = Size /\ closed.exec = entry[o].exec
  BY <1>2 DEF Entries
<1>4. status \in Statuses /\ (status = "FILLED" => closed.exec >= Size)
  BY <1>1, <1>3, StatusOfQuantity DEF Entries, CloseStatus, Statuses
<1>5. Receive(s, "closed", o, 0) /\ cids' = cids /\ held' \in [Strategies -> SUBSET Orders]
  <2>1. held \in [Strategies -> SUBSET Orders]
    BY DEF TrackingInv, TrackingTypeOK
  <2>2. Receive(s, "closed", o, 0) /\ cids' = cids
    BY DEF BfxClosed
  <2>3. held' = held \/ held' = [held EXCEPT ![s] = @ \cup {o}]
    BY DEF BfxClosed
  <2> QED BY <2>1, <2>2, <2>3
<1>6. \/ Keep(o, closed) /\ Tell(s, o, status, closed)
      \/ Keep(o, e) /\ UNCHANGED told
  BY DEF BfxClosed
<1> HIDE DEF e, closed, status
<1>7. CASE Keep(o, closed) /\ Tell(s, o, status, closed)
  BY <1>3, <1>4, <1>5, <1>7, ReceiveStep
<1>8. CASE Keep(o, e) /\ UNCHANGED told
  <2>1. "NEW" \in Statuses
    BY DEF Statuses
  <2> QED BY <1>2, <1>5, <1>8, <2>1, ReceiveStep
<1> QED BY <1>6, <1>7, <1>8

LEMMA HtxOrderStep ==
    ASSUME OrderTrackingAssumption, TrackingInv, UNCHANGED exchange,
           NEW s \in Strategies, NEW o \in Orders, HtxOrder(s, o)
    PROVE  TrackingInv'
<1> DEFINE e == active_order(entry[o], Size, 0)
           closed == [e EXCEPT !.cancelled = TRUE]
<1>1. entry[o] \in Entries /\ Size \in Nat
  BY DEF TrackingInv, TrackingTypeOK, OrderTrackingAssumption
<1>2. /\ e \in Entries /\ e.ids = entry[o].ids /\ e.cancelled = entry[o].cancelled
      /\ e.orig = Size /\ e.exec = entry[o].exec
  BY <1>1, ActiveOrder DEF Entries
<1>3. /\ closed \in Entries /\ closed.ids = entry[o].ids /\ closed.orig = Size /\ closed.exec = entry[o].exec
  BY <1>2 DEF Entries
<1>4. UNCHANGED told /\ cids' = cids /\ held' \in [Strategies -> SUBSET Orders] /\ "NEW" \in Statuses
  BY DEF HtxOrder, TrackingInv, TrackingTypeOK, Statuses
<1>5. \/ Receive(s, "new", o, 0) /\ Keep(o, e)
      \/ Receive(s, "closed", o, 0) /\ Keep(o, closed)
  BY DEF HtxOrder
<1> HIDE DEF e, closed
<1>6. CASE Receive(s, "new", o, 0) /\ Keep(o, e)
  BY <1>2, <1>4, <1>6, ReceiveStep
<1>7. CASE Receive(s, "closed", o, 0) /\ Keep(o, closed)
  BY <1>3, <1>4, <1>7, ReceiveStep
<1> QED BY <1>5, <1>6, <1>7

LEMMA HtxTradeStep ==
    ASSUME OrderTrackingAssumption, TrackingInv, UNCHANGED exchange,
           NEW s \in Strategies, NEW o \in Orders, NEW k \in 1..Size, HtxTrade(s, o, k)
    PROVE  TrackingInv'
<1> DEFINE e == Counted(entry[o], k)
           status == QuantityStatus(Size, e.exec)
<1>1. entry[o] \in Entries /\ Size \in Nat
  BY DEF TrackingInv, TrackingTypeOK, OrderTrackingAssumption
<1>2. /\ e \in Entries /\ e.ids = entry[o].ids \cup {k} /\ e.cancelled = entry[o].cancelled
      /\ e.orig = entry[o].orig
      /\ Cardinality(entry[o].ids) <= entry[o].exec => Cardinality(e.ids) <= e.exec
      /\ Cardinality(entry[o].ids) = entry[o].exec => Cardinality(e.ids) = e.exec
  BY <1>1, CountedEntry
<1>3. status \in Statuses /\ (status = "FILLED" => e.exec >= Size)
  BY <1>1, <1>2, StatusOfQuantity DEF Entries
<1>4. /\ Receive(s, "trade", o, k) /\ Keep(o, e) /\ (UNCHANGED told \/ Tell(s, o, status, e))
      /\ cids' = cids /\ held' \in [Strategies -> SUBSET Orders]
  BY DEF HtxTrade, TrackingInv, TrackingTypeOK
<1> HIDE DEF e, status
<1>5. /\ exchange = "bitfinex" /\ (entry[o].orig = Size \/ o \in cids) => e.orig = Size \/ o \in cids'
      /\ k \in e.ids
  BY <1>2, <1>4
<1>6. PICK kind \in {"trade"} : Receive(s, kind, o, k)
  BY <1>4
<1>7. status = "FILLED" => e.exec >= Size
              \/ (kind \in {"trade", "update"} /\ exchange = "bitfinex" /\ ~(entry[o].orig = Size \/ o \in cids))
  BY <1>3
<1> QED BY <1>2, <1>3, <1>4, <1>5, <1>6, <1>7, ReceiveStep

-----------------------------------------------------------------------------
(* The theorems *)

LEMMA TrackingStep ==
    OrderTrackingAssumption /\ TrackingInv /\ [TrackingNext]_<<exchange, trackingVars>> => TrackingInv'
<1> SUFFICES ASSUME OrderTrackingAssumption, TrackingInv, [TrackingNext]_<<exchange, trackingVars>>
             PROVE  TrackingInv'
  OBVIOUS
<1>1. CASE UNCHANGED <<exchange, trackingVars>>
  BY <1>1 DEF trackingVars, placed, known, request, history, TrackingInv, TrackingTypeOK, FilledCloses,
              MessagesTrue, CountedOnce, ClosedMarked, QuantityKnown, AnswersTrue, NoneMissed, ReportTrue,
              CancelledIsClosed
<1>2. CASE TrackingNext
  <2>1. UNCHANGED exchange
    BY <1>2 DEF TrackingNext
  <2>2. ASSUME NEW o \in Orders, Place(o) \/ Fill(o) \/ CancelTakesEffect(o) \/ OrderRequest(o)
        PROVE  TrackingInv'
    <3>1. CASE Place(o)
      BY <2>1, <3>1, PlaceStep
    <3>2. CASE Fill(o)
      BY <2>1, <3>2, FillStep
    <3>3. CASE CancelTakesEffect(o)
      BY <2>1, <3>3, CancelTakesEffectStep
    <3>4. CASE Created(o)
      BY <2>1, <3>4, CreatedStep
    <3>5. CASE Apply(o)
      BY <2>1, <3>5, ApplyStep
    <3>6. CASE CreateOrder(o) \/ FetchOrder(o) \/ CancelOrder(o) \/ BfxCancelled(o) \/ GiveUp(o)
               \/ LifeTimeOver(o)
      BY <2>1, <3>6, PlainRequestStep
    <3> QED BY <2>2, <3>1, <3>2, <3>3, <3>4, <3>5, <3>6 DEF OrderRequest
  <2>3. ASSUME NEW s \in Strategies, Reconnect(s) \/ FetchOpenOrders(s) \/ CancelAllOrders(s)
        PROVE  TrackingInv'
    BY <2>1, <2>3, ReconnectStep, FetchOpenOrdersStep, CancelAllOrdersStep
  <2>4. ASSUME NEW s \in Strategies, NEW o \in Orders, Handle(s, o)
        PROVE  TrackingInv'
    <3>1. CASE BfxNew(s, o) \/ BfxClosed(s, o) \/ HtxOrder(s, o)
      BY <2>1, <3>1, BfxNewStep, BfxClosedStep, HtxOrderStep
    <3>2. ASSUME NEW k \in 1..Size, BfxTrade(s, o, k) \/ HtxTrade(s, o, k)
          PROVE  TrackingInv'
      BY <2>1, <3>2, BfxTradeStep, HtxTradeStep
    <3> QED BY <2>4, <3>1, <3>2 DEF Handle
  <2> QED BY <1>2, <2>2, <2>3, <2>4 DEF TrackingNext
<1> QED BY <1>1, <1>2

(* Of any orders of any number of strategies, with any loss of connections.*)
THEOREM TrackingInvariant ==
    ASSUME OrderTrackingAssumption PROVE TrackingSpec => []TrackingInv
<1>1. TrackingInit => TrackingInv
  BY InitTrackingInv
<1>2. TrackingInv /\ [TrackingNext]_<<exchange, trackingVars>> => TrackingInv'
  BY TrackingStep
<1> QED BY <1>1, <1>2, PTL DEF TrackingSpec

(* Every variable holds a value of its kind. *)
THEOREM TrackingTypes ==
    ASSUME OrderTrackingAssumption PROVE TrackingSpec => []TrackingTypeOK
BY TrackingInvariant, PTL DEF TrackingInv

(* No event tells more than was executed, nor FILLED of an order that is   *)
(* not, for every order whose entry no REST answer has changed.            *)
THEOREM ReportsAreTrue ==
    ASSUME OrderTrackingAssumption PROVE TrackingSpec => []ReportTrue
BY TrackingInvariant, PTL DEF TrackingInv

(* CancelOrder answers CANCELED of closed orders only. *)
THEOREM CancelledAnswers ==
    ASSUME OrderTrackingAssumption PROVE TrackingSpec => []CancelledIsClosed
BY TrackingInvariant, PTL DEF TrackingInv

(* An entry counts every execution of which no message is under way: what  *)
(* it has counted or holds from an answer is at least as many.             *)
THEOREM NoTradeIsMissed ==
    ASSUME OrderTrackingAssumption PROVE TrackingSpec => []NoTradeMissed
<1>1. TrackingInv => NoTradeMissed
  <2> SUFFICES ASSUME TrackingInv, NEW o \in Orders,
                      "open" \in Fetches => \A s \in Strategies : o \in Listed[s],
                      losses = 0, state[o] = "open",
                      \A s \in Strategies, k \in 1..Size : <<"trade", o, k>> \notin inbox[s]
               PROVE  entry[o].exec >= filled[o]
    BY DEF NoTradeMissed
  <2>1. /\ filled[o] \in Nat /\ filled[o] \in 0..Size /\ Size \in Nat /\ entry[o] \in Entries
        /\ Cardinality(entry[o].ids) <= entry[o].exec
    BY DEF TrackingInv, TrackingTypeOK, OrderTrackingAssumption, CountedOnce
  <2>2. \A k \in 1..filled[o] : k \in entry[o].ids
    <3>1. \A k \in 1..filled[o] : k \in 1..Size
      BY <2>1
    <3> QED BY <3>1 DEF TrackingInv, NoneMissed
  <2>3. IsFiniteSet(entry[o].ids) /\ Cardinality(entry[o].ids) \in Nat
    BY <2>1, IdsFinite DEF Entries
  <2>4. Cardinality(1..filled[o]) = filled[o]
    BY <2>1, FS_Interval
  <2>5. Cardinality(1..filled[o]) <= Cardinality(entry[o].ids)
    BY <2>2, <2>3, FS_Subset
  <2> QED BY <2>1, <2>3, <2>4, <2>5 DEF Entries
<1> QED BY <1>1, TrackingInvariant, PTL
=============================================================================
