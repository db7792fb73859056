----------------------------- MODULE OrderBooks -----------------------------
(***************************************************************************)
(* The order books that Bitfinex and ByBit send as a snapshot and then as  *)
(* differences, and that the server keeps for a market stream.             *)
(*                                                                         *)
(* A side of a book is a dict: levels, a price with its size, in the order *)
(* in which they were put. The exchange shows its best prices, ByBit one   *)
(* (orderbook.1) and Bitfinex 25; a strategy is shown five.                *)
(***************************************************************************)
EXTENDS Exchanges, Sorting, Sequences, SequencesExt

CONSTANTS
    SidesOn,        \* of "bids" and "asks", on each exchange
    PricesOn,       \* ... and a set of prices
    Sizes,
    BfxDepth, Shown,
    MaxWaiting      \* bound: messages on their way

OrderBooksAssumption ==
    /\ \A e \in Exchanges : /\ SidesOn[e] \subseteq {"bids", "asks"}
                            /\ PricesOn[e] \subseteq Nat /\ IsFiniteSet(PricesOn[e])
    /\ Sizes \subseteq Nat \ {0}
    /\ BfxDepth \in Nat /\ Shown \in Nat \ {0} /\ MaxWaiting \in Nat

VARIABLES
    market,         \* the exchange's book: the size at each price, or 0
    sent,           \* what it has shown on this connection
    channel,        \* messages: [snapshot, levels]
    _order_book,    \* the server's
    told_book       \* the book of the last event, or <<>>

bookVars == <<market, sent, channel, _order_book, told_book>>

Sides == SidesOn[exchange]
Prices == PricesOn[exchange]
Depth == IF exchange = "bybit" THEN 1 ELSE BfxDepth

(* The best bid is the highest one, the best ask the lowest.               *)
Place(side, price) == IF side = "bids" THEN 0 - price ELSE price

(* The best prices of a side of the exchange's book, and all others as 0.  *)
Best(side, n) ==
    LET book == market[side]
        better(p) == {q \in Prices : book[q] # 0 /\ Place(side, q) < Place(side, p)}
    IN  [p \in Prices |-> IF Cardinality(better(p)) < n THEN book[p] ELSE 0]

InOrder(side, levels) == SortedBy(levels, [level \in levels |-> Place(side, level[1])])

LevelsOf(book) == {<<p, book[p]>> : p \in {q \in Prices : book[q] # 0}}

Visible == [side \in Sides |-> Best(side, Depth)]
Snapshot ==
    [snapshot |-> TRUE, levels |-> [side \in Sides |-> InOrder(side, LevelsOf(Visible[side]))]]

BooksInit ==
    /\ market \in [Sides -> [Prices -> {0} \cup Sizes]]
    /\ sent = Visible
    /\ channel = <<Snapshot>>
    /\ _order_book = [side \in Sides |-> <<>>]
    /\ told_book = <<>>

Change(side, p, size) ==
    /\ market' = [market EXCEPT ![side][p] = size]
    /\ UNCHANGED <<sent, channel, _order_book, told_book>>

(* The prices of a side whose size differs from what was sent.             *)
Changed(side) == {p \in Prices : sent[side][p] # Visible[side][p]}

Differences(side) ==
    [i \in 1..Cardinality(Changed(side)) |->
        LET p == SetToSeq(Changed(side))[i] IN <<p, Visible[side][p]>>]

(* ByBit sends all the differences in one message, Bitfinex each in one.   *)
Messages ==
    IF exchange = "bybit"
    THEN <<[snapshot |-> FALSE, levels |-> [side \in Sides |-> Differences(side)]]>>
    ELSE LET changes == {change \in Sides \X Prices : change[2] \in Changed(change[1])}
             Only(side, p) == [s \in Sides |-> IF s = side THEN <<<<p, Visible[s][p]>>>> ELSE <<>>]
         IN  [i \in 1..Cardinality(changes) |->
                LET change == SetToSeq(changes)[i]
                IN  [snapshot |-> FALSE, levels |-> Only(change[1], change[2])]]

Publish ==
    /\ sent # Visible /\ Len(channel) < MaxWaiting
    /\ channel' = channel \o Messages
    /\ sent' = Visible
    /\ UNCHANGED <<market, _order_book, told_book>>

(* The connection is lost with what was on its way; the book stays until   *)
(* the new one's snapshot.                                                 *)
Reconnect ==
    /\ channel' = <<Snapshot>> /\ sent' = Visible
    /\ UNCHANGED <<market, _order_book, told_book>>

Put(dict, level) ==
    IF \E i \in DOMAIN dict : dict[i][1] = level[1]
    THEN [i \in DOMAIN dict |-> IF dict[i][1] = level[1] THEN level ELSE dict[i]]
    ELSE Append(dict, level)

Pop(dict, p) ==
    IF \E i \in DOMAIN dict : dict[i][1] = p
    THEN RemoveAt(dict, CHOOSE i \in DOMAIN dict : dict[i][1] = p)
    ELSE dict

Sorted(side, dict) == InOrder(side, Range(dict))

(* A level that is gone stays with size 0. *)
PutZero(dict, level) == Put(dict, level)

PutOrPop(dict, level) == IF level[2] # 0 THEN Put(dict, level) ELSE Pop(dict, level[1])

update(dict, delta) ==
    LET after[i \in 0..Len(delta)] ==
            IF i = 0 THEN dict ELSE PutOrPop(after[i - 1], delta[i])
    IN  after[Len(delta)]

(* ByBit's book is sorted after a change of several levels, Bitfinex's     *)
(* whenever it is shown.                                                   *)
update_book(side, book, delta) ==
    LET new == update(book, delta)
    IN  IF exchange = "bybit" /\ Len(delta) > 1 THEN Sorted(side, new) ELSE new

FirstOf(dict) == SubSeq(dict, 1, IF Len(dict) < Shown THEN Len(dict) ELSE Shown)

(* The levels are shown in the order in which they came. *)
get_unsorted(book) == [side \in Sides |-> FirstOf(book[side])]

get_book(book) ==
    [side \in Sides |->
        FirstOf(IF exchange = "bybit" THEN book[side] ELSE Sorted(side, book[side]))]

(* A snapshot of Bitfinex is kept and makes no event; one of ByBit is put  *)
(* once more into the book made of it.                                     *)
HandleMessages ==
    /\ channel # <<>> /\ channel' = Tail(channel)
    /\ LET m == Head(channel)
           old == IF m.snapshot THEN m.levels ELSE _order_book
       IN  /\ _order_book' = [s \in Sides |-> update_book(s, old[s], m.levels[s])]
           /\ told_book' = IF m.snapshot /\ exchange # "bybit" THEN told_book
                           ELSE get_book(_order_book')
    /\ UNCHANGED <<market, sent>>

BooksNext ==
    /\ \/ \E side \in Sides, p \in Prices, size \in {0} \cup Sizes : Change(side, p, size)
       \/ Publish \/ Reconnect \/ HandleMessages
    /\ UNCHANGED exchange

BooksSpec == exchange \in Exchanges /\ BooksInit /\ [][BooksNext]_<<exchange, bookVars>>
-----------------------------------------------------------------------------
(* Properties *)

(* Every variable holds a value of its kind.                               *)
BooksTypeOK ==
    /\ market \in [Sides -> [Prices -> {0} \cup Sizes]]
    /\ sent \in [Sides -> [Prices -> {0} \cup Sizes]]
    /\ \A s \in Sides : Range(_order_book[s]) \subseteq Prices \X Sizes

(* The first levels of the book that the exchange has shown.               *)
Shows == [side \in Sides |-> FirstOf(InOrder(side, LevelsOf(sent[side])))]

(* The book that is kept of the differences, and on ByBit the one that a   *)
(* strategy was told last, is the exchange's, best price first, when all   *)
(* messages have been handled.                                             *)
BookTrue ==
    channel = <<>> => (IF exchange = "bybit" THEN told_book ELSE get_book(_order_book)) = Shows
=============================================================================
