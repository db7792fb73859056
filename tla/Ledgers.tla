------------------------------- MODULE Ledgers -------------------------------
(***************************************************************************)
(* Deposits, withdrawals and transfers of an account on Bitfinex, HTX and  *)
(* ByBit: every trade's on_balance_update stream asks fetch_ledgers for    *)
(* the records of the last five minutes each 30 seconds, and reports those *)
(* whose id is not in ledgers_id, a list that the trades of a client share.*)
(* A call that fails ends the stream; a trade that begins anew loads its   *)
(* symbol first, and records older than that are not asked for.            *)
(*                                                                         *)
(* A unit of time is the 30 seconds between two calls of a stream.         *)
(***************************************************************************)
EXTENDS Exchanges, Sorting, Sequences, Functions

CONSTANTS
    Pollers,        \* the trades
    Symbol,         \* ... and the symbol of each
    Transfers,
    Concerned,      \* the trades whose symbol holds the transfer's asset
    ListedOn,       \* of each exchange: the lists that have a record of a transfer
    Window,         \* 300 s, in units
    Limit,          \* limit
    BybitPage,      \* how many records ByBit gives when it is told no limit
    MaxEnds,        \* bound: streams that end
    MaxLoads        \* bound: symbols loaded again

(* The exchange's lists in the order in which they are asked for; the last *)
(* of ByBit's is a log of all that the others have, under other ids.       *)
ListsOf(e) ==
    CASE e = "bitfinex" -> <<"51", "101", "104">>
      [] e = "bybit" -> <<"internal", "universal", "log">>
      [] OTHER -> <<"ledger">>

LedgersAssumption ==
    /\ Concerned \in [Transfers -> SUBSET Pollers]
    /\ \A e \in Exchanges :
         /\ ListedOn[e] \in [Transfers -> SUBSET Range(ListsOf(e))]
         /\ e # "bybit" => \A x \in Transfers : \A l, m \in ListedOn[e][x] : l = m
    /\ Window \in Nat \ {0} /\ {Limit, BybitPage, MaxEnds, MaxLoads} \subseteq Nat
    /\ DOMAIN Symbol = Pollers

VARIABLES
    occurred,       \* the number of a transfer that occurred, or 0
    since,          \* ... and how long ago that was
    ledgers_id,     \* ids, one for each record of a transfer
    asked,          \* how many lists a stream's call has asked for
    balances,       \* the records that it has
    polled,         \* streams that have called in this unit
    streaming,      \* the trades whose on_balance_update runs
    ts_start,       \* of a symbol: the transfers before its time
    began,          \* history: the transfers before a trade's stream began
    reported,       \* history: how often a transfer was reported, up to 2
    ends, loads

streamVars == <<streaming, ts_start, began, ends, loads>>
ledgerVars == <<occurred, since, ledgers_id, asked, balances, polled, reported, streamVars>>

ByBit == exchange = "bybit"
Lists == ListsOf(exchange)
Listed == ListedOn[exchange]

(* How many records an answer has, and how many ids are kept. *)
PerAnswer == IF ByBit THEN BybitPage ELSE Limit
Kept == CASE exchange = "bitfinex" -> Limit * Len(Lists) [] ByBit -> Limit * 4 [] OTHER -> Limit

LedgersInit ==
    /\ occurred = [x \in Transfers |-> 0] /\ since = [x \in Transfers |-> 0]
    /\ ledgers_id = <<>>
    /\ asked = [t \in Pollers |-> 0] /\ balances = [t \in Pollers |-> <<>>]
    /\ polled = {} /\ streaming = Pollers
    /\ ts_start = [s \in Range(Symbol) |-> {}] /\ began = [t \in Pollers |-> {}]
    /\ ends = 0 /\ loads = 0
    /\ reported = [t \in Pollers |-> [x \in Transfers |-> 0]]

Happened == {x \in Transfers : occurred[x] # 0}

Transfer(x) ==
    /\ x \notin Happened /\ Listed[x] # {}
    /\ occurred' = [occurred EXCEPT ![x] = Cardinality(Happened) + 1]
    /\ UNCHANGED <<since, ledgers_id, asked, balances, polled, reported, streamVars>>

(* Each stream calls once in 30 seconds, and has its answers in that time. *)
(* Times beyond twice the window are not told apart.                       *)
NextPoll ==
    /\ polled = streaming /\ polled' = {}
    /\ since' = [x \in Transfers |-> IF x \in Happened /\ since[x] <= 2 * Window
                                     THEN since[x] + 1 ELSE since[x]]
    /\ UNCHANGED <<occurred, ledgers_id, asked, balances, reported, streamVars>>

(* A trade opens its connection: load() sets the time of its symbol.       *)
load(s) ==
    /\ loads < MaxLoads /\ loads' = loads + 1
    /\ ts_start' = [ts_start EXCEPT ![s] = Happened]
    /\ UNCHANGED <<occurred, since, ledgers_id, asked, balances, polled, reported,
                   streaming, began, ends>>

(* ... and its stream, which waits before it calls.                        *)
OnBalanceUpdate(t) ==
    /\ t \notin streaming /\ streaming' = streaming \cup {t} /\ polled' = polled \cup {t}
    /\ began' = [began EXCEPT ![t] = Happened]
    /\ UNCHANGED <<occurred, since, ledgers_id, asked, balances, reported, ts_start, ends, loads>>

(* A call that fails, the trade's stop and a client that leaves end the    *)
(* stream, whatever it has in hand.                                        *)
StreamEnds(t) ==
    /\ t \in streaming /\ ends < MaxEnds /\ ends' = ends + 1
    /\ streaming' = streaming \ {t} /\ polled' = polled \ {t}
    /\ asked' = [asked EXCEPT ![t] = 0] /\ balances' = [balances EXCEPT ![t] = <<>>]
    /\ UNCHANGED <<occurred, since, ledgers_id, reported, ts_start, began, loads>>

Recent(l) == {x \in Happened : l \in Listed[x] /\ since[x] <= Window}

(* Of the last five minutes, and not before the symbol was loaded.         *)
Wanted(t, l) == Recent(l) \ ts_start[Symbol[t]]

Latest(t, l) ==
    {x \in Wanted(t, l) :
       Cardinality({y \in Wanted(t, l) : occurred[y] > occurred[x]}) < PerAnswer}

(* The latest records of a list, of which those of the symbol are taken,   *)
(* the last one first; an id names the record.                             *)
Answered(t, l) ==
    LET ids == {l} \X {x \in Latest(t, l) : t \in Concerned[x]}
    IN  SortedBy(ids, [id \in ids |-> 0 - occurred[id[2]]])

(* The log is not asked for. *)
NoLog(t) == IF ByBit THEN Len(Lists) - 1 ELSE Len(Lists)

(* A transfer from the web interface is in a list of transfers and in the  *)
(* log, with two ids: the log is for what the lists do not have.           *)
LastNeeded(t) == IF ByBit /\ balances[t] # <<>> THEN Len(Lists) - 1 ELSE Len(Lists)

SendApiCall(t) ==
    /\ t \in streaming \ polled /\ asked[t] < LastNeeded(t)
    /\ asked' = [asked EXCEPT ![t] = @ + 1]
    /\ balances' = [balances EXCEPT ![t] = @ \o Answered(t, Lists[asked[t] + 1])]
    /\ UNCHANGED <<occurred, since, ledgers_id, polled, reported, streamVars>>

(* One answer's worth of ids. *)
RememberLimit(ids, id) ==
    LET more == Append(ids, id) IN IF Len(more) > Limit THEN Tail(more) ELSE more

(* What is kept is not the id that is looked for. *)
RememberAsset(ids, id) == Append(ids, id[2])

RememberId(ids, id) ==
    LET more == Append(ids, id) IN IF Len(more) > Kept THEN Tail(more) ELSE more

(* A record whose id is kept is passed over. *)
Take(acc, id) ==
    IF id \in Range(acc.ids) THEN acc
    ELSE [ids |-> RememberId(acc.ids, id), new |-> Append(acc.new, id)]

New(t) ==
    LET after[i \in 0..Len(balances[t])] ==
            IF i = 0 THEN [ids |-> ledgers_id, new |-> <<>>]
            ELSE Take(after[i - 1], balances[t][i])
    IN  after[Len(balances[t])]

Counted(n, x, new) ==
    LET more == n + Cardinality({i \in DOMAIN new : new[i][2] = x})
    IN  IF more > 2 THEN 2 ELSE more

FetchLedgers(t) ==
    /\ t \in streaming \ polled /\ asked[t] >= LastNeeded(t)
    /\ ledgers_id' = New(t).ids
    /\ reported' = [reported EXCEPT ![t] = [x \in Transfers |-> Counted(@[x], x, New(t).new)]]
    /\ asked' = [asked EXCEPT ![t] = 0]
    /\ balances' = [balances EXCEPT ![t] = <<>>]
    /\ polled' = polled \cup {t}
    /\ UNCHANGED <<occurred, since, streamVars>>

LedgersNext ==
    /\ \/ NextPoll
       \/ \E x \in Transfers : Transfer(x)
       \/ \E s \in Range(Symbol) : load(s)
       \/ \E t \in Pollers : \/ OnBalanceUpdate(t) \/ StreamEnds(t)
                             \/ SendApiCall(t) \/ FetchLedgers(t)
    /\ UNCHANGED exchange

LedgersSpec ==
    exchange \in Exchanges /\ LedgersInit /\ [][LedgersNext]_<<exchange, ledgerVars>>
-----------------------------------------------------------------------------
(* Properties *)

(* Every variable holds a value of its kind, and the list of ids, which is *)
(* cut after each id, has at most so many of them.                         *)
LedgersTypeOK ==
    /\ occurred \in [Transfers -> Nat] /\ since \in [Transfers -> 0..(2 * Window + 1)]
    /\ Range(ledgers_id) \subseteq Range(Lists) \X Transfers /\ Len(ledgers_id) <= Kept
    /\ asked \in [Pollers -> 0..Len(Lists)]
    /\ \A t \in Pollers : Range(balances[t]) \subseteq Range(Lists) \X Transfers
    /\ polled \subseteq streaming /\ streaming \subseteq Pollers
    /\ \A s \in Range(Symbol) : ts_start[s] \subseteq Happened
    /\ \A t \in Pollers : began[t] \subseteq Happened
    /\ reported \in [Pollers -> [Transfers -> 0..2]]

(* In the window, no list has more records than an answer, and no trade    *)
(* has transfers that ByBit shows in its log only besides others; in twice *)
(* the window, there are no more records than ids kept.                    *)
FewRecent ==
    /\ \A l \in Range(Lists) : Cardinality(Recent(l)) <= PerAnswer
    /\ Cardinality({id \in Range(Lists) \X Happened :
                      id[1] \in Listed[id[2]] /\ since[id[2]] <= 2 * Window}) <= Kept
    /\ ByBit => \A x, y \in Happened :
         /\ Concerned[x] \cap Concerned[y] # {}
         /\ since[x] <= Window /\ since[y] <= Window /\ Listed[x] = {"log"}
         => Listed[y] = {"log"}

(* No two trades of the client have an asset in common.                    *)
TradesApart == \A x \in Transfers : \A t, u \in Concerned[x] : t = u

(* No transfer is reported to a trade twice, although it stays in answers  *)
(* for five minutes and the ids of all trades share one list that is cut;  *)
(* but on ByBit one that is in two lists may be.                           *)
ToldOnce == ~ByBit => \A t \in Pollers, x \in Transfers : reported[t][x] <= 1

(* By the time when no answer has it any more, a transfer that occurred    *)
(* after a trade's stream began, and after its symbol was loaded, has been *)
(* reported by the stream, unless that has ended: on a call that failed.   *)
AllTold == \A x \in Transfers : \A t \in Concerned[x] \cap streaming :
    since[x] > Window /\ x \notin began[t] \cup ts_start[Symbol[t]] => reported[t][x] > 0

(* Does not hold, see README: a stream that begins anew reports what       *)
(* occurred while there was none.                                          *)
ToldLater == \A x \in Transfers : \A t \in Concerned[x] \cap streaming :
    since[x] > Window /\ x \notin ts_start[Symbol[t]] => reported[t][x] > 0

(* Does not hold, see README: a stream reports what occurred just before   *)
(* its symbol was loaded again.                                            *)
ToldThroughLoad == \A x \in Transfers : \A t \in Concerned[x] \cap streaming :
    since[x] > Window /\ x \notin began[t] => reported[t][x] > 0

TransferTold == ToldOnce /\ AllTold
=============================================================================
