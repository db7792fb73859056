----------------------------- MODULE StreamHubMC -----------------------------
(* Small instances of StreamHub.                                           *)
EXTENDS StreamHub

CONSTANTS
    t1, t2,                     \* trades of one account
    book, orders, klines,       \* streaming calls of t1
    other,                      \* a streaming call of t2 on t1's symbol
    m1, u1, n1, m2, u2,         \* WebSocket tasks of t1 and of t2
    r1, q1,                     \* StopStream requests for t1
    depth, kline, report,       \* event types
    One                         \* calls whose queue has room for one item

OfT2 == {other, m2, u2}

MCTradeOf  == [x \in Subs \cup Stoppers |-> IF x \in OfT2 THEN t2 ELSE t1]
MCTypesOf  == [s \in Subs |-> CASE s = orders -> {report}
                                [] s = klines -> {kline}
                                [] OTHER      -> {depth}]
MCCapacity == [s \in Subs |-> IF s \in One THEN 1 ELSE 2]
MCMarketCount == [t \in Trades |-> 1]
=============================================================================
