----------------------------- MODULE ProgressMC -----------------------------
(* What has to happen in the end: small instances of the modules that have *)
(* timers, helper tasks and answers to wait for.  A behaviour is one of    *)
(* one instance, its part, and the other modules rest.                     *)
EXTENDS Integers, FiniteSets, TLC

VARIABLES
    part,
    wss_pc, link, websocket, connects, helpers, ping, fresh,     \* WssConnection
    stop, stopped, closing,
    request_pc, path_fired, path_count, counts, stats, used,     \* BybitLimiter
    left_in_window, tries, failures,
    rate_limit_reached, time, refused, since,                    \* RateLimitFlag
    state, filled, asked, inbox, entry, cids, old, held,         \* OrderTracking
    pc, snap, answer, told, fetched, losses

connectionVars == <<wss_pc, link, websocket, connects, helpers, ping, fresh, stop, stopped, closing>>
limiterVars ==
    <<request_pc, path_fired, path_count, counts, stats, used, left_in_window, tries, failures>>
flagVars == <<rate_limit_reached, time, refused, since>>
trackingVars ==
    <<state, filled, asked, inbox, entry, cids, old, held, pc, snap, answer, told, fetched, losses>>
allVars == <<part, connectionVars, limiterVars, flagVars, trackingVars>>

Streams == {"a", "b"}
Htx == INSTANCE WssConnection WITH
    Kind <- [s \in Streams |-> "htx_market"], MaxConnects <- 2
Bybit == INSTANCE WssConnection WITH
    Kind <- [s \in Streams |-> "bybit"], MaxConnects <- 2

Limiter == INSTANCE BybitLimiter WITH
    Requests <- {"r1", "r2", "r3"}, Limit <- 3, Headers <- TRUE, Failures <- 0

(* An account of ByBit and one of HTX, whose status 429 lowers the flag.   *)
Flag == INSTANCE RateLimitFlag WITH
    Clients <- {"bybit", "huobi"}, ByBit <- {"bybit"}, Flagging <- {"bybit"},
    Busy <- {}, Pause <- 2, ShortPause <- 1

Orders == INSTANCE OrderTracking WITH
    exchange <- "bitfinex", Strategies <- {"s1"}, Orders <- {"o1"},
    Owner <- [o \in {"o1"} |-> "s1"], Listed <- [s \in {"s1"} |-> {"o1"}], Size <- 2,
    Fetches <- {"order"}, Cancels <- {"one"}, Losses <- 0

Init ==
    /\ part \in {"htx", "bybit", "limiter", "flag", "orders"}
    /\ Htx!ConnectionInit /\ Limiter!LimiterInit /\ Flag!FlagInit /\ Orders!TrackingInit

ConnectionStep ==
    /\ \/ part = "htx" /\ Htx!ConnectionNext
       \/ part = "bybit" /\ Bybit!ConnectionNext
    /\ UNCHANGED <<part, limiterVars, flagVars, trackingVars>>
LimiterStep ==
    /\ part = "limiter" /\ Limiter!LimiterNext
    /\ UNCHANGED <<part, connectionVars, flagVars, trackingVars>>
FlagStep ==
    /\ part = "flag" /\ Flag!FlagNext
    /\ UNCHANGED <<part, connectionVars, limiterVars, trackingVars>>
OrderStep ==
    /\ part = "orders" /\ Orders!TrackingNext
    /\ UNCHANGED <<part, connectionVars, limiterVars, flagVars>>

Next == ConnectionStep \/ LimiterStep \/ FlagStep \/ OrderStep

(* The fairness of the modules.  A module that rests has nothing to do,    *)
(* but the connections' variables are those of two instances.              *)
Fairness ==
    /\ WF_connectionVars(part = "htx" /\ Htx!StopSteps)
    /\ WF_connectionVars(part = "bybit" /\ Bybit!StopSteps)
    /\ \A s \in Streams :
         /\ WF_connectionVars(part = "htx" /\ Htx!Helper(s))
         /\ WF_connectionVars(part = "bybit" /\ Bybit!Helper(s))
         /\ WF_connectionVars(part = "htx" /\ Htx!Notice(s))
         /\ WF_connectionVars(part = "bybit" /\ Bybit!Notice(s))
         /\ WF_connectionVars(part = "bybit" /\ Bybit!LibraryNotices(s))
    /\ Limiter!LimiterFairness /\ Flag!FlagFairness /\ Orders!TrackingFairness

Spec == Init /\ [][Next]_allVars /\ Fairness
-----------------------------------------------------------------------------
(* A dead connection of HTX or ByBit that is listened to is found out and  *)
(* given up, by the keep-alive task or the library's pings.                *)
DeadIsReplaced == Htx!DeadIsReplaced

(* After the stop of a trade the helper tasks of its connections end, also *)
(* those that its steps left behind.                                       *)
HelpersEnd == Htx!HelpersEnd

(* ByBit: a request that waits for the first response is sent.             *)
RequestSent == Limiter!RequestSent

(* The flag of an account whose strategy calls ResetRateLimit is cleared.  *)
FlagCleared == Flag!FlagCleared

(* Bitfinex: of an order that the exchange has filled its strategy gets an *)
(* event that says FILLED, in whatever order the messages come, and though *)
(* CancelOrder and FetchOrder change what is known of the order meanwhile. *)
FilledIsTold == Orders!FilledIsTold
=============================================================================
