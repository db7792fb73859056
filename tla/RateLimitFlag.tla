---------------------------- MODULE RateLimitFlag ----------------------------
(***************************************************************************)
(* The rate limit flag of each account and the time that all accounts of   *)
(* the server share: HttpClient.rate_limit_reached stops the account's     *)
(* requests, Martin.rate_limit_reached_time is when that last happened to  *)
(* any of them, and a strategy clears the flag by ResetRateLimit.          *)
(*                                                                         *)
(* Times are kept as ages, up to one unit more than the longest pause.     *)
(***************************************************************************)
EXTENDS Naturals

CONSTANTS
    Clients,
    ByBit,          \* the clients whose exchange is 'bybit'
    Flagging,       \* ... 'binance', 'okx' or 'bybit': any status 429 raises the flag
    Busy,           \* clients whose strategies go on sending requests
    Pause,          \* 600 s, the pause of ByBit
    ShortPause      \* 60 s, meant for all others

ASSUME RateLimitFlagAssumption ==
    /\ ByBit \subseteq Flagging /\ Flagging \subseteq Clients /\ Busy \subseteq Clients
    /\ Pause \in Nat /\ ShortPause \in 0..Pause

VARIABLES
    rate_limit_reached,  \* the clients with the flag
    time,                \* age of rate_limit_reached_time; None if it is 0
    refused,             \* clients whose strategies wait for a reset
    since                \* history: age of a client's last error

flagVars == <<rate_limit_reached, time, refused, since>>

Longest == Pause + 1
NoTime == Longest + 1

Older(age) == IF age < Longest THEN age + 1 ELSE age

FlagInit ==
    /\ rate_limit_reached = {} /\ refused = {}
    /\ time = NoTime
    /\ since = [c \in Clients |-> Longest]

Tick ==
    /\ time' = Older(time)
    /\ since' = [c \in Clients |-> Older(since[c])]
    /\ UNCHANGED <<rate_limit_reached, refused>>

(* The time is taken for a client's first error only. *)
TimeOfFirst(c) ==
    /\ rate_limit_reached' = rate_limit_reached \cup {c}
    /\ refused' = refused \cup {c}
    /\ since' = [since EXCEPT ![c] = 0]
    /\ time' = IF c \in rate_limit_reached THEN time ELSE 0

(* send_request: RateLimitReached.  handle_errors raises the flag on any   *)
(* exchange for the error ERR_RATE_LIMIT and on some for the status 429,   *)
(* which lowers it on the others; requests sent before still get theirs.   *)
(* The strategy is answered RESOURCE_EXHAUSTED.                            *)
RateLimitReached(c) ==
    /\ \/ rate_limit_reached' = rate_limit_reached \cup {c}
       \/ c \notin Flagging /\ rate_limit_reached' = rate_limit_reached \ {c}
    /\ refused' = refused \cup {c}
    /\ since' = [since EXCEPT ![c] = 0]
    /\ time' = 0

(* send_api_call: QueryCanceled as long as there is the flag; send_request *)
(* takes the time for it as for an error.                                  *)
QueryCanceled(c) ==
    /\ c \in Busy \cap rate_limit_reached
    /\ refused' = refused \cup {c}
    /\ time' = 0
    /\ UNCHANGED <<rate_limit_reached, since>>

(* OpenClientConnection of an account that has a client.                   *)
OpenedAgain(c) ==
    /\ rate_limit_reached' = rate_limit_reached \ {c}
    /\ UNCHANGED <<time, refused, since>>

(* Any time at all will do. *)
NoPause(c) == TRUE

(* The pause of all exchanges but ByBit is over at once: the condition is  *)
(* parsed as (time.time() - ... > 600 if bybit else 60).                   *)
PauseOver(c) == IF c \in ByBit THEN time > Pause ELSE TRUE

(* The time is taken anew while the pause lasts. *)
RestartsPause(c) ==
    /\ time # NoTime
    /\ time' = 0
    /\ UNCHANGED <<rate_limit_reached, refused>>

Cleared(c) ==
    /\ time # NoTime /\ PauseOver(c)
    /\ rate_limit_reached' = rate_limit_reached \ {c}
    /\ refused' = refused \ {c}
    /\ time' = NoTime

(* A flag without a time, which another account's reset has cleared: the   *)
(* pause begins.                                                           *)
PauseBegins(c) ==
    /\ time = NoTime /\ c \in rate_limit_reached
    /\ time' = 0
    /\ UNCHANGED <<rate_limit_reached, refused>>

(* A strategy that was told repeats the call until it succeeds.            *)
ResetRateLimit(c) == c \in refused /\ (Cleared(c) \/ PauseBegins(c)) /\ UNCHANGED since

FlagNext ==
    \/ Tick
    \/ \E c \in Clients : \/ RateLimitReached(c) \/ QueryCanceled(c)
                          \/ OpenedAgain(c) \/ ResetRateLimit(c)

FlagSpec == FlagInit /\ [][FlagNext]_flagVars

(* Time goes on, strategies that were told call ResetRateLimit again and   *)
(* again, and the exchange ends its limits: no request is refused for ever.*)
FlagFairness ==
    /\ WF_flagVars(Tick) /\ <>[][\A c \in Clients : ~RateLimitReached(c)]_flagVars
    /\ \A c \in Clients : WF_flagVars(ResetRateLimit(c))

FairFlagSpec == FlagSpec /\ FlagFairness
-----------------------------------------------------------------------------
(* Properties *)

(* Every variable holds a value of its kind. *)
FlagTypeOK ==
    /\ rate_limit_reached \subseteq Clients /\ refused \subseteq Clients
    /\ time \in 0..NoTime /\ since \in [Clients -> 0..Longest]

(* ResetRateLimit lets the requests of a ByBit account through only when   *)
(* its 600 s after its own last error are over, whatever accounts of any   *)
(* exchange do to the time that they share.                                *)
PauseKept ==
    [][\A c \in ByBit : c \in rate_limit_reached /\ ResetRateLimit(c)
            => c \in rate_limit_reached' \/ since[c] > Pause]_flagVars

(* Does not hold, see README: the 60 s of the other exchanges, which the   *)
(* condition of reset_rate_limit does not test.                            *)
PauseOfOthers ==
    [][\A c \in Clients \ ByBit : c \in rate_limit_reached /\ ResetRateLimit(c)
            => c \in rate_limit_reached' \/ since[c] > ShortPause]_flagVars

(* The flag of an account whose strategy waits is cleared in the end.      *)
FlagCleared == \A c \in Clients \ Busy : c \in rate_limit_reached ~> c \notin rate_limit_reached
=============================================================================
