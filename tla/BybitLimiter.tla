---------------------------- MODULE BybitLimiter ----------------------------
(***************************************************************************)
(* RateLimitHandler of parsers/bybit.py for one path of ByBit's REST API:  *)
(* wait() before a request is sent, update() with the headers of its       *)
(* response.  Until the first response nothing is known of the limit, so   *)
(* the requests after the first one wait for it.                           *)
(*                                                                         *)
(* The server is external: it accepts Limit requests in a window of time,  *)
(* rejects more with retCode 10006, and tells with every response how many *)
(* are left.  Requests are lost together with their connection.            *)
(***************************************************************************)
EXTENDS Integers, FiniteSets

CONSTANTS
    Requests,
    Limit,          \* X-Bapi-Limit
    Headers,        \* does the path's response have the limit's headers?
    Failures        \* requests that are lost (bound)

ASSUME BybitLimiterAssumption ==
    Limit \in Nat \ {0, 1} /\ Headers \in BOOLEAN /\ Failures \in Nat

VARIABLES
    request_pc,      \* "idle", "waiting" (for stats), "delayed" (until the window
                     \* is over), "due" (in its share of the next), "sent", "over"
    path_fired,      \* is the path in path_fired?
    path_count,      \* path_count[path]
    counts,          \* wait()'s _count, a request's place; 0 before it is called
    stats,           \* limit_status of stats[path]; NoStats if there are none
    used,            \* requests the server counted in this window
    left_in_window,  \* the server's answer: requests left in the window
    tries,           \* how often a request waited out TIMEOUT
    failures

limiterVars == <<request_pc, path_fired, path_count, counts, stats, used, left_in_window, tries, failures>>

NoStats == -1
NoAnswer == -2
MaxTries == 2   \* send_request's 90 s are over at the third TIMEOUT of 30 s

LimiterInit ==
    /\ request_pc = [r \in Requests |-> "idle"]
    /\ path_fired = FALSE /\ path_count = 0 /\ counts = [r \in Requests |-> 0]
    /\ stats = NoStats
    /\ used = 0 /\ left_in_window = [r \in Requests |-> NoAnswer]
    /\ tries = [r \in Requests |-> 0] /\ failures = 0

-----------------------------------------------------------------------------
(* wait() *)

(* The request is held back; its place is compared in a second call only. *)
Held(r) == stats <= 1 \/ counts[r] >= Limit - 1

(* asyncio.sleep(delay): until the window is over, then a share of the     *)
(* next one.                                                               *)
Delay == IF used > 0 THEN "delayed" ELSE "due"

(* Every call counts the request once more, the first sets its place.      *)
Count(r) ==
    /\ path_count' = path_count + 1
    /\ counts' = [counts EXCEPT ![r] = IF @ = 0 THEN path_count + 1 ELSE @]

(* A first request that is not marked. *)
WaitUnmarked(r) ==
    /\ Count(r)
    /\ request_pc' = [request_pc EXCEPT ![r] = IF stats # NoStats /\ Held(r) THEN Delay
                              ELSE IF stats = NoStats /\ path_fired THEN "waiting" ELSE "sent"]
    /\ UNCHANGED <<path_fired, stats, used, left_in_window, failures>>

(* wait(path, count)                                                       *)
Wait(r) ==
    /\ Count(r)
    /\ \/ /\ stats # NoStats
          /\ request_pc' = [request_pc EXCEPT ![r] = IF Held(r) THEN Delay ELSE "sent"]
          /\ UNCHANGED path_fired
       \/ /\ stats = NoStats
          /\ path_fired' = TRUE
          /\ request_pc' = [request_pc EXCEPT ![r] = IF path_fired THEN "waiting" ELSE "sent"]
    /\ UNCHANGED <<stats, used, left_in_window, failures>>

Arrive(r) == request_pc[r] = "idle" /\ Wait(r) /\ UNCHANGED tries

(* The statistics are there: wait() calls itself.                          *)
StatsKnown(r) == request_pc[r] = "waiting" /\ stats # NoStats /\ Wait(r) /\ UNCHANGED tries

(* A wait that send_request does not end. *)
TimeoutForever(r) ==
    /\ request_pc[r] = "waiting" /\ stats = NoStats
    /\ \A q \in Requests : request_pc[q] # "sent"
    /\ tries' = [tries EXCEPT ![r] = @ + 1]
    /\ Wait(r)

(* TIMEOUT is over.  Requests that are sent are answered or lost sooner.   *)
Timeout(r) ==
    /\ request_pc[r] = "waiting" /\ stats = NoStats /\ tries[r] < MaxTries
    /\ \A q \in Requests : request_pc[q] # "sent"
    /\ tries' = [tries EXCEPT ![r] = @ + 1]
    /\ Wait(r)

(* The sleep is over.                                                      *)
DelayOver(r) ==
    /\ request_pc[r] = "due"
    /\ request_pc' = [request_pc EXCEPT ![r] = "sent"]
    /\ UNCHANGED <<path_fired, path_count, counts, stats, used, left_in_window, tries, failures>>

(* send_request's wait_for                                                 *)
GiveUp(r) ==
    /\ request_pc[r] = "waiting" /\ stats = NoStats /\ tries[r] = MaxTries
    /\ request_pc' = [request_pc EXCEPT ![r] = "over"]
    /\ UNCHANGED <<path_fired, path_count, counts, stats, used, left_in_window, tries, failures>>

-----------------------------------------------------------------------------
(* The server *)

(* A window is longer than the answer to a request takes.                  *)
WindowOver ==
    /\ used > 0 /\ \A r \in Requests : request_pc[r] # "sent" \/ left_in_window[r] = NoAnswer
    /\ used' = 0
    /\ request_pc' = [r \in Requests |-> IF request_pc[r] = "delayed" THEN "due" ELSE request_pc[r]]
    /\ UNCHANGED <<path_fired, path_count, counts, stats, left_in_window, tries, failures>>

Served(r) ==
    /\ request_pc[r] = "sent" /\ left_in_window[r] = NoAnswer
    /\ used' = used + 1
    /\ left_in_window' = [left_in_window EXCEPT ![r] = IF used < Limit THEN Limit - used - 1 ELSE 0]
    /\ UNCHANGED <<request_pc, path_fired, path_count, counts, stats, tries, failures>>

-----------------------------------------------------------------------------
(* HttpClient.send_request *)

(* The statistics of the first response are not kept. *)
UpdateForgets(r) ==
    /\ path_count' = IF path_count > 0 THEN path_count - 1 ELSE 0
    /\ stats' = IF Headers /\ stats # NoStats THEN left_in_window[r] ELSE stats
    /\ UNCHANGED path_fired

(* update(): without headers the next request may be the first one again.  *)
Update(r) ==
    /\ path_count' = IF path_count > 0 THEN path_count - 1 ELSE 0
    /\ stats' = IF Headers THEN left_in_window[r] ELSE stats
    /\ path_fired' = (Headers /\ path_fired)

(* The response; for a rejected request fire_exceeded_rate_limit sets the  *)
(* same limit_status of 0, and its result is returned like any other.      *)
Respond(r) ==
    /\ request_pc[r] = "sent" /\ left_in_window[r] # NoAnswer
    /\ Update(r)
    /\ request_pc' = [request_pc EXCEPT ![r] = "over"]
    /\ UNCHANGED <<counts, used, left_in_window, tries, failures>>

(* The connection is lost: the session is closed, wait() is not undone.    *)
Fail(r) ==
    /\ request_pc[r] = "sent" /\ failures < Failures
    /\ failures' = failures + 1
    /\ request_pc' = [request_pc EXCEPT ![r] = "over"]
    /\ UNCHANGED <<path_fired, path_count, counts, stats, used, left_in_window, tries>>

-----------------------------------------------------------------------------
Proceed(r) ==
    \/ StatsKnown(r) \/ Timeout(r) \/ DelayOver(r) \/ GiveUp(r) \/ Served(r) \/ Respond(r)

LimiterNext == WindowOver \/ \E r \in Requests : Arrive(r) \/ Proceed(r) \/ Fail(r)

LimiterSpec == LimiterInit /\ [][LimiterNext]_limiterVars

(* Timers run, the server answers and its windows end.                     *)
LimiterFairness ==
    WF_limiterVars(WindowOver) /\ \A r \in Requests : WF_limiterVars(Proceed(r))

FairLimiterSpec == LimiterSpec /\ LimiterFairness
-----------------------------------------------------------------------------
(* Properties *)

(* Every variable holds a value of its kind. *)
LimiterTypeOK ==
    /\ request_pc \in [Requests -> {"idle", "waiting", "delayed", "due", "sent", "over"}]
    /\ path_fired \in BOOLEAN /\ path_count \in Nat /\ counts \in [Requests -> Nat]
    /\ stats \in {NoStats} \cup 0..Limit - 1
    /\ used \in Nat /\ left_in_window \in [Requests -> {NoAnswer} \cup 0..Limit - 1]
    /\ tries \in [Requests -> 0..MaxTries] /\ failures \in 0..Failures

(* As long as nothing is known of the limit, requests go one at a time:    *)
(* also after a lost one, and on paths whose responses tell nothing.       *)
FirstAlone ==
    stats = NoStats => Cardinality({r \in Requests : request_pc[r] = "sent"}) <= 1

(* A request that waits for the first response to be known is sent.        *)
RequestSent ==
    \A r \in Requests : request_pc[r] = "waiting" ~> request_pc[r] \in {"delayed", "due", "sent"}

(* Does not hold, see README: requests that see the same statistics are    *)
(* sent together and exceed the limit.                                     *)
RateKept == used <= Limit
=============================================================================
