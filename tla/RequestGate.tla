----------------------------- MODULE RequestGate -----------------------------
(***************************************************************************)
(* The REST requests of one Bitfinex account (send_request): each waits    *)
(* for the account's rate limit interval, passes client.request_event, an  *)
(* asyncio.Event that starts set, clears it, makes its HTTP calls within   *)
(* 90 seconds and sets the event again on every way out.                   *)
(*                                                                         *)
(* Event.set wakes every waiter at once, so the event is a gate and not a  *)
(* lock: woken requests all pass, whoever clears it first.  Signed calls   *)
(* are serialised by HttpClient.rest_cycle_lock, which also makes their    *)
(* nonces (the microseconds of the clock) arrive in order.                 *)
(***************************************************************************)
EXTENDS Naturals, FiniteSets

CONSTANTS
    Requests,       \* requests of the account's trades; each is made once
    RateLimited,    \* those made with rate_limit=True
    Interval,       \* REST_RATE_LIMIT_INTERVAL, in ticks of the clock
    MaxCalls,       \* signed HTTP calls one request makes at most (bound)
    Window,         \* how long a sent call is remembered (bound)
    NoRequest

ASSUME RequestGateAssumption ==
    /\ RateLimited \subseteq Requests /\ NoRequest \notin Requests
    /\ Interval \in Nat /\ MaxCalls \in Nat /\ Window \in Nat

VARIABLES
    pc,         \* where a request stands in send_request
    gate,       \* client.request_event is set
    age,        \* time since ts_rlc, up to Interval
    left,       \* what is left of a request's sleep
    lock,       \* the holder of rest_cycle_lock
    calls,      \* signed HTTP calls a request has made
    clock,      \* the microsecond clock: it moves on between two signatures
    nonce,      \* the nonce a request has signed
    seen,       \* the last nonce that reached the exchange
    ago         \* history: time since a request's last call was sent

http == <<lock, calls, clock, nonce, seen>>
vars == <<pc, gate, age, left, http, ago>>

InCall(r) == pc[r] \in {"calling", "signed", "sent"}

(* ts_rlc starts as the time the account was opened.                       *)
Init ==
    /\ pc = [r \in Requests |-> "new"]
    /\ gate = TRUE
    /\ age = 0
    /\ left = [r \in Requests |-> 0]
    /\ lock = NoRequest
    /\ calls = [r \in Requests |-> 0]
    /\ clock = 0
    /\ nonce = [r \in Requests |-> 0]
    /\ seen = 0
    /\ ago = [r \in Requests |-> Window]

(* Time passes. *)
Tick ==
    /\ age' = IF age < Interval THEN age + 1 ELSE age
    /\ left' = [r \in Requests |-> IF left[r] > 0 THEN left[r] - 1 ELSE 0]
    /\ ago' = [r \in Requests |-> IF ago[r] < Window THEN ago[r] + 1 ELSE ago[r]]
    /\ UNCHANGED <<pc, gate, http>>

(* clear() after wait(): the client method starts. *)
Pass(r) ==
    /\ gate' = FALSE
    /\ pc' = [pc EXCEPT ![r] = "calling"]

(* request_event.wait(): a set event does not suspend.                     *)
EnterGate(r) ==
    \/ gate /\ Pass(r)
    \/ ~gate /\ pc' = [pc EXCEPT ![r] = "waiting"] /\ UNCHANGED gate

(* The time since ts_rlc added instead of subtracted. *)
SleepTooLong == Interval + age

sleep_duration == Interval - age

(* rate_limit_control: sleep for what is left of the interval, computed    *)
(* from ts_rlc as it is now.                                               *)
Arrive(r) ==
    /\ pc[r] = "new"
    /\ \/ /\ r \in RateLimited /\ age < Interval
          /\ pc' = [pc EXCEPT ![r] = "sleeping"]
          /\ left' = [left EXCEPT ![r] = sleep_duration]
          /\ UNCHANGED gate
       \/ /\ r \notin RateLimited \/ age >= Interval
          /\ EnterGate(r)
          /\ UNCHANGED left
    /\ UNCHANGED <<age, http, ago>>

SleepEnds(r) ==
    /\ pc[r] = "sleeping" /\ left[r] = 0
    /\ EnterGate(r)
    /\ UNCHANGED <<age, left, http, ago>>

(* A waiter that set() has woken goes on, whether or not another woken one *)
(* has cleared the event again.                                            *)
Woken(r) ==
    /\ pc[r] = "woken"
    /\ Pass(r)
    /\ UNCHANGED <<age, left, http, ago>>

-----------------------------------------------------------------------------
(* The signed HTTP calls of a client method. *)

(* A call signed without the lock. *)
SignUnlocked(r) ==
    /\ pc[r] = "calling" /\ calls[r] < MaxCalls
    /\ lock' = r
    /\ clock' = clock + 1
    /\ nonce' = [nonce EXCEPT ![r] = clock']
    /\ pc' = [pc EXCEPT ![r] = "signed"]
    /\ UNCHANGED <<gate, age, left, calls, seen, ago>>

(* _bitfinex_request: the lock is taken and the call signed. *)
Sign(r) ==
    /\ pc[r] = "calling" /\ calls[r] < MaxCalls
    /\ lock = NoRequest
    /\ lock' = r
    /\ clock' = clock + 1
    /\ nonce' = [nonce EXCEPT ![r] = clock']
    /\ pc' = [pc EXCEPT ![r] = "signed"]
    /\ UNCHANGED <<gate, age, left, calls, seen, ago>>

(* The session has a connection and the call reaches the exchange.         *)
Transmit(r) ==
    /\ pc[r] = "signed"
    /\ seen' = nonce[r]
    /\ pc' = [pc EXCEPT ![r] = "sent"]
    /\ ago' = [ago EXCEPT ![r] = 0]
    /\ UNCHANGED <<gate, age, left, lock, calls, clock, nonce>>

(* The response is read; the lock is released. *)
Respond(r) ==
    /\ pc[r] = "sent"
    /\ lock' = NoRequest
    /\ calls' = [calls EXCEPT ![r] = @ + 1]
    /\ pc' = [pc EXCEPT ![r] = "calling"]
    /\ UNCHANGED <<gate, age, left, clock, nonce, seen, ago>>

(* A set() that wakes only those who come later. *)
ReleaseUnheard(r) ==
    /\ gate' = TRUE
    /\ pc' = [pc EXCEPT ![r] = "done"]

(* The finally clause: request_event.set() wakes every waiter.             *)
Release(r) ==
    /\ gate' = TRUE
    /\ pc' = [q \in Requests |-> CASE q = r             -> "done"
                                   [] pc[q] = "waiting" -> "woken"
                                   [] OTHER             -> pc[q]]

(* The client method returned: ts_rlc is set if the request is one of      *)
(* those that observe it.                                                  *)
Succeed(r) ==
    /\ pc[r] = "calling"
    /\ age' = IF r \in RateLimited THEN 0 ELSE age
    /\ Release(r)
    /\ UNCHANGED <<left, http, ago>>

(* A way out that forgets the event. *)
AbortShut(r) ==
    /\ InCall(r)
    /\ lock' = IF lock = r THEN NoRequest ELSE lock
    /\ pc' = [pc EXCEPT ![r] = "done"]
    /\ UNCHANGED <<gate, age, left, calls, clock, nonce, seen, ago>>

(* The client method raised, its 90 seconds are over, or the caller is     *)
(* gone: ts_rlc is not set.                                                *)
Abort(r) ==
    /\ InCall(r)
    /\ lock' = IF lock = r THEN NoRequest ELSE lock
    /\ Release(r)
    /\ UNCHANGED <<age, left, calls, clock, nonce, seen, ago>>

(* The caller is gone before the request has passed the gate: nothing is   *)
(* undone.                                                                 *)
GiveUp(r) ==
    /\ pc[r] \in {"sleeping", "waiting", "woken"}
    /\ pc' = [pc EXCEPT ![r] = "done"]
    /\ UNCHANGED <<gate, age, left, http, ago>>

-----------------------------------------------------------------------------
Steps(r) == SleepEnds(r) \/ Woken(r) \/ Sign(r) \/ Transmit(r) \/ Respond(r)
            \/ Succeed(r) \/ Abort(r)

Next == Tick \/ \E r \in Requests : Arrive(r) \/ Steps(r) \/ GiveUp(r)

(* Time passes, the event loop runs what is ready, and wait_for ends every *)
(* client method.  No fairness for arriving requests or callers that leave.*)
Fairness == WF_vars(Tick) /\ \A r \in Requests : WF_vars(Steps(r))

Spec == Init /\ [][Next]_vars
FairSpec == Spec /\ Fairness
-----------------------------------------------------------------------------
(* Properties *)

(* Every variable holds a value of its kind. *)
TypeOK ==
    /\ pc \in [Requests -> {"new", "sleeping", "waiting", "woken", "calling",
                            "signed", "sent", "done"}]
    /\ gate \in BOOLEAN
    /\ age \in 0..Interval
    /\ left \in [Requests -> 0..Interval]
    /\ lock \in Requests \cup {NoRequest}
    /\ calls \in [Requests -> Nat]
    /\ clock \in Nat /\ seen \in Nat
    /\ nonce \in [Requests -> Nat]
    /\ ago \in [Requests -> 0..Window]

(* The gate is never lost: a request waits at it only while another one is *)
(* in its call, which opens it in the end, whatever requests failed, timed *)
(* out or were given up and in whatever order the woken ones cleared it.   *)
GateNeverLost ==
    \A q \in Requests : pc[q] = "waiting" => \E r \in Requests : InCall(r)

(* Signed calls reach the exchange in the order of their nonces, although  *)
(* several requests may be in their calls at once.                         *)
NonceOrder == [][seen' # seen => seen' > seen]_vars

(* Why the gate is never lost: it is shut only by a request in its call,   *)
(* and who waits found it shut.                                            *)
GateInv ==
    /\ ~gate => \E r \in Requests : InCall(r)
    /\ \A q \in Requests : pc[q] = "waiting" => ~gate

(* Why nonces are in order: a signed call holds the lock until it is       *)
(* answered, and its nonce is newer than any that was sent.                *)
LockInv ==
    /\ \A r \in Requests : pc[r] \in {"signed", "sent"} <=> lock = r
    /\ \A r \in Requests : pc[r] = "signed" => nonce[r] > seen
    /\ \A r \in Requests : nonce[r] <= clock
    /\ seen <= clock

(* Every request that arrives is answered or given up.                     *)
RequestEnds == \A r \in Requests : pc[r] # "new" ~> pc[r] = "done"

(* "90 requests per minute": in Window ticks no more of the requests that  *)
(* observe the interval reach the exchange than the interval allows.       *)
RateKept ==
    Cardinality({r \in RateLimited : ago[r] < Window}) * Interval <= Window
=============================================================================
