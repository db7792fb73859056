-------------------------- MODULE RequestGate_proofs --------------------------
(***************************************************************************)
(* The gate is never lost and signed calls are sent in the order of their  *)
(* nonces, for any number of requests, any interval and any bounds.        *)
(***************************************************************************)
EXTENDS RequestGate, TLAPS

LEMMA GateTypeInit == RequestGateAssumption /\ Init => TypeOK
BY DEF Init, TypeOK, RequestGateAssumption

LEMMA GateTypeStep ==
    ASSUME RequestGateAssumption, TypeOK, [Next]_vars
    PROVE  TypeOK'
<1> USE DEF TypeOK, RequestGateAssumption, http, sleep_duration
<1>1. CASE Tick
  BY <1>1 DEF Tick
<1>2. ASSUME NEW r \in Requests, Arrive(r) PROVE TypeOK'
  <2>1. CASE UNCHANGED <<age, http, left, ago>> /\ EnterGate(r)
    BY <2>1 DEF EnterGate, Pass
  <2>2. CASE age < Interval /\ pc' = [pc EXCEPT ![r] = "sleeping"]
             /\ left' = [left EXCEPT ![r] = Interval - age]
             /\ UNCHANGED <<gate, age, http, ago>>
    <3>1. Interval - age \in 0..Interval
      BY <2>2
    <3> QED BY <2>2, <3>1
  <2> QED BY <1>2, <2>1, <2>2 DEF Arrive
<1>3. ASSUME NEW r \in Requests, SleepEnds(r) \/ Woken(r) \/ GiveUp(r) PROVE TypeOK'
  BY <1>3 DEF SleepEnds, Woken, GiveUp, EnterGate, Pass
<1>4. ASSUME NEW r \in Requests, Sign(r) PROVE TypeOK'
  BY <1>4 DEF Sign
<1>5. ASSUME NEW r \in Requests, Transmit(r) PROVE TypeOK'
  BY <1>5 DEF Transmit
<1>6. ASSUME NEW r \in Requests, Respond(r) PROVE TypeOK'
  BY <1>6 DEF Respond
<1>7. ASSUME NEW r \in Requests, Succeed(r) \/ Abort(r) PROVE TypeOK'
  <2>1. pc' \in [Requests -> {"woken", "new", "sleeping", "waiting", "calling",
                               "signed", "sent", "done"}]
    BY <1>7 DEF Succeed, Abort, Release, InCall
  <2>2. /\ gate' \in BOOLEAN /\ age' \in 0..Interval
        /\ lock' \in Requests \cup {NoRequest}
        /\ UNCHANGED <<left, calls, clock, nonce, seen, ago>>
    <3>1. CASE Succeed(r)
      BY <3>1 DEF Succeed, Release
    <3>2. CASE Abort(r)
      BY <3>2 DEF Abort, Release
    <3> QED BY <1>7, <3>1, <3>2
  <2> QED BY <2>1, <2>2
<1>8. CASE UNCHANGED vars
  BY <1>8 DEF vars
<1> QED BY <1>1, <1>2, <1>3, <1>4, <1>5, <1>6, <1>7, <1>8 DEF Next, Steps

(* The type invariant. *)
THEOREM GateTypeCorrect == Spec => []TypeOK
BY GateTypeInit, GateTypeStep, RequestGateAssumption, PTL DEF Spec

-----------------------------------------------------------------------------
LEMMA GateInvStep ==
    ASSUME RequestGateAssumption, TypeOK, GateInv, [Next]_vars
    PROVE  GateInv'
<1> USE DEF TypeOK, GateInv, InCall, http
<1>1. ASSUME NEW r \in Requests, ~InCall(r), Pass(r) PROVE GateInv'
  BY <1>1 DEF Pass
<1>2. ASSUME NEW r \in Requests, ~InCall(r), EnterGate(r) PROVE GateInv'
  <2>1. CASE gate /\ Pass(r)
    BY <1>1, <1>2, <2>1
  <2>2. CASE ~gate /\ pc' = [pc EXCEPT ![r] = "waiting"] /\ UNCHANGED gate
    <3>1. PICK q \in Requests : InCall(q)
      BY <2>2
    <3>2. InCall(q)'
      BY <1>2, <2>2, <3>1
    <3> QED BY <2>2, <3>2
  <2> QED BY <1>2, <2>1, <2>2 DEF EnterGate
<1>3. ASSUME NEW r \in Requests, Arrive(r) PROVE GateInv'
  <2>1. CASE EnterGate(r)
    BY <1>2, <1>3, <2>1 DEF Arrive
  <2>2. CASE pc' = [pc EXCEPT ![r] = "sleeping"] /\ UNCHANGED gate
    BY <1>3, <2>2 DEF Arrive
  <2> QED BY <1>3, <2>1, <2>2 DEF Arrive
<1>4. ASSUME NEW r \in Requests, SleepEnds(r) PROVE GateInv'
  BY <1>2, <1>4 DEF SleepEnds
<1>5. ASSUME NEW r \in Requests, Woken(r) PROVE GateInv'
  BY <1>1, <1>5 DEF Woken
<1>6. ASSUME NEW r \in Requests, Sign(r) \/ Transmit(r) \/ Respond(r) PROVE GateInv'
  BY <1>6 DEF Sign, Transmit, Respond
<1>7. ASSUME NEW r \in Requests, Succeed(r) \/ Abort(r) PROVE GateInv'
  BY <1>7 DEF Succeed, Abort, Release
<1>8. ASSUME NEW r \in Requests, GiveUp(r) PROVE GateInv'
  BY <1>8 DEF GiveUp
<1>9. CASE Tick \/ UNCHANGED vars
  BY <1>9 DEF Tick, vars
<1> QED BY <1>3, <1>4, <1>5, <1>6, <1>7, <1>8, <1>9 DEF Next, Steps

(* A request waits at the gate only while another one is in its call.      *)
THEOREM GateKept == Spec => []GateNeverLost
<1>1. Init => GateInv
  BY DEF Init, GateInv
<1>2. GateInv => GateNeverLost
  BY DEF GateInv, GateNeverLost
<1> QED BY <1>1, <1>2, GateTypeCorrect, GateInvStep, RequestGateAssumption, PTL DEF Spec

-----------------------------------------------------------------------------
LEMMA LockInvStep ==
    ASSUME RequestGateAssumption, TypeOK, LockInv, [Next]_vars
    PROVE  LockInv' /\ (seen' # seen => seen' > seen)
<1> USE DEF TypeOK, LockInv, RequestGateAssumption
<1> DEFINE Goal == LockInv' /\ (seen' # seen => seen' > seen)
           Held(r) == pc[r] \in {"signed", "sent"}
<1>1. ASSUME UNCHANGED http, \A r \in Requests : pc'[r] = pc[r] \/ (~Held(r) /\ ~Held(r)')
      PROVE  Goal
  BY <1>1 DEF http
<1>2. ASSUME NEW r \in Requests, Arrive(r) PROVE Goal
  <2>1. \A q \in Requests : pc'[q] = pc[q] \/ (~Held(q) /\ ~Held(q)')
    BY <1>2 DEF Arrive, EnterGate, Pass
  <2> QED BY <1>1, <1>2, <2>1 DEF Arrive
<1>3. ASSUME NEW r \in Requests, SleepEnds(r) \/ Woken(r) \/ GiveUp(r) PROVE Goal
  <2>1. \A q \in Requests : pc'[q] = pc[q] \/ (~Held(q) /\ ~Held(q)')
    BY <1>3 DEF SleepEnds, Woken, GiveUp, EnterGate, Pass
  <2> QED BY <1>1, <1>3, <2>1 DEF SleepEnds, Woken, GiveUp
<1>4. ASSUME NEW r \in Requests, Sign(r) PROVE Goal
  BY <1>4 DEF Sign
<1>5. ASSUME NEW r \in Requests, Transmit(r) PROVE Goal
  <2>1. lock = r /\ nonce[r] > seen
    BY <1>5 DEF Transmit
  <2>2. /\ seen' = nonce[r] /\ pc' = [pc EXCEPT ![r] = "sent"]
        /\ UNCHANGED <<lock, clock, nonce>>
    BY <1>5 DEF Transmit
  <2> QED BY <1>5, <2>1, <2>2 DEF Transmit
<1>6. ASSUME NEW r \in Requests, Respond(r) PROVE Goal
  BY <1>6 DEF Respond
<1>7. ASSUME NEW r \in Requests, Succeed(r) PROVE Goal
  <2>1. \A q \in Requests : pc'[q] = pc[q] \/ (~Held(q) /\ ~Held(q)')
    BY <1>7 DEF Succeed, Release
  <2> QED BY <1>1, <1>7, <2>1 DEF Succeed
<1>8. ASSUME NEW r \in Requests, Abort(r) PROVE Goal
  <2>1. \A q \in Requests : pc'[q] = pc[q] \/ (q = r /\ ~Held(q)')
                             \/ (~Held(q) /\ ~Held(q)')
    BY <1>8 DEF Abort, Release, InCall
  <2>2. UNCHANGED <<clock, nonce, seen>> /\ lock' = IF lock = r THEN NoRequest ELSE lock
    BY <1>8 DEF Abort
  <2>3. \A q \in Requests : Held(q)' <=> lock' = q
    <3>1. ~Held(r)'
      BY <1>8 DEF Abort, Release, InCall
    <3> QED BY <2>1, <2>2, <3>1
  <2> QED BY <2>1, <2>2, <2>3
<1>9. CASE Tick \/ UNCHANGED vars
  <2>1. UNCHANGED <<pc, http>>
    BY <1>9 DEF Tick, vars
  <2> QED BY <1>1, <2>1
<1> QED BY <1>2, <1>3, <1>4, <1>5, <1>6, <1>7, <1>8, <1>9 DEF Next, Steps

(* Signed calls reach the exchange in the order of their nonces.           *)
THEOREM NoncesOrdered == Spec => NonceOrder
<1>1. Init => LockInv
  <2> SUFFICES ASSUME Init PROVE LockInv
    OBVIOUS
  <2>1. \A r \in Requests : pc[r] = "new" /\ nonce[r] = 0 /\ lock # r
    BY RequestGateAssumption DEF Init
  <2> QED BY <2>1 DEF Init, LockInv
<1>2. TypeOK /\ LockInv /\ [Next]_vars => LockInv' /\ (seen' # seen => seen' > seen)
  BY LockInvStep, RequestGateAssumption
<1> QED BY <1>1, <1>2, GateTypeCorrect, PTL DEF Spec, NonceOrder
=============================================================================
