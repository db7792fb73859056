------------------------- MODULE Connections_proofs -------------------------
(***************************************************************************)
(* Between a strategy's calls and the network: what holds of connections,  *)
(* of ByBit's limiter, of the HTTP session, of the registry of clients and *)
(* of the rate limit flag, for any number of each and any failures.        *)
(***************************************************************************)
EXTENDS ConnectionsMC, FiniteSetTheorems, TLAPS

-----------------------------------------------------------------------------
(* A connection whose server pings is never closed for a timeout, for any  *)
(* number of streams and of connections.                                   *)

(* The helper that has seen a ping is that of the last connection, and     *)
(* self.ping is then 0: only one helper is there to set it.                *)
PingSeen == \A s \in Streams : fresh[s] \subseteq {connects[s]} /\ (ping[s] = 1 => fresh[s] = {})

(* A start_wss that makes a helper has a connection.                       *)
Connected == \A s \in Streams : wss_pc[s] = "starting" => websocket[s] = connects[s] /\ connects[s] # 0

ConnectionInv == ConnectionTypeOK /\ PingSeen /\ Connected

LEMMA InitConnection == WssConnectionAssumption /\ ConnectionInit => ConnectionInv
<1> SUFFICES ASSUME WssConnectionAssumption, ConnectionInit PROVE ConnectionInv
  OBVIOUS
<1>1. PingSeen /\ Connected
  BY DEF ConnectionInit, PingSeen, Connected
<1>2. ConnectionTypeOK
  <2>1. 0 \in 0..MaxConnects
    BY DEF WssConnectionAssumption
  <2>2. link \in [Streams -> Closed \cup {"open", "dead"}]
    BY DEF ConnectionInit, Closed
  <2> QED BY <2>1, <2>2 DEF ConnectionInit, ConnectionTypeOK
<1> QED BY <1>1, <1>2 DEF ConnectionInv

-----------------------------------------------------------------------------
(* The steps of start(). *)
LEMMA TaskStep ==
    ASSUME WssConnectionAssumption, ConnectionInv, NEW s \in Streams,
           Connect(s) \/ Answered(s) \/ Raises(s) \/ Ping(s) \/ Notice(s)
    PROVE  ConnectionInv'
<1> USE DEF ConnectionInv, ConnectionTypeOK, PingSeen, Connected, WssConnectionAssumption
<1>1. CASE Connect(s)
  <2>1. connects[s] + 1 \in 1..MaxConnects
    BY <1>1 DEF Connect
  <2>2. helpers'[s] \subseteq {connects'[s]} /\ helpers'[s] \subseteq 1..MaxConnects
    BY <1>1, <2>1 DEF Connect, cycle_init
  <2>3. /\ connects' \in [Streams -> 0..MaxConnects] /\ websocket' \in [Streams -> 0..MaxConnects]
        /\ wss_pc' \in [Streams -> {"connecting", "starting", "listening", "ended"}]
        /\ link' \in [Streams -> Closed \cup {"open", "dead"}]
        /\ fresh' \in [Streams -> SUBSET (1..MaxConnects)]
    BY <1>1, <2>1 DEF Connect
  <2>4. helpers' \in [Streams -> SUBSET (1..MaxConnects)]
    BY <1>1, <2>2 DEF Connect
  <2>5. \A t \in Streams \ {s} : /\ connects'[t] = connects[t] /\ websocket'[t] = websocket[t]
                                 /\ helpers'[t] = helpers[t] /\ fresh'[t] = fresh[t] /\ wss_pc'[t] = wss_pc[t]
    BY <1>1 DEF Connect
  <2>6. /\ connects'[s] = connects[s] + 1 /\ websocket'[s] = connects[s] + 1 /\ fresh'[s] = {}
        /\ UNCHANGED <<ping, stop, stopped, closing>>
    BY <1>1 DEF Connect
  <2> QED BY <2>1, <2>2, <2>3, <2>4, <2>5, <2>6
<1>2. CASE Answered(s)
  <2>1. websocket[s] \in 1..MaxConnects /\ websocket[s] = connects[s]
    BY <1>2 DEF Answered
  <2>2. /\ helpers' \in [Streams -> SUBSET (1..MaxConnects)]
        /\ \A t \in Streams : helpers'[t] \subseteq {connects[t]}
    BY <1>2, <2>1 DEF Answered
  <2> QED BY <1>2, <2>2 DEF Answered
<1>3. CASE Raises(s)
  <2>1. websocket' \in [Streams -> 0..MaxConnects] /\ \A t \in Streams : websocket'[t] \in {0, connects[t]}
    BY <1>3 DEF Raises
  <2>2. \A t \in Streams : wss_pc'[t] = "starting" => websocket'[t] = websocket[t] /\ wss_pc[t] = "starting"
    BY <1>3 DEF Raises
  <2> QED BY <1>3, <2>1, <2>2 DEF Raises, Closed
<1>4. CASE Ping(s)
  BY <1>4 DEF Ping
<1>5. CASE Notice(s)
  <2>1. websocket' \in [Streams -> 0..MaxConnects] /\ \A t \in Streams : websocket'[t] \in {0, connects[t]}
    BY <1>5 DEF Notice
  <2>2. \A t \in Streams : wss_pc'[t] = "starting" => websocket'[t] = websocket[t] /\ wss_pc[t] = "starting"
    BY <1>5 DEF Notice
  <2> QED BY <1>5, <2>1, <2>2 DEF Notice
<1> QED BY <1>1, <1>2, <1>3, <1>4, <1>5

(* Those of the network change the connection only. *)
LEMMA NetworkStep ==
    ASSUME WssConnectionAssumption, ConnectionInv, NEW s \in Streams,
           PeerCloses(s) \/ Dies(s) \/ LibraryNotices(s)
    PROVE  ConnectionInv'
<1> USE DEF ConnectionInv, ConnectionTypeOK, PingSeen, Connected
<1>1. link' \in [Streams -> Closed \cup {"open", "dead"}]
  BY DEF PeerCloses, Dies, LibraryNotices, Closed
<1>2. UNCHANGED <<wss_pc, websocket, connects, helpers, ping, fresh, stop, stopped, closing>>
  BY DEF PeerCloses, Dies, LibraryNotices
<1> QED BY <1>1, <1>2

(* A helper that checks is the only one. *)
LEMMA SleptLast ==
    ASSUME ConnectionInv, NEW s \in Streams, NEW h \in helpers[s], Slept(s, h)
    PROVE  /\ fresh' \in [Streams -> SUBSET (1..MaxConnects)] /\ fresh'[s] = {}
           /\ \A t \in Streams \ {s} : fresh'[t] = fresh[t]
<1>1. h = connects[s] /\ fresh[s] \subseteq {h}
  BY DEF ConnectionInv, ConnectionTypeOK, PingSeen
<1> QED BY <1>1 DEF Slept, ConnectionInv, ConnectionTypeOK

LEMMA HelperStep ==
    ASSUME WssConnectionAssumption, ConnectionInv, NEW s \in Streams, Helper(s)
    PROVE  ConnectionInv'
<1> USE DEF ConnectionInv, ConnectionTypeOK, PingSeen, Connected
<1>1. PICK h \in helpers[s] : Check(s, h) \/ PingTimeout(s, h) \/ HeartbeatEnds(s, h)
  BY DEF Helper
<1>2. CASE Check(s, h)
  BY <1>2, SleptLast DEF Check
<1>3. CASE PingTimeout(s, h)
  <2>1. link' \in [Streams -> Closed \cup {"open", "dead"}]
    BY <1>3 DEF PingTimeout, Closed
  <2>2. /\ helpers' \in [Streams -> SUBSET (1..MaxConnects)]
        /\ \A t \in Streams : helpers'[t] \subseteq helpers[t]
    BY <1>3 DEF PingTimeout
  <2>3. /\ fresh' \in [Streams -> SUBSET (1..MaxConnects)] /\ fresh'[s] = {}
        /\ \A t \in Streams \ {s} : fresh'[t] = fresh[t]
    BY <1>3, SleptLast DEF PingTimeout
  <2>4. UNCHANGED <<wss_pc, websocket, connects, ping, stop, stopped, closing>>
    BY <1>3 DEF PingTimeout
  <2> QED BY <2>1, <2>2, <2>3, <2>4
<1>4. CASE HeartbeatEnds(s, h)
  <2>1. /\ helpers' \in [Streams -> SUBSET (1..MaxConnects)]
        /\ \A t \in Streams : helpers'[t] \subseteq helpers[t]
    BY <1>4 DEF HeartbeatEnds
  <2> QED BY <1>4, <2>1 DEF HeartbeatEnds
<1> QED BY <1>1, <1>2, <1>3, <1>4

LEMMA StopStep ==
    ASSUME WssConnectionAssumption, ConnectionInv, StopEventsListener \/ StopSteps
    PROVE  ConnectionInv'
<1> USE DEF ConnectionInv, ConnectionTypeOK, PingSeen, Connected
<1>1. CASE StopEventsListener
  BY <1>1 DEF StopEventsListener
<1>2. CASE TasksCancelled
  BY <1>2 DEF TasksCancelled, Closed
<1>3. ASSUME NEW s \in Streams, Stop(s) PROVE ConnectionInv'
  <2>1. PICK how : /\ link' = [link EXCEPT ![s] = how]
                   /\ how \in Closed \cup {"open", "dead"}
    BY <1>3 DEF Stop, Closed
  <2>2. link' \in [Streams -> Closed \cup {"open", "dead"}]
    BY <2>1
  <2> QED BY <1>3, <2>2 DEF Stop
<1>4. ASSUME NEW s \in Streams, Stopped(s) PROVE ConnectionInv'
  BY <1>4 DEF Stopped, cycle_init
<1> QED BY <1>1, <1>2, <1>3, <1>4 DEF StopSteps

LEMMA ConnectionStep ==
    ASSUME WssConnectionAssumption, ConnectionInv, [ConnectionNext]_connectionVars
    PROVE  ConnectionInv'
<1>1. CASE UNCHANGED connectionVars
  BY <1>1 DEF connectionVars, ConnectionInv, ConnectionTypeOK, PingSeen, Connected
<1> QED BY <1>1, TaskStep, NetworkStep, HelperStep, StopStep DEF ConnectionNext

LEMMA ConnectionAlways == ConnectionSpec => []ConnectionInv
BY InitConnection, ConnectionStep, WssConnectionAssumption, PTL DEF ConnectionSpec

(* The type invariant: the helpers are those of the last connection.       *)
THEOREM ConnectionTypeCorrect == ConnectionSpec => []ConnectionTypeOK
<1>1. ConnectionInv => ConnectionTypeOK
  BY DEF ConnectionInv
<1> QED BY <1>1, ConnectionAlways, PTL

(* A connection that is open and pinged in every interval is not closed by *)
(* htx_keepalive, whatever connections and helpers there were before it.   *)
THEOREM NoConnectionTimesOutFalsely == ConnectionSpec => NoFalseTimeout
<1> DEFINE NoneIsFalse == \A s \in Streams : \A h \in helpers[s] :
             wss_pc[s] = "listening" /\ PingTimeout(s, h) => link[s] # "open"
<1>1. ConnectionInv => NoneIsFalse
  <2> SUFFICES ASSUME ConnectionInv, NEW s \in Streams, NEW h \in helpers[s],
                      wss_pc[s] = "listening", PingTimeout(s, h), link[s] = "open"
               PROVE  FALSE
    OBVIOUS
  <2>1. h \in fresh[s]
    BY DEF PingTimeout, Slept
  <2>2. ping[s] = 1
    BY DEF PingTimeout
  <2> QED BY <2>1, <2>2 DEF ConnectionInv, PingSeen
<1>2. ConnectionInv /\ [ConnectionNext]_connectionVars => [NoneIsFalse]_connectionVars
  BY <1>1
<1> QED BY <1>2, ConnectionAlways, PTL DEF ConnectionSpec, NoFalseTimeout

-----------------------------------------------------------------------------
(* As long as nothing is known of a path's limit its requests are sent one *)
(* at a time, for any number of requests, any limit and any failures.      *)

(* What holds while nothing is known: FirstAlone without the cardinality,  *)
(* with what it rests on.                                                  *)
OneSent == \A r, q \in Requests : request_pc[r] = "sent" /\ request_pc[q] = "sent" => r = q
NoneDelayed == \A r \in Requests : request_pc[r] \notin {"delayed", "due"}
SentIsFired == path_fired \/ \A r \in Requests : request_pc[r] # "sent"

Unknown == stats = NoStats => OneSent /\ NoneDelayed /\ SentIsFired

LimiterInv == LimiterTypeOK /\ Unknown

LEMMA InitLimiter == BybitLimiterAssumption /\ LimiterInit => LimiterInv
<1> SUFFICES ASSUME BybitLimiterAssumption, LimiterInit PROVE LimiterTypeOK /\ Unknown
  BY DEF LimiterInv
<1>1. LimiterTypeOK
  <2>1. left_in_window \in [Requests -> {NoAnswer} \cup 0..Limit - 1]
    BY DEF LimiterInit
  <2>2. tries \in [Requests -> 0..MaxTries]
    BY DEF LimiterInit, MaxTries
  <2>3. request_pc \in [Requests -> {"idle", "waiting", "delayed", "due", "sent", "over"}]
    BY DEF LimiterInit
  <2>6. counts \in [Requests -> Nat]
    BY DEF LimiterInit
  <2>4. path_fired \in BOOLEAN /\ path_count \in Nat /\ used \in Nat /\ failures \in 0..Failures
    <3>1. path_fired = FALSE /\ path_count = 0 /\ used = 0 /\ failures = 0
      BY DEF LimiterInit
    <3>2. path_fired \in BOOLEAN
      BY <3>1
    <3>3. Failures \in Nat
      BY DEF BybitLimiterAssumption
    <3> QED BY <3>1, <3>2, <3>3
  <2>5. stats \in {NoStats} \cup 0..Limit - 1
    BY DEF LimiterInit
  <2> QED BY <2>1, <2>2, <2>3, <2>4, <2>5, <2>6 DEF LimiterTypeOK
<1>2. Unknown
  BY DEF LimiterInit, Unknown, OneSent, NoneDelayed, SentIsFired
<1> QED BY <1>1, <1>2

(* wait() sends at once, or waits, or is held back when a limit is known. *)
LEMMA WaitCases ==
    ASSUME NEW r \in Requests, Wait(r)
    PROVE  \E next \in {"delayed", "due", "sent", "waiting"} :
             /\ request_pc' = [request_pc EXCEPT ![r] = next]
             /\ Count(r)
             /\ UNCHANGED <<stats, used, left_in_window, failures>>
             /\ stats = NoStats => path_fired' = TRUE /\ next = IF path_fired THEN "waiting" ELSE "sent"
             /\ stats # NoStats => UNCHANGED path_fired
<1>1. CASE stats # NoStats
  BY <1>1 DEF Wait, Delay
<1>2. CASE stats = NoStats
  BY <1>2 DEF Wait, Delay
<1> QED BY <1>1, <1>2

LEMMA LimiterTypeStep ==
    ASSUME BybitLimiterAssumption, LimiterTypeOK, [LimiterNext]_limiterVars
    PROVE  LimiterTypeOK'
<1> USE DEF BybitLimiterAssumption, LimiterTypeOK, NoStats, NoAnswer, MaxTries
<1>1. ASSUME NEW r \in Requests, Wait(r), tries' \in [Requests -> 0..MaxTries]
      PROVE  LimiterTypeOK'
  <2>1. PICK next \in {"delayed", "due", "sent", "waiting"} :
             /\ request_pc' = [request_pc EXCEPT ![r] = next]
             /\ Count(r)
             /\ UNCHANGED <<stats, used, left_in_window, failures>>
             /\ stats = NoStats => path_fired' = TRUE
             /\ stats # NoStats => UNCHANGED path_fired
    BY <1>1, WaitCases DEF NoStats
  <2>2. request_pc' \in [Requests -> {"idle", "waiting", "delayed", "due", "sent", "over"}]
    BY <2>1
  <2>3. path_fired' \in BOOLEAN
    BY <2>1
  <2>4. path_count' \in Nat /\ counts' \in [Requests -> Nat]
    BY <2>1 DEF Count
  <2> QED BY <1>1, <2>1, <2>2, <2>3, <2>4
<1>2. ASSUME NEW r \in Requests, Arrive(r) \/ StatsKnown(r) PROVE LimiterTypeOK'
  BY <1>1, <1>2 DEF Arrive, StatsKnown
<1>3. ASSUME NEW r \in Requests, Timeout(r) PROVE LimiterTypeOK'
  <2>1. tries' \in [Requests -> 0..MaxTries]
    BY <1>3 DEF Timeout
  <2> QED BY <1>1, <1>3, <2>1 DEF Timeout
<1>4. ASSUME NEW r \in Requests, DelayOver(r) \/ GiveUp(r) \/ Fail(r) PROVE LimiterTypeOK'
  BY <1>4 DEF DelayOver, GiveUp, Fail
<1>5. CASE WindowOver
  BY <1>5 DEF WindowOver
<1>6. ASSUME NEW r \in Requests, Served(r) PROVE LimiterTypeOK'
  <2>1. (IF used < Limit THEN Limit - used - 1 ELSE 0) \in 0..Limit - 1
    OBVIOUS
  <2> QED BY <1>6, <2>1 DEF Served
<1>7. ASSUME NEW r \in Requests, Respond(r) PROVE LimiterTypeOK'
  <2>1. path_count' \in Nat /\ path_fired' \in BOOLEAN /\ stats' \in {NoStats} \cup 0..Limit - 1
    BY <1>7 DEF Respond, Update
  <2> QED BY <1>7, <2>1 DEF Respond
<1>8. CASE UNCHANGED limiterVars
  BY <1>8 DEF limiterVars
<1> QED BY <1>2, <1>3, <1>4, <1>5, <1>6, <1>7, <1>8 DEF LimiterNext, Proceed

LEMMA UnknownStep ==
    ASSUME BybitLimiterAssumption, LimiterInv, [LimiterNext]_limiterVars
    PROVE  Unknown'
<1> USE DEF LimiterInv, Unknown, OneSent, NoneDelayed, SentIsFired
<1> SUFFICES ASSUME stats' = NoStats PROVE OneSent' /\ NoneDelayed' /\ SentIsFired'
  OBVIOUS
<1>1. ASSUME NEW r \in Requests, Wait(r) PROVE Unknown'
  <2>1. stats = NoStats /\ request_pc' = [request_pc EXCEPT ![r] = IF path_fired THEN "waiting" ELSE "sent"]
        /\ path_fired' = TRUE
    BY <1>1, WaitCases
  <2>2. CASE path_fired
    BY <2>1, <2>2 DEF LimiterTypeOK
  <2>3. CASE ~path_fired
    BY <2>1, <2>3 DEF LimiterTypeOK
  <2> QED BY <2>2, <2>3
<1>2. ASSUME NEW r \in Requests, Arrive(r) \/ StatsKnown(r) \/ Timeout(r) PROVE Unknown'
  BY <1>1, <1>2 DEF Arrive, StatsKnown, Timeout
<1>3. ASSUME NEW r \in Requests, DelayOver(r) PROVE Unknown'
  BY <1>3 DEF DelayOver
<1>4. ASSUME NEW r \in Requests, GiveUp(r) \/ Fail(r) PROVE Unknown'
  BY <1>4 DEF GiveUp, Fail, LimiterTypeOK
<1>5. ASSUME WindowOver \/ UNCHANGED limiterVars PROVE Unknown'
  BY <1>5 DEF WindowOver, limiterVars
<1>6. ASSUME NEW r \in Requests, Served(r) PROVE Unknown'
  BY <1>6 DEF Served
<1>7. ASSUME NEW r \in Requests, Respond(r) PROVE Unknown'
  <2>1. left_in_window[r] # NoStats /\ request_pc[r] = "sent" /\ request_pc' = [request_pc EXCEPT ![r] = "over"]
    BY <1>7 DEF Respond, LimiterTypeOK, NoStats, NoAnswer, BybitLimiterAssumption
  <2>2. stats = NoStats
    BY <1>7, <2>1 DEF Respond, Update
  <2>3. \A q \in Requests : request_pc'[q] \notin {"sent", "delayed", "due"}
    BY <2>1, <2>2 DEF LimiterTypeOK
  <2> QED BY <2>3
<1> QED BY <1>2, <1>3, <1>4, <1>5, <1>6, <1>7 DEF LimiterNext, Proceed

LEMMA LimiterAlways == LimiterSpec => []LimiterInv
<1>1. LimiterInv /\ [LimiterNext]_limiterVars => LimiterInv'
  BY LimiterTypeStep, UnknownStep, BybitLimiterAssumption DEF LimiterInv
<1> QED BY InitLimiter, <1>1, BybitLimiterAssumption, PTL DEF LimiterSpec

(* The type invariant of the limiter.                                      *)
THEOREM LimiterTypeCorrect == LimiterSpec => []LimiterTypeOK
<1>1. LimiterInv => LimiterTypeOK
  BY DEF LimiterInv
<1> QED BY <1>1, LimiterAlways, PTL

(* Until the first response tells the limit, requests go one at a time     *)
(* (RateLimitHandler.wait), also after lost responses and on paths whose   *)
(* responses tell nothing.                                                 *)
THEOREM FirstIsAlone == LimiterSpec => []FirstAlone
<1>1. LimiterInv => FirstAlone
  <2> SUFFICES ASSUME LimiterInv, stats = NoStats
               PROVE  Cardinality({r \in Requests : request_pc[r] = "sent"}) <= 1
    BY DEF FirstAlone
  <2> DEFINE Sent == {r \in Requests : request_pc[r] = "sent"}
  <2>1. CASE Sent = {}
    BY <2>1, FS_EmptySet
  <2>2. ASSUME NEW r \in Sent PROVE Cardinality(Sent) <= 1
    <3>1. Sent = {r}
      BY <2>2 DEF LimiterInv, Unknown, OneSent
    <3>2. Cardinality({r}) = 1
      BY FS_Singleton
    <3> QED BY <3>1, <3>2
  <2> QED BY <2>1, <2>2
<1> QED BY <1>1, LimiterAlways, PTL

-----------------------------------------------------------------------------
(* A session that is closed stays in place only while the call that closed *)
(* it is suspended or when it was given up, for any number of calls and    *)
(* sessions.                                                               *)

SessionInv == SessionTypeOK /\ Restored

LEMMA InitSession == HttpSessionAssumption /\ SessionInit => SessionInv
BY DEF HttpSessionAssumption, SessionInit, SessionInv, SessionTypeOK, Restored

LEMMA SessionTypeStep ==
    ASSUME HttpSessionAssumption, SessionTypeOK, [SessionNext]_sessionVars
    PROVE  SessionTypeOK'
<1> USE DEF HttpSessionAssumption, SessionTypeOK
<1>1. ASSUME NEW c \in Calls, SendRequest(c) PROVE SessionTypeOK'
  <2>1. CASE session = 0
    BY <1>1, <2>1 DEF SendRequest, Required
  <2>2. CASE session # 0
    BY <1>1, <2>2 DEF SendRequest, Required
  <2> QED BY <2>1, <2>2
<1>2. ASSUME NEW c \in Calls, Responded(c) PROVE SessionTypeOK'
  BY <1>2 DEF Responded
<1>3. ASSUME NEW c \in Calls, CloseSession(c), UNCHANGED made PROVE SessionTypeOK'
  <2>1. CASE session \in open_sessions
    BY <1>3, <2>1 DEF CloseSession
  <2>2. CASE session \notin open_sessions
    <3>1. /\ session' = 0 /\ UNCHANGED <<open_sessions, uses, made>>
          /\ call_pc' = [call_pc EXCEPT ![c] = "failed"]
      BY <1>3, <2>2 DEF CloseSession
    <3>2. call_pc' \in [Calls -> {"idle", "sent", "closing", "answered", "failed", "given_up"}]
      BY <3>1
    <3>3. session' \in 0..made'
      BY <3>1
    <3> QED BY <3>1, <3>2, <3>3
  <2> QED BY <2>1, <2>2
<1>4. ASSUME NEW c \in Calls, SessionClosed(c) PROVE SessionTypeOK'
  BY <1>4 DEF SessionClosed
<1>5. ASSUME NEW c \in Calls, ClosingGivenUp(c) \/ GivenUp(c) PROVE SessionTypeOK'
  BY <1>5 DEF ClosingGivenUp, GivenUp
<1>6. CASE UNCHANGED sessionVars
  BY <1>6 DEF sessionVars
<1> QED BY <1>1, <1>2, <1>3, <1>4, <1>5, <1>6 DEF SessionNext, ConnectionLost, Restart

LEMMA SessionStep ==
    ASSUME HttpSessionAssumption, SessionInv, [SessionNext]_sessionVars
    PROVE  SessionInv'
<1>1. SessionTypeOK'
  BY SessionTypeStep DEF SessionInv
<1> DEFINE Closer(d) == call_pc[d] \in {"closing", "given_up"} /\ uses[d] = session
<1>2. ASSUME NEW c \in Calls, SendRequest(c) PROVE Restored'
  <2>1. CASE session = 0 \/ session \in open_sessions
    BY <1>2, <2>1 DEF SendRequest, Required, Restored
  <2>2. ASSUME NEW d \in Calls, Closer(d), session # 0 PROVE Restored'
    <3>1. session' = session /\ d # c /\ call_pc'[d] = call_pc[d] /\ uses'[d] = uses[d]
      BY <1>2, <2>2 DEF SendRequest, Required, SessionInv, SessionTypeOK
    <3> QED BY <2>2, <3>1 DEF Restored
  <2> QED BY <2>1, <2>2 DEF SessionInv, Restored
<1>3. ASSUME NEW c \in Calls, Responded(c) \/ GivenUp(c) \/ ClosingGivenUp(c) PROVE Restored'
  <2>1. UNCHANGED <<session, open_sessions, uses>>
    BY <1>3 DEF Responded, GivenUp, ClosingGivenUp
  <2>2. ASSUME NEW d \in Calls, Closer(d) PROVE Closer(d)'
    BY <1>3, <2>1, <2>2 DEF Responded, GivenUp, ClosingGivenUp, SessionInv, SessionTypeOK
  <2> QED BY <2>1, <2>2 DEF SessionInv, Restored
<1>4. ASSUME NEW c \in Calls, CloseSession(c) PROVE Restored'
  <2>1. CASE session \in open_sessions
    <3>1. Closer(c)'
      BY <1>4, <2>1 DEF CloseSession, SessionInv, SessionTypeOK
    <3> QED BY <3>1 DEF Restored
  <2>2. CASE session \notin open_sessions
    BY <1>4, <2>2 DEF CloseSession, Restored
  <2> QED BY <2>1, <2>2
<1>5. ASSUME NEW c \in Calls, SessionClosed(c) PROVE Restored'
  BY <1>5 DEF SessionClosed, Restored
<1>6. ASSUME UNCHANGED sessionVars PROVE Restored'
  BY <1>6 DEF sessionVars, SessionInv, Restored
<1>7. Restored'
  BY <1>2, <1>3, <1>4, <1>5, <1>6 DEF SessionNext, ConnectionLost, Restart
<1> QED BY <1>1, <1>7 DEF SessionInv

LEMMA SessionAlways == SessionSpec => []SessionInv
BY InitSession, SessionStep, HttpSessionAssumption, PTL DEF SessionSpec

(* The type invariant of the session and its calls.                        *)
THEOREM SessionTypeCorrect == SessionSpec => []SessionTypeOK
<1>1. SessionInv => SessionTypeOK
  BY DEF SessionInv
<1> QED BY <1>1, SessionAlways, PTL

(* Requests find a closed session only while the call that closes it is    *)
(* suspended in close_session, or when it was given up there; whichever    *)
(* calls lose their connections, restart or make sessions meanwhile.       *)
THEOREM SessionIsRestored == SessionSpec => []Restored
<1>1. SessionInv => Restored
  BY DEF SessionInv
<1> QED BY <1>1, SessionAlways, PTL

-----------------------------------------------------------------------------
(* An account has one registered client at a time, and one in use until it *)
(* is removed, for any number of trades, accounts and ids.                 *)

(* Registered clients differ in their accounts, and a client in use is     *)
(* registered until one of its account is removed: OneClient, without the  *)
(* cardinality.                                                            *)
NamesDiffer == \A i, j \in open_clients : name[i] = name[j] => i = j
UsedIsThere == \A i \in Live : i \in open_clients \/ name[i] \in removed

RegistryInv == RegistryTypeOK /\ NamesDiffer /\ UsedIsThere

(* None or one object.                                                     *)
AtMostOne == {{}} \cup {{i} : i \in Ids}

LEMMA InitRegistry == ClientRegistryAssumption /\ RegistryInit => RegistryInv
BY DEF RegistryInit, RegistryInv, RegistryTypeOK, NamesDiffer, UsedIsThere, Live

(* What get_id and get_client give.                                        *)
LEMMA Found ==
    ASSUME RegistryInv
    PROVE  /\ \A a \in Accounts : get_id(a) \in AtMostOne /\ get_id(a) \subseteq open_clients
           /\ \A t \in Trades : get_client(t) \in AtMostOne
<1>1. ASSUME NEW a \in Accounts PROVE get_id(a) \in AtMostOne /\ get_id(a) \subseteq open_clients
  <2>1. CASE get_id(a) = {}
    BY <2>1 DEF AtMostOne
  <2>2. ASSUME NEW i \in get_id(a) PROVE get_id(a) = {i}
    BY <2>2 DEF get_id, RegistryInv, NamesDiffer
  <2>3. ASSUME NEW i \in get_id(a) PROVE i \in Ids
    BY <2>3 DEF get_id, RegistryInv, RegistryTypeOK
  <2>4. get_id(a) \subseteq open_clients
    BY DEF get_id
  <2> QED BY <2>1, <2>2, <2>3, <2>4 DEF AtMostOne
<1>2. ASSUME NEW t \in Trades PROVE get_client(t) \in AtMostOne
  <2>1. client_id[t] \in AtMostOne
    BY DEF RegistryInv, RegistryTypeOK, AtMostOne
  <2> QED BY <2>1 DEF get_client, AtMostOne
<1> QED BY <1>1, <1>2

LEMMA RegistryTypeStep ==
    ASSUME ClientRegistryAssumption, RegistryInv, [RegistryNext]_registryVars
    PROVE  RegistryTypeOK'
<1> DEFINE Pcs == {"idle", "loading", "open", "calling", "stopping", "closing"}
<1>1. /\ open_clients \subseteq Ids /\ name \in [Ids -> Accounts \cup {NoName}]
      /\ trade_pc \in [Trades -> Pcs]
      /\ ref \in [Trades -> AtMostOne] /\ streams \in [Trades -> AtMostOne]
      /\ client_id \in [Trades -> AtMostOne]
  BY DEF RegistryInv, RegistryTypeOK, AtMostOne
<1>2. {} \in AtMostOne /\ \A i \in Ids : {i} \in AtMostOne
  BY DEF AtMostOne
<1>3. removed' \subseteq Accounts \cup {NoName}
  <2>1. \A id : {name[i] : i \in id \cap open_clients} \subseteq Accounts \cup {NoName}
    BY <1>1
  <2>2. UNCHANGED removed \/ \E id : removed' = removed \cup {name[i] : i \in id \cap open_clients}
    BY DEF RegistryNext, registryVars, OpenClientConnection, Loaded, LoadFails, NoClientExist, CallClient,
           Return, Subscribe, StreamEnds, ClientRestart, StreamsStopped, ClientRemoved, remove_client
  <2> QED BY <2>1, <2>2 DEF RegistryInv, RegistryTypeOK
<1>4. \A t \in Trades : AccountOf[t] \in Accounts
  BY DEF ClientRegistryAssumption
<1> DEFINE Typed ==
      /\ open_clients' \subseteq Ids /\ name' \in [Ids -> Accounts \cup {NoName}]
      /\ trade_pc' \in [Trades -> Pcs]
      /\ ref' \in [Trades -> AtMostOne] /\ streams' \in [Trades -> AtMostOne]
      /\ client_id' \in [Trades -> AtMostOne]
<1>5. ASSUME NEW t \in Trades, OpenClientConnection(t) PROVE Typed
  <2>1. CASE get_id(AccountOf[t]) # {}
    BY <1>1, <1>4, <1>5, <2>1, Found DEF OpenClientConnection
  <2>2. CASE get_id(AccountOf[t]) = {}
    BY <1>1, <1>2, <1>4, <1>5, <2>2 DEF OpenClientConnection, NewClient
  <2> QED BY <2>1, <2>2
<1>6. ASSUME NEW t \in Trades, Loaded(t) \/ LoadFails(t) \/ NoClientExist(t) PROVE Typed
  BY <1>1, <1>2, <1>6 DEF Loaded, LoadFails, NoClientExist, remove_client
<1>7. ASSUME NEW t \in Trades, CallClient(t) \/ Return(t) PROVE Typed
  BY <1>1, <1>2, <1>7, Found DEF CallClient, Return
<1>8. ASSUME NEW t \in Trades, Subscribe(t) \/ StreamEnds(t) PROVE Typed
  BY <1>1, <1>2, <1>8, Found DEF Subscribe, StreamEnds
<1>9. ASSUME NEW t \in Trades, ClientRestart(t) \/ StreamsStopped(t) \/ ClientRemoved(t) PROVE Typed
  <2>1. CASE ClientRestart(t)
    BY <1>1, <2>1, Found DEF ClientRestart
  <2>2. CASE StreamsStopped(t)
    <3>1. trade_pc' \in [Trades -> Pcs]
      BY <1>1, <2>2 DEF StreamsStopped
    <3> QED BY <1>1, <1>2, <2>2, <3>1 DEF StreamsStopped
  <2>3. CASE ClientRemoved(t)
    BY <1>1, <2>3 DEF ClientRemoved, remove_client
  <2> QED BY <1>9, <2>1, <2>2, <2>3
<1>10. ASSUME UNCHANGED registryVars PROVE Typed
  BY <1>1, <1>10 DEF registryVars
<1>11. Typed
  BY <1>5, <1>6, <1>7, <1>8, <1>9, <1>10 DEF RegistryNext
<1>12. \A f \in {ref', streams', client_id'} : f \in [Trades -> AtMostOne]
  BY <1>11
<1>13. open_clients' \subseteq Ids /\ name' \in [Ids -> Accounts \cup {NoName}] /\ trade_pc' \in [Trades -> Pcs]
  BY <1>11
<1> QED BY <1>3, <1>12, <1>13 DEF RegistryTypeOK, AtMostOne

LEMMA NamesStep ==
    ASSUME ClientRegistryAssumption, RegistryInv, [RegistryNext]_registryVars
    PROVE  NamesDiffer'
<1>1. ASSUME NEW t \in Trades, OpenClientConnection(t) PROVE NamesDiffer'
  <2>1. CASE get_id(AccountOf[t]) # {}
    BY <1>1, <2>1 DEF OpenClientConnection, RegistryInv, NamesDiffer
  <2>2. CASE get_id(AccountOf[t]) = {}
    <3>1. PICK i \in Ids : NewClient(t, i) /\ open_clients' = open_clients \cup {i}
      BY <1>1, <2>2 DEF OpenClientConnection
    <3>2. i \notin open_clients
      BY <3>1 DEF NewClient, Live
    <3>3. name'[i] = AccountOf[t] /\ \A j \in open_clients : name'[j] = name[j]
      BY <3>1, <3>2 DEF NewClient, RegistryInv, RegistryTypeOK
    <3>4. \A j \in open_clients : name[j] # AccountOf[t]
      BY <2>2 DEF get_id
    <3> QED BY <3>1, <3>3, <3>4 DEF RegistryInv, NamesDiffer
  <2> QED BY <2>1, <2>2
<1>2. ASSUME open_clients' \subseteq open_clients, UNCHANGED name PROVE NamesDiffer'
  BY <1>2 DEF RegistryInv, NamesDiffer
<1>3. ASSUME NEW t \in Trades, Loaded(t) \/ LoadFails(t) \/ NoClientExist(t)
      PROVE  open_clients' \subseteq open_clients /\ UNCHANGED name
  BY <1>3 DEF Loaded, LoadFails, NoClientExist, remove_client
<1>4. ASSUME NEW t \in Trades, CallClient(t) \/ Return(t) \/ Subscribe(t) \/ StreamEnds(t)
      PROVE  open_clients' \subseteq open_clients /\ UNCHANGED name
  BY <1>4 DEF CallClient, Return, Subscribe, StreamEnds
<1>5. ASSUME NEW t \in Trades, ClientRestart(t) \/ StreamsStopped(t) \/ ClientRemoved(t)
      PROVE  open_clients' \subseteq open_clients /\ UNCHANGED name
  BY <1>5 DEF ClientRestart, StreamsStopped, ClientRemoved, remove_client
<1>6. CASE UNCHANGED registryVars
  BY <1>2, <1>6 DEF registryVars
<1> QED BY <1>1, <1>2, <1>3, <1>4, <1>5, <1>6 DEF RegistryNext

(* What is used: what is registered, and what calls and streams hold.      *)
HeldClients == UNION {ref[t] \cup streams[t] : t \in Trades}

LEMMA HeldSplit == Live = open_clients \cup HeldClients
BY DEF Live, HeldClients

(* Calls and streams take registered clients only, or a new one.           *)
LEMMA HeldClientsStep ==
    ASSUME RegistryInv, NEW t \in Trades,
           \/ OpenClientConnection(t) /\ get_id(AccountOf[t]) # {}
           \/ Loaded(t) \/ LoadFails(t) \/ NoClientExist(t) \/ CallClient(t) \/ Return(t)
           \/ Subscribe(t) \/ StreamEnds(t) \/ ClientRestart(t) \/ StreamsStopped(t) \/ ClientRemoved(t)
    PROVE  HeldClients' \subseteq Live
<1>1. /\ \A u \in Trades : ref'[u] \in {ref[u], {}, get_client(t), get_id(AccountOf[t])}
      /\ \A u \in Trades : streams'[u] \in {streams[u], {}, get_client(t)}
  <2> USE DEF RegistryInv, RegistryTypeOK
  <2>1. CASE OpenClientConnection(t) /\ get_id(AccountOf[t]) # {}
    BY <2>1 DEF OpenClientConnection
  <2>2. CASE Loaded(t) \/ LoadFails(t) \/ NoClientExist(t)
    BY <2>2 DEF Loaded, LoadFails, NoClientExist
  <2>3. CASE CallClient(t) \/ Return(t) \/ Subscribe(t) \/ StreamEnds(t)
    BY <2>3 DEF CallClient, Return, Subscribe, StreamEnds
  <2>4. CASE ClientRestart(t) \/ StreamsStopped(t) \/ ClientRemoved(t)
    BY <2>4 DEF ClientRestart, StreamsStopped, ClientRemoved
  <2> QED BY <2>1, <2>2, <2>3, <2>4
<1>2. get_client(t) \subseteq Live /\ get_id(AccountOf[t]) \subseteq Live
  BY DEF get_client, get_id, Live
<1>3. \A u \in Trades : ref[u] \subseteq Live /\ streams[u] \subseteq Live
  BY DEF Live
<1> QED BY <1>1, <1>2, <1>3 DEF HeldClients

LEMMA UsedStep ==
    ASSUME ClientRegistryAssumption, RegistryInv, [RegistryNext]_registryVars
    PROVE  UsedIsThere'
<1>1. ASSUME HeldClients' \subseteq Live, open_clients' \subseteq open_clients, UNCHANGED name,
             removed \subseteq removed',
             \A i \in open_clients : i \in open_clients' \/ name[i] \in removed'
      PROVE  UsedIsThere'
  <2> SUFFICES ASSUME NEW i \in Live' PROVE i \in open_clients' \/ name[i] \in removed'
    BY <1>1 DEF UsedIsThere
  <2>1. Live' = open_clients' \cup HeldClients'
    BY DEF Live, HeldClients
  <2>2. i \in Live
    BY <1>1, <2>1, HeldSplit
  <2> QED BY <1>1, <2>2 DEF RegistryInv, UsedIsThere
<1>2. ASSUME NEW t \in Trades, OpenClientConnection(t) PROVE UsedIsThere'
  <2>1. CASE get_id(AccountOf[t]) # {}
    BY <1>1, <1>2, <2>1, HeldClientsStep DEF OpenClientConnection
  <2>2. CASE get_id(AccountOf[t]) = {}
    <3>1. PICK i \in Ids : NewClient(t, i) /\ open_clients' = open_clients \cup {i}
      BY <1>2, <2>2 DEF OpenClientConnection
    <3>2. UNCHANGED <<streams, removed>> /\ \A u \in Trades : ref'[u] \in {ref[u], {i}}
      BY <1>2, <3>1 DEF OpenClientConnection, NewClient, RegistryInv, RegistryTypeOK
    <3>3. \A j : j # i => name'[j] = name[j]
      BY <3>1 DEF NewClient, RegistryInv, RegistryTypeOK
    <3>4. HeldClients' \subseteq HeldClients \cup {i}
      BY <3>2 DEF HeldClients
    <3>5. Live' = open_clients' \cup HeldClients'
      BY DEF Live, HeldClients
    <3>6. Live' \subseteq Live \cup {i}
      BY <3>1, <3>4, <3>5, HeldSplit
    <3> QED BY <3>1, <3>2, <3>3, <3>6 DEF RegistryInv, UsedIsThere
  <2> QED BY <2>1, <2>2
<1>3. ASSUME NEW t \in Trades, Loaded(t) \/ NoClientExist(t) \/ CallClient(t) \/ Return(t)
                              \/ Subscribe(t) \/ StreamEnds(t) \/ ClientRestart(t) \/ StreamsStopped(t)
      PROVE  UsedIsThere'
  <2>1. UNCHANGED <<open_clients, name, removed>>
    BY <1>3 DEF Loaded, NoClientExist, CallClient, Return, Subscribe, StreamEnds, ClientRestart,
                StreamsStopped
  <2>2. HeldClients' \subseteq Live
    BY <1>3, HeldClientsStep
  <2> QED BY <1>1, <2>1, <2>2
<1>4. ASSUME NEW t \in Trades, LoadFails(t) \/ ClientRemoved(t) PROVE UsedIsThere'
  <2>1. HeldClients' \subseteq Live
    BY <1>4, HeldClientsStep
  <2>2. UNCHANGED <<open_clients, removed>> \/ \E id : remove_client(id)
    BY <1>4 DEF LoadFails, ClientRemoved
  <2>3. UNCHANGED name
    BY <1>4 DEF LoadFails, ClientRemoved
  <2> QED BY <1>1, <2>1, <2>2, <2>3 DEF remove_client
<1>5. CASE UNCHANGED registryVars
  <2>1. UNCHANGED <<open_clients, name, removed, Live>>
    BY <1>5 DEF registryVars, Live
  <2> QED BY <2>1 DEF RegistryInv, UsedIsThere
<1> QED BY <1>2, <1>3, <1>4, <1>5 DEF RegistryNext

LEMMA RegistryAlways == RegistrySpec => []RegistryInv
<1>1. RegistryInv /\ [RegistryNext]_registryVars => RegistryInv'
  BY RegistryTypeStep, NamesStep, UsedStep, ClientRegistryAssumption DEF RegistryInv
<1> QED BY InitRegistry, <1>1, ClientRegistryAssumption, PTL DEF RegistrySpec

(* The type invariant: a call holds one object at most.                    *)
THEOREM RegistryTypeCorrect == RegistrySpec => []RegistryTypeOK
<1>1. RegistryInv => RegistryTypeOK
  BY DEF RegistryInv
<1> QED BY <1>1, RegistryAlways, PTL

(* One client of an account at a time is registered, and until one of them *)
(* is removed by a failed load or a restart, all calls and streams use it  *)
(* (exch_srv.OpenClient).                                                  *)
THEOREM AccountsHaveOneClient == RegistrySpec => []OneClient
<1>1. ASSUME NEW S, \A i, j \in S : i = j PROVE Cardinality(S) <= 1
  <2>1. CASE S = {}
    BY <2>1, FS_EmptySet
  <2>2. ASSUME NEW i \in S PROVE Cardinality(S) <= 1
    <3>1. S = {i}
      BY <1>1, <2>2
    <3>2. Cardinality({i}) = 1
      BY FS_Singleton
    <3> QED BY <3>1, <3>2
  <2> QED BY <2>1, <2>2
<1>2. RegistryInv => OneClient
  <2> SUFFICES ASSUME RegistryInv, NEW a \in Accounts
               PROVE  /\ Cardinality({i \in open_clients : name[i] = a}) <= 1
                      /\ a \notin removed => Cardinality({i \in Live : name[i] = a}) <= 1
    BY DEF OneClient
  <2>1. Cardinality({i \in open_clients : name[i] = a}) <= 1
    BY <1>1 DEF RegistryInv, NamesDiffer
  <2>2. ASSUME a \notin removed PROVE Cardinality({i \in Live : name[i] = a}) <= 1
    <3>1. \A i \in Live : name[i] = a => i \in open_clients
      BY <2>2 DEF RegistryInv, UsedIsThere
    <3>2. \A i, j \in {i \in Live : name[i] = a} : i = j
      BY <3>1 DEF RegistryInv, NamesDiffer
    <3> QED BY <1>1, <3>2
  <2> QED BY <2>1, <2>2
<1> QED BY <1>2, RegistryAlways, PTL

-----------------------------------------------------------------------------
(* The pause of ByBit is kept, for any number of accounts of any exchange  *)
(* and any pauses, although all accounts share one time.                   *)

(* The time that all accounts share is never older than the last error of  *)
(* any of them.                                                            *)
TimeIsLater == time # NoTime => \A c \in Clients : time <= since[c]

FlagInv == FlagTypeOK /\ TimeIsLater

LEMMA OlderType == \A age \in 0..NoTime : RateLimitFlagAssumption =>
    /\ Older(age) \in 0..NoTime
    /\ age \in 0..Longest => Older(age) \in 0..Longest
    /\ age = NoTime <=> Older(age) = NoTime
BY DEF RateLimitFlagAssumption, Older, NoTime, Longest

LEMMA InitFlag == RateLimitFlagAssumption /\ FlagInit => FlagInv
BY DEF RateLimitFlagAssumption, FlagInit, FlagInv, FlagTypeOK, TimeIsLater, NoTime, Longest

LEMMA FlagTypeStep ==
    ASSUME RateLimitFlagAssumption, FlagTypeOK, [FlagNext]_flagVars
    PROVE  FlagTypeOK'
<1> USE DEF RateLimitFlagAssumption, FlagTypeOK, NoTime, Longest
<1>1. CASE Tick
  BY <1>1, OlderType DEF Tick
<1>2. ASSUME NEW c \in Clients, RateLimitReached(c) PROVE FlagTypeOK'
  BY <1>2 DEF RateLimitReached
<1>3. ASSUME NEW c \in Clients, QueryCanceled(c) PROVE FlagTypeOK'
  BY <1>3 DEF QueryCanceled
<1>4. ASSUME NEW c \in Clients, OpenedAgain(c) PROVE FlagTypeOK'
  BY <1>4 DEF OpenedAgain
<1>5. ASSUME NEW c \in Clients, ResetRateLimit(c) PROVE FlagTypeOK'
  BY <1>5 DEF ResetRateLimit, Cleared, PauseBegins
<1>6. CASE UNCHANGED flagVars
  BY <1>6 DEF flagVars
<1> QED BY <1>1, <1>2, <1>3, <1>4, <1>5, <1>6 DEF FlagNext

LEMMA FlagStep ==
    ASSUME RateLimitFlagAssumption, FlagInv, [FlagNext]_flagVars
    PROVE  FlagInv'
<1>1. FlagTypeOK'
  BY FlagTypeStep DEF FlagInv
<1>2. TimeIsLater'
  <2> USE DEF RateLimitFlagAssumption, FlagInv, FlagTypeOK, TimeIsLater, NoTime, Longest
  <2>1. CASE Tick
    BY <2>1 DEF Tick, Older
  <2>2. ASSUME NEW c \in Clients, RateLimitReached(c) PROVE TimeIsLater'
    BY <2>2 DEF RateLimitReached
  <2>3. ASSUME NEW c \in Clients, QueryCanceled(c) PROVE TimeIsLater'
    BY <2>3 DEF QueryCanceled
  <2>4. ASSUME NEW c \in Clients, OpenedAgain(c) PROVE TimeIsLater'
    BY <2>4 DEF OpenedAgain
  <2>5. ASSUME NEW c \in Clients, ResetRateLimit(c) PROVE TimeIsLater'
    BY <2>5 DEF ResetRateLimit, Cleared, PauseBegins
  <2>6. CASE UNCHANGED flagVars
    BY <2>6 DEF flagVars
  <2> QED BY <2>1, <2>2, <2>3, <2>4, <2>5, <2>6 DEF FlagNext
<1> QED BY <1>1, <1>2 DEF FlagInv

LEMMA FlagAlways == FlagSpec => []FlagInv
BY InitFlag, FlagStep, RateLimitFlagAssumption, PTL DEF FlagSpec

(* The type invariant of the flags and the times.                          *)
THEOREM FlagTypeCorrect == FlagSpec => []FlagTypeOK
<1>1. FlagInv => FlagTypeOK
  BY DEF FlagInv
<1> QED BY <1>1, FlagAlways, PTL

-----------------------------------------------------------------------------
LEMMA ResetAfterPause ==
    ASSUME RateLimitFlagAssumption, FlagInv, NEW c \in ByBit, c \in rate_limit_reached, ResetRateLimit(c)
    PROVE  c \in rate_limit_reached' \/ since[c] > Pause
<1> USE DEF RateLimitFlagAssumption, FlagInv, FlagTypeOK, TimeIsLater, NoTime, Longest
<1>1. CASE PauseBegins(c)
  BY <1>1 DEF PauseBegins
<1>2. CASE Cleared(c)
  BY <1>2 DEF Cleared, PauseOver
<1> QED BY <1>1, <1>2 DEF ResetRateLimit

(* A reset lets the requests of a ByBit account through only after the     *)
(* whole pause since its own last error (exch_srv.reset_rate_limit),       *)
(* whatever the other accounts, of any exchange, do to the shared time;    *)
(* PauseOver shows why the pause of the others is not kept.                *)
THEOREM PauseIsKept == FlagSpec => PauseKept
<1> DEFINE Kept == \A c \in ByBit : c \in rate_limit_reached /\ ResetRateLimit(c)
                     => c \in rate_limit_reached' \/ since[c] > Pause
<1>1. FlagInv /\ [FlagNext]_flagVars => [Kept]_flagVars
  BY ResetAfterPause, RateLimitFlagAssumption
<1> QED BY <1>1, FlagAlways, PTL DEF FlagSpec, PauseKept

-----------------------------------------------------------------------------
(* A step of the run is one of one part, at which the others rest.         *)
AllInv == ConnectionInv /\ LimiterInv /\ SessionInv /\ RegistryInv /\ FlagInv

LEMMA PartSteps ==
    [Next]_allVars => /\ [ConnectionNext]_connectionVars /\ [LimiterNext]_limiterVars
                      /\ [SessionNext]_sessionVars /\ [RegistryNext]_registryVars
                      /\ [FlagNext]_flagVars
BY DEF Next, allVars, ConnectionPart, LimiterPart, SessionPart, RegistryPart, FlagPart

LEMMA InitAll == Init => AllInv
BY InitConnection, InitLimiter, InitSession, InitRegistry, InitFlag, WssConnectionAssumption,
   BybitLimiterAssumption, HttpSessionAssumption, ClientRegistryAssumption, RateLimitFlagAssumption
   DEF Init, AllInv

LEMMA AllStep == AllInv /\ [Next]_allVars => AllInv'
<1> SUFFICES ASSUME AllInv, [Next]_allVars PROVE AllInv'
  OBVIOUS
<1>1. ConnectionInv' /\ SessionInv'
  BY PartSteps, ConnectionStep, SessionStep, WssConnectionAssumption, HttpSessionAssumption DEF AllInv
<1>2. LimiterInv'
  BY PartSteps, LimiterTypeStep, UnknownStep, BybitLimiterAssumption DEF AllInv, LimiterInv
<1>3. RegistryInv'
  BY PartSteps, RegistryTypeStep, NamesStep, UsedStep, ClientRegistryAssumption DEF AllInv, RegistryInv
<1>4. FlagInv'
  BY PartSteps, FlagStep, RateLimitFlagAssumption DEF AllInv
<1> QED BY <1>1, <1>2, <1>3, <1>4 DEF AllInv

(* The type invariants of all parts, in every behaviour of the run's       *)
(* specification: the parts share no state, so none disturbs another.      *)
THEOREM TypesAreKept == Spec => []TypesOK
<1>1. AllInv => TypesOK
  BY DEF AllInv, TypesOK, ConnectionInv, LimiterInv, SessionInv, RegistryInv, FlagInv
<1> QED BY <1>1, InitAll, AllStep, PTL DEF Spec
=============================================================================
