--------------------------- MODULE StreamHub_proofs ---------------------------
(***************************************************************************)
(* Proofs about StreamHub, for any number of trades, calls, tasks and      *)
(* requests and any queue sizes: stops reach all streams, every streaming  *)
(* call keeps its contract, and trades do not see each other's events.     *)
(***************************************************************************)
EXTENDS StreamHub, SequenceTheorems, TLAPS

(* What the two ways to fill queues return.                                *)
LEMMA WithTokensType ==
    ASSUME queue \in [Subs -> Seq(Events \cup {Token})], NEW S
    PROVE  WithTokens(S) \in [Subs -> Seq(Events \cup {Token})]
BY DEF WithTokens

LEMMA WithEventType ==
    ASSUME queue \in [Subs -> Seq(Events \cup {Token})], StreamHubAssumption,
           NEW k \in Tasks, NEW e \in EventTypes, NEW S
    PROVE  WithEvent(k, e, S) \in [Subs -> Seq(Events \cup {Token})]
BY DEF WithEvent, Events, Stoppers, StreamHubAssumption

(* One stretch of the stop's loop, as the queues it gives tokens to.       *)
LEMMA PutTokensStep ==
    ASSUME NEW p, NEW given, NEW before, NEW row, PutTokens(p, given, before, row)
    PROVE  \E S \in SUBSET row, b \in row \cup {NoSub} :
             /\ queue' = WithTokens(given \cup S)
             /\ blockedOn' = [blockedOn EXCEPT ![p] = b]
             /\ \/ /\ pc' = [pc EXCEPT ![p] = "yielding"]
                   /\ S = row /\ b = NoSub
                   /\ reached' = [reached EXCEPT ![p] = before \cup row]
                \/ /\ pc' = [pc EXCEPT ![p] = "putting"]
                   /\ b \in row /\ Full(b)
                   /\ reached' = [reached EXCEPT ![p] = before \cup S \cup {b}]
BY DEF PutTokens

LEMMA PutTokensType ==
    ASSUME TypeOK, NEW p \in Stoppers, NEW given,
           NEW before \in SUBSET Subs, NEW row \in SUBSET Subs,
           PutTokens(p, given, before, row)
    PROVE  /\ queue' \in [Subs -> Seq(Events \cup {Token})]
           /\ pc' \in [Stoppers -> {"idle", "closing", "cancelling", "putting",
                                    "yielding", "done", "failed", "aborted"}]
           /\ reached' \in [Stoppers -> SUBSET Subs]
           /\ blockedOn' \in [Stoppers -> Subs \cup {NoSub}]
<1>1. PICK S \in SUBSET row, b \in row \cup {NoSub} :
         /\ queue' = WithTokens(given \cup S)
         /\ blockedOn' = [blockedOn EXCEPT ![p] = b]
         /\ \/ /\ pc' = [pc EXCEPT ![p] = "yielding"]
               /\ S = row /\ b = NoSub
               /\ reached' = [reached EXCEPT ![p] = before \cup row]
            \/ /\ pc' = [pc EXCEPT ![p] = "putting"]
               /\ b \in row /\ Full(b)
               /\ reached' = [reached EXCEPT ![p] = before \cup S \cup {b}]
  BY DEF PutTokens
<1>2. queue' \in [Subs -> Seq(Events \cup {Token})]
  BY <1>1, WithTokensType DEF TypeOK
<1>3. \E R \in SUBSET Subs : reached' = [reached EXCEPT ![p] = R]
  BY <1>1
<1>4. reached' \in [Stoppers -> SUBSET Subs]
  BY <1>3 DEF TypeOK
<1> QED BY <1>1, <1>2, <1>4 DEF TypeOK

-----------------------------------------------------------------------------
(* Type correctness. *)

LEMMA TypeInit == StreamHubAssumption /\ Init => TypeOK
BY DEF Init, TypeOK, StreamHubAssumption, Stoppers

LEMMA TypeStep ==
    ASSUME StreamHubAssumption, TypeOK, [Next]_vars
    PROVE  TypeOK'
<1> USE DEF calls, hub, links, stops
<1>1. ASSUME NEW s \in Subs, Subscribe(s) PROVE TypeOK'
  BY <1>1 DEF TypeOK, Subscribe, StreamHubAssumption
<1>2. ASSUME NEW s \in Subs, Take(s) PROVE TypeOK'
  <2>1. LeftBehind(s) \in Seq(Events \cup {Token})
    BY <1>2 DEF TypeOK, Take, LeftBehind
  <2>2. queue' \in [Subs -> Seq(Events \cup {Token})]
    BY <1>2, <2>1 DEF TypeOK, Take
  <2>3. gen' \in [Subs -> {"off", "open", "ended", "gone"}]
    <3>1. gen' = [gen EXCEPT ![s] = "ended"] \/ gen' = gen
      BY <1>2 DEF Take
    <3> QED BY <3>1 DEF TypeOK
  <2>4. streamQueue' \in [Trades -> SUBSET Subs]
    <3>1. \/ streamQueue' = [streamQueue EXCEPT ![TradeOf[s]] = @ \ {s}]
          \/ streamQueue' = streamQueue
      BY <1>2 DEF Take, Discard
    <3>2. TradeOf[s] \in Trades
      BY DEF StreamHubAssumption
    <3>3. streamQueue[TradeOf[s]] \ {s} \in SUBSET Subs
      BY <3>2 DEF TypeOK
    <3>4. streamQueue \in [Trades -> SUBSET Subs]
      BY DEF TypeOK
    <3> QED BY <3>1, <3>3, <3>4
  <2> QED BY <1>2, <2>2, <2>3, <2>4 DEF TypeOK, Take
<1>3. ASSUME NEW s \in Subs, Leave(s) PROVE TypeOK'
  BY <1>3 DEF TypeOK, Leave
<1>4. ASSUME NEW t \in Trades, StartStream(t) PROVE TypeOK'
  <2>1. registered[t] \in SUBSET MarketTypes
    BY DEF TypeOK
  <2> DEFINE wanted == (IF Combined THEN {registered[t]} ELSE {{e} : e \in registered[t]})
                         \cup {UserTypes}
  <2>2. wanted \subseteq SUBSET EventTypes
    BY <2>1 DEF EventTypes
  <2> HIDE DEF wanted
  <2>3. \E K \in SUBSET Tasks :
          /\ \E f \in [K -> wanted] :
               feeds' = [k \in Tasks |-> IF k \in K THEN f[k] ELSE feeds[k]]
          /\ taskSt' = [k \in Tasks |-> IF k \in K THEN "running" ELSE taskSt[k]]
          /\ dataStreams' = [dataStreams EXCEPT ![t] = @ \cup K]
          /\ tasks' = [tasks EXCEPT ![t] = @ \cup K]
    <3>1. SUBSET {k \in Tasks : TradeOf[k] = t /\ taskSt[k] = "unused"} \subseteq SUBSET Tasks
      OBVIOUS
    <3> HIDE DEF wanted
    <3>2. PICK K \in SUBSET {k \in Tasks : TradeOf[k] = t /\ taskSt[k] = "unused"} :
            /\ Cardinality(K) = Cardinality(wanted)
            /\ \E f \in [K -> wanted] :
                 /\ \A w \in wanted : \E k \in K : f[k] = w
                 /\ feeds' = [k \in Tasks |-> IF k \in K THEN f[k] ELSE feeds[k]]
            /\ taskSt' = [k \in Tasks |-> IF k \in K THEN "running" ELSE taskSt[k]]
            /\ dataStreams' = [dataStreams EXCEPT ![t] = @ \cup K]
            /\ tasks' = [tasks EXCEPT ![t] = @ \cup K]
      BY <1>4, Zenon DEF StartStream, wanted
    <3> QED BY <3>1, <3>2
  <2>4. feeds' \in [Tasks -> SUBSET EventTypes]
    BY <2>2, <2>3 DEF TypeOK
  <2> QED BY <1>4, <2>3, <2>4 DEF TypeOK, StartStream
<1>5. ASSUME NEW k \in Tasks, ConnectionEnds(k) PROVE TypeOK'
  BY <1>5 DEF TypeOK, ConnectionEnds
<1>6. ASSUME NEW k \in Tasks, SelfCancelled(k) PROVE TypeOK'
  BY <1>6 DEF TypeOK, SelfCancelled
<1>7. ASSUME NEW k \in Tasks, NEW e \in EventTypes, Fire(k, e) PROVE TypeOK'
  BY <1>7, WithEventType DEF TypeOK, Fire
<1>8. ASSUME NEW k \in Tasks, NEW e \in EventTypes, Overflow(k, e) PROVE TypeOK'
  <2>1. queue' \in [Subs -> Seq(Events \cup {Token})]
    BY <1>8, WithEventType DEF TypeOK, Overflow
  <2>2. /\ streamQueue' \in [Trades -> SUBSET Subs]
        /\ overflowed' \subseteq Subs
    BY <1>8 DEF TypeOK, Overflow, Discard, Addressed
  <2> QED BY <1>8, <2>1, <2>2 DEF TypeOK, Overflow, BeginStop
<1>9. ASSUME NEW r \in Rpcs, StopStream(r) PROVE TypeOK'
  BY <1>9 DEF TypeOK, StopStream, BeginStop
<1>10. ASSUME NEW p \in Stoppers, CancelTasks(p) PROVE TypeOK'
  BY <1>10 DEF TypeOK, CancelTasks
<1>11. ASSUME NEW p \in Stoppers, Unregister(p) PROVE TypeOK'
  <2>1. PutTokens(p, {}, {}, streamQueue[TradeOf[p]])
    BY <1>11 DEF Unregister
  <2>2. streamQueue[TradeOf[p]] \in SUBSET Subs
    BY DEF TypeOK, StreamHubAssumption
  <2> HIDE DEF Stoppers
  <2> QED BY <1>11, <2>1, <2>2, PutTokensType DEF TypeOK, Unregister
<1>12. ASSUME NEW p \in Stoppers, ResumePut(p) PROVE TypeOK'
  <2>1. PICK row \in SUBSET Iterated(p) : PutTokens(p, {blockedOn[p]}, reached[p], row)
    BY <1>12 DEF ResumePut
  <2>2. Iterated(p) \in SUBSET Subs
    BY DEF TypeOK, StreamHubAssumption, Iterated
  <2>3. row \in SUBSET Subs /\ reached[p] \in SUBSET Subs
    BY <2>2 DEF TypeOK
  <2> QED BY <1>12, <2>1, <2>3, PutTokensType DEF TypeOK, ResumePut
<1>13. ASSUME NEW p \in Stoppers, FailPut(p) PROVE TypeOK'
  BY <1>13, WithTokensType DEF TypeOK, FailPut
<1>14. ASSUME NEW p \in Stoppers, FinishStop(p) PROVE TypeOK'
  BY <1>14 DEF TypeOK, FinishStop, StreamHubAssumption
<1>15. ASSUME UNCHANGED vars PROVE TypeOK'
  BY <1>15 DEF TypeOK, vars
<1> QED BY <1>1, <1>2, <1>3, <1>4, <1>5, <1>6, <1>7, <1>8, <1>9, <1>10, <1>11,
           <1>12, <1>13, <1>14, <1>15 DEF Next, StopSteps

(* Every variable always holds a value of its kind.                        *)
THEOREM TypeCorrect == Spec => []TypeOK
<1>1. Init => TypeOK
  BY TypeInit, StreamHubAssumption
<1>2. TypeOK /\ [Next]_vars => TypeOK'
  BY TypeStep, StreamHubAssumption
<1> QED BY <1>1, <1>2, PTL DEF Spec

-----------------------------------------------------------------------------
(* A stop reaches every queue it found. *)

LEMMA StopInvInit == StreamHubAssumption /\ Init => StopInv
BY DEF Init, StopInv, Listed, Handling, Cut, StillIterated, StopReachesAll, DealtWith

(* A queue that ends in the token still does after a Take that does not    *)
(* end its generator, and after a stop has put one more.                   *)
LEMMA TakeKeepsToken ==
    ASSUME TypeOK, NEW s \in Subs, Take(s), EndsInToken(s)
    PROVE  gen'[s] = "ended" \/ EndsInToken(s)'
<1>1. queue[s] \in Seq(Events \cup {Token}) /\ queue[s] # <<>>
  BY DEF TypeOK, EndsInToken
<1>2. CASE NextItem(s) = Token
  BY <1>2 DEF Take, TypeOK
<1>3. CASE NextItem(s) # Token
  <2>1. s \notin LifoSubs /\ Head(queue[s]) # Token /\ queue'[s] = Tail(queue[s])
    BY <1>3 DEF EndsInToken, NextItem, LeftBehind, Take, TypeOK
  <2>2. Len(queue[s]) \in Nat /\ Len(queue[s]) >= 2
    BY <1>1, <2>1 DEF EndsInToken
  <2>3. /\ Len(Tail(queue[s])) = Len(queue[s]) - 1
        /\ \A i \in 1..(Len(queue[s]) - 1) : Tail(queue[s])[i] = queue[s][i + 1]
    BY <1>1, <2>2
  <2>4. Len(Tail(queue[s])) > 0
    BY <2>2, <2>3
  <2>5. Tail(queue[s])[Len(queue[s]) - 1] = queue[s][Len(queue[s])]
    <3>1. /\ Len(queue[s]) - 1 \in 1..(Len(queue[s]) - 1)
          /\ (Len(queue[s]) - 1) + 1 = Len(queue[s])
      BY <2>2
    <3> QED BY <2>3, <3>1
  <2> QED BY <2>1, <2>3, <2>4, <2>5 DEF EndsInToken
<1> QED BY <1>2, <1>3

LEMMA TokensEnd ==
    ASSUME TypeOK, NEW S, NEW s \in Subs, queue' = WithTokens(S),
           s \in S \/ EndsInToken(s)
    PROVE  EndsInToken(s)'
<1>1. queue[s] \in Seq(Events \cup {Token})
  BY DEF TypeOK
<1>2. CASE s \in S
  BY <1>1, <1>2 DEF WithTokens, EndsInToken
<1>3. CASE s \notin S
  BY <1>1, <1>3 DEF WithTokens, EndsInToken
<1> QED BY <1>2, <1>3

(* A step that leaves pc, snap, reached and blockedOn alone, ends no token *)
(* and revives no generator keeps what stops have reached.                 *)
LEMMA ReachKept ==
    ASSUME TypeOK, StopReachesAll, UNCHANGED <<pc, snap, reached, blockedOn>>,
           \A p \in Stoppers : \A s \in DealtWith(p) :
              gen[s] = "ended" \/ EndsInToken(s) => gen'[s] = "ended" \/ EndsInToken(s)'
    PROVE  StopReachesAll'
BY DEF StopReachesAll, DealtWith

(* The steps that put no stop in its loop: queues may be left out of       *)
(* stream_queue when they overflow or end, handlers and stops may go.      *)
LEMMA StopInvKept ==
    ASSUME StreamHubAssumption, TypeOK, TypeOK', StopInv,
           \A p \in Stoppers : \/ pc'[p] = pc[p]
                               \/ pc'[p] \notin {"putting", "yielding", "done", "failed"},
           UNCHANGED <<snap, reached, blockedOn, detached, frozen>>,
           \A t \in Trades : streamQueue'[t] \subseteq streamQueue[t],
           \A e \in EventTypes : handlers'[e] \subseteq handlers[e],
           \A s \in Subs : gen[s] # "off" => gen'[s] # "off",
           \A s \in Subs : gen[s] = "ended" => gen'[s] = "ended",
           \A s \in Subs, t \in Trades :
              Unfed(s) /\ s \in streamQueue[t] => s \in streamQueue'[t] \/ gen'[s] = "ended",
           \A s \in Subs :
              Unfed(s) /\ EndsInToken(s) => gen'[s] = "ended" \/ EndsInToken(s)'
    PROVE  StopInv'
<1>1. Listed' /\ Handling'
  BY DEF StopInv, Listed, Handling, TypeOK
<1>2. \A s \in Subs : Unfed(s) => Unfed(s)'
  BY DEF Unfed
<1>3. Cut'
  BY <1>2 DEF StopInv, Cut, TypeOK
<1>4. \A p \in Stoppers : TradeOf[p] \in Trades
  BY DEF StreamHubAssumption
<1>5. StillIterated'
  BY <1>4 DEF StopInv, StillIterated, Iterated, Cut, TypeOK
<1>6. ASSUME NEW p \in Stoppers, NEW s \in DealtWith(p)'
      PROVE  gen'[s] = "ended" \/ EndsInToken(s)'
  <2>1. s \in DealtWith(p) /\ s \in snap[p] /\ pc[p] \in {"putting", "yielding", "done", "failed"}
    BY <1>6 DEF DealtWith
  <2>2. s \in Subs /\ Unfed(s)
    BY <2>1 DEF StopInv, Cut, TypeOK
  <2>3. gen[s] = "ended" \/ EndsInToken(s)
    BY <2>1 DEF StopInv, StopReachesAll
  <2> QED BY <2>2, <2>3
<1> QED BY <1>1, <1>3, <1>5, <1>6 DEF StopInv, StopReachesAll

LEMMA StopInvSubscribe ==
    ASSUME StreamHubAssumption, TypeOK, StopInv, NEW s \in Subs, Subscribe(s)
    PROVE  StopInv'
<1> USE DEF stops, links
<1>1. /\ gen[s] = "off" /\ gen' = [gen EXCEPT ![s] = "open"]
      /\ streamQueue' = [streamQueue EXCEPT ![TradeOf[s]] = @ \cup {s}]
      /\ handlers' = [e \in EventTypes |->
                        IF e \in TypesOf[s] THEN handlers[e] \cup {s} ELSE handlers[e]]
      /\ TradeOf[s] \in Trades
  BY DEF Subscribe, StreamHubAssumption
<1>2. Listed'
  BY <1>1 DEF StopInv, Listed, TypeOK
<1>3. Handling'
  BY <1>1 DEF StopInv, Handling, TypeOK
<1>4. \A r \in Subs : Unfed(r) => Unfed(r)'
  BY <1>1 DEF Unfed, TypeOK
<1>5. Cut'
  BY <1>4 DEF Subscribe, StopInv, Cut, TypeOK
<1>6. StillIterated'
  BY <1>1 DEF StopInv, StillIterated, Iterated, TypeOK, Subscribe, Cut, Unfed
<1>7. StopReachesAll'
  BY <1>1, ReachKept DEF StopInv, Subscribe, TypeOK, EndsInToken
<1> QED BY <1>2, <1>3, <1>5, <1>6, <1>7 DEF StopInv

LEMMA StopInvTake ==
    ASSUME StreamHubAssumption, TypeOK, TypeOK', StopInv, NEW s \in Subs, Take(s)
    PROVE  StopInv'
<1> USE DEF hub, links, stops
<1>1. /\ gen[s] = "open"
      /\ \/ /\ gen' = [gen EXCEPT ![s] = "ended"]
            /\ streamQueue' = [streamQueue EXCEPT ![TradeOf[s]] = @ \ {s}]
         \/ UNCHANGED <<gen, streamQueue>>
      /\ queue' = [queue EXCEPT ![s] = LeftBehind(s)]
      /\ UNCHANGED <<overflowed, hub, links, stops>>
  BY DEF Take, Discard
<1>2. \A r \in Subs : EndsInToken(r) => gen'[r] = "ended" \/ EndsInToken(r)'
  <2> TAKE r \in Subs
  <2>1. CASE r = s
    BY <2>1, TakeKeepsToken
  <2>2. CASE r # s
    BY <1>1, <2>2 DEF TypeOK, EndsInToken
  <2> QED BY <2>1, <2>2
<1>3. \A r \in Subs : /\ gen[r] # "off" => gen'[r] # "off"
                      /\ gen[r] = "ended" => gen'[r] = "ended"
  BY <1>1 DEF TypeOK
<1> DEFINE cut == [streamQueue EXCEPT ![TradeOf[s]] = @ \ {s}]
<1>4. \A t \in Trades : /\ cut[t] \subseteq streamQueue[t]
                        /\ streamQueue[t] \subseteq cut[t] \cup {s}
  BY DEF TypeOK
<1>5. streamQueue' = cut \/ streamQueue' = streamQueue
  BY <1>1
<1> HIDE DEF cut
<1>6. \A t \in Trades : streamQueue'[t] \subseteq streamQueue[t]
  BY <1>5, <1>4
<1>7. \A r \in Subs, t \in Trades :
         r \in streamQueue[t] => r \in streamQueue'[t] \/ gen'[r] = "ended"
  <2> TAKE r \in Subs, t \in Trades
  <2>1. r # s /\ r \in streamQueue[t] => r \in streamQueue'[t]
    BY <1>5, <1>4
  <2>2. gen'[s] = "ended" \/ streamQueue' = streamQueue
    BY <1>1 DEF TypeOK
  <2> QED BY <2>1, <2>2
<1> QED BY <1>1, <1>2, <1>3, <1>6, <1>7, StopInvKept

LEMMA StopInvLeave ==
    ASSUME StreamHubAssumption, TypeOK, TypeOK', StopInv, NEW s \in Subs, Leave(s)
    PROVE  StopInv'
<1> USE DEF hub, links, stops
<1>1. /\ gen[s] = "open" /\ gen' = [gen EXCEPT ![s] = "gone"]
      /\ UNCHANGED <<queue, streamQueue, hub, stops>>
  BY DEF Leave
<1>2. \A r \in Subs : /\ gen[r] # "off" => gen'[r] # "off"
                      /\ gen[r] = "ended" => gen'[r] = "ended"
  BY <1>1 DEF TypeOK
<1> QED BY <1>1, <1>2, StopInvKept DEF EndsInToken

(* Events go to handled queues only, and a queue a stop has found is not   *)
(* handled any more.                                                       *)
LEMMA EventsSpareUnfed ==
    ASSUME TypeOK, NEW k \in Tasks, NEW e \in EventTypes,
           NEW S \in SUBSET Addressed(k, e), queue' = WithEvent(k, e, S)
    PROVE  \A s \in Subs : Unfed(s) => queue'[s] = queue[s]
BY DEF WithEvent, Addressed, Unfed, TypeOK

LEMMA StopInvFire ==
    ASSUME StreamHubAssumption, TypeOK, TypeOK', StopInv,
           NEW k \in Tasks, NEW e \in EventTypes, Fire(k, e)
    PROVE  StopInv'
<1> USE DEF hub, links, stops
<1>1. \A s \in Subs : Unfed(s) => queue'[s] = queue[s]
  BY EventsSpareUnfed DEF Fire
<1>2. UNCHANGED <<gen, streamQueue, handlers, pc, snap, reached, blockedOn, detached, frozen>>
  BY DEF Fire
<1> QED BY <1>1, <1>2, StopInvKept DEF EndsInToken

LEMMA StopInvOverflow ==
    ASSUME StreamHubAssumption, TypeOK, TypeOK', StopInv,
           NEW k \in Tasks, NEW e \in EventTypes, Overflow(k, e)
    PROVE  StopInv'
<1> USE DEF hub
<1>1. PICK s \in Addressed(k, e) :
         /\ \E before \in SUBSET {r \in Addressed(k, e) : ~Full(r)} :
              queue' = WithEvent(k, e, before)
         /\ streamQueue' = [streamQueue EXCEPT ![TradeOf[s]] = @ \ {s}]
  BY DEF Overflow, Discard
<1>2. \A r \in Subs : Unfed(r) => queue'[r] = queue[r]
  BY <1>1, EventsSpareUnfed
<1>3. s \in Subs /\ ~Unfed(s)
  BY DEF Addressed, Unfed, TypeOK
<1>4. /\ UNCHANGED <<gen, handlers, snap, reached, blockedOn, detached, frozen>>
      /\ pc' = [pc EXCEPT ![k] = "closing"]
  BY DEF Overflow, BeginStop
<1>5. \A p \in Stoppers : pc'[p] = pc[p] \/ pc'[p] = "closing"
  BY <1>4 DEF TypeOK
<1>6. /\ \A t \in Trades : streamQueue'[t] \subseteq streamQueue[t]
      /\ \A r \in Subs, t \in Trades :
            Unfed(r) /\ r \in streamQueue[t] => r \in streamQueue'[t]
  BY <1>1, <1>3 DEF TypeOK
<1> QED BY <1>2, <1>4, <1>5, <1>6, StopInvKept DEF EndsInToken

(* The loop starts: what it finds is cut off, and what it passes at once   *)
(* has its token.                                                          *)
LEMMA StopInvUnregister ==
    ASSUME StreamHubAssumption, TypeOK, TypeOK', StopInv,
           NEW p \in Stoppers, Unregister(p)
    PROVE  StopInv'
<1> DEFINE row == streamQueue[TradeOf[p]]
<1>1. PICK S \in SUBSET row, b \in row \cup {NoSub} :
         /\ queue' = WithTokens({} \cup S)
         /\ blockedOn' = [blockedOn EXCEPT ![p] = b]
         /\ \/ /\ pc' = [pc EXCEPT ![p] = "yielding"]
               /\ S = row /\ b = NoSub
               /\ reached' = [reached EXCEPT ![p] = {} \cup row]
            \/ /\ pc' = [pc EXCEPT ![p] = "putting"]
               /\ b \in row /\ Full(b)
               /\ reached' = [reached EXCEPT ![p] = {} \cup S \cup {b}]
  BY DEF Unregister, PutTokens
<1>2. /\ UNCHANGED <<gen, streamQueue, frozen>>
      /\ handlers' = [e \in EventTypes |-> {s \in handlers[e] : TradeOf[s] # TradeOf[p]}]
      /\ snap' = [snap EXCEPT ![p] = row]
      /\ detached' = detached \ {p}
      /\ TradeOf[p] \in Trades
  BY DEF Unregister, StreamHubAssumption
<1>3. row \in SUBSET Subs /\ \A s \in row : TradeOf[s] = TradeOf[p] /\ gen[s] # "off"
  BY <1>2 DEF TypeOK, StopInv, Listed
<1> HIDE DEF row
<1>4. Listed' /\ Handling'
  BY <1>2 DEF StopInv, Listed, Handling, TypeOK
<1>5. \A s \in Subs : (Unfed(s) => Unfed(s)') /\ (s \in row => Unfed(s)')
  BY <1>2, <1>3 DEF Unfed
<1>6. \A q \in Stoppers : q # p =>
         /\ pc'[q] = pc[q] /\ snap'[q] = snap[q] /\ reached'[q] = reached[q]
         /\ blockedOn'[q] = blockedOn[q] /\ frozen'[q] = frozen[q]
         /\ (q \in detached' <=> q \in detached)
  BY <1>1, <1>2 DEF TypeOK
<1>7. /\ snap'[p] = row /\ blockedOn'[p] = b /\ p \notin detached'
      /\ \/ pc'[p] = "yielding" /\ S = row
         \/ pc'[p] = "putting" /\ b \in row /\ reached'[p] = S \cup {b}
  BY <1>1, <1>2 DEF TypeOK
<1>8. Cut'
  BY <1>3, <1>5, <1>6, <1>7 DEF StopInv, Cut, TypeOK
<1>9. StillIterated'
  <2>1. ASSUME NEW q \in Stoppers, pc'[q] = "putting"
        PROVE  /\ blockedOn'[q] \in Subs
               /\ \A s \in snap'[q] : s \in Iterated(q)' \/ gen'[s] = "ended"
    <3>1. CASE q = p
      BY <1>2, <1>3, <1>7, <2>1, <3>1 DEF Iterated, row
    <3>2. CASE q # p
      BY <1>2, <1>6, <2>1, <3>2 DEF StopInv, StillIterated, Iterated
    <3> QED BY <3>1, <3>2
  <2> QED BY <2>1 DEF StillIterated
<1>10. \A s \in Subs : s \in S \/ EndsInToken(s) => EndsInToken(s)'
  BY <1>1, TokensEnd
<1>11. ASSUME NEW q \in Stoppers, NEW s \in DealtWith(q)'
       PROVE  gen'[s] = "ended" \/ EndsInToken(s)'
  <2>1. CASE q = p
    <3>1. s \in S
      BY <1>1, <1>7, <1>11, <2>1 DEF DealtWith
    <3> QED BY <1>3, <1>10, <3>1
  <2>2. CASE q # p
    <3>1. s \in DealtWith(q) /\ s \in Subs
      BY <1>6, <1>11, <2>2 DEF DealtWith, TypeOK
    <3> QED BY <1>2, <1>10, <3>1 DEF StopInv, StopReachesAll
  <2> QED BY <2>1, <2>2
<1> QED BY <1>4, <1>8, <1>9, <1>11 DEF StopInv, StopReachesAll

(* The loop goes on: the queue it waited for has its token, and it comes   *)
(* to every queue it found that is still in the set.                       *)
LEMMA StopInvResume ==
    ASSUME StreamHubAssumption, TypeOK, TypeOK', StopInv,
           NEW p \in Stoppers, ResumePut(p)
    PROVE  StopInv'
<1>1. PICK more \in SUBSET (Iterated(p) \ (reached[p] \cup snap[p])) :
         PutTokens(p, {blockedOn[p]}, reached[p],
                   ((Iterated(p) \ reached[p]) \cap snap[p]) \cup more)
  BY DEF ResumePut
<1> DEFINE row == ((Iterated(p) \ reached[p]) \cap snap[p]) \cup more
<1>2. PICK S \in SUBSET row, b \in row \cup {NoSub} :
         /\ queue' = WithTokens({blockedOn[p]} \cup S)
         /\ blockedOn' = [blockedOn EXCEPT ![p] = b]
         /\ \/ /\ pc' = [pc EXCEPT ![p] = "yielding"]
               /\ S = row /\ b = NoSub
               /\ reached' = [reached EXCEPT ![p] = reached[p] \cup row]
            \/ /\ pc' = [pc EXCEPT ![p] = "putting"]
               /\ b \in row /\ Full(b)
               /\ reached' = [reached EXCEPT ![p] = reached[p] \cup S \cup {b}]
  BY <1>1 DEF PutTokens
<1>3. /\ UNCHANGED <<gen, streamQueue, handlers, snap, detached, frozen>>
      /\ pc[p] = "putting" /\ blockedOn[p] \in Subs
      /\ \A s \in snap[p] : s \in Iterated(p) \/ gen[s] = "ended"
  BY DEF ResumePut, hub, StopInv, StillIterated
<1>4. Iterated(p) \subseteq Subs /\ snap[p] \subseteq Subs
  BY DEF TypeOK, Iterated, StreamHubAssumption
<1>5. row \subseteq Iterated(p) /\ row \subseteq Subs
  BY <1>4
<1>6. \A s \in snap[p] : s \in reached[p] \/ gen[s] = "ended" \/ s \in row
  BY <1>3
<1> HIDE DEF row
<1>7. Listed' /\ Handling'
  BY <1>3 DEF StopInv, Listed, Handling
<1>8. \A q \in Stoppers : q # p =>
         pc'[q] = pc[q] /\ reached'[q] = reached[q] /\ blockedOn'[q] = blockedOn[q]
  BY <1>2 DEF TypeOK
<1>9. /\ blockedOn'[p] = b
      /\ \/ pc'[p] = "yielding" /\ S = row
         \/ pc'[p] = "putting" /\ b \in row /\ reached'[p] = reached[p] \cup S \cup {b}
  BY <1>2 DEF TypeOK
<1>10. Cut'
  BY <1>3, <1>8 DEF StopInv, Cut, Unfed
<1>11. StillIterated'
  BY <1>3, <1>5, <1>8, <1>9 DEF StopInv, StillIterated, Iterated
<1>12. \A s \in Subs : s \in S \/ s = blockedOn[p] \/ EndsInToken(s) => EndsInToken(s)'
  BY <1>2, TokensEnd
<1>13. ASSUME NEW q \in Stoppers, NEW s \in DealtWith(q)'
       PROVE  gen'[s] = "ended" \/ EndsInToken(s)'
  <2>1. s \in Subs
    BY <1>13 DEF DealtWith, TypeOK
  <2>2. CASE q = p
    <3>1. s \in snap[p]
      BY <1>3, <1>9, <1>13, <2>2 DEF DealtWith
    <3>2. \/ s \in S \/ s = blockedOn[p] \/ gen[s] = "ended"
          \/ s \in reached[p] /\ s # blockedOn[p]
      BY <1>6, <1>9, <1>13, <2>2, <3>1 DEF DealtWith
    <3>3. CASE s \in reached[p] /\ s # blockedOn[p]
      <4>1. s \in DealtWith(p)
        BY <1>3, <3>1, <3>3 DEF DealtWith
      <4> QED BY <1>3, <1>12, <2>1, <4>1 DEF StopInv, StopReachesAll
    <3> QED BY <1>3, <1>12, <2>1, <3>2, <3>3
  <2>3. CASE q # p
    <3>1. s \in DealtWith(q)
      BY <1>3, <1>8, <1>13, <2>3 DEF DealtWith
    <3> QED BY <1>3, <1>12, <2>1, <3>1 DEF StopInv, StopReachesAll
  <2> QED BY <2>2, <2>3
<1> QED BY <1>7, <1>10, <1>11, <1>13 DEF StopInv, StopReachesAll

(* The loop is ended by RuntimeError: the queue it waited for has its token *)
(* too, those it had not come to get none.                                 *)
LEMMA StopInvFail ==
    ASSUME StreamHubAssumption, TypeOK, StopInv, NEW p \in Stoppers, FailPut(p)
    PROVE  StopInv'
<1>1. /\ UNCHANGED <<gen, streamQueue, handlers, snap, reached, blockedOn, detached, frozen>>
      /\ queue' = WithTokens({blockedOn[p]})
      /\ pc[p] = "putting" /\ pc'[p] = "failed"
      /\ \A q \in Stoppers : q # p => pc'[q] = pc[q]
  BY DEF FailPut, hub, TypeOK
<1>2. Listed' /\ Handling'
  BY <1>1 DEF StopInv, Listed, Handling
<1>3. Cut'
  BY <1>1 DEF StopInv, Cut, Unfed
<1>4. StillIterated'
  BY <1>1 DEF StopInv, StillIterated, Iterated
<1>5. \A s \in Subs : s = blockedOn[p] \/ EndsInToken(s) => EndsInToken(s)'
  BY <1>1, TokensEnd
<1>6. ASSUME NEW q \in Stoppers, NEW s \in DealtWith(q)'
      PROVE  gen'[s] = "ended" \/ EndsInToken(s)'
  <2>1. s \in Subs
    BY <1>1, <1>6 DEF DealtWith, TypeOK
  <2>2. s \in DealtWith(q) \/ s = blockedOn[p]
    BY <1>1, <1>6 DEF DealtWith
  <2> QED BY <1>1, <1>5, <2>1, <2>2 DEF StopInv, StopReachesAll
<1> QED BY <1>2, <1>3, <1>4, <1>6 DEF StopInv, StopReachesAll

(* The trade's entry is popped: a loop still under way keeps the popped    *)
(* set.                                                                    *)
LEMMA FinishKeepsIterated ==
    ASSUME StreamHubAssumption, TypeOK, NEW p \in Stoppers, FinishStop(p),
           NEW q \in Stoppers, q # p, pc[q] = "putting"
    PROVE  Iterated(q)' = Iterated(q)
<1> DEFINE t == TradeOf[p]
           losers == {r \in Stoppers \ {p} :
                        TradeOf[r] = t /\ pc[r] = "putting" /\ r \notin detached}
<1>1. /\ streamQueue' = [streamQueue EXCEPT ![t] = {}]
      /\ detached' = detached \cup losers
      /\ frozen' = [r \in Stoppers |-> IF r \in losers THEN streamQueue[t] ELSE frozen[r]]
  BY DEF FinishStop
<1>2. CASE q \in losers
  BY <1>1, <1>2 DEF Iterated
<1>3. CASE q \in detached
  BY <1>1, <1>3 DEF Iterated
<1>4. CASE q \notin losers /\ q \notin detached
  <2>1. TradeOf[q] # t
    BY <1>4
  <2> QED BY <1>1, <1>4, <2>1 DEF Iterated, TypeOK, StreamHubAssumption
<1> QED BY <1>2, <1>3, <1>4

LEMMA StopInvFinish ==
    ASSUME StreamHubAssumption, TypeOK, TypeOK', StopInv,
           NEW p \in Stoppers, FinishStop(p)
    PROVE  StopInv'
<1>1. /\ pc[p] = "yielding" /\ pc' = [pc EXCEPT ![p] = "done"]
      /\ streamQueue' = [streamQueue EXCEPT ![TradeOf[p]] = {}]
      /\ UNCHANGED <<gen, queue, handlers, snap, reached, blockedOn>>
  BY DEF FinishStop, hub
<1>2. Listed' /\ Handling'
  BY <1>1 DEF StopInv, Listed, Handling, TypeOK
<1>3. \A q \in Stoppers : pc'[q] = pc[q] \/ (q = p /\ pc'[q] = "done")
  BY <1>1 DEF TypeOK
<1>4. Cut'
  BY <1>1, <1>3 DEF StopInv, Cut, Unfed
<1>5. ASSUME NEW q \in Stoppers, pc'[q] = "putting" PROVE Iterated(q)' = Iterated(q)
  BY <1>1, <1>3, <1>5, FinishKeepsIterated
<1>6. StillIterated'
  BY <1>1, <1>3, <1>5 DEF StopInv, StillIterated
<1>7. \A q \in Stoppers : DealtWith(q)' = DealtWith(q)
  BY <1>1, <1>3 DEF DealtWith
<1>8. StopReachesAll'
  BY <1>1, <1>7 DEF StopInv, StopReachesAll, EndsInToken
<1> QED BY <1>2, <1>4, <1>6, <1>8 DEF StopInv

LEMMA StopInvStep ==
    ASSUME StreamHubAssumption, TypeOK, TypeOK', StopInv, [Next]_vars
    PROVE  StopInv'
<1> USE DEF calls, hub, links, stops
<1> DEFINE Quiet == UNCHANGED <<gen, queue, streamQueue, handlers, snap, reached,
                                blockedOn, detached, frozen>>
<1>1. ASSUME Quiet,
             \A p \in Stoppers : \/ pc'[p] = pc[p]
                                 \/ pc'[p] \notin {"putting", "yielding", "done", "failed"}
      PROVE  StopInv'
  BY <1>1, StopInvKept DEF EndsInToken
<1>2. ASSUME NEW s \in Subs, Subscribe(s) PROVE StopInv'
  BY <1>2, StopInvSubscribe
<1>3. ASSUME NEW s \in Subs, Take(s) PROVE StopInv'
  BY <1>3, StopInvTake
<1>4. ASSUME NEW s \in Subs, Leave(s) PROVE StopInv'
  BY <1>4, StopInvLeave
<1>5. ASSUME NEW t \in Trades, StartStream(t) PROVE StopInv'
  BY <1>1, <1>5 DEF StartStream
<1>6. ASSUME NEW k \in Tasks, ConnectionEnds(k) PROVE StopInv'
  BY <1>1, <1>6 DEF ConnectionEnds
<1>7. ASSUME NEW k \in Tasks, SelfCancelled(k) PROVE StopInv'
  <2>1. Quiet /\ pc' = [pc EXCEPT ![k] = "aborted"]
    BY <1>7 DEF SelfCancelled
  <2> QED BY <1>1, <2>1 DEF TypeOK
<1>8. ASSUME NEW k \in Tasks, NEW e \in EventTypes, Fire(k, e) PROVE StopInv'
  BY <1>8, StopInvFire
<1>9. ASSUME NEW k \in Tasks, NEW e \in EventTypes, Overflow(k, e) PROVE StopInv'
  BY <1>9, StopInvOverflow
<1>10. ASSUME NEW r \in Rpcs, StopStream(r) PROVE StopInv'
  <2>1. Quiet /\ pc' = [pc EXCEPT ![r] = "closing"]
    BY <1>10 DEF StopStream, BeginStop
  <2> QED BY <1>1, <2>1 DEF TypeOK
<1>11. ASSUME NEW p \in Stoppers, CancelTasks(p) PROVE StopInv'
  <2>1. /\ Quiet
        /\ \A q \in Stoppers : pc'[q] \in {pc[q], "cancelling", "aborted"}
    BY <1>11 DEF CancelTasks
  <2> QED BY <1>1, <2>1
<1>12. ASSUME NEW p \in Stoppers, Unregister(p) PROVE StopInv'
  BY <1>12, StopInvUnregister
<1>13. ASSUME NEW p \in Stoppers, ResumePut(p) PROVE StopInv'
  BY <1>13, StopInvResume
<1>14. ASSUME NEW p \in Stoppers, FailPut(p) PROVE StopInv'
  BY <1>14, StopInvFail
<1>15. ASSUME NEW p \in Stoppers, FinishStop(p) PROVE StopInv'
  BY <1>15, StopInvFinish
<1>16. ASSUME UNCHANGED vars PROVE StopInv'
  BY <1>1, <1>16 DEF vars
<1> QED BY <1>2, <1>3, <1>4, <1>5, <1>6, <1>7, <1>8, <1>9, <1>10, <1>11, <1>12,
           <1>13, <1>14, <1>15, <1>16 DEF Next, StopSteps

(* Every queue a stop's loop has passed ends in the token, or its          *)
(* generator has ended, whatever overflows, other stops and new calls do   *)
(* while the loop waits: a stop whose loop ends leaves no stream that it   *)
(* found behind; one that RuntimeError ends only those it had come to.     *)
THEOREM StopsReachAll == Spec => []StopReachesAll
<1>1. Init => TypeOK /\ StopInv
  BY TypeInit, StopInvInit, StreamHubAssumption
<1>2. TypeOK /\ StopInv /\ [Next]_vars => (TypeOK /\ StopInv)'
  BY TypeStep, StopInvStep, StreamHubAssumption
<1>3. StopInv => StopReachesAll
  BY DEF StopInv
<1> QED BY <1>1, <1>2, <1>3, PTL DEF Spec
-----------------------------------------------------------------------------
LEMMA TrackedStep ==
    ASSUME StreamHubAssumption, TypeOK, NoUntrackedTask, [Next]_vars
    PROVE  NoUntrackedTask'
<1> USE DEF calls, hub, links, stops, NoUntrackedTask
<1> DEFINE InStop(k) == pc[k] \in {"cancelling", "putting", "yielding"}
<1> \A k \in Tasks : k \in Stoppers /\ TradeOf[k] \in Trades
  BY DEF StreamHubAssumption, Stoppers
<1>1. ASSUME UNCHANGED <<tasks, taskSt, strays>>,
             \A k \in Tasks : InStop(k) => InStop(k)'
      PROVE  NoUntrackedTask'
  BY <1>1
<1>2. ASSUME NEW t \in Trades, StartStream(t) PROVE NoUntrackedTask'
  <2>1. PICK K \in SUBSET {k \in Tasks : TradeOf[k] = t /\ taskSt[k] = "unused"} :
          /\ taskSt' = [k \in Tasks |-> IF k \in K THEN "running" ELSE taskSt[k]]
          /\ tasks' = [tasks EXCEPT ![t] = @ \cup K]
    BY <1>2 DEF StartStream
  <2>2. UNCHANGED <<strays, pc>>
    BY <1>2 DEF StartStream
  <2>3. \A k \in Tasks : /\ k \in tasks[TradeOf[k]] => k \in tasks'[TradeOf[k]]
                         /\ k \in K => k \in tasks'[TradeOf[k]]
    BY <2>1 DEF TypeOK
  <2> QED BY <2>1, <2>2, <2>3
<1>3. ASSUME NEW k \in Tasks, ConnectionEnds(k) PROVE NoUntrackedTask'
  <2>1. /\ taskSt' = [taskSt EXCEPT ![k] = "dead"]
        /\ tasks' = [tasks EXCEPT ![TradeOf[k]] = @ \ {k}]
        /\ UNCHANGED <<strays, pc>>
    BY <1>3 DEF ConnectionEnds
  <2> QED BY <2>1 DEF TypeOK
<1>4. ASSUME NEW k \in Tasks, SelfCancelled(k) PROVE NoUntrackedTask'
  BY <1>4 DEF SelfCancelled, TypeOK
<1>5. ASSUME NEW p \in Stoppers, CancelTasks(p) PROVE NoUntrackedTask'
  <2> DEFINE hit == tasks[TradeOf[p]] \ {p}
  <2>1. /\ pc[p] = "closing"
        /\ pc' = [q \in Stoppers |->
                    IF q = p THEN "cancelling"
                    ELSE IF q \in hit /\ Active(q) THEN "aborted" ELSE pc[q]]
        /\ taskSt' = [k \in Tasks |-> IF k \in hit THEN "dead" ELSE taskSt[k]]
        /\ tasks' = [tasks EXCEPT ![TradeOf[p]] = {}]
        /\ UNCHANGED strays
    BY <1>5 DEF CancelTasks
  <2>2. ASSUME NEW k \in Tasks, taskSt'[k] = "running"
        PROVE  k \in tasks'[TradeOf[k]] \/ k \in strays \/ InStop(k)'
    <3>1. CASE k = p
      BY <2>1, <3>1
    <3>2. CASE k # p
      <4>1. taskSt[k] = "running" /\ k \notin tasks[TradeOf[p]]
        BY <2>1, <2>2, <3>2
      <4>2. pc'[k] = pc[k]
        BY <2>1, <3>2, <4>1
      <4>3. k \in tasks[TradeOf[k]] => k \in tasks'[TradeOf[k]]
        BY <2>1, <4>1 DEF TypeOK
      <4> QED BY <4>1, <4>2, <4>3
    <3> QED BY <3>1, <3>2
  <2> QED BY <2>1, <2>2
<1>6. ASSUME NEW p \in Stoppers, Unregister(p) \/ ResumePut(p) PROVE NoUntrackedTask'
  <2>1. UNCHANGED <<tasks, taskSt, strays>>
    BY <1>6 DEF Unregister, ResumePut
  <2>2. pc' = [pc EXCEPT ![p] = "yielding"] \/ pc' = [pc EXCEPT ![p] = "putting"]
    BY <1>6 DEF Unregister, ResumePut, PutTokens
  <2> QED BY <1>1, <2>1, <2>2 DEF TypeOK
<1>7. ASSUME NEW p \in Stoppers, FailPut(p) PROVE NoUntrackedTask'
  <2>1. /\ UNCHANGED <<tasks, taskSt>> /\ strays' = strays \cup ({p} \cap Tasks)
        /\ pc' = [pc EXCEPT ![p] = "failed"]
    BY <1>7 DEF FailPut
  <2> QED BY <2>1 DEF TypeOK
<1>8. ASSUME NEW p \in Stoppers, FinishStop(p) PROVE NoUntrackedTask'
  <2>1. /\ UNCHANGED <<tasks, strays>> /\ pc' = [pc EXCEPT ![p] = "done"]
        /\ taskSt' = [k \in Tasks |-> IF k = p /\ k \notin strays THEN "dead"
                                                             ELSE taskSt[k]]
    BY <1>8 DEF FinishStop
  <2> QED BY <2>1 DEF TypeOK
<1>9. ASSUME NEW k \in Tasks, NEW e \in EventTypes, Overflow(k, e)
      PROVE  NoUntrackedTask'
  <2>1. ~Active(k) /\ UNCHANGED <<tasks, taskSt, strays>>
        /\ pc' = [pc EXCEPT ![k] = "closing"]
    BY <1>9 DEF Overflow, Receiving, BeginStop
  <2> QED BY <1>1, <2>1 DEF TypeOK, Active
<1>10. ASSUME NEW r \in Rpcs, StopStream(r) PROVE NoUntrackedTask'
  <2>1. pc[r] = "idle" /\ UNCHANGED <<tasks, taskSt, strays>>
        /\ pc' = [pc EXCEPT ![r] = "closing"]
    BY <1>10 DEF StopStream, BeginStop
  <2> QED BY <1>1, <2>1 DEF TypeOK
<1>11. ASSUME NEW s \in Subs, Subscribe(s) \/ Take(s) \/ Leave(s) PROVE NoUntrackedTask'
  BY <1>1, <1>11 DEF Subscribe, Take, Leave
<1>12. ASSUME NEW k \in Tasks, NEW e \in EventTypes, Fire(k, e) PROVE NoUntrackedTask'
  BY <1>1, <1>12 DEF Fire
<1>13. CASE UNCHANGED vars
  BY <1>1, <1>13 DEF vars
<1> QED BY <1>2, <1>3, <1>4, <1>5, <1>6, <1>7, <1>8, <1>9, <1>10, <1>11, <1>12,
           <1>13 DEF Next, StopSteps

(* Every running WebSocket task can still be stopped.                      *)
THEOREM TasksTracked == Spec => []NoUntrackedTask
<1>1. Init => NoUntrackedTask
  BY DEF Init, NoUntrackedTask
<1> QED BY <1>1, TypeCorrect, TrackedStep, StreamHubAssumption, PTL DEF Spec

-----------------------------------------------------------------------------
(* Isolation of trades, and the contract of every call                     *)

(* The queues a step feeds, one item each.                                 *)
LEMMA IsolationStep ==
    ASSUME StreamHubAssumption, TypeOK, TypeOK', StopInv, Isolation, [Next]_vars
    PROVE  Isolation'
<1> USE DEF calls, hub, links, stops
<1> DEFINE Own(s) == {TradeOf[s]} \X TypesOf[s]
<1>1. ASSUME UNCHANGED queue PROVE Isolation'
  BY <1>1 DEF Isolation
<1>2. ASSUME NEW S, queue' = WithTokens(S) PROVE Isolation'
  <2>1. ASSUME NEW s \in Subs, NEW i \in 1..Len(queue'[s]), queue'[s][i] # Token
        PROVE  queue'[s][i] \in Own(s)
    <3>1. queue[s] \in Seq(Events \cup {Token})
      BY DEF TypeOK
    <3>2. i \in 1..Len(queue[s]) /\ queue'[s][i] = queue[s][i]
      BY <1>2, <2>1, <3>1 DEF WithTokens
    <3> QED BY <2>1, <3>2 DEF Isolation
  <2> QED BY <2>1 DEF Isolation
<1>3. ASSUME NEW k \in Tasks, NEW e \in EventTypes, NEW S \in SUBSET Addressed(k, e),
             queue' = WithEvent(k, e, S)
      PROVE  Isolation'
  <2>1. ASSUME NEW s \in Subs, NEW i \in 1..Len(queue'[s]), queue'[s][i] # Token
        PROVE  queue'[s][i] \in Own(s)
    <3>1. queue[s] \in Seq(Events \cup {Token})
      BY DEF TypeOK
    <3>2. CASE i \in 1..Len(queue[s]) /\ queue'[s][i] = queue[s][i]
      BY <2>1, <3>2 DEF Isolation
    <3>3. CASE s \in S /\ queue'[s][i] = <<TradeOf[k], e>>
      <4>1. TradeOf[s] = TradeOf[k] /\ e \in TypesOf[s]
        BY <3>3 DEF Addressed, StopInv, Handling
      <4> QED BY <3>3, <4>1
    <3>4. \/ i \in 1..Len(queue[s]) /\ queue'[s][i] = queue[s][i]
          \/ s \in S /\ queue'[s][i] = <<TradeOf[k], e>>
      BY <1>3, <2>1, <3>1 DEF WithEvent
    <3> QED BY <3>2, <3>3, <3>4
  <2> QED BY <2>1 DEF Isolation
<1>4. ASSUME NEW s \in Subs, Take(s) PROVE Isolation'
  <2>1. queue' = [queue EXCEPT ![s] = LeftBehind(s)]
    BY <1>4 DEF Take
  <2>2. queue[s] \in Seq(Events \cup {Token}) /\ queue[s] # <<>>
    BY <1>4 DEF TypeOK, Take
  <2>3. \A i \in 1..Len(LeftBehind(s)) :
           \E j \in 1..Len(queue[s]) : LeftBehind(s)[i] = queue[s][j]
    <3>1. CASE s \in LifoSubs
      BY <3>1 DEF LeftBehind
    <3>2. CASE s \notin LifoSubs
      <4>1. \A i \in 1..Len(Tail(queue[s])) :
               i + 1 \in 1..Len(queue[s]) /\ Tail(queue[s])[i] = queue[s][i + 1]
        BY <2>2
      <4> QED BY <3>2, <4>1 DEF LeftBehind
    <3> QED BY <3>1, <3>2
  <2>4. \A r \in Subs : queue'[r] = IF r = s THEN LeftBehind(s) ELSE queue[r]
    BY <2>1 DEF TypeOK
  <2>5. ASSUME NEW r \in Subs, NEW i \in 1..Len(queue'[r]), queue'[r][i] # Token
        PROVE  queue'[r][i] \in Own(r)
    <3>1. PICK j \in 1..Len(queue[r]) : queue'[r][i] = queue[r][j]
      BY <2>3, <2>4, <2>5
    <3> QED BY <2>5, <3>1 DEF Isolation
  <2> QED BY <2>5 DEF Isolation
<1>5. ASSUME NEW k \in Tasks, NEW e \in EventTypes, Fire(k, e) PROVE Isolation'
  BY <1>3, <1>5 DEF Fire
<1>6. ASSUME NEW k \in Tasks, NEW e \in EventTypes, Overflow(k, e) PROVE Isolation'
  <2>1. PICK before \in SUBSET Addressed(k, e) : queue' = WithEvent(k, e, before)
    BY <1>6 DEF Overflow
  <2> QED BY <1>3, <2>1
<1>7. ASSUME NEW p \in Stoppers, Unregister(p) PROVE Isolation'
  BY <1>2, <1>7 DEF Unregister, PutTokens
<1>8. ASSUME NEW p \in Stoppers, ResumePut(p) PROVE Isolation'
  BY <1>2, <1>8 DEF ResumePut, PutTokens
<1>9. ASSUME NEW p \in Stoppers, FailPut(p) PROVE Isolation'
  BY <1>2, <1>9 DEF FailPut
<1>10. ASSUME NEW s \in Subs, Subscribe(s) PROVE Isolation'
  BY <1>1, <1>10 DEF Subscribe
<1>11. ASSUME NEW s \in Subs, Leave(s) PROVE Isolation'
  BY <1>1, <1>11 DEF Leave
<1>12. ASSUME NEW t \in Trades, StartStream(t) PROVE Isolation'
  BY <1>1, <1>12 DEF StartStream
<1>13. ASSUME NEW k \in Tasks, ConnectionEnds(k) \/ SelfCancelled(k) PROVE Isolation'
  BY <1>1, <1>13 DEF ConnectionEnds, SelfCancelled
<1>14. ASSUME NEW r \in Rpcs, StopStream(r) PROVE Isolation'
  BY <1>1, <1>14 DEF StopStream
<1>15. ASSUME NEW p \in Stoppers, CancelTasks(p) \/ FinishStop(p) PROVE Isolation'
  BY <1>1, <1>15 DEF CancelTasks, FinishStop
<1>16. ASSUME UNCHANGED vars PROVE Isolation'
  BY <1>1, <1>16 DEF vars
<1> QED BY <1>4, <1>5, <1>6, <1>7, <1>8, <1>9, <1>10, <1>11, <1>12, <1>13, <1>14,
           <1>15, <1>16 DEF Next, StopSteps

(* A stream queues only events a connection of its own trade received, of  *)
(* a type it registered, although trades share the account's handlers.     *)
THEOREM TradesIsolated == Spec => []Isolation
<1>1. Init => TypeOK /\ StopInv /\ Isolation
  BY TypeInit, StopInvInit, StreamHubAssumption DEF Init, Isolation
<1>2. TypeOK /\ StopInv /\ Isolation /\ [Next]_vars => (TypeOK /\ StopInv /\ Isolation)'
  BY TypeStep, StopInvStep, IsolationStep, StreamHubAssumption
<1> QED BY <1>1, <1>2, PTL DEF Spec

-----------------------------------------------------------------------------
(* The contract, for clients that do not subscribe while a stop of their   *)
(* trade runs.                                                             *)

LEMMA TokenInvInit == StreamHubAssumption /\ Init => TokenInv
BY DEF Init, TokenInv, TokenCut, NoneLate, HasToken, StreamHubAssumption

(* A waiting loop that goes on puts tokens only in queues it found.        *)
LEMMA LoopTokens ==
    ASSUME NEW p \in Stoppers, ResumePut(p) \/ FailPut(p),
           Iterated(p) \subseteq snap[p], blockedOn[p] \in snap[p]
    PROVE  \E S \in SUBSET snap[p] : queue' = WithTokens(S)
<1>1. CASE FailPut(p)
  BY <1>1 DEF FailPut
<1>2. CASE ResumePut(p)
  <2>1. PICK more \in SUBSET (Iterated(p) \ (reached[p] \cup snap[p])) :
          PutTokens(p, {blockedOn[p]}, reached[p],
                    ((Iterated(p) \ reached[p]) \cap snap[p]) \cup more)
    BY <1>2 DEF ResumePut
  <2> DEFINE row == ((Iterated(p) \ reached[p]) \cap snap[p]) \cup more
  <2>2. row \subseteq snap[p]
    OBVIOUS
  <2>3. \E S \in SUBSET row : queue' = WithTokens({blockedOn[p]} \cup S)
    BY <2>1 DEF PutTokens
  <2> HIDE DEF row
  <2> QED BY <2>2, <2>3
<1> QED BY <1>1, <1>2

(* Tokens come only from stops, events only to handled queues.             *)
LEMMA TokenCutStep ==
    ASSUME StreamHubAssumption, TypeOK, TypeOK', StopInv, TokenInv, [Next]_vars
    PROVE  TokenCut'
<1> USE DEF calls, hub, links, stops
<1> DEFINE SameUnfed == \A s \in Subs : Unfed(s) => Unfed(s)'
<1>1. ASSUME SameUnfed, \A s \in Subs : HasToken(s)' => HasToken(s) \/ Unfed(s)'
      PROVE  TokenCut'
  BY <1>1 DEF TokenInv, TokenCut
<1>2. ASSUME UNCHANGED queue, SameUnfed PROVE TokenCut'
  BY <1>1, <1>2 DEF HasToken
<1>3. ASSUME NEW S \in SUBSET Subs, queue' = WithTokens(S), SameUnfed,
             \A s \in S : Unfed(s)'
      PROVE  TokenCut'
  <2>1. \A s \in Subs : s \notin S => queue'[s] = queue[s]
    BY <1>3 DEF WithTokens
  <2> QED BY <1>1, <1>3, <2>1 DEF HasToken
<1>4. ASSUME NEW k \in Tasks, NEW e \in EventTypes, NEW S \in SUBSET Addressed(k, e),
             queue' = WithEvent(k, e, S), SameUnfed
      PROVE  TokenCut'
  <2>1. ASSUME NEW s \in Subs, HasToken(s)' PROVE HasToken(s)
    <3>1. PICK i \in 1..Len(queue'[s]) : queue'[s][i] = Token
      BY <2>1 DEF HasToken
    <3>2. queue[s] \in Seq(Events \cup {Token})
      BY DEF TypeOK
    <3>3. <<TradeOf[k], e>> # Token
      BY DEF StreamHubAssumption, Events, Stoppers
    <3>4. i \in 1..Len(queue[s]) /\ queue[s][i] = Token
      BY <1>4, <3>1, <3>2, <3>3 DEF WithEvent
    <3> QED BY <3>4 DEF HasToken
  <2> QED BY <1>1, <1>4, <2>1
<1>5. ASSUME NEW s \in Subs, Subscribe(s) PROVE TokenCut'
  <2>1. \A r \in Subs : Unfed(r) => Unfed(r)'
    BY <1>5 DEF Subscribe, Unfed, TypeOK
  <2> QED BY <1>2, <1>5, <2>1 DEF Subscribe
<1>6. ASSUME NEW s \in Subs, Take(s) PROVE TokenCut'
  <2>1. \A r \in Subs : Unfed(r) => Unfed(r)'
    BY <1>6 DEF Take, Unfed, TypeOK
  <2>2. queue[s] \in Seq(Events \cup {Token}) /\ queue[s] # <<>>
    BY <1>6 DEF TypeOK, Take
  <2>3. ASSUME NEW r \in Subs, HasToken(r)' PROVE HasToken(r)
    <3>1. queue' = [queue EXCEPT ![s] = LeftBehind(s)]
      BY <1>6 DEF Take
    <3>2. CASE r # s
      BY <2>3, <3>1, <3>2 DEF HasToken, TypeOK
    <3>3. CASE r = s
      <4>1. queue'[s] = LeftBehind(s)
        BY <3>1 DEF TypeOK
      <4>2. s \notin LifoSubs /\ queue'[s] = Tail(queue[s])
        BY <2>3, <3>3, <4>1 DEF LeftBehind, HasToken
      <4>3. PICK i \in 1..Len(Tail(queue[s])) : Tail(queue[s])[i] = Token
        BY <2>3, <3>3, <4>2 DEF HasToken
      <4>4. i + 1 \in 1..Len(queue[s]) /\ Tail(queue[s])[i] = queue[s][i + 1]
        BY <2>2, <4>3
      <4> QED BY <3>3, <4>3, <4>4 DEF HasToken
    <3> QED BY <3>2, <3>3
  <2> QED BY <1>1, <2>1, <2>3
<1>7. ASSUME NEW k \in Tasks, NEW e \in EventTypes, Fire(k, e) PROVE TokenCut'
  BY <1>4, <1>7 DEF Fire, Unfed
<1>8. ASSUME NEW k \in Tasks, NEW e \in EventTypes, Overflow(k, e) PROVE TokenCut'
  <2>1. PICK before \in SUBSET Addressed(k, e) : queue' = WithEvent(k, e, before)
    BY <1>8 DEF Overflow
  <2> QED BY <1>4, <1>8, <2>1 DEF Overflow, Unfed
<1>9. ASSUME NEW p \in Stoppers, Unregister(p) PROVE TokenCut'
  <2>1. TradeOf[p] \in Trades
    BY DEF StreamHubAssumption
  <2>2. SameUnfed
    BY <1>9 DEF Unregister, Unfed
  <2>3. \A s \in streamQueue[TradeOf[p]] : s \in Subs /\ Unfed(s)'
    BY <1>9, <2>1 DEF Unregister, Unfed, StopInv, Listed, TypeOK
  <2>4. PICK S \in SUBSET streamQueue[TradeOf[p]] : queue' = WithTokens({} \cup S)
    BY <1>9 DEF Unregister, PutTokens
  <2> QED BY <1>3, <2>2, <2>3, <2>4
<1>10. ASSUME NEW p \in Stoppers, ResumePut(p) \/ FailPut(p) PROVE TokenCut'
  <2>1. pc[p] = "putting" /\ UNCHANGED <<gen, handlers>>
    BY <1>10 DEF ResumePut, FailPut
  <2>2. \A s \in Subs : Unfed(s) => Unfed(s)'
    BY <2>1 DEF Unfed
  <2>3. \A s \in snap[p] : s \in Subs /\ Unfed(s)
    BY <2>1 DEF StopInv, Cut, TypeOK
  <2>4. Iterated(p) \subseteq snap[p] /\ blockedOn[p] \in snap[p]
    BY <2>1 DEF TokenInv, NoneLate
  <2>5. \E S \in SUBSET snap[p] : queue' = WithTokens(S)
    BY <1>10, <2>4, LoopTokens
  <2> QED BY <1>3, <2>2, <2>3, <2>5
<1>11. ASSUME NEW s \in Subs, Leave(s) PROVE TokenCut'
  <2>1. SameUnfed
    BY <1>11 DEF Leave, Unfed, TypeOK
  <2> QED BY <1>2, <1>11, <2>1 DEF Leave
<1>12. ASSUME NEW t \in Trades, StartStream(t) PROVE TokenCut'
  BY <1>2, <1>12 DEF StartStream, Unfed
<1>13. ASSUME NEW k \in Tasks, ConnectionEnds(k) \/ SelfCancelled(k) PROVE TokenCut'
  BY <1>2, <1>13 DEF ConnectionEnds, SelfCancelled, Unfed
<1>14. ASSUME NEW r \in Rpcs, StopStream(r) PROVE TokenCut'
  BY <1>2, <1>14 DEF StopStream, Unfed
<1>15. ASSUME NEW p \in Stoppers, CancelTasks(p) \/ FinishStop(p) PROVE TokenCut'
  BY <1>2, <1>15 DEF CancelTasks, FinishStop, Unfed
<1>16. ASSUME UNCHANGED vars PROVE TokenCut'
  BY <1>2, <1>16 DEF vars, Unfed
<1> QED BY <1>5, <1>6, <1>7, <1>8, <1>9, <1>10, <1>11, <1>12, <1>13, <1>14,
           <1>15, <1>16 DEF Next, StopSteps

(* A waiting loop iterates over nothing it did not find at its start.      *)
LEMMA NoneLateStep ==
    ASSUME StreamHubAssumption, ~LateSubscribe, TypeOK, TypeOK', StopInv, TokenInv,
           [Next]_vars
    PROVE  NoneLate'
<1> USE DEF calls, hub, links, stops
<1>1. ASSUME \A t \in Trades : streamQueue'[t] \subseteq streamQueue[t],
             UNCHANGED <<snap, blockedOn, detached, frozen>>,
             \A p \in Stoppers : pc'[p] = pc[p] \/ pc'[p] # "putting"
      PROVE  NoneLate'
  <2>1. \A p \in Stoppers : Iterated(p)' \subseteq Iterated(p)
    BY <1>1 DEF Iterated, StreamHubAssumption
  <2> QED BY <1>1, <2>1 DEF TokenInv, NoneLate
<1>2. ASSUME NEW s \in Subs, Subscribe(s) PROVE NoneLate'
  <2>1. ASSUME NEW p \in Stoppers, pc[p] = "putting"
        PROVE  Iterated(p)' = Iterated(p)
    <3>1. TradeOf[p] # TradeOf[s]
      BY <1>2, <2>1 DEF Subscribe, Stopping, Active
    <3>2. streamQueue'[TradeOf[p]] = streamQueue[TradeOf[p]]
      BY <1>2, <3>1 DEF Subscribe, TypeOK, StreamHubAssumption
    <3> QED BY <1>2, <3>2 DEF Subscribe, Iterated
  <2> QED BY <1>2, <2>1 DEF Subscribe, TokenInv, NoneLate
<1>3. ASSUME NEW s \in Subs, Take(s) PROVE NoneLate'
  <2>1. \/ streamQueue' = [streamQueue EXCEPT ![TradeOf[s]] = @ \ {s}]
        \/ streamQueue' = streamQueue
    BY <1>3 DEF Take, Discard
  <2>2. streamQueue \in [Trades -> SUBSET Subs]
    BY DEF TypeOK
  <2>3. \A t \in Trades : streamQueue'[t] \subseteq streamQueue[t]
    <3>1. CASE streamQueue' = streamQueue
      BY <3>1
    <3>2. CASE streamQueue' = [streamQueue EXCEPT ![TradeOf[s]] = @ \ {s}]
      BY <2>2, <3>2
    <3> QED BY <2>1, <3>1, <3>2
  <2> QED BY <1>1, <1>3, <2>3 DEF Take
<1>4. ASSUME NEW k \in Tasks, NEW e \in EventTypes, Overflow(k, e) PROVE NoneLate'
  <2>1. \E s \in Subs : streamQueue' = [streamQueue EXCEPT ![TradeOf[k]] = @ \ {s}]
    BY <1>4 DEF Overflow, Discard, Addressed, TypeOK
  <2>2. \A t \in Trades : streamQueue'[t] \subseteq streamQueue[t]
    BY <2>1 DEF TypeOK
  <2>3. \A p \in Stoppers : pc'[p] = pc[p] \/ pc'[p] = "closing"
    BY <1>4 DEF Overflow, BeginStop, TypeOK
  <2> QED BY <1>1, <1>4, <2>2, <2>3 DEF Overflow, BeginStop
<1>5. ASSUME NEW p \in Stoppers, Unregister(p) PROVE NoneLate'
  <2>1. /\ snap' = [snap EXCEPT ![p] = streamQueue[TradeOf[p]]]
        /\ detached' = detached \ {p} /\ UNCHANGED <<streamQueue, frozen>>
    BY <1>5 DEF Unregister
  <2>2. \E b \in streamQueue[TradeOf[p]] \cup {NoSub} :
           /\ blockedOn' = [blockedOn EXCEPT ![p] = b]
           /\ \/ pc' = [pc EXCEPT ![p] = "yielding"]
              \/ pc' = [pc EXCEPT ![p] = "putting"] /\ b \in streamQueue[TradeOf[p]]
    BY <1>5 DEF Unregister, PutTokens
  <2>3. ASSUME NEW q \in Stoppers, pc'[q] = "putting"
        PROVE  Iterated(q)' \cup {blockedOn'[q]} \subseteq snap'[q]
    <3>1. CASE q = p
      BY <2>1, <2>2, <2>3, <3>1 DEF Iterated, TypeOK
    <3>2. CASE q # p
      <4>1. pc[q] = "putting" /\ blockedOn'[q] = blockedOn[q] /\ snap'[q] = snap[q]
        BY <2>1, <2>2, <2>3, <3>2 DEF TypeOK
      <4>2. Iterated(q)' = Iterated(q)
        BY <2>1, <3>2 DEF Iterated
      <4> QED BY <4>1, <4>2 DEF TokenInv, NoneLate
    <3> QED BY <3>1, <3>2
  <2> QED BY <2>3 DEF NoneLate
<1>6. ASSUME NEW p \in Stoppers, ResumePut(p) PROVE NoneLate'
  <2>1. pc[p] = "putting" /\ UNCHANGED <<streamQueue, snap, detached, frozen>>
    BY <1>6 DEF ResumePut
  <2>2. Iterated(p) \subseteq snap[p]
    BY <2>1 DEF TokenInv, NoneLate
  <2>3. \E b \in snap[p] \cup {NoSub} :
           /\ blockedOn' = [blockedOn EXCEPT ![p] = b]
           /\ \/ pc' = [pc EXCEPT ![p] = "yielding"]
              \/ pc' = [pc EXCEPT ![p] = "putting"] /\ b \in snap[p]
    <3>1. PICK more \in SUBSET (Iterated(p) \ (reached[p] \cup snap[p])) :
            PutTokens(p, {blockedOn[p]}, reached[p],
                      ((Iterated(p) \ reached[p]) \cap snap[p]) \cup more)
      BY <1>6 DEF ResumePut
    <3> DEFINE row == ((Iterated(p) \ reached[p]) \cap snap[p]) \cup more
    <3>2. row \subseteq snap[p]
      BY <2>2
    <3>3. \E b \in row \cup {NoSub} :
             /\ blockedOn' = [blockedOn EXCEPT ![p] = b]
             /\ \/ pc' = [pc EXCEPT ![p] = "yielding"]
                \/ pc' = [pc EXCEPT ![p] = "putting"] /\ b \in row
      BY <3>1 DEF PutTokens
    <3> HIDE DEF row
    <3> QED BY <3>2, <3>3
  <2>4. ASSUME NEW q \in Stoppers, pc'[q] = "putting"
        PROVE  Iterated(q)' \cup {blockedOn'[q]} \subseteq snap'[q]
    <3>1. Iterated(q)' = Iterated(q) /\ snap'[q] = snap[q]
      BY <2>1 DEF Iterated
    <3>2. CASE q = p
      BY <2>1, <2>2, <2>3, <2>4, <3>1, <3>2 DEF TypeOK
    <3>3. CASE q # p
      <4>1. pc[q] = "putting" /\ blockedOn'[q] = blockedOn[q]
        BY <2>3, <2>4, <3>3 DEF TypeOK
      <4> QED BY <3>1, <4>1 DEF TokenInv, NoneLate
    <3> QED BY <3>2, <3>3
  <2> QED BY <2>4 DEF NoneLate
<1>7. ASSUME NEW p \in Stoppers, FinishStop(p) PROVE NoneLate'
  <2>1. pc' = [pc EXCEPT ![p] = "done"] /\ UNCHANGED <<snap, blockedOn>>
    BY <1>7 DEF FinishStop
  <2>2. ASSUME NEW q \in Stoppers, pc'[q] = "putting"
        PROVE  pc[q] = "putting" /\ Iterated(q)' = Iterated(q)
    <3>1. pc[q] = "putting" /\ q # p
      BY <2>1, <2>2 DEF TypeOK
    <3> QED BY <1>7, <3>1, FinishKeepsIterated
  <2> QED BY <2>1, <2>2 DEF TokenInv, NoneLate
<1>8. ASSUME NEW p \in Stoppers, FailPut(p) PROVE NoneLate'
  <2>1. \A q \in Stoppers : pc'[q] = pc[q] \/ pc'[q] = "failed"
    BY <1>8 DEF FailPut, TypeOK
  <2> QED BY <1>1, <1>8, <2>1 DEF FailPut
<1>9. ASSUME NEW p \in Stoppers, CancelTasks(p) PROVE NoneLate'
  BY <1>1, <1>9 DEF CancelTasks
<1>10. ASSUME NEW r \in Rpcs, StopStream(r) PROVE NoneLate'
  <2>1. \A q \in Stoppers : pc'[q] = pc[q] \/ pc'[q] = "closing"
    BY <1>10 DEF StopStream, BeginStop, TypeOK
  <2> QED BY <1>1, <1>10, <2>1 DEF StopStream, BeginStop
<1>11. ASSUME NEW k \in Tasks, SelfCancelled(k) PROVE NoneLate'
  <2>1. \A q \in Stoppers : pc'[q] = pc[q] \/ pc'[q] = "aborted"
    BY <1>11 DEF SelfCancelled, TypeOK
  <2> QED BY <1>1, <1>11, <2>1 DEF SelfCancelled
<1>12. ASSUME UNCHANGED <<streamQueue, stops>> PROVE NoneLate'
  BY <1>1, <1>12
<1>13. ASSUME NEW s \in Subs, Leave(s) PROVE NoneLate'
  BY <1>12, <1>13 DEF Leave
<1>14. ASSUME NEW t \in Trades, StartStream(t) PROVE NoneLate'
  BY <1>12, <1>14 DEF StartStream
<1>15. ASSUME NEW k \in Tasks, ConnectionEnds(k) PROVE NoneLate'
  BY <1>12, <1>15 DEF ConnectionEnds
<1>16. ASSUME NEW k \in Tasks, NEW e \in EventTypes, Fire(k, e) PROVE NoneLate'
  BY <1>12, <1>16 DEF Fire
<1>17. ASSUME UNCHANGED vars PROVE NoneLate'
  BY <1>12, <1>17 DEF vars
<1> QED BY <1>2, <1>3, <1>4, <1>5, <1>6, <1>7, <1>8, <1>9, <1>10, <1>11, <1>13,
           <1>14, <1>15, <1>16, <1>17 DEF Next, StopSteps

(* Every step of the hub is, for every streaming call, a step of its       *)
(* contract or none.                                                       *)
LEMMA ContractStep ==
    ASSUME StreamHubAssumption, TypeOK, StopInv, TokenInv, [Next]_vars
    PROVE  \A s \in Subs : [Contract(s)!Next]_<<gen[s], queue[s]>>
<1> USE DEF calls, hub, links, stops
<1> SUFFICES ASSUME NEW s \in Subs
             PROVE  [Contract(s)!Next]_<<gen[s], queue[s]>>
  OBVIOUS
<1> DEFINE Same == gen'[s] = gen[s] /\ queue'[s] = queue[s]
           Step == [Contract(s)!Next]_<<gen[s], queue[s]>>
<1>1. Same => Step
  OBVIOUS
<1>2. ASSUME NEW S \in SUBSET Subs, queue' = WithTokens(S), gen' = gen,
             \A r \in S : gen[r] # "off"
      PROVE  Step
  <2>1. CASE s \in S
    BY <1>2, <2>1 DEF WithTokens, Contract!Next, Contract!Tell
  <2>2. CASE s \notin S
    BY <1>1, <1>2, <2>2 DEF WithTokens
  <2> QED BY <2>1, <2>2
<1>3. ASSUME NEW k \in Tasks, NEW e \in EventTypes, NEW S \in SUBSET Addressed(k, e),
             queue' = WithEvent(k, e, S), gen' = gen
      PROVE  Step
  <2>1. CASE s \in S
    <3>1. s \in handlers[e] /\ gen[s] # "off"
      BY <2>1 DEF Addressed, StopInv, Handling
    <3>2. ~Contract(s)!Told
      BY <3>1 DEF TokenInv, TokenCut, HasToken, Unfed, Contract!Told
    <3>3. <<TradeOf[k], e>> \in Events
      BY DEF Events, StreamHubAssumption, Stoppers
    <3>4. queue'[s] = Append(queue[s], <<TradeOf[k], e>>)
      BY <1>3, <2>1 DEF WithEvent
    <3> QED BY <1>3, <3>1, <3>2, <3>3, <3>4 DEF Contract!Next, Contract!Accept
  <2>2. CASE s \notin S
    BY <1>1, <1>3, <2>2 DEF WithEvent
  <2> QED BY <2>1, <2>2
<1>4. ASSUME NEW r \in Subs, Subscribe(r) PROVE Step
  <2>1. gen[r] = "off" /\ gen' = [gen EXCEPT ![r] = "open"] /\ queue' = queue
    BY <1>4 DEF Subscribe
  <2>2. CASE r = s
    <3>1. gen'[s] = "open"
      BY <2>1, <2>2 DEF TypeOK
    <3> QED BY <2>1, <2>2, <3>1 DEF Contract!Next, Contract!Open
  <2>3. CASE r # s
    BY <1>1, <2>1, <2>3 DEF TypeOK
  <2> QED BY <2>2, <2>3
<1>5. ASSUME NEW r \in Subs, Leave(r) PROVE Step
  <2>1. gen[r] = "open" /\ gen' = [gen EXCEPT ![r] = "gone"] /\ queue' = queue
    BY <1>5 DEF Leave
  <2>2. CASE r = s
    <3>1. gen'[s] = "gone"
      BY <2>1, <2>2 DEF TypeOK
    <3> QED BY <2>1, <2>2, <3>1 DEF Contract!Next, Contract!Leave
  <2>3. CASE r # s
    BY <1>1, <2>1, <2>3 DEF TypeOK
  <2> QED BY <2>2, <2>3
<1>6. ASSUME NEW r \in Subs, Take(r) PROVE Step
  <2>1. /\ gen[r] = "open" /\ queue[r] # <<>>
        /\ queue' = [queue EXCEPT ![r] = LeftBehind(r)]
        /\ gen' = IF NextItem(r) = Token THEN [gen EXCEPT ![r] = "ended"] ELSE gen
    BY <1>6 DEF Take
  <2>2. CASE r = s
    <3>1. queue'[s] = LeftBehind(s)
      BY <2>1, <2>2 DEF TypeOK
    <3>2. gen'[s] = IF NextItem(s) = Token THEN "ended" ELSE gen[s]
      BY <2>1, <2>2 DEF TypeOK
    <3>3. Contract(s)!Give
      BY <2>1, <2>2, <3>1, <3>2 DEF Contract!Give, Contract!Last, NextItem, LeftBehind
    <3> QED BY <3>3 DEF Contract!Next
  <2>3. CASE r # s
    BY <1>1, <2>1, <2>3 DEF TypeOK
  <2> QED BY <2>2, <2>3
<1>7. ASSUME NEW k \in Tasks, NEW e \in EventTypes, Fire(k, e) PROVE Step
  BY <1>3, <1>7 DEF Fire
<1>8. ASSUME NEW k \in Tasks, NEW e \in EventTypes, Overflow(k, e) PROVE Step
  <2>1. PICK before \in SUBSET Addressed(k, e) : queue' = WithEvent(k, e, before)
    BY <1>8 DEF Overflow
  <2>2. gen' = gen
    BY <1>8 DEF Overflow
  <2> QED BY <1>3, <2>1, <2>2
<1>9. ASSUME NEW p \in Stoppers, Unregister(p) PROVE Step
  <2>1. TradeOf[p] \in Trades
    BY DEF StreamHubAssumption
  <2>2. \A r \in streamQueue[TradeOf[p]] : r \in Subs /\ gen[r] # "off"
    BY <2>1 DEF StopInv, Listed, TypeOK
  <2>3. \E S \in SUBSET streamQueue[TradeOf[p]] : queue' = WithTokens(S)
    BY <1>9 DEF Unregister, PutTokens
  <2>4. gen' = gen
    BY <1>9 DEF Unregister
  <2> QED BY <1>2, <2>2, <2>3, <2>4
<1>10. ASSUME NEW p \in Stoppers, ResumePut(p) \/ FailPut(p) PROVE Step
  <2>1. pc[p] = "putting" /\ gen' = gen
    BY <1>10 DEF ResumePut, FailPut
  <2>2. \A r \in snap[p] : r \in Subs /\ gen[r] # "off"
    BY <2>1 DEF StopInv, Cut, Unfed, TypeOK
  <2>3. Iterated(p) \subseteq snap[p] /\ blockedOn[p] \in snap[p]
    BY <2>1 DEF TokenInv, NoneLate
  <2>4. \E S \in SUBSET snap[p] : queue' = WithTokens(S)
    BY <1>10, <2>3, LoopTokens
  <2> QED BY <1>2, <2>1, <2>2, <2>4
<1>11. ASSUME NEW t \in Trades, StartStream(t) PROVE Step
  BY <1>1, <1>11 DEF StartStream
<1>12. ASSUME NEW k \in Tasks, ConnectionEnds(k) \/ SelfCancelled(k) PROVE Step
  BY <1>1, <1>12 DEF ConnectionEnds, SelfCancelled
<1>13. ASSUME NEW r \in Rpcs, StopStream(r) PROVE Step
  BY <1>1, <1>13 DEF StopStream
<1>14. ASSUME NEW p \in Stoppers, CancelTasks(p) \/ FinishStop(p) PROVE Step
  BY <1>1, <1>14 DEF CancelTasks, FinishStop
<1>15. ASSUME UNCHANGED vars PROVE Step
  BY <1>1, <1>15 DEF vars
<1> QED BY <1>4, <1>5, <1>6, <1>7, <1>8, <1>9, <1>10, <1>11, <1>12, <1>13, <1>14,
           <1>15 DEF Next, StopSteps

(* Every queue of every streaming call changes only as StreamContract      *)
(* says, if clients do not subscribe while a stop of their trade runs.     *)
THEOREM ContractKept ==
    ASSUME ~LateSubscribe
    PROVE  Spec => ImplementsContract
<1> DEFINE Inv == TypeOK /\ StopInv /\ TokenInv
           Steps == \A s \in Subs : [Contract(s)!Next]_<<gen[s], queue[s]>>
           Starts == \A s \in Subs : Contract(s)!Init
<1>1. Init => Inv
  BY TypeInit, StopInvInit, TokenInvInit, StreamHubAssumption
<1>2. Inv /\ [Next]_vars => Inv'
  <2> SUFFICES ASSUME Inv, [Next]_vars PROVE Inv'
    OBVIOUS
  <2>1. TypeOK'
    BY TypeStep, StreamHubAssumption
  <2>2. StopInv'
    BY <2>1, StopInvStep, StreamHubAssumption
  <2>3. TokenInv'
    BY <2>1, TokenCutStep, NoneLateStep, StreamHubAssumption DEF TokenInv
  <2> QED BY <2>1, <2>2, <2>3
<1>3. Inv /\ [Next]_vars => Steps
  BY ContractStep, StreamHubAssumption
<1>4. Init => Starts
  BY DEF Init, Contract!Init
<1>5. Spec => Starts /\ [][Steps]_vars
  <2> HIDE DEF Inv, Steps, Starts
  <2> QED BY <1>1, <1>2, <1>3, <1>4, PTL DEF Spec
<1> QED BY <1>5 DEF ImplementsContract

-----------------------------------------------------------------------------
(* A queue that overflowed blocks no stop.                                 *)

LEMMA OverflowInvStep ==
    ASSUME StreamHubAssumption, TypeOK, StopInv, OverflowInv, [Next]_vars
    PROVE  OverflowInv'
<1> USE DEF calls, hub, links, stops
<1>1. ASSUME overflowed' = overflowed, snap' = snap,
             \A p \in Stoppers : pc'[p] = pc[p] \/ pc'[p] # "putting",
             \A s \in Subs : gen[s] # "off" => gen'[s] # "off",
             \A t \in Trades : streamQueue'[t] \subseteq streamQueue[t]
      PROVE  OverflowInv'
  BY <1>1 DEF OverflowInv, TypeOK
<1>2. ASSUME NEW s \in Subs, Subscribe(s) PROVE OverflowInv'
  <2>1. /\ gen[s] = "off" /\ gen' = [gen EXCEPT ![s] = "open"]
        /\ streamQueue' = [streamQueue EXCEPT ![TradeOf[s]] = @ \cup {s}]
        /\ UNCHANGED <<overflowed, pc, snap>>
    BY <1>2 DEF Subscribe
  <2>2. \A r \in overflowed : r \in Subs /\ r # s /\ gen'[r] = gen[r]
    BY <2>1 DEF OverflowInv, TypeOK
  <2>3. \A t \in Trades : streamQueue'[t] \subseteq streamQueue[t] \cup {s}
    BY <2>1 DEF TypeOK
  <2> QED BY <2>1, <2>2, <2>3 DEF OverflowInv
<1>3. ASSUME NEW s \in Subs, Take(s) PROVE OverflowInv'
  <2>1. \/ gen' = gen /\ streamQueue' = streamQueue
        \/ /\ gen' = [gen EXCEPT ![s] = "ended"]
           /\ streamQueue' = [streamQueue EXCEPT ![TradeOf[s]] = @ \ {s}]
    BY <1>3 DEF Take, Discard
  <2>2. \A r \in Subs : gen[r] # "off" => gen'[r] # "off"
    <3>1. gen' = gen \/ gen' = [gen EXCEPT ![s] = "ended"]
      BY <2>1
    <3> QED BY <3>1 DEF TypeOK
  <2>3. \A t \in Trades : streamQueue'[t] \subseteq streamQueue[t]
    <3>1. CASE streamQueue' = streamQueue
      BY <3>1
    <3>2. CASE streamQueue' = [streamQueue EXCEPT ![TradeOf[s]] = @ \ {s}]
      <4>1. streamQueue \in [Trades -> SUBSET Subs]
        BY DEF TypeOK
      <4> QED BY <3>2, <4>1
    <3> QED BY <2>1, <3>1, <3>2
  <2> QED BY <1>1, <1>3, <2>2, <2>3 DEF Take
<1>4. ASSUME NEW s \in Subs, Leave(s) PROVE OverflowInv'
  <2>1. gen' = [gen EXCEPT ![s] = "gone"] /\ UNCHANGED <<streamQueue, overflowed, pc, snap>>
    BY <1>4 DEF Leave
  <2>2. \A r \in Subs : gen[r] # "off" => gen'[r] # "off"
    BY <2>1 DEF TypeOK
  <2> QED BY <1>1, <2>1, <2>2
<1>5. ASSUME NEW k \in Tasks, NEW e \in EventTypes, Overflow(k, e) PROVE OverflowInv'
  <2>1. PICK s \in Addressed(k, e) :
           /\ streamQueue' = [streamQueue EXCEPT ![TradeOf[s]] = @ \ {s}]
           /\ overflowed' = overflowed \cup {s}
    BY <1>5 DEF Overflow, Discard
  <2>2. pc' = [pc EXCEPT ![k] = "closing"] /\ UNCHANGED <<gen, snap>>
    BY <1>5 DEF Overflow, BeginStop
  <2>3. \A p \in Stoppers : pc'[p] = "putting" => pc[p] = "putting"
    BY <2>2 DEF TypeOK
  <2>4. \A t \in Trades : streamQueue'[t] \subseteq streamQueue[t]
    BY <2>1 DEF TypeOK
  <2>5. gen[s] # "off" /\ ~Unfed(s)
    BY DEF Addressed, StopInv, Handling, Unfed
  <2>6. \A t \in Trades : s \notin streamQueue'[t]
    BY <2>1, <2>4 DEF StopInv, Listed, TypeOK
  <2>7. \A p \in Stoppers : pc[p] = "putting" => s \notin snap[p]
    BY <2>5 DEF StopInv, Cut
  <2> QED BY <2>1, <2>2, <2>3, <2>4, <2>5, <2>6, <2>7 DEF OverflowInv
<1>6. ASSUME NEW p \in Stoppers, Unregister(p) PROVE OverflowInv'
  <2>1. /\ snap' = [snap EXCEPT ![p] = streamQueue[TradeOf[p]]]
        /\ UNCHANGED <<gen, streamQueue, overflowed>>
    BY <1>6 DEF Unregister
  <2>2. pc' = [pc EXCEPT ![p] = "yielding"] \/ pc' = [pc EXCEPT ![p] = "putting"]
    BY <1>6 DEF Unregister, PutTokens
  <2>3. TradeOf[p] \in Trades
    BY DEF StreamHubAssumption
  <2>4. \A s \in overflowed : s \notin snap'[p]
    BY <2>1, <2>3 DEF OverflowInv, TypeOK
  <2>5. \A q \in Stoppers : q # p => pc'[q] = pc[q] /\ snap'[q] = snap[q]
    BY <2>1, <2>2 DEF TypeOK
  <2> QED BY <2>1, <2>4, <2>5 DEF OverflowInv
<1>7. ASSUME NEW p \in Stoppers, ResumePut(p) PROVE OverflowInv'
  <2>1. pc[p] = "putting" /\ UNCHANGED <<gen, streamQueue, overflowed, snap>>
    BY <1>7 DEF ResumePut
  <2>2. pc' = [pc EXCEPT ![p] = "yielding"] \/ pc' = [pc EXCEPT ![p] = "putting"]
    BY <1>7 DEF ResumePut, PutTokens
  <2>3. \A q \in Stoppers : pc'[q] = "putting" => pc[q] = "putting"
    BY <2>1, <2>2 DEF TypeOK
  <2> QED BY <2>1, <2>3 DEF OverflowInv
<1>8. ASSUME NEW p \in Stoppers, FailPut(p) PROVE OverflowInv'
  <2>1. pc' = [pc EXCEPT ![p] = "failed"] /\ UNCHANGED <<gen, streamQueue, overflowed, snap>>
    BY <1>8 DEF FailPut
  <2>2. \A q \in Stoppers : pc'[q] = pc[q] \/ pc'[q] = "failed"
    BY <2>1 DEF TypeOK
  <2> QED BY <1>1, <2>1, <2>2
<1>9. ASSUME NEW p \in Stoppers, FinishStop(p) PROVE OverflowInv'
  <2>1. /\ pc' = [pc EXCEPT ![p] = "done"] /\ UNCHANGED <<gen, overflowed, snap>>
        /\ streamQueue' = [streamQueue EXCEPT ![TradeOf[p]] = {}]
    BY <1>9 DEF FinishStop
  <2>2. /\ \A q \in Stoppers : pc'[q] = pc[q] \/ pc'[q] = "done"
        /\ \A t \in Trades : streamQueue'[t] \subseteq streamQueue[t]
    BY <2>1 DEF TypeOK
  <2> QED BY <1>1, <2>1, <2>2
<1>10. ASSUME NEW p \in Stoppers, CancelTasks(p) PROVE OverflowInv'
  <2>1. /\ UNCHANGED <<gen, streamQueue, overflowed, snap>>
        /\ \A q \in Stoppers : pc'[q] \in {pc[q], "cancelling", "aborted"}
    BY <1>10 DEF CancelTasks
  <2> QED BY <1>1, <2>1
<1>11. ASSUME NEW r \in Rpcs, StopStream(r) PROVE OverflowInv'
  <2>1. pc' = [pc EXCEPT ![r] = "closing"] /\ UNCHANGED <<gen, streamQueue, overflowed, snap>>
    BY <1>11 DEF StopStream, BeginStop
  <2>2. \A q \in Stoppers : pc'[q] = pc[q] \/ pc'[q] = "closing"
    BY <2>1 DEF TypeOK
  <2> QED BY <1>1, <2>1, <2>2
<1>12. ASSUME NEW k \in Tasks, SelfCancelled(k) PROVE OverflowInv'
  <2>1. /\ pc' = [pc EXCEPT ![k] = "aborted"]
        /\ UNCHANGED <<gen, streamQueue, overflowed, snap>>
    BY <1>12 DEF SelfCancelled
  <2>2. \A q \in Stoppers : pc'[q] = pc[q] \/ pc'[q] = "aborted"
    BY <2>1 DEF TypeOK
  <2> QED BY <1>1, <2>1, <2>2
<1>13. ASSUME NEW t \in Trades, StartStream(t) PROVE OverflowInv'
  BY <1>1, <1>13 DEF StartStream
<1>14. ASSUME NEW k \in Tasks, ConnectionEnds(k) PROVE OverflowInv'
  BY <1>1, <1>14 DEF ConnectionEnds
<1>15. ASSUME NEW k \in Tasks, NEW e \in EventTypes, Fire(k, e) PROVE OverflowInv'
  BY <1>1, <1>15 DEF Fire
<1>16. ASSUME UNCHANGED vars PROVE OverflowInv'
  BY <1>1, <1>16 DEF vars
<1> QED BY <1>2, <1>3, <1>4, <1>5, <1>6, <1>7, <1>8, <1>9, <1>10, <1>11, <1>12,
           <1>13, <1>14, <1>15, <1>16 DEF Next, StopSteps

(* No stop waits for a queue that overflowed, if clients do not subscribe  *)
(* while a stop of their trade runs: a waiting loop is at a queue it found *)
(* at its start, and an overflowed one is in none of these.                *)
THEOREM OverflowFreesStop ==
    ASSUME ~LateSubscribe
    PROVE  Spec => []OverflowNeverBlocksStop
<1> DEFINE Inv == TypeOK /\ StopInv /\ TokenInv /\ OverflowInv
<1>1. Init => Inv
  BY TypeInit, StopInvInit, TokenInvInit, StreamHubAssumption DEF Init, OverflowInv
<1>2. Inv /\ [Next]_vars => Inv'
  <2> SUFFICES ASSUME Inv, [Next]_vars PROVE Inv'
    OBVIOUS
  <2>1. TypeOK'
    BY TypeStep, StreamHubAssumption
  <2>2. StopInv'
    BY <2>1, StopInvStep, StreamHubAssumption
  <2>3. TokenInv'
    BY <2>1, TokenCutStep, NoneLateStep, StreamHubAssumption DEF TokenInv
  <2>4. OverflowInv'
    BY OverflowInvStep, StreamHubAssumption
  <2> QED BY <2>1, <2>2, <2>3, <2>4
<1>3. Inv => OverflowNeverBlocksStop
  BY DEF TokenInv, NoneLate, OverflowInv, OverflowNeverBlocksStop
<1> QED
  <2> HIDE DEF Inv
  <2> QED BY <1>1, <1>2, <1>3, PTL DEF Spec
=============================================================================
