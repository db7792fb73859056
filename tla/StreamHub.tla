------------------------------ MODULE StreamHub ------------------------------
(***************************************************************************)
(* The event streams of one connected client (account): the gRPC streaming *)
(* calls On*Update, their queues and handlers, the WebSocket tasks that    *)
(* fire events into them, and the stop that is meant to end them           *)
(* (stop_stream_ex), called by a StopStream request or, from inside a      *)
(* WebSocket task, by the handler of an event that finds a queue full.     *)
(*                                                                         *)
(* The server is one asyncio event loop, so an action is the code between  *)
(* two awaits that may suspend.  queue.put suspends only on a full queue:  *)
(* the stop puts its tokens in one step until it meets a full queue.       *)
(***************************************************************************)
EXTENDS Naturals, Sequences, FiniteSets

CONSTANTS
    Trades,         \* trade ids: one trading strategy each
    Subs,           \* streaming calls; each is made at most once
    Tasks,          \* WebSocket tasks that may be created
    Rpcs,           \* StopStream requests that may arrive
    MarketTypes,    \* event types registered per symbol: ticker, depth5, kline
    UserTypes,      \* executionReport, outboundAccountPosition, balanceUpdate
    TradeOf,        \* the trade of a streaming call, a task or a request
    TypesOf,        \* the event types a streaming call registers
    Capacity,       \* the size of a call's queue
    LifoSubs,       \* on_order_book_update: a LIFO queue, read and then drained
    MarketCount,    \* StartStream's market_stream_count, per trade
    Combined,       \* Binance: one market connection for all registered types
    MayLeave,       \* streaming calls whose client may disconnect
    LateSubscribe,  \* may a client subscribe while a stop of its trade runs?
    CancelEnds,     \* may a stop be ended by its own task's cancellation?
    Token,          \* the item that ends a stream: the trade id itself
    NoSub

Stoppers   == Rpcs \cup Tasks
EventTypes == MarketTypes \cup UserTypes
Events     == Trades \X EventTypes      \* the trade whose connection received it

ASSUME StreamHubAssumption ==
    /\ TradeOf \in [Subs \cup Stoppers -> Trades]
    /\ TypesOf \in [Subs -> SUBSET EventTypes]
    /\ Capacity \in [Subs -> Nat \ {0}]
    /\ MarketCount \in [Trades -> Nat]
    /\ LifoSubs \subseteq Subs /\ MayLeave \subseteq Subs
    /\ {Combined, LateSubscribe, CancelEnds} \subseteq BOOLEAN
    /\ Rpcs \cap Tasks = {} /\ MarketTypes \cap UserTypes = {}
    /\ Token \notin Events /\ NoSub \notin Subs

VARIABLES
    gen,            \* the generator of a streaming call
    queue,          \* the asyncio queue of a streaming call
    streamQueue,    \* client.stream_queue
    handlers,       \* client.events.handlers, by event type
    registered,     \* client.events.registered_streams of the exchange
    dataStreams,    \* client.data_streams, a stream named by its task
    tasks,          \* client.tasks
    taskSt,         \* whether a WebSocket task runs
    feeds,          \* the event types a task's connection delivers
    strays,         \* tasks that reconnected after their own stop failed
    pc,             \* where a stop_stream_ex stands
    snap,           \* the queues its loop found when it started
    reached,        \* the queues its loop has come to
    blockedOn,      \* the full queue its put waits for
    detached,       \* stops whose set is no longer the one in stream_queue
    frozen,         \* that set, as it was when it was popped
    overflowed      \* history: streams that lost an event to a full queue

calls  == <<gen, queue, streamQueue, overflowed>>
hub    == <<handlers, registered>>
links  == <<dataStreams, tasks, taskSt, feeds, strays>>
stops  == <<pc, snap, reached, blockedOn, detached, frozen>>
vars   == <<calls, hub, links, stops>>

Init ==
    /\ gen = [s \in Subs |-> "off"]
    /\ queue = [s \in Subs |-> <<>>]
    /\ streamQueue = [t \in Trades |-> {}]
    /\ handlers = [e \in EventTypes |-> {}]
    /\ registered = [t \in Trades |-> {}]
    /\ dataStreams = [t \in Trades |-> {}]
    /\ tasks = [t \in Trades |-> {}]
    /\ taskSt = [k \in Tasks |-> "unused"]
    /\ feeds = [k \in Tasks |-> {}]
    /\ strays = {}
    /\ pc = [p \in Stoppers |-> "idle"]
    /\ snap = [p \in Stoppers |-> {}]
    /\ reached = [p \in Stoppers |-> {}]
    /\ blockedOn = [p \in Stoppers |-> NoSub]
    /\ detached = {}
    /\ frozen = [p \in Stoppers |-> {}]
    /\ overflowed = {}

Active(p)   == pc[p] \in {"closing", "cancelling", "putting", "yielding"}
Stopping(t) == \E p \in Stoppers : TradeOf[p] = t /\ Active(p)
Full(s)     == Len(queue[s]) >= Capacity[s]

-----------------------------------------------------------------------------
(* The streaming calls. *)

(* The head of every On*Update: up to its first get the call makes its     *)
(* queue, enters it in stream_queue and registers its handlers.            *)
Subscribe(s) ==
    LET t == TradeOf[s] IN
    /\ gen[s] = "off"
    /\ LateSubscribe \/ ~Stopping(t)
    /\ gen' = [gen EXCEPT ![s] = "open"]
    /\ streamQueue' = [streamQueue EXCEPT ![t] = @ \cup {s}]
    /\ handlers' = [e \in EventTypes |->
                      IF e \in TypesOf[s] THEN handlers[e] \cup {s} ELSE handlers[e]]
    /\ registered' = [registered EXCEPT ![t] = @ \cup (TypesOf[s] \cap MarketTypes)]
    /\ UNCHANGED <<queue, overflowed, links, stops>>

(* A get that takes the oldest item of the LIFO queue before the drain.    *)
OldestItem(s) == Head(queue[s])

(* A drain in every generator, not only the order book's. *)
AllDrained(s) == <<>>

(* What the next get of a generator returns, and what it leaves behind.    *)
NextItem(s) == IF s \in LifoSubs THEN queue[s][Len(queue[s])] ELSE Head(queue[s])
LeftBehind(s) == IF s \in LifoSubs THEN <<>> ELSE Tail(queue[s])

(* A queue that stays in stream_queue. *)
Keep(s) == UNCHANGED streamQueue

(* stream_queue.get(trade_id, set()).discard(_queue) *)
Discard(s) == streamQueue' = [streamQueue EXCEPT ![TradeOf[s]] = @ \ {s}]

(* A generator that an event ends, as an exception in its conversion would.*)
TakeRaises(s) ==
    /\ gen[s] = "open" /\ queue[s] # <<>>
    /\ queue' = [queue EXCEPT ![s] = LeftBehind(s)]
    /\ gen' = [gen EXCEPT ![s] = "ended"]
    /\ IF NextItem(s) = Token THEN Discard(s) ELSE UNCHANGED streamQueue
    /\ UNCHANGED <<overflowed, hub, links, stops>>

(* One turn of a generator's loop: the consumer asks for the next message, *)
(* the item is taken, and either yielded or, if it is the stop token, the  *)
(* generator discards its queue and returns.                               *)
Take(s) ==
    /\ gen[s] = "open" /\ queue[s] # <<>>
    /\ queue' = [queue EXCEPT ![s] = LeftBehind(s)]
    /\ IF NextItem(s) = Token
       THEN /\ gen' = [gen EXCEPT ![s] = "ended"]
            /\ Discard(s)
       ELSE UNCHANGED <<gen, streamQueue>>
    /\ UNCHANGED <<overflowed, hub, links, stops>>

(* The client of a streaming call disconnects.  The generators have no     *)
(* clean-up: the queue and the handlers stay where they are.               *)
Leave(s) ==
    /\ s \in MayLeave /\ gen[s] = "open"
    /\ gen' = [gen EXCEPT ![s] = "gone"]
    /\ UNCHANGED <<queue, streamQueue, overflowed, hub, links, stops>>

-----------------------------------------------------------------------------
(* The WebSocket tasks. *)

(* StartStream, once its poll has counted enough registered streams: one   *)
(* market task per channel (Binance: one for all) and one user task, each  *)
(* entered in data_streams and tasks.  Nothing prevents a second start.    *)
StartStream(t) ==
    LET channels == IF Combined THEN {registered[t]} ELSE {{e} : e \in registered[t]}
        wanted   == channels \cup {UserTypes}
    IN
    /\ Cardinality(registered[t]) >= MarketCount[t]
    /\ \E K \in SUBSET {k \in Tasks : TradeOf[k] = t /\ taskSt[k] = "unused"} :
         /\ Cardinality(K) = Cardinality(wanted)
         /\ \E f \in [K -> wanted] :
              /\ \A w \in wanted : \E k \in K : f[k] = w
              /\ feeds' = [k \in Tasks |-> IF k \in K THEN f[k] ELSE feeds[k]]
         /\ taskSt' = [k \in Tasks |-> IF k \in K THEN "running" ELSE taskSt[k]]
         /\ dataStreams' = [dataStreams EXCEPT ![t] = @ \cup K]
         /\ tasks' = [tasks EXCEPT ![t] = @ \cup K]
    /\ UNCHANGED <<strays, calls, hub, stops>>

(* A task can handle a message: it runs and is not inside its own stop.    *)
Receiving(k) == taskSt[k] = "running" /\ ~Active(k)

(* The type's list without the filter. *)
AddressedAll(k, e) == handlers[e]

(* The calls whose handlers an event of type e received by task k is       *)
(* passed to: those of the task's trade (Handlers.__call__ filters the     *)
(* type's list on func.args[2]).                                           *)
Addressed(k, e) == {s \in handlers[e] : TradeOf[s] = TradeOf[k]}

WithEvent(k, e, S) == [s \in Subs |->
                         IF s \in S THEN Append(queue[s], <<TradeOf[k], e>>) ELSE queue[s]]

(* Task k receives an event and event_handler puts it in every queue.      *)
Fire(k, e) ==
    /\ Receiving(k) /\ e \in feeds[k]
    /\ \A s \in Addressed(k, e) : ~Full(s)
    /\ queue' = WithEvent(k, e, Addressed(k, e))
    /\ UNCHANGED <<gen, streamQueue, overflowed, hub, links, stops>>

(* stop_stream_ex up to its first await: stop_events_listener pops the     *)
(* trade's data streams and begins to close them.                          *)
BeginStop(p) ==
    /\ pc' = [pc EXCEPT ![p] = "closing"]
    /\ dataStreams' = [dataStreams EXCEPT ![TradeOf[p]] = {}]
    /\ UNCHANGED <<tasks, taskSt, feeds, strays>>
    /\ UNCHANGED <<snap, reached, blockedOn, detached, frozen>>

(* A handler of the event finds its queue full: the event is lost for it,  *)
(* its queue is discarded from stream_queue, and the WebSocket task itself *)
(* runs stop_stream_ex.  The handlers before it in the list (their order   *)
(* is left open: before) have the event, those behind it never get it,     *)
(* the trade's handlers are unregistered before the list is read on.       *)
Overflow(k, e) ==
    /\ Receiving(k) /\ e \in feeds[k]
    /\ \E s \in Addressed(k, e) :
         /\ Full(s)
         /\ \E before \in SUBSET {r \in Addressed(k, e) : ~Full(r)} :
              queue' = WithEvent(k, e, before)
         /\ Discard(s)
         /\ overflowed' = overflowed \cup {s}
    /\ BeginStop(k)
    /\ UNCHANGED <<gen, hub>>

(* The connection of a data stream that a stop is closing reports code     *)
(* 4000: start() breaks out of its loop and the task is done.              *)
ConnectionEnds(k) ==
    /\ Receiving(k) /\ k \notin strays
    /\ k \notin dataStreams[TradeOf[k]]
    /\ taskSt' = [taskSt EXCEPT ![k] = "dead"]
    /\ tasks' = [tasks EXCEPT ![TradeOf[k]] = @ \ {k}]
    /\ UNCHANGED <<dataStreams, feeds, strays, calls, hub, stops>>

-----------------------------------------------------------------------------
(* stop_stream_ex *)

(* A StopStream request. *)
StopStream(r) ==
    /\ pc[r] = "idle"
    /\ BeginStop(r)
    /\ UNCHANGED <<calls, hub>>

(* The data streams are closed; tasks_cancel cancels the trade's tasks,    *)
(* those that are inside a stop of their own included, and waits.          *)
CancelTasks(p) ==
    LET t == TradeOf[p]
        hit == tasks[t] \ {p}
    IN
    /\ pc[p] = "closing"
    /\ pc' = [q \in Stoppers |->
                IF q = p THEN "cancelling"
                ELSE IF q \in hit /\ Active(q) THEN "aborted" ELSE pc[q]]
    /\ taskSt' = [k \in Tasks |-> IF k \in hit THEN "dead" ELSE taskSt[k]]
    /\ tasks' = [tasks EXCEPT ![t] = {}]
    /\ UNCHANGED <<dataStreams, feeds, strays, calls, hub>>
    /\ UNCHANGED <<snap, reached, blockedOn, detached, frozen>>

(* A task that swallows its cancellation. *)
CancelSwallowed(k) ==
    /\ CancelEnds /\ pc[k] = "cancelling" /\ k \notin strays
    /\ pc' = [pc EXCEPT ![k] = "aborted"]
    /\ UNCHANGED <<dataStreams, tasks, taskSt, feeds, strays, calls, hub>>
    /\ UNCHANGED <<snap, reached, blockedOn, detached, frozen>>

(* A stop that runs in a task of the trade has cancelled itself: the       *)
(* CancelledError may end it here, before anything is unregistered.  What  *)
(* tasks_cancel (external) does with it is not known: both ways are        *)
(* modelled, the other one is Unregister.                                  *)
SelfCancelled(k) ==
    /\ CancelEnds /\ pc[k] = "cancelling" /\ k \notin strays
    /\ pc' = [pc EXCEPT ![k] = "aborted"]
    /\ taskSt' = [taskSt EXCEPT ![k] = "dead"]
    /\ UNCHANGED <<dataStreams, tasks, feeds, strays, calls, hub>>
    /\ UNCHANGED <<snap, reached, blockedOn, detached, frozen>>

(* The set that p's loop iterates over: the live one, or a popped one.     *)
Iterated(p) == IF p \in detached THEN frozen[p] ELSE streamQueue[TradeOf[p]]

(* A token that is not the trade id. *)
WithEmpty(S) == [s \in Subs |->
                   IF s \in S THEN Append(queue[s], NoSub) ELSE queue[s]]

WithTokens(S) == [s \in Subs |->
                    IF s \in S THEN Append(queue[s], Token) ELSE queue[s]]

(* put_nowait instead of put: full queues are passed over. *)
PutTokensNoWait(p, given, before, row) ==
    /\ queue' = WithTokens(given \cup {s \in row : ~Full(s)})
    /\ pc' = [pc EXCEPT ![p] = "yielding"]
    /\ reached' = [reached EXCEPT ![p] = before \cup row]
    /\ blockedOn' = [blockedOn EXCEPT ![p] = NoSub]

(* Puts the token in the queues of row in some order, up to the first full *)
(* one, after the put already owed (given); before are those reached so    *)
(* far.                                                                    *)
PutTokens(p, given, before, row) ==
    LET full == {s \in row : Full(s)} IN
    \/ /\ full = {}
       /\ queue' = WithTokens(given \cup row)
       /\ pc' = [pc EXCEPT ![p] = "yielding"]
       /\ reached' = [reached EXCEPT ![p] = before \cup row]
       /\ blockedOn' = [blockedOn EXCEPT ![p] = NoSub]
    \/ \E s \in full, V \in SUBSET (row \ full) :
       /\ queue' = WithTokens(given \cup V)
       /\ pc' = [pc EXCEPT ![p] = "putting"]
       /\ reached' = [reached EXCEPT ![p] = before \cup V \cup {s}]
       /\ blockedOn' = [blockedOn EXCEPT ![p] = s]

(* The tasks are gone: events.unregister drops the trade's handlers and    *)
(* registered streams, and the loop over the trade's queues starts.        *)
Unregister(p) ==
    LET t == TradeOf[p] IN
    /\ pc[p] = "cancelling"
    /\ handlers' = [e \in EventTypes |-> {s \in handlers[e] : TradeOf[s] # t}]
    /\ registered' = [registered EXCEPT ![t] = {}]
    /\ snap' = [snap EXCEPT ![p] = streamQueue[t]]
    /\ detached' = detached \ {p}
    /\ PutTokens(p, {}, {}, streamQueue[t])
    /\ UNCHANGED <<gen, streamQueue, overflowed, links, frozen>>

(* The awaited put succeeds and the loop goes on over the queues it has    *)
(* not reached; one added meanwhile may or may not be among them (more).   *)
(* The set iterator has found the size it started with.                    *)
ResumePut(p) ==
    /\ pc[p] = "putting" /\ ~Full(blockedOn[p])
    /\ Cardinality(Iterated(p)) = Cardinality(snap[p])
    /\ LET unreached == Iterated(p) \ reached[p] IN
       \E more \in SUBSET (unreached \ snap[p]) :
         PutTokens(p, {blockedOn[p]}, reached[p], (unreached \cap snap[p]) \cup more)
    /\ UNCHANGED <<gen, streamQueue, overflowed, hub, links, snap, detached, frozen>>

(* The same, but the size of the set has changed: the iterator raises      *)
(* RuntimeError after the put.  In a WebSocket task start() logs it and    *)
(* reconnects: the task lives on.                                          *)
FailPut(p) ==
    /\ pc[p] = "putting" /\ ~Full(blockedOn[p])
    /\ Cardinality(Iterated(p)) # Cardinality(snap[p])
    /\ queue' = WithTokens({blockedOn[p]})
    /\ pc' = [pc EXCEPT ![p] = "failed"]
    /\ strays' = strays \cup ({p} \cap Tasks)
    /\ UNCHANGED <<gen, streamQueue, overflowed, hub>>
    /\ UNCHANGED <<dataStreams, tasks, taskSt, feeds>>
    /\ UNCHANGED <<snap, reached, blockedOn, detached, frozen>>

(* After sleep(0) the trade's entry of stream_queue is popped.  A task     *)
(* whose stop this was returns to its connection, which is closed.         *)
FinishStop(p) ==
    LET t == TradeOf[p]
        losers == {q \in Stoppers \ {p} :
                     TradeOf[q] = t /\ pc[q] = "putting" /\ q \notin detached}
    IN
    /\ pc[p] = "yielding"
    /\ streamQueue' = [streamQueue EXCEPT ![t] = {}]
    /\ detached' = detached \cup losers
    /\ frozen' = [q \in Stoppers |-> IF q \in losers THEN streamQueue[t] ELSE frozen[q]]
    /\ pc' = [pc EXCEPT ![p] = "done"]
    /\ taskSt' = [k \in Tasks |-> IF k = p /\ k \notin strays THEN "dead" ELSE taskSt[k]]
    /\ UNCHANGED <<gen, queue, overflowed, hub, dataStreams, tasks, feeds, strays>>
    /\ UNCHANGED <<snap, reached, blockedOn>>

-----------------------------------------------------------------------------
StopSteps(p) ==
    CancelTasks(p) \/ Unregister(p) \/ ResumePut(p) \/ FailPut(p) \/ FinishStop(p)

Next ==
    \/ \E s \in Subs : Subscribe(s) \/ Take(s) \/ Leave(s)
    \/ \E t \in Trades : StartStream(t)
    \/ \E k \in Tasks : ConnectionEnds(k) \/ SelfCancelled(k)
    \/ \E k \in Tasks, e \in EventTypes : Fire(k, e) \/ Overflow(k, e)
    \/ \E r \in Rpcs : StopStream(r)
    \/ \E p \in Stoppers : StopSteps(p)

(* The event loop runs every ready step; a connected client keeps reading  *)
(* its stream.  No fairness for events, requests, starts or disconnects.   *)
Fairness ==
    /\ \A p \in Stoppers : WF_vars(StopSteps(p))
    /\ \A s \in Subs : WF_vars(Take(s))

Spec == Init /\ [][Next]_vars
FairSpec == Spec /\ Fairness
-----------------------------------------------------------------------------
(* Properties *)

(* Every variable holds a value of its kind.                               *)
TypeOK ==
    /\ gen \in [Subs -> {"off", "open", "ended", "gone"}]
    /\ queue \in [Subs -> Seq(Events \cup {Token})]
    /\ streamQueue \in [Trades -> SUBSET Subs]
    /\ handlers \in [EventTypes -> SUBSET Subs]
    /\ registered \in [Trades -> SUBSET MarketTypes]
    /\ dataStreams \in [Trades -> SUBSET Tasks]
    /\ tasks \in [Trades -> SUBSET Tasks]
    /\ taskSt \in [Tasks -> {"unused", "running", "dead"}]
    /\ feeds \in [Tasks -> SUBSET EventTypes]
    /\ strays \subseteq Tasks
    /\ pc \in [Stoppers -> {"idle", "closing", "cancelling", "putting",
                            "yielding", "done", "failed", "aborted"}]
    /\ snap \in [Stoppers -> SUBSET Subs]
    /\ reached \in [Stoppers -> SUBSET Subs]
    /\ blockedOn \in [Stoppers -> Subs \cup {NoSub}]
    /\ detached \subseteq Stoppers
    /\ frozen \in [Stoppers -> SUBSET Subs]
    /\ overflowed \subseteq Subs

HasToken(s) == \E i \in 1..Len(queue[s]) : queue[s][i] = Token
EndsInToken(s) == Len(queue[s]) > 0 /\ queue[s][Len(queue[s])] = Token

(* A stream only ever queues events that a connection of its own trade     *)
(* received, of a type it registered, although the handler lists are       *)
(* shared by all trades of the account.                                    *)
Isolation ==
    \A s \in Subs : \A i \in 1..Len(queue[s]) :
        queue[s][i] # Token => queue[s][i] \in {TradeOf[s]} \X TypesOf[s]

(* The queues p's loop has dealt with: all it found, once it is through;   *)
(* those it had come to, if it was ended by FailPut.                       *)
DealtWith(p) ==
    CASE pc[p] = "putting"               -> (snap[p] \cap reached[p]) \ {blockedOn[p]}
      [] pc[p] = "failed"                -> snap[p] \cap reached[p]
      [] pc[p] \in {"yielding", "done"} -> snap[p]
      [] OTHER                           -> {}

(* A stop whose loop in stop_stream_ex comes to its end leaves no stream   *)
(* behind: every queue that it found has the token last, or its generator  *)
(* has ended, in spite of generators that discard theirs, of calls that    *)
(* add one and of other stops that pop the set while it waits.  A loop     *)
(* that waits, or that RuntimeError has ended (FailPut), has done so for   *)
(* the queues it had come to, and for no others.                           *)
StopReachesAll ==
    \A p \in Stoppers : \A s \in DealtWith(p) : gen[s] = "ended" \/ EndsInToken(s)

(* Not kept by the code: a stop whose loop RuntimeError ended leaves the   *)
(* queues behind that it had not come to.  They have no handlers any more, *)
(* and their streams wait until another stop of the trade is asked for.    *)
FailedStopReachesAll ==
    \A p \in Stoppers : pc[p] = "failed" =>
        \A s \in snap[p] : gen[s] = "ended" \/ EndsInToken(s)

(* A queue that overflowed is never one a stop waits for: event_handler    *)
(* discards it before it runs the stop, so that a stream nobody reads can  *)
(* not block the stop it causes.                                           *)
OverflowNeverBlocksStop ==
    \A p \in Stoppers : pc[p] = "putting" => blockedOn[p] \notin overflowed

(* Every running WebSocket task can still be stopped: it is in client.tasks*)
(* or inside its own stop.  Tasks whose own stop was ended by RuntimeError *)
(* are left out: start() catches it and reconnects, and no stop knows them *)
(* (strays).                                                               *)
NoUntrackedTask ==
    \A k \in Tasks : taskSt[k] = "running" =>
        \/ k \in tasks[TradeOf[k]] \/ k \in strays
        \/ pc[k] \in {"cancelling", "putting", "yielding"}

(* Each streaming call keeps its contract: its queue changes only as       *)
(* StreamContract says, so no event is lost, reordered or repeated once it *)
(* is queued, and none is queued behind a stop token.  The LIFO queue of   *)
(* on_order_book_update needs that: its reader takes the newest item and   *)
(* drains the rest, a buried token would be lost with them.                *)
Contract(s) == INSTANCE StreamContract
                 WITH st <- gen[s], q <- queue[s], Lifo <- s \in LifoSubs
ImplementsContract ==
    /\ \A s \in Subs : Contract(s)!Init
    /\ [][\A s \in Subs : [Contract(s)!Next]_<<gen[s], queue[s]>>]_vars

(* Why a stop reaches every queue: from Unregister on, the queues its loop *)
(* found belong to its trade and no handler feeds them any more, so they   *)
(* leave the iterated set only when their generators end, and nothing is   *)
(* queued behind their tokens.                                             *)
Listed   == \A t \in Trades : \A s \in streamQueue[t] : TradeOf[s] = t /\ gen[s] # "off"
Handling == \A e \in EventTypes : \A s \in handlers[e] : e \in TypesOf[s] /\ gen[s] # "off"
Unfed(s) == gen[s] # "off" /\ \A e \in EventTypes : s \notin handlers[e]
Cut == \A p \in Stoppers : pc[p] \in {"putting", "yielding", "done", "failed"} =>
          \A s \in snap[p] : Unfed(s)
StillIterated == \A p \in Stoppers : pc[p] = "putting" =>
          /\ blockedOn[p] \in Subs
          /\ \A s \in snap[p] : s \in Iterated(p) \/ gen[s] = "ended"
StopInv == Listed /\ Handling /\ Cut /\ StillIterated /\ StopReachesAll

(* Why an overflow never blocks a stop: the queue has left stream_queue    *)
(* and was in no set that a waiting loop found.                            *)
OverflowInv ==
    \A s \in overflowed :
      /\ gen[s] # "off"
      /\ \A t \in Trades : s \notin streamQueue[t]
      /\ \A p \in Stoppers : pc[p] = "putting" => s \notin snap[p]

(* Why no event follows a token, if nobody subscribes during a stop: a     *)
(* queue with a token is fed by no handler, and a stop puts tokens only in *)
(* queues it found when it cut them off.                                   *)
TokenCut == \A s \in Subs : HasToken(s) => Unfed(s)
NoneLate == \A p \in Stoppers : pc[p] = "putting" =>
          Iterated(p) \cup {blockedOn[p]} \subseteq snap[p]
TokenInv == TokenCut /\ NoneLate

(* A stop comes to an end, whatever backlog its queues have (as long as    *)
(* their clients stay).                                                    *)
StopTerminates == \A p \in Stoppers : Active(p) ~> ~Active(p)

(* A stream whose stop token is queued ends.                               *)
TokenEndsStream == \A s \in Subs : (HasToken(s) /\ gen[s] = "open") ~> gen[s] = "ended"

(* event_handler logs "queue full and wold be closed": the stream of the   *)
(* queue that overflowed is closed in the end.                             *)
OverflowedStreamCloses ==
    \A s \in Subs : s \in overflowed ~> gen[s] \in {"ended", "gone"}
=============================================================================
