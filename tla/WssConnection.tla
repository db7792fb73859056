---------------------------- MODULE WssConnection ----------------------------
(***************************************************************************)
(* The life of the WebSocket connections of one trade: EventsDataStream    *)
(* and its subclasses.  start() connects again whenever a connection is    *)
(* over, unless it was closed with code 4000; helper tasks watch the       *)
(* server's pings (HTX) or send them (ByBit); stop_events_listener stops   *)
(* the streams one after another and then cancels their tasks.             *)
(*                                                                         *)
(* The network and the websockets library are external: a connection is    *)
(* closed by the peer, or is dead, which nobody tells; except on HTX and   *)
(* Binance the library finds that out by pings of its own.                 *)
(***************************************************************************)
EXTENDS Naturals, FiniteSets

CONSTANTS
    Streams,
    Kind,           \* "htx_market", "htx_private", "bybit", "okx", "bitfinex"
    MaxConnects     \* connections of a stream (bound)

ASSUME WssConnectionAssumption ==
    /\ Kind \in [Streams -> {"htx_market", "htx_private", "bybit", "okx", "bitfinex"}]
    /\ MaxConnects \in Nat \ {0}

VARIABLES
    wss_pc,         \* start(): "connecting", "starting" (login), "listening", "ended"
    link,           \* the connection: "none", "open", "dead" or how it was closed
    websocket,      \* self.websocket: the number of a connection, 0 for None
    connects,       \* connections made
    helpers,        \* self.tasks: the connections that helper tasks were made for
    ping,           \* self.ping
    fresh,          \* helpers that saw a server ping since their last check
    stop,           \* stop_events_listener: "no", "busy", "done"
    stopped,        \* streams whose stop() is over
    closing         \* streams whose stop() waits for the closing handshake

connectionVars == <<wss_pc, link, websocket, connects, helpers, ping, fresh, stop, stopped, closing>>

Closed == {"none", "normal", "error", "4000"}
Htx(s) == Kind[s] \in {"htx_market", "htx_private"}
LibraryPings(s) == ~Htx(s)

ConnectionInit ==
    /\ wss_pc = [s \in Streams |-> "connecting"]
    /\ link = [s \in Streams |-> "none"]
    /\ websocket = [s \in Streams |-> 0]
    /\ connects = [s \in Streams |-> 0]
    /\ helpers = [s \in Streams |-> {}]
    /\ ping = [s \in Streams |-> 0]
    /\ fresh = [s \in Streams |-> {}]
    /\ stop = "no" /\ stopped = {} /\ closing = {}

-----------------------------------------------------------------------------
(* start() *)

(* The helpers of the last connection go on. *)
KeptHelpers(s) == helpers[s]

(* cycle_init: tasks_cancel(self.tasks)                                    *)
cycle_init(s) == {}

(* MarketEventsDataStream.start_wss and that of Bitfinex listen at once;   *)
(* on HTX with a keep-alive task.                                          *)
ListensAtOnce(s) == Kind[s] \in {"htx_market", "bitfinex"}

(* The next connection of "async for websocket in connect()", cycle_init   *)
(* and the beginning of start_wss.                                         *)
Connect(s) ==
    LET c == connects[s] + 1
    IN /\ wss_pc[s] = "connecting" /\ connects[s] < MaxConnects
       /\ connects' = [connects EXCEPT ![s] = c]
       /\ websocket' = [websocket EXCEPT ![s] = c]
       /\ link' = [link EXCEPT ![s] = "open"]
       /\ helpers' = [helpers EXCEPT ![s] =
                        cycle_init(s) \cup (IF Kind[s] = "htx_market" THEN {c} ELSE {})]
       /\ wss_pc' = [wss_pc EXCEPT ![s] = IF ListensAtOnce(s) THEN "listening" ELSE "starting"]
       /\ fresh' = [fresh EXCEPT ![s] = {}]
       /\ UNCHANGED <<ping, stop, stopped, closing>>

(* The private start_wss: recv() of the answers to login and, on HTX, to   *)
(* two subscriptions; only then HTX has its keep-alive task.               *)
Answered(s) ==
    /\ wss_pc[s] = "starting" /\ link[s] = "open"
    /\ wss_pc' = [wss_pc EXCEPT ![s] = "listening"]
    /\ helpers' = [helpers EXCEPT ![s] = IF Kind[s] = "htx_private" \/ Kind[s] = "bybit"
                                         THEN @ \cup {websocket[s]} ELSE @]
    /\ UNCHANGED <<link, websocket, connects, ping, fresh, stop, stopped, closing>>

(* _handle_messages raises: a refused login or subscription and a request  *)
(* of the exchange to reconnect are raised as ConnectionClosed, anything   *)
(* else as it is; leaving the loop's body closes the connection.           *)
Raises(s) ==
    /\ wss_pc[s] \in {"starting", "listening"} /\ link[s] = "open" /\ s \notin closing
    /\ wss_pc' = [wss_pc EXCEPT ![s] = "connecting"]
    /\ link' = [link EXCEPT ![s] = "normal"]
    /\ websocket' \in {websocket, [websocket EXCEPT ![s] = 0]}
    /\ UNCHANGED <<connects, helpers, ping, fresh, stop, stopped, closing>>

(* _handle_messages: a ping of the HTX server.                             *)
Ping(s) ==
    /\ wss_pc[s] \in {"starting", "listening"} /\ link[s] = "open" /\ Htx(s)
    /\ ping' = [ping EXCEPT ![s] = 0]
    /\ fresh' = [fresh EXCEPT ![s] = helpers[s]]
    /\ UNCHANGED <<wss_pc, link, websocket, connects, helpers, stop, stopped, closing>>

(* The listener learns that its connection is closed: a normal closure     *)
(* ends "async for", any other one is raised; code 4000 ends start().      *)
Notice(s) ==
    /\ wss_pc[s] \in {"starting", "listening"} /\ link[s] \in Closed
    /\ wss_pc' = [wss_pc EXCEPT ![s] = IF link[s] = "4000" THEN "ended" ELSE "connecting"]
    /\ websocket' = [websocket EXCEPT ![s] =
                        IF wss_pc[s] = "listening" /\ link[s] = "normal" THEN @ ELSE 0]
    /\ UNCHANGED <<link, connects, helpers, ping, fresh, stop, stopped, closing>>

-----------------------------------------------------------------------------
(* The network and the library *)

PeerCloses(s) ==
    /\ link[s] = "open"
    /\ \E how \in {"normal", "error"} : link' = [link EXCEPT ![s] = how]
    /\ UNCHANGED <<wss_pc, websocket, connects, helpers, ping, fresh, stop, stopped, closing>>

Dies(s) ==
    /\ link[s] = "open"
    /\ link' = [link EXCEPT ![s] = "dead"]
    /\ UNCHANGED <<wss_pc, websocket, connects, helpers, ping, fresh, stop, stopped, closing>>

LibraryNotices(s) ==
    /\ LibraryPings(s) /\ link[s] = "dead"
    /\ link' = [link EXCEPT ![s] = "error"]
    /\ UNCHANGED <<wss_pc, websocket, connects, helpers, ping, fresh, stop, stopped, closing>>

-----------------------------------------------------------------------------
(* Helper tasks *)

(* htx_keepalive, after an interval of sleep.  A server that is connected  *)
(* pings at least once in an interval.                                     *)
Slept(s, h) ==
    /\ Htx(s) /\ h \in helpers[s]
    /\ wss_pc[s] = "listening" /\ link[s] = "open" => h \in fresh[s]
    /\ fresh' = [fresh EXCEPT ![s] = @ \ {h}]

(* The monitor is over after its first check. *)
CheckOnce(s, h) ==
    /\ Slept(s, h) /\ ping[s] = 0
    /\ ping' = [ping EXCEPT ![s] = 1]
    /\ helpers' = [helpers EXCEPT ![s] = @ \ {h}]
    /\ UNCHANGED <<wss_pc, link, websocket, connects, stop, stopped, closing>>

Check(s, h) ==
    /\ Slept(s, h) /\ ping[s] = 0
    /\ ping' = [ping EXCEPT ![s] = 1]
    /\ UNCHANGED <<wss_pc, link, websocket, connects, helpers, stop, stopped, closing>>

(* The monitor is not over with the timeout. *)
PingTimeoutAgain(s, h) ==
    /\ Slept(s, h) /\ ping[s] = 1
    /\ link' = [link EXCEPT ![s] = IF @ = "dead" THEN "error" ELSE @]
    /\ UNCHANGED <<wss_pc, websocket, connects, helpers, ping, stop, stopped, closing>>

(* No ping since the last check: the connection is closed, if there is one. *)
PingTimeout(s, h) ==
    /\ Slept(s, h) /\ ping[s] = 1
    /\ helpers' = [helpers EXCEPT ![s] = @ \ {h}]
    /\ link' = [link EXCEPT ![s] = CASE websocket[s] = 0 -> @
                                     [] @ = "open" -> "normal"
                                     [] @ = "dead" -> "error"
                                     [] OTHER      -> @]
    /\ UNCHANGED <<wss_pc, websocket, connects, ping, stop, stopped, closing>>

(* bybit_heartbeat: send() fails on a closed connection or without one.    *)
HeartbeatEnds(s, h) ==
    /\ Kind[s] = "bybit" /\ h \in helpers[s]
    /\ websocket[s] = 0 \/ link[s] \in Closed
    /\ helpers' = [helpers EXCEPT ![s] = @ \ {h}]
    /\ UNCHANGED <<wss_pc, link, websocket, connects, ping, fresh, stop, stopped, closing>>

-----------------------------------------------------------------------------
(* Client.stop_events_listener *)

StopEventsListener ==
    /\ stop = "no"
    /\ stop' = "busy"
    /\ UNCHANGED <<wss_pc, link, websocket, connects, helpers, ping, fresh, stopped, closing>>

(* stop(): websocket.close(code=4000), if there is one; the peer answers   *)
(* with that code, or the connection is gone before.                       *)
Stop(s) ==
    /\ stop = "busy" /\ s \notin stopped /\ closing = {}
    /\ closing' = {s}
    /\ link' \in {[link EXCEPT ![s] = how] :
                    how \in CASE websocket[s] = 0 \/ link[s] \in Closed -> {link[s]}
                              [] link[s] = "dead" -> {"error"}
                              [] OTHER            -> {"4000", "error"}}
    /\ UNCHANGED <<wss_pc, websocket, connects, helpers, ping, fresh, stop, stopped>>

(* stop() goes on to cycle_init.                                           *)
Stopped(s) ==
    /\ s \in closing
    /\ closing' = {} /\ stopped' = stopped \cup {s}
    /\ helpers' = [helpers EXCEPT ![s] = cycle_init(s)]
    /\ UNCHANGED <<wss_pc, link, websocket, connects, ping, fresh, stop>>

(* tasks_cancel(trade_tasks) ends start() wherever it is; a connection it  *)
(* leaves is closed.                                                       *)
TasksCancelled ==
    /\ stop = "busy" /\ stopped = Streams
    /\ stop' = "done"
    /\ wss_pc' = [s \in Streams |-> "ended"]
    /\ link' = [s \in Streams |-> IF link[s] \in Closed THEN link[s] ELSE "normal"]
    /\ UNCHANGED <<websocket, connects, helpers, ping, fresh, stopped, closing>>

-----------------------------------------------------------------------------
Helper(s) ==
    \E h \in helpers[s] : Check(s, h) \/ PingTimeout(s, h) \/ HeartbeatEnds(s, h)
StopSteps == TasksCancelled \/ \E s \in Streams : Stop(s) \/ Stopped(s)

ConnectionNext ==
    \/ StopEventsListener \/ StopSteps
    \/ \E s \in Streams : \/ Connect(s) \/ Answered(s) \/ Raises(s) \/ Ping(s) \/ Notice(s)
                          \/ PeerCloses(s) \/ Dies(s) \/ LibraryNotices(s) \/ Helper(s)

ConnectionSpec == ConnectionInit /\ [][ConnectionNext]_connectionVars

(* Tasks and timers run; the network does what it likes.                   *)
ConnectionFairness ==
    /\ WF_connectionVars(StopSteps)
    /\ \A s \in Streams : /\ WF_connectionVars(Helper(s)) /\ WF_connectionVars(Notice(s))
                          /\ WF_connectionVars(LibraryNotices(s))

FairConnectionSpec == ConnectionSpec /\ ConnectionFairness
-----------------------------------------------------------------------------
(* Properties *)

(* Every variable holds a value of its kind; the helpers are those of the  *)
(* last connection, whoever ended the ones before it.                      *)
ConnectionTypeOK ==
    /\ wss_pc \in [Streams -> {"connecting", "starting", "listening", "ended"}]
    /\ link \in [Streams -> Closed \cup {"open", "dead"}]
    /\ connects \in [Streams -> 0..MaxConnects] /\ websocket \in [Streams -> 0..MaxConnects]
    /\ helpers \in [Streams -> SUBSET (1..MaxConnects)]
    /\ fresh \in [Streams -> SUBSET (1..MaxConnects)]
    /\ \A s \in Streams : websocket[s] \in {0, connects[s]} /\ helpers[s] \subseteq {connects[s]}
    /\ ping \in [Streams -> {0, 1}]
    /\ stop \in {"no", "busy", "done"} /\ stopped \subseteq Streams /\ closing \subseteq Streams

(* A connection whose server pings in every interval is never closed for a *)
(* timeout: not by what is left of the connection before, be it self.ping  *)
(* or a task that also sets it.                                            *)
NoFalseTimeout ==
    [][\A s \in Streams : \A h \in helpers[s] :
            wss_pc[s] = "listening" /\ PingTimeout(s, h) => link[s] # "open"]_connectionVars

(* A dead connection is found out and given up, once it is listened to:    *)
(* one of HTX that dies during its login has no keep-alive task yet.       *)
DeadIsReplaced ==
    \A s \in Streams : wss_pc[s] = "listening" /\ link[s] = "dead" ~> link[s] # "dead"

(* What the helpers do when a stop left some of them behind: they end.     *)
HelpersEnd == stop = "done" ~> \A s \in Streams : helpers[s] = {}
=============================================================================
