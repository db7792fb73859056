----------------------------- MODULE HttpSession -----------------------------
(***************************************************************************)
(* The HTTP session of an account: HttpClient creates it for the first     *)
(* request, all requests share it, and the first one that loses its        *)
(* connection, or a restart of the client, closes it.  Nothing suspends    *)
(* between the test for a session and the start of a request, the mutex    *)
(* being free; closing a session does suspend.                             *)
(***************************************************************************)
EXTENDS Naturals

CONSTANTS
    Calls,          \* requests and restarts
    MaxSessions     \* sessions that may be created (bound)

ASSUME HttpSessionAssumption == MaxSessions \in Nat \ {0}

VARIABLES
    session,        \* self.session: the number of a session, 0 for None
    made,           \* sessions created
    open_sessions,  \* those not closed
    call_pc,        \* "idle", "sent", "closing", "answered", "failed", "given_up"
    uses            \* the session a call was sent by, or waits to see closed

sessionVars == <<session, made, open_sessions, call_pc, uses>>

SessionInit ==
    /\ session = 0 /\ made = 0 /\ open_sessions = {}
    /\ call_pc = [c \in Calls |-> "idle"]
    /\ uses = [c \in Calls |-> 0]

(* A session of its own for every request. *)
RequiredNew == made + 1

(* _create_session_if_required: the session of a call that starts now.     *)
Required == IF session = 0 THEN made + 1 ELSE session

(* send_request: a session that another call is closing raises at once.    *)
SendRequest(c) ==
    /\ call_pc[c] = "idle"
    /\ session = 0 => made < MaxSessions
    /\ session' = Required
    /\ made' = IF session = 0 THEN made + 1 ELSE made
    /\ open_sessions' = IF session = 0 THEN open_sessions \cup {Required} ELSE open_sessions
    /\ uses' = [uses EXCEPT ![c] = Required]
    /\ call_pc' = [call_pc EXCEPT ![c] = IF Required \in open_sessions' THEN "sent" ELSE "failed"]

Responded(c) ==
    /\ call_pc[c] = "sent" /\ uses[c] \in open_sessions
    /\ call_pc' = [call_pc EXCEPT ![c] = "answered"]
    /\ UNCHANGED <<session, made, open_sessions, uses>>

(* close_session when the closed session stays where it is. *)
ClosedButKept(c) ==
    /\ call_pc[c] = "closing"
    /\ call_pc' = [call_pc EXCEPT ![c] = "failed"]
    /\ UNCHANGED <<session, made, open_sessions, uses>>

(* close_session: a session that is closed already does not suspend.       *)
CloseSession(c) ==
    \/ /\ session \in open_sessions
       /\ open_sessions' = open_sessions \ {session}
       /\ uses' = [uses EXCEPT ![c] = session]
       /\ call_pc' = [call_pc EXCEPT ![c] = "closing"]
       /\ UNCHANGED session
    \/ /\ session \notin open_sessions
       /\ session' = 0
       /\ call_pc' = [call_pc EXCEPT ![c] = "failed"]
       /\ UNCHANGED <<open_sessions, uses>>

(* ... and ends with self.session = None, whatever it is by then ...       *)
SessionClosed(c) ==
    /\ call_pc[c] = "closing"
    /\ session' = 0
    /\ call_pc' = [call_pc EXCEPT ![c] = "failed"]
    /\ UNCHANGED <<made, open_sessions, uses>>

(* ... unless the call is given up there, by send_request's wait_for or by *)
(* a client that left: the closed session stays where it is.               *)
ClosingGivenUp(c) ==
    /\ call_pc[c] = "closing"
    /\ call_pc' = [call_pc EXCEPT ![c] = "given_up"]
    /\ UNCHANGED <<session, made, open_sessions, uses>>

(* A call that is given up at its request: a CancelledError is not caught. *)
GivenUp(c) ==
    /\ call_pc[c] = "sent"
    /\ call_pc' = [call_pc EXCEPT ![c] = "failed"]
    /\ UNCHANGED <<session, made, open_sessions, uses>>

(* ClientConnectionError or a timeout: send_request closes the session     *)
(* there is now.  A request whose session was closed fails that way.       *)
ConnectionLost(c) == call_pc[c] = "sent" /\ CloseSession(c) /\ UNCHANGED made

(* client_restart, a failed OpenClientConnection, Client.close.            *)
Restart(c) == call_pc[c] = "idle" /\ CloseSession(c) /\ UNCHANGED made

SessionNext ==
    \E c \in Calls : \/ SendRequest(c) \/ Responded(c) \/ ConnectionLost(c)
                     \/ Restart(c) \/ SessionClosed(c) \/ ClosingGivenUp(c) \/ GivenUp(c)

SessionSpec == SessionInit /\ [][SessionNext]_sessionVars
-----------------------------------------------------------------------------
(* Properties *)

(* Every variable holds a value of its kind. *)
SessionTypeOK ==
    /\ made \in 0..MaxSessions /\ session \in 0..made
    /\ open_sessions \subseteq 1..made
    /\ call_pc \in [Calls -> {"idle", "sent", "closing", "answered", "failed", "given_up"}]
    /\ uses \in [Calls -> 0..made]

(* "The connection will be restored": requests find a closed session only  *)
(* while the one call that closes it is suspended there, or when that call *)
(* was given up there, and by no other order of requests, losses, restarts *)
(* and sessions made meanwhile.                                            *)
Restored ==
    session = 0 \/ session \in open_sessions
        \/ \E c \in Calls : call_pc[c] \in {"closing", "given_up"} /\ uses[c] = session

(* Does not hold, see README: a call given up while it closes the session  *)
(* leaves the closed one to all requests that follow.                      *)
RestoredAlways ==
    (\A c \in Calls : call_pc[c] # "closing") => session = 0 \/ session \in open_sessions

(* Does not hold, see README: a session made while two calls close the one *)
(* before is forgotten by the second of them and stays open.               *)
NoSessionLost == open_sessions \subseteq {session}
=============================================================================
