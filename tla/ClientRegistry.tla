--------------------------- MODULE ClientRegistry ---------------------------
(***************************************************************************)
(* OpenClient: the clients of the accounts, which trades open, use and     *)
(* restart by an id.  The id is Python's id() of the OpenClient object: an *)
(* object that is neither registered nor referred to by a running call is  *)
(* freed, and its id may be that of the next one.                          *)
(***************************************************************************)
EXTENDS Naturals, FiniteSets

CONSTANTS
    Trades, Accounts,
    AccountOf,      \* the account of a trade
    Ids             \* addresses of objects (bound)

ASSUME ClientRegistryAssumption == AccountOf \in [Trades -> Accounts]

VARIABLES
    open_clients,   \* registered objects
    name,           \* the account of the object at an address
    trade_pc,       \* "idle", "loading", "open", "calling", "stopping", "closing"
    ref,            \* objects the running call of a trade refers to
    streams,        \* objects its streaming calls refer to
    client_id,      \* the id that OpenClientConnection gave to a trade
    removed         \* history: accounts of which a client was removed

NoName == "none"
registryVars == <<open_clients, name, trade_pc, ref, streams, client_id, removed>>

RegistryInit ==
    /\ open_clients = {}
    /\ name = [i \in Ids |-> NoName]
    /\ trade_pc = [t \in Trades |-> "idle"]
    /\ ref = [t \in Trades |-> {}]
    /\ streams = [t \in Trades |-> {}]
    /\ client_id = [t \in Trades |-> {}]
    /\ removed = {}

(* A client is found only when its id was given to a trade. *)
FoundGiven(a) == {i \in open_clients : name[i] = a /\ \E t \in Trades : i \in client_id[t]}

(* OpenClient.get_id(account_name)                                         *)
get_id(a) == {i \in open_clients : name[i] = a}

Live == open_clients \cup UNION {ref[t] \cup streams[t] : t \in Trades}

(* OpenClient(account_name)                                                *)
NewClient(t, i) ==
    /\ i \notin Live
    /\ name' = [name EXCEPT ![i] = AccountOf[t]]
    /\ ref' = [ref EXCEPT ![t] = {i}]

(* open_client_connection up to load(): a client that is registered, or a  *)
(* new one, registered before anything is awaited.                         *)
OpenClientConnection(t) ==
    /\ trade_pc[t] = "idle"
    /\ trade_pc' = [trade_pc EXCEPT ![t] = "loading"]
    /\ \/ /\ get_id(AccountOf[t]) # {}
          /\ ref' = [ref EXCEPT ![t] = get_id(AccountOf[t])]
          /\ UNCHANGED <<open_clients, name>>
       \/ /\ get_id(AccountOf[t]) = {}
          /\ \E i \in Ids : NewClient(t, i) /\ open_clients' = open_clients \cup {i}
    /\ UNCHANGED <<streams, client_id, removed>>

Loaded(t) ==
    /\ trade_pc[t] = "loading"
    /\ trade_pc' = [trade_pc EXCEPT ![t] = "open"]
    /\ client_id' = [client_id EXCEPT ![t] = ref[t]]
    /\ ref' = [ref EXCEPT ![t] = {}]
    /\ UNCHANGED <<open_clients, name, streams, removed>>

(* OpenClient.remove_client(_id)                                           *)
remove_client(id) ==
    /\ open_clients' = open_clients \ id
    /\ removed' = removed \cup {name[i] : i \in id \cap open_clients}

(* A timeout or a rate limit removes the client, whoever else is using it; *)
(* another exception leaves it.  (get_client raises if it is gone.)        *)
LoadFails(t) ==
    /\ trade_pc[t] = "loading"
    /\ trade_pc' = [trade_pc EXCEPT ![t] = "idle"]
    /\ UNCHANGED <<open_clients, removed>> \/ remove_client(ref[t])
    /\ ref' = [ref EXCEPT ![t] = {}]
    /\ UNCHANGED <<name, streams, client_id>>

(* get_client: a call of an id that is not registered is refused ("No      *)
(* client exist"), and the trade opens its connection again.               *)
get_client(t) == client_id[t] \cap open_clients

NoClientExist(t) ==
    /\ trade_pc[t] = "open" /\ get_client(t) = {}
    /\ trade_pc' = [trade_pc EXCEPT ![t] = "idle"]
    /\ UNCHANGED <<open_clients, name, ref, streams, client_id, removed>>

(* send_request and the streaming calls hold the object while they run.    *)
CallClient(t) ==
    /\ trade_pc[t] = "open" /\ get_client(t) # {}
    /\ trade_pc' = [trade_pc EXCEPT ![t] = "calling"]
    /\ ref' = [ref EXCEPT ![t] = get_client(t)]
    /\ UNCHANGED <<open_clients, name, streams, client_id, removed>>

Return(t) ==
    /\ trade_pc[t] = "calling"
    /\ trade_pc' = [trade_pc EXCEPT ![t] = "open"]
    /\ ref' = [ref EXCEPT ![t] = {}]
    /\ UNCHANGED <<open_clients, name, streams, client_id, removed>>

Subscribe(t) ==
    /\ trade_pc[t] = "open" /\ get_client(t) # {} /\ streams[t] = {}
    /\ streams' = [streams EXCEPT ![t] = get_client(t)]
    /\ UNCHANGED <<open_clients, name, trade_pc, ref, client_id, removed>>

StreamEnds(t) ==
    /\ streams[t] # {}
    /\ streams' = [streams EXCEPT ![t] = {}]
    /\ UNCHANGED <<open_clients, name, trade_pc, ref, client_id, removed>>

(* client_restart: stop_stream, which holds the object; then the session   *)
(* is closed, through the client; then the id is removed.                  *)
ClientRestart(t) ==
    /\ trade_pc[t] = "open" /\ get_client(t) # {}
    /\ trade_pc' = [trade_pc EXCEPT ![t] = "stopping"]
    /\ ref' = [ref EXCEPT ![t] = get_client(t)]
    /\ UNCHANGED <<open_clients, name, streams, client_id, removed>>

StreamsStopped(t) ==
    /\ trade_pc[t] = "stopping"
    /\ trade_pc' = [trade_pc EXCEPT ![t] = IF get_client(t) = {} THEN "idle" ELSE "closing"]
    /\ streams' = [streams EXCEPT ![t] = {}]
    /\ ref' = [ref EXCEPT ![t] = {}]
    /\ UNCHANGED <<open_clients, name, client_id, removed>>

ClientRemoved(t) ==
    /\ trade_pc[t] = "closing"
    /\ trade_pc' = [trade_pc EXCEPT ![t] = "idle"]
    /\ remove_client(client_id[t])
    /\ UNCHANGED <<name, ref, streams, client_id>>

RegistryNext ==
    \E t \in Trades :
        \/ OpenClientConnection(t) \/ Loaded(t) \/ LoadFails(t) \/ NoClientExist(t)
        \/ CallClient(t) \/ Return(t) \/ Subscribe(t) \/ StreamEnds(t)
        \/ ClientRestart(t) \/ StreamsStopped(t) \/ ClientRemoved(t)

RegistrySpec == RegistryInit /\ [][RegistryNext]_registryVars
-----------------------------------------------------------------------------
(* Properties *)

(* Every variable holds a value of its kind. *)
RegistryTypeOK ==
    /\ open_clients \subseteq Ids /\ name \in [Ids -> Accounts \cup {NoName}]
    /\ trade_pc \in [Trades -> {"idle", "loading", "open", "calling", "stopping", "closing"}]
    /\ removed \subseteq Accounts \cup {NoName}
    /\ \A f \in {ref, streams, client_id} : f \in [Trades -> {{}} \cup {{i} : i \in Ids}]

(* Two clients of an account hold two nonces, two gates and two sets of    *)
(* orders.  One at a time is registered, however the calls and failures of *)
(* trades come between; and until a failed load or a restart removes one,  *)
(* all calls and streams that run for the account use that one.            *)
OneClient ==
    \A a \in Accounts :
        /\ Cardinality({i \in open_clients : name[i] = a}) <= 1
        /\ a \notin removed => Cardinality({i \in Live : name[i] = a}) <= 1

(* Does not hold, see README: a client that is removed is used on by the   *)
(* calls and streams that hold it, beside the one registered next.         *)
OneInUse == \A a \in Accounts : Cardinality({i \in Live : name[i] = a}) <= 1

(* Does not hold, see README: the id of a removed client is used again, so *)
(* a call may be served by the account of another trade.                   *)
OwnAccount ==
    \A t \in Trades : trade_pc[t] \in {"loading", "calling"} => \A i \in ref[t] : name[i] = AccountOf[t]

(* Does not hold, see README: a trade is given the id of a client that the *)
(* failed load of another trade has removed.                               *)
IdRegistered == [][\A t \in Trades : Loaded(t) => client_id'[t] \subseteq open_clients]_registryVars
=============================================================================
