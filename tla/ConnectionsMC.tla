--------------------------- MODULE ConnectionsMC ---------------------------
(* Small instances of the modules between a strategy's calls and the       *)
(* network.  They share no state, so a behaviour is one of one part, and   *)
(* the others rest: the run checks the parts, not their product.           *)
EXTENDS WssConnection, BybitLimiter, HttpSession, ClientRegistry, RateLimitFlag, TLC

CONSTANTS market, private, t1, t2, t3, acc1, acc2

HtxStreams == market :> "htx_market" @@ private :> "htx_private"
TwoAccounts == t1 :> acc1 @@ t2 :> acc1 @@ t3 :> acc2

VARIABLE part

allVars == <<part, connectionVars, limiterVars, sessionVars, registryVars, flagVars>>

Init ==
    /\ part \in {"connection", "limiter", "session", "registry", "flag"}
    /\ ConnectionInit /\ LimiterInit /\ SessionInit /\ RegistryInit /\ FlagInit

ConnectionPart ==
    part = "connection" /\ ConnectionNext
    /\ UNCHANGED <<part, limiterVars, sessionVars, registryVars, flagVars>>
LimiterPart ==
    part = "limiter" /\ LimiterNext
    /\ UNCHANGED <<part, connectionVars, sessionVars, registryVars, flagVars>>
SessionPart ==
    part = "session" /\ SessionNext
    /\ UNCHANGED <<part, connectionVars, limiterVars, registryVars, flagVars>>
RegistryPart ==
    part = "registry" /\ RegistryNext
    /\ UNCHANGED <<part, connectionVars, limiterVars, sessionVars, flagVars>>
FlagPart ==
    part = "flag" /\ FlagNext
    /\ UNCHANGED <<part, connectionVars, limiterVars, sessionVars, registryVars>>

Next == ConnectionPart \/ LimiterPart \/ SessionPart \/ RegistryPart \/ FlagPart

Spec == Init /\ [][Next]_allVars

(* Every variable holds a value of its kind, in each of the modules.       *)
TypesOK == ConnectionTypeOK /\ LimiterTypeOK /\ SessionTypeOK /\ RegistryTypeOK /\ FlagTypeOK

(* Trades of one account are alike, and so are addresses.                  *)
Symmetry == Permutations({t1, t2}) \cup Permutations(Ids)
=============================================================================
