---------------------------- MODULE RequestGateMC ----------------------------
(* Small instances of RequestGate. *)
EXTENDS RequestGate, TLC

CONSTANTS q1, q2, q3, q4

(* Requests of the same kind may be exchanged. *)
Symmetric == Permutations(RateLimited) \cup Permutations(Requests \ RateLimited)
=============================================================================
