---------------------------- MODULE StreamContract ----------------------------
(***************************************************************************)
(* What one streaming call promises its client: messages come in the order *)
(* they were accepted, none is taken back, none is accepted once the       *)
(* stream is told to stop, and the stream ends at the stop token.          *)
(***************************************************************************)
EXTENDS Naturals, Sequences

CONSTANTS Events, Token, Lifo       \* Lifo: only the newest message counts

VARIABLES st, q

Init == st = "off" /\ q = <<>>

Told == \E i \in 1..Len(q) : q[i] = Token

Open   == st = "off" /\ st' = "open" /\ UNCHANGED q
Accept == /\ st # "off" /\ ~Told
          /\ \E ev \in Events : q' = Append(q, ev)
          /\ UNCHANGED st
Tell   == st # "off" /\ q' = Append(q, Token) /\ UNCHANGED st
Leave  == st = "open" /\ st' = "gone" /\ UNCHANGED q

Last   == q[Len(q)]
Give   == /\ st = "open" /\ q # <<>>
          /\ IF Lifo THEN q' = <<>> ELSE q' = Tail(q)
          /\ st' = IF (IF Lifo THEN Last ELSE Head(q)) = Token THEN "ended" ELSE st

Next == Open \/ Accept \/ Tell \/ Leave \/ Give

Spec == Init /\ [][Next]_<<st, q>>
=============================================================================
