------------------------------- MODULE Sorting -------------------------------
(***************************************************************************)
(* sorted(..., key=...) of elements whose keys differ.                     *)
(***************************************************************************)
EXTENDS Integers, FiniteSets

(* The place of an element is known by how many come before it.            *)
SortedBy(S, key) ==
    [i \in 1..Cardinality(S) |->
        CHOOSE x \in S : Cardinality({y \in S : key[y] < key[x]}) = i - 1]
=============================================================================
