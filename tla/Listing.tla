------------------------------- MODULE Listing -------------------------------
(***************************************************************************)
(* Going through part of an array from the front: the positions to visit,  *)
(* in the order a loop that skips the others visits them.                  *)
(***************************************************************************)
EXTENDS Integers, FiniteSets, Functions

(* The one listing of a finite set of positions in order, as a singleton.  *)
OldestFirst(S) ==
  {s \in [1..Cardinality(S) -> S] :
     Range(s) = S /\ \A i, j \in DOMAIN s : i < j => s[i] < s[j]}
=============================================================================
