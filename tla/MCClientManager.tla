-------------------------- MODULE MCClientManager --------------------------
(***************************************************************************)
(* ClientManager with two topics and as many loops as the calls allow.     *)
(***************************************************************************)
EXTENDS ClientManager, TLC

CONSTANTS t1, t2

Symmetric == Permutations(Topics)
=============================================================================
