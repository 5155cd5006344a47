------------------------------ MODULE MCStream ------------------------------
(***************************************************************************)
(* Stream on a small instance: two topics the client may move between and  *)
(* a ring that holds two frames.                                           *)
(***************************************************************************)
EXTENDS Stream

CONSTANTS t1, t2, nobody
=============================================================================
