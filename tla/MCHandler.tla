----------------------------- MODULE MCHandler -----------------------------
(***************************************************************************)
(* Handler on a small instance: one request for two topics that may        *)
(* resume, and one for a single topic that starts afresh.                  *)
(***************************************************************************)
EXTENDS Handler

CONSTANTS r1, r2, t1, t2

Asking == [r \in Requests |-> IF r \in Resuming THEN <<t1, t2>> ELSE <<t1>>]
=============================================================================
