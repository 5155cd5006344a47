----------------------------- MODULE MCHubCore -----------------------------
(***************************************************************************)
(* Both cores on a small instance: a ring that holds one ordinary frame, a *)
(* frame larger than the whole ring, a clock that may go backwards; texts  *)
(* around the limits of a topic, an origin and an id.                      *)
(***************************************************************************)
EXTENDS TwoCores, TLC

CONSTANTS t1, t2, k1, nobody

Symmetric == Permutations(Topics)

FrameSizes == {1, 2}

NoTopics == {<<Reserved, "one">>}

MCCursors == {<<>>, <<"0", "1", "-", "0">>}
=============================================================================
