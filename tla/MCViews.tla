------------------------------ MODULE MCViews ------------------------------
(* One view that may be anything, and one hook that folds into a query, of *)
(* which the other may be a second one.                                    *)
EXTENDS Views, TLC

CONSTANTS v1, v2, t1, t2

MCKinds == (v1 :> TopicKinds \cup StateKinds \cup QueryKinds) @@ (v2 :> {"fold"})
=============================================================================
