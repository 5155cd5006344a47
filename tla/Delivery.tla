------------------------------ MODULE Delivery ------------------------------
(***************************************************************************)
(* What the system promises one client, whatever happens between it and    *)
(* the hub: its cursor never moves past an event on a topic it follows     *)
(* unless that event was handed over or is reflected in a snapshot read    *)
(* since: the page's own, or the one refetched when told of a gap.         *)
(*                                                                         *)
(* A client that has no cursor yet is owed nothing, and following a new    *)
(* topic owes only what is after the cursor at that moment.                *)
(***************************************************************************)
EXTENDS EventIds

VARIABLES
  log,       \* every event the hub accepted
  followed,  \* the topics the client asked for
  cursor,    \* the last id the client received, or NoId
  reflected  \* the events the snapshot the application last read reflects

deliveryVars == <<log, followed, cursor, reflected>>

Init == log = {} /\ followed = {} /\ cursor = NoId /\ reflected = {}

Accept ==
  /\ \E e \in log' \ log : log' = log \cup {e}
  /\ UNCHANGED <<followed, cursor, reflected>>

(* The first cursor comes with a page, whose data reflects the whole log. *)
Begin ==
  /\ cursor = NoId
  /\ cursor' = ZeroId \/ \E e \in log : cursor' = e.id
  /\ reflected' = log
  /\ UNCHANGED log

Follow == UNCHANGED <<log, cursor, reflected>>

(* What is on a followed topic, after the cursor and before e. *)
Skipped(e) ==
  {x \in log : x.topic \in followed /\ Before(cursor, x.id) /\ Before(x.id, e.id)}

Deliver(e) ==
  /\ Before(cursor, e.id)
  /\ cursor = NoId \/ Skipped(e) \subseteq reflected
  /\ cursor' = e.id
  /\ UNCHANGED <<log, followed, reflected>>

Gap == reflected' = log /\ UNCHANGED <<log, followed, cursor>>

Next == Accept \/ Begin \/ Follow \/ Gap \/ \E e \in log : Deliver(e)

Spec == Init /\ [][Next]_deliveryVars
=============================================================================
