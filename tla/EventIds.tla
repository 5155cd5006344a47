------------------------------ MODULE EventIds ------------------------------
(***************************************************************************)
(* Event ids, `<ms>-<seq>`: the order every part of the system compares    *)
(* them by, and the rule that mints the next one.  The textual form is     *)
(* left out; an id is the pair of parsed halves that compareIds reads.     *)
(***************************************************************************)
EXTENDS Integers

Id(ms, seq) == [ms |-> ms, seq |-> seq]

EventId == [ms : Nat, seq : Nat]

\* The cursor of a hub that has published nothing.
ZeroId == Id(0, 0)

\* Stands for null.  It is before every id, so "null, or before" is Before.
NoId == Id(-1, -1)

Before(a, b) == a.ms < b.ms \/ (a.ms = b.ms /\ a.seq < b.seq)

AtOrBefore(a, b) == a = b \/ Before(a, b)

Later(a, b) == IF Before(a, b) THEN b ELSE a

(* The ids of S no other id of S is after: a singleton when S is finite.   *)
Newest(S) == {m \in S : \A x \in S : AtOrBefore(x, m)}

(* A mint that follows the clock backwards. *)
NextIdFollowsClock(last, now) ==
  IF now = last.ms THEN Id(last.ms, last.seq + 1) ELSE Id(now, 0)

(* The next id after `last` when the wall clock reads `now`. *)
NextId(last, now) ==
  IF now > last.ms THEN Id(now, 0) ELSE Id(last.ms, last.seq + 1)
=============================================================================
