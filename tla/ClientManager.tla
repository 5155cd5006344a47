--------------------------- MODULE ClientManager ---------------------------
(***************************************************************************)
(* The Client class: which connection attempts exist, who started them,    *)
(* and who may still abort them.  Every timer, call and answer is a step   *)
(* of its own; between two of them the event loop runs nothing else.       *)
(*                                                                         *)
(* #sync starts a loop (#run) for the topics subscribed at that moment; a  *)
(* loop dials, reads and sleeps until it finds it is no longer wanted.     *)
(* #abort is the controller of one attempt, here the loop that made it:    *)
(* the controller of an attempt that is over aborts nothing.               *)
(* The state "reconnecting" is not told apart from "connecting".           *)
(***************************************************************************)
EXTENDS ClientTopics, Integers, FiniteSets

CONSTANTS
  MaxLoops,   \* bound: loops that may exist at once
  MaxCalls,   \* bound: calls the application makes
  MaxMishaps  \* bound: refused, failed and ended connections

ASSUME ClientAssumption == {MaxLoops, MaxCalls, MaxMishaps} \subseteq Nat

Loops == 1..MaxLoops

NoLoop == 0

VARIABLES
  wanted,    \* the topics with a handler
  openKey,   \* #openTopicsKey, the empty set for the empty string
  owner,     \* #abort
  debounce,  \* #debounce is armed
  closed,    \* #closed
  fatal,     \* #fatal
  state,     \* #state
  loops,     \* each run of #run: where it is, its key, what it asked for
  calls,
  mishaps

timers == <<debounce, closed, fatal>>

vars == <<wanted, openKey, owner, timers, state, loops, calls, mishaps>>

Unused == [pc |-> "ended", key |-> {}, asked |-> {}, aborted |-> FALSE]

Init ==
  /\ wanted = {}
  /\ openKey = {}
  /\ owner = NoLoop
  /\ debounce = FALSE
  /\ closed = FALSE
  /\ fatal = FALSE
  /\ state = "idle"
  /\ loops = [l \in Loops |-> Unused]
  /\ calls = 0
  /\ mishaps = 0

Called == calls < MaxCalls /\ calls' = calls + 1

Mishap == mishaps < MaxMishaps /\ mishaps' = mishaps + 1

Running(l) == loops[l].pc \in {"dialing", "reading"}

(* The loops once #abort has been aborted: only an attempt in progress is  *)
(* affected, and it finds out on a step of its own.                        *)
Aborted ==
  [l \in Loops |-> IF l = owner /\ Running(l)
                   THEN [loops[l] EXCEPT !.aborted = TRUE] ELSE loops[l]]

-----------------------------------------------------------------------------
ScheduleSync == debounce' = ~closed

Subscribe(t) ==
  /\ Called
  /\ wanted' = wanted \cup {t}
  /\ ScheduleSync
  /\ UNCHANGED <<openKey, owner, closed, fatal, state, loops, mishaps>>

(* The release of a topic's last handler, or of one of several. *)
Release(t) ==
  /\ t \in wanted
  /\ Called
  /\ wanted' \in {wanted, wanted \ {t}}
  /\ ScheduleSync
  /\ UNCHANGED <<openKey, owner, closed, fatal, state, loops, mishaps>>

(* The connection is dropped, and nothing asks for another. *)
ReconnectWithoutSync ==
  /\ ~closed
  /\ Called
  /\ fatal' = FALSE
  /\ loops' = Aborted
  /\ owner' = NoLoop
  /\ openKey' = {}
  /\ UNCHANGED <<wanted, closed, debounce, state, mishaps>>

Reconnect ==
  /\ ~closed
  /\ Called
  /\ fatal' = FALSE
  /\ loops' = Aborted
  /\ owner' = NoLoop
  /\ openKey' = {}
  /\ ScheduleSync
  /\ UNCHANGED <<wanted, closed, state, mishaps>>

(* The debounce timer outlives the client. *)
CloseLeavesTimer ==
  /\ ~closed
  /\ Called
  /\ closed' = TRUE
  /\ loops' = Aborted
  /\ owner' = NoLoop
  /\ state' = "closed"
  /\ UNCHANGED <<wanted, openKey, debounce, fatal, mishaps>>

Close ==
  /\ ~closed
  /\ Called
  /\ closed' = TRUE
  /\ debounce' = FALSE
  /\ loops' = Aborted
  /\ owner' = NoLoop
  /\ state' = "closed"
  /\ UNCHANGED <<wanted, openKey, fatal, mishaps>>

(* The head of #run's while: a fresh controller, then the request. *)
Dial(from, l, key) ==
  /\ owner' = l
  /\ loops' = [from EXCEPT ![l] = [pc |-> "dialing", key |-> key,
                                   asked |-> wanted, aborted |-> FALSE]]
  /\ state' = "connecting"

(* A new loop is given the first place that none occupies. *)
IsFree(l) ==
  /\ loops[l].pc \in {"ended", "rejected"}
  /\ \A x \in 1..(l - 1) : loops[x].pc \notin {"ended", "rejected"}

(* #sync, run by the debounce timer. *)
Sync ==
  /\ debounce
  /\ debounce' = FALSE
  /\ IF wanted = openKey /\ owner # NoLoop
     THEN UNCHANGED <<openKey, owner, state, loops>>
     ELSE /\ openKey' = wanted
          /\ IF wanted = {}
             THEN loops' = Aborted /\ owner' = NoLoop /\ state' = "idle"
             ELSE \E l \in Loops : IsFree(l) /\ Dial(Aborted, l, wanted)
  /\ UNCHANGED <<wanted, closed, fatal, calls, mishaps>>

-----------------------------------------------------------------------------
Goto(l, pc) == loops' = [loops EXCEPT ![l].pc = pc]

(* The attempt finds it was aborted: the catch returns. *)
Stop(l) ==
  /\ Running(l)
  /\ loops[l].aborted
  /\ Goto(l, "ended")
  /\ UNCHANGED <<wanted, openKey, owner, timers, state, calls, mishaps>>

Accept(l) ==
  /\ loops[l].pc = "dialing"
  /\ ~loops[l].aborted
  /\ Goto(l, "reading")
  /\ state' = "open"
  /\ UNCHANGED <<wanted, openKey, owner, timers, calls, mishaps>>

(* 400 or 403: the loop stops for good. *)
Reject(l) ==
  /\ loops[l].pc = "dialing"
  /\ ~loops[l].aborted
  /\ Mishap
  /\ Goto(l, "rejected")
  /\ fatal' = TRUE
  /\ state' = "closed"
  /\ UNCHANGED <<wanted, openKey, owner, debounce, closed, calls>>

(* Any other status: the loop sleeps, and looks around only afterwards. *)
TryLater(l) ==
  /\ loops[l].pc = "dialing"
  /\ ~loops[l].aborted
  /\ Mishap
  /\ Goto(l, "sleeping")
  /\ UNCHANGED <<wanted, openKey, owner, timers, state, calls>>

StillWanted(l) == ~closed /\ openKey = loops[l].key

(* A response that ends is taken for good. *)
DropEnds(l) ==
  /\ Running(l)
  /\ ~loops[l].aborted
  /\ Mishap
  /\ Goto(l, IF StillWanted(l) /\ loops[l].pc = "dialing" THEN "sleeping" ELSE "ended")
  /\ UNCHANGED <<wanted, openKey, owner, timers, state, calls>>

(* The request fails, or the response ends or breaks. *)
Drop(l) ==
  /\ Running(l)
  /\ ~loops[l].aborted
  /\ Mishap
  /\ Goto(l, IF StillWanted(l) THEN "sleeping" ELSE "ended")
  /\ UNCHANGED <<wanted, openKey, owner, timers, state, calls>>

(* The topics are compared, but not whether the client was closed. *)
WakeUnlessMoved(l) ==
  /\ loops[l].pc = "sleeping"
  /\ IF openKey = loops[l].key
     THEN Dial(loops, l, loops[l].key)
     ELSE Goto(l, "ended") /\ UNCHANGED <<owner, state>>
  /\ UNCHANGED <<wanted, openKey, timers, calls, mishaps>>

(* A backoff is not cut short: it ends, and then the while looks. *)
Wake(l) ==
  /\ loops[l].pc = "sleeping"
  /\ IF StillWanted(l)
     THEN Dial(loops, l, loops[l].key)
     ELSE Goto(l, "ended") /\ UNCHANGED <<owner, state>>
  /\ UNCHANGED <<wanted, openKey, timers, calls, mishaps>>

(* What the runtime and a reachable server make sure happens. *)
Progress(l) == Stop(l) \/ Accept(l) \/ Wake(l)

Next ==
  \/ \E t \in Topics : Subscribe(t) \/ Release(t)
  \/ Reconnect
  \/ Close
  \/ Sync
  \/ \E l \in Loops : Progress(l) \/ Reject(l) \/ TryLater(l) \/ Drop(l)

(* Timers fire and requests are answered: fairness of the event loop and   *)
(* of a server that is reachable but for finitely many mishaps.            *)
Spec == Init /\ [][Next]_vars /\ WF_vars(Sync) /\ \A l \in Loops : WF_vars(Progress(l))

-----------------------------------------------------------------------------
(* Every variable has its type, #abort is only ever the controller of an   *)
(* attempt nobody aborted, and no timer survives close().                  *)
TypeOK ==
  /\ wanted \subseteq Topics
  /\ openKey \subseteq Topics
  /\ owner \in Loops \cup {NoLoop}
  /\ {debounce, closed, fatal} \subseteq BOOLEAN
  /\ state \in {"idle", "connecting", "open", "closed"}
  /\ loops \in [Loops -> [pc : {"dialing", "reading", "sleeping", "rejected", "ended"},
                          key : SUBSET Topics, asked : SUBSET Topics, aborted : BOOLEAN]]
  /\ owner # NoLoop => ~loops[owner].aborted
  /\ closed => ~debounce /\ owner = NoLoop

(* A client with subscriptions is never stranded: a sync is pending, or    *)
(* the loop that holds #abort works for exactly these topics, or the       *)
(* server turned that loop away.                                           *)
NeverStranded ==
  \/ closed
  \/ debounce
  \/ wanted = {} /\ openKey = {}
  \/ /\ openKey = wanted
     /\ owner # NoLoop
     /\ loops[owner].key = wanted
     /\ loops[owner].pc # "ended"

(* Once closed, no loop, not even one #abort lost track of, dials again. *)
NoDialAfterClose ==
  [][closed => \A l \in Loops : loops'[l].pc = "dialing" => loops[l].pc = "dialing"]_vars

Served == \E l \in Loops : loops[l].pc = "reading" /\ loops[l].key = wanted

TurnedAway == owner # NoLoop /\ loops[owner].pc = "rejected"

(* Whatever the application did, and however many loops it left running,   *)
(* the client ends up reading in a loop started for the topics it wants.   *)
Settles == <>[](closed \/ wanted = {} \/ TurnedAway \/ Served)

(* One connection per client, whatever it does. *)
OneConnection ==
  Cardinality({l \in Loops : Running(l) /\ ~loops[l].aborted}) <= 1
=============================================================================
