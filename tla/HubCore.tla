------------------------------ MODULE HubCore ------------------------------
(***************************************************************************)
(* The synchronous protocol core a host drives (createTsCore): one ring    *)
(* and one registry behind publish, append, subscribe, remove and the      *)
(* buffer notes.  Every operation is one atomic step: the host calls them  *)
(* on one thread and none of them awaits.                                  *)
(*                                                                         *)
(* An operation that throws (an invalid topic or origin, a malformed       *)
(* cursor, a refused subscriber) changes nothing and is not a step.        *)
(***************************************************************************)
EXTENDS HubRing, Registry

CONSTANTS
  MaxEvents,  \* bound: distinct events appended
  MaxSubs,    \* bound: subscribers ever admitted
  MaxAsked,   \* bound: topics listed in one request
  MaxNoted    \* bound: depths are reported of the keyed of the first so many
              \* subscribers

ASSUME BoundsAssumption == {MaxEvents, MaxSubs, MaxAsked, MaxNoted} \subseteq Nat

VARIABLES
  forgone,  \* per live subscriber: the events accepted before it registered
            \* that it holds already or that nobody claims it holds
  handed    \* per live subscriber: the events the core gave the host for it

coreVars == <<forgone, handed>>

vars == <<ringVars, regVars, coreVars>>

Cursors == ModelIds \cup {NoId}

Requests == UNION {[1..n -> Topics] : n \in 0..MaxAsked}

Noted == {s \in Live : s <= MaxNoted /\ subs[s].key # NoKey}

Init ==
  /\ RingInit
  /\ RegistryInit
  /\ forgone = <<>>
  /\ handed = <<>>

-----------------------------------------------------------------------------
(* What publish and append return: the frame, for registry.match(topic). *)
HandToTargets(e) ==
  handed' = [s \in Live |-> IF s \in Wanting(e.topic) THEN handed[s] \cup {e} ELSE handed[s]]

Appended(e) ==
  /\ Cardinality(accepted \cup {e}) <= MaxEvents
  /\ AppendEvent(e)
  /\ HandToTargets(e)
  /\ UNCHANGED <<regVars, forgone>>

Publish(now, topic, size, origin) ==
  /\ Minted(now, topic, size, origin).id.seq <= MaxSeq
  /\ Appended(Minted(now, topic, size, origin))

(* An id assigned elsewhere: a backplane's, or a restored event's. *)
AppendAssigned(id, topic, size, origin) ==
  Appended([id |-> id, topic |-> topic, size |-> size, origin |-> origin])

(* Registration, then the checkpoint and the snapshot, with nothing between. *)
Subscribe(asked, key, cursor) ==
  /\ nextSub <= MaxSubs
  /\ Admits(asked, key)
  /\ AddSubscriber(asked, key)
  /\ forgone' = [s \in Live \cup {nextSub} |->
                   IF s # nextSub THEN forgone[s]
                   ELSE IF Checkpoint(cursor) = "echo"
                        THEN {e \in accepted : ~Before(cursor, e.id)}
                        ELSE accepted]
  /\ handed' = [s \in Live \cup {nextSub} |->
                  IF s = nextSub THEN Replayed(cursor, Listed(asked)) ELSE handed[s]]
  /\ UNCHANGED ringVars

Remove(id) ==
  /\ RemoveSubscriber(id)
  /\ forgone' = [s \in Live \ {id} |-> forgone[s]]
  /\ handed' = [s \in Live \ {id} |-> handed[s]]
  /\ UNCHANGED ringVars

Note(id, n) ==
  /\ NoteBuffer(id, n) \/ NoteSent(id, n) \/ NoteFlushed(id, n)
  /\ UNCHANGED <<ringVars, coreVars>>

Next ==
  \/ \E now \in 0..MaxMs, t \in Topics, n \in Sizes, o \in Origins : Publish(now, t, n, o)
  \/ \E id \in ModelIds, t \in Topics, n \in Sizes, o \in Origins : AppendAssigned(id, t, n, o)
  \/ \E asked \in Requests, k \in Keys \cup {NoKey}, c \in Cursors : Subscribe(asked, k, c)
  \/ \E id \in Live : Remove(id)
  \/ \E id \in Noted, n \in 0..MaxQueued : Note(id, n)

Spec == Init /\ [][Next]_vars

-----------------------------------------------------------------------------
RegistryTypeOK ==
  /\ nextSub \in Nat \ {0}
  /\ Live \subseteq 1..(nextSub - 1)
  /\ subs \in [Live -> [topics : SUBSET Topics, key : Keys \cup {NoKey}, queued : 0..MaxQueued]]
  /\ byTopic \in [DOMAIN byTopic -> SUBSET Live]
  /\ DOMAIN byTopic \subseteq Topics
  /\ byKey \in [DOMAIN byKey -> Nat \ {0}]
  /\ DOMAIN byKey \subseteq Keys

CoreTypeOK ==
  /\ forgone \in [Live -> SUBSET Entry]
  /\ handed \in [Live -> SUBSET Entry]

(* Every variable has its type; a subscriber's queued count stays within   *)
(* what noteSent and noteFlushed clamp it to, a key's count is never zero, *)
(* and no index names a subscriber that is gone.                           *)
TypeOK == RingTypeOK /\ RegistryTypeOK /\ CoreTypeOK

(* The ring never exceeds its byte budget after an append, and the byte    *)
(* count it keeps incrementally is the weight of what it retains.          *)
RingWithinBudget == bytes <= MaxBytes /\ bytes = Weight(history)

(* No silent gap: whenever a cursor would be echoed, replaying the ring    *)
(* from it yields every event ever accepted after that cursor on the       *)
(* topics asked for, whatever was evicted and in whatever order appended.  *)
EchoIsComplete ==
  \A c \in ModelIds, T \in SUBSET Topics :
    ~Truncated(c) => {e \in accepted : Before(c, e.id) /\ e.topic \in T} \subseteq Replayed(c, T)

(* No false alarm: a gap is answered only to a cursor the hub never issued *)
(* or one with an evicted event after it; a ring that dropped nothing      *)
(* answers none to a cursor at or below its sequence.                      *)
AlarmsAreHonest ==
  \A c \in ModelIds :
    Truncated(c) => Beyond(c) \/ \E id \in evicted : Before(c, id)

(* An id the hub mints is after every id it has ever held, minted here or  *)
(* assigned elsewhere, also when the wall clock goes backwards.            *)
MintsAreFresh ==
  [][\A now \in 0..MaxMs, t \in Topics, n \in Sizes, o \in Origins :
       Publish(now, t, n, o) =>
         \E e \in accepted' : /\ accepted' = accepted \cup {e}
                              /\ \A x \in accepted : Before(x.id, e.id)]_ringVars

(* The topic and key indexes agree with the subscribers they index and     *)
(* keep no entry for nobody, whatever was added and removed.               *)
IndexesAgree ==
  /\ DOMAIN byTopic = UNION {subs[s].topics : s \in Live}
  /\ \A t \in DOMAIN byTopic : byTopic[t] = {s \in Live : t \in subs[s].topics}
  /\ DOMAIN byKey = {subs[s].key : s \in Live} \ {NoKey}
  /\ \A k \in DOMAIN byKey : byKey[k] = Cardinality({s \in Live : subs[s].key = k})

(* The process never holds more connections, in all or for one key, nor a  *)
(* connection more topics, than its limits.                                *)
LimitsHold ==
  /\ Cardinality(Live) <= MaxConnections
  /\ \A k \in Keys : Cardinality({s \in Live : subs[s].key = k}) <= MaxPerKey
  /\ \A s \in Live : Cardinality(subs[s].topics) \in 1..MaxTopics

(* The registry is one thing under three indexes and within its limits:    *)
(* admission tests the counts, which removal in any order must not let     *)
(* drift from the connections they count.                                  *)
RegistrySound == IndexesAgree /\ LimitsHold

(* What subscriber s must have been given: everything on its topics        *)
(* accepted since it registered and, if it was told nothing was missed,    *)
(* everything after its cursor.                                            *)
Owed(s) == {e \in accepted \ forgone[s] : e.topic \in subs[s].topics}

(* Nothing falls between the checkpoint, the replay snapshot and live      *)
(* delivery, and no event reaches a subscriber that did not ask for it.    *)
HandedInFull ==
  \A s \in Live : /\ Owed(s) \subseteq handed[s]
                  /\ \A e \in handed[s] : e.topic \in subs[s].topics
=============================================================================
