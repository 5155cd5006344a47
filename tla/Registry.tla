------------------------------ MODULE Registry ------------------------------
(***************************************************************************)
(* The Registry class: who is subscribed to what, the topic and key        *)
(* indexes that make a publish cheap, the connection limits, and how far   *)
(* behind each subscriber is.                                              *)
(***************************************************************************)
EXTENDS Integers, Sequences, FiniteSets

CONSTANTS
  Keys,            \* connection keys, typically user ids
  NoKey,           \* a connection without a key
  MaxConnections,
  MaxPerKey,       \* maxConnectionsPerKey
  MaxTopics,       \* maxTopicsPerConnection
  MaxBuffer,       \* maxBufferBytes
  MaxQueued        \* where noteSent stops counting: Number.MAX_SAFE_INTEGER

ASSUME RegistryAssumption ==
  /\ NoKey \notin Keys
  /\ {MaxConnections, MaxPerKey, MaxTopics, MaxBuffer, MaxQueued} \subseteq Nat

VARIABLES
  nextSub,  \* #nextId
  subs,     \* #subs: subscriber id to its topics, key and queued bytes
  byTopic,  \* #byTopic
  byKey     \* #byKey

regVars == <<nextSub, subs, byTopic, byKey>>

Live == DOMAIN subs

Listed(asked) == {asked[i] : i \in DOMAIN asked}

CountForKey(k) == IF k \in DOMAIN byKey THEN byKey[k] ELSE 0

Wanting(t) == IF t \in DOMAIN byTopic THEN byTopic[t] ELSE {}

RegistryInit ==
  /\ nextSub = 1
  /\ subs = <<>>
  /\ byTopic = <<>>
  /\ byKey = <<>>

-----------------------------------------------------------------------------
(* Off by one: a key at its limit still gets one connection more. *)
AdmitsOneMore(asked, k) ==
  /\ Len(asked) \in 1..MaxTopics
  /\ Cardinality(Live) < MaxConnections
  /\ k = NoKey \/ CountForKey(k) <= MaxPerKey

(* The three refusals of Registry.add; a refusal changes nothing. *)
Admits(asked, k) ==
  /\ Len(asked) \in 1..MaxTopics
  /\ Cardinality(Live) < MaxConnections
  /\ k = NoKey \/ CountForKey(k) < MaxPerKey

(* Registry.add, once admitted. *)
AddSubscriber(asked, k) ==
  LET id == nextSub
      unique == Listed(asked)
  IN /\ nextSub' = nextSub + 1
     /\ subs' = [s \in Live \cup {id} |->
                   IF s = id THEN [topics |-> unique, key |-> k, queued |-> 0]
                   ELSE subs[s]]
     /\ byTopic' = [t \in DOMAIN byTopic \cup unique |->
                      IF t \in unique THEN Wanting(t) \cup {id} ELSE byTopic[t]]
     /\ byKey' = IF k = NoKey THEN byKey
                 ELSE [x \in DOMAIN byKey \cup {k} |->
                         IF x = k THEN CountForKey(k) + 1 ELSE byKey[x]]

ReleaseKey(k) ==
  byKey' = IF k = NoKey THEN byKey
           ELSE IF CountForKey(k) <= 1
                THEN [x \in DOMAIN byKey \ {k} |-> byKey[x]]
                ELSE [byKey EXCEPT ![k] = @ - 1]

(* Empty topic sets stay in the index for ever. *)
UnindexLeaky(id) ==
  byTopic' = [t \in DOMAIN byTopic |->
                IF t \in subs[id].topics THEN byTopic[t] \ {id} ELSE byTopic[t]]

Unindex(id) ==
  LET emptied == {t \in subs[id].topics : Wanting(t) \subseteq {id}}
  IN byTopic' = [t \in DOMAIN byTopic \ emptied |->
                   IF t \in subs[id].topics THEN byTopic[t] \ {id} ELSE byTopic[t]]

(* Registry.remove of a live subscriber; of any other it does nothing. *)
RemoveSubscriber(id) ==
  /\ id \in Live
  /\ subs' = [s \in Live \ {id} |-> subs[s]]
  /\ Unindex(id)
  /\ ReleaseKey(subs[id].key)
  /\ UNCHANGED nextSub

-----------------------------------------------------------------------------
Verdict(id) ==
  IF id \notin Live THEN "unknown"
  ELSE IF subs[id].queued > MaxBuffer THEN "slow-consumer" ELSE "ok"

SetQueued(id, n) ==
  /\ id \in Live
  /\ subs' = [subs EXCEPT ![id].queued = n]
  /\ UNCHANGED <<nextSub, byTopic, byKey>>

(* Registry.noteBuffer: the socket's own absolute depth. *)
NoteBuffer(id, depth) == SetQueued(id, depth)

(* Registry.noteSent: saturates. *)
NoteSent(id, n) ==
  SetQueued(id, IF subs[id].queued + n > MaxQueued THEN MaxQueued ELSE subs[id].queued + n)

(* A flush of bytes never sent drives the count below zero. *)
NoteFlushedUnclamped(id, n) == SetQueued(id, subs[id].queued - n)

(* Registry.noteFlushed: never below zero. *)
NoteFlushed(id, n) ==
  SetQueued(id, IF subs[id].queued < n THEN 0 ELSE subs[id].queued - n)
=============================================================================
