------------------------------ MODULE HubRing ------------------------------
(***************************************************************************)
(* The Hub class: the id sequence and the byte-bounded history ring.       *)
(*                                                                         *)
(* The ring is the retained part of the code's array (the compaction of    *)
(* consumed slots moves nothing a caller can see).  A frame is its id, its *)
(* topic, size and origin. `accepted` and `evicted` are history variables: *)
(* what the ring has ever been given and ever thrown away.                 *)
(***************************************************************************)
EXTENDS EventIds, Sequences, Functions

CONSTANTS
  Topics,    \* topics an application publishes on
  Sizes,     \* encoded frame sizes, in bytes
  Origins,   \* who an event may be attributed to, nobody included
  MaxBytes,  \* the ring's byte budget (maxHistoryBytes)
  MaxMs,     \* bound: the wall clock reads at most this
  MaxSeq     \* bound: sequence numbers stay at or below this

ASSUME RingAssumption ==
  /\ Sizes \subseteq Nat \ {0}
  /\ MaxBytes \in Nat
  /\ MaxMs \in Nat
  /\ MaxSeq \in Nat

VARIABLES
  lastId,       \* #lastMs and #lastSeq
  history,      \* the retained entries, oldest first
  bytes,        \* #bytes
  lastTrimmed,  \* #lastTrimmed
  accepted,     \* every event ever appended
  evicted       \* the ids ever dropped from the ring

ringVars == <<lastId, history, bytes, lastTrimmed, accepted, evicted>>

Entry == [id : EventId, topic : Topics, size : Sizes, origin : Origins]

ModelIds == [ms : 0..MaxMs, seq : 0..MaxSeq]

Weight(s) == SumFunction([i \in DOMAIN s |-> s[i].size])

RingInit ==
  /\ lastId = ZeroId
  /\ history = <<>>
  /\ bytes = 0
  /\ lastTrimmed = NoId
  /\ accepted = {}
  /\ evicted = {}

-----------------------------------------------------------------------------
(* An `if` where the code loops: at most one entry goes per append. *)
TrimCountAtMostOne(h, w) == IF w > MaxBytes THEN {1} ELSE {0}

(* How many entries the eviction loop drops from h, whose bytes add up to  *)
(* w: it stops as soon as the rest fits, or when nothing is left.          *)
TrimCount(h, w) ==
  LET Fits(k) == w - Weight(SubSeq(h, 1, k)) <= MaxBytes
  IN {k \in 0..Len(h) : /\ Fits(k) \/ k = Len(h)
                        /\ \A j \in 0..(k - 1) : ~Fits(j)}

(* The mark remembers only what the latest append evicted. *)
MarkAfterLastOnly(mark, dropped) == IF dropped = {} THEN {mark} ELSE Newest(dropped)

(* The mark only ever moves forward, also when entries are out of order. *)
MarkAfter(mark, dropped) == Newest({mark} \cup dropped)

(* Hub.append. *)
AppendEvent(e) ==
  LET h == Append(history, e)
      w == bytes + e.size
  IN /\ accepted' = accepted \cup {e}
     /\ lastId' = Later(lastId, e.id)
     /\ \E k \in TrimCount(h, w) :
          LET dropped == {h[i].id : i \in 1..k}
          IN /\ history' = SubSeq(h, k + 1, Len(h))
             /\ bytes' = w - Weight(SubSeq(h, 1, k))
             /\ lastTrimmed' \in MarkAfter(lastTrimmed, dropped)
             /\ evicted' = evicted \cup dropped

(* Hub.publish: the entry it appends carries the id it mints. *)
Minted(now, topic, size, origin) ==
  [id |-> NextId(lastId, now), topic |-> topic, size |-> size, origin |-> origin]

-----------------------------------------------------------------------------
(* The oldest retained entry decides, as it once did. *)
EvictedBelowOldest(cursor) ==
  history # <<>> /\ Before(cursor, history[1].id)

(* Something this cursor had not seen was dropped. *)
EvictedPast(cursor) == Before(cursor, lastTrimmed)

(* This cursor is above every id the hub has issued or recorded. *)
Beyond(cursor) == Before(lastId, cursor)

(* With an empty ring there is no oldest entry to compare with. *)
TruncatedByOldest(cursor) == EvictedBelowOldest(cursor) \/ Beyond(cursor)

(* A cursor from the future is taken for a caught-up client's. *)
TruncatedByEvictionOnly(cursor) == EvictedPast(cursor)

Truncated(cursor) == EvictedPast(cursor) \/ Beyond(cursor)

(* The positions in the ring of the frames a resuming subscriber is sent,  *)
(* in ring order; none without a cursor.                                   *)
Replay(cursor, topics) ==
  IF cursor = NoId THEN {}
  ELSE {i \in 1..Len(history) :
          Before(cursor, history[i].id) /\ history[i].topic \in topics}

Replayed(cursor, topics) == {history[i] : i \in Replay(cursor, topics)}

Checkpoint(cursor) ==
  IF cursor = NoId THEN "absent"
  ELSE IF Truncated(cursor) THEN "earliest" ELSE "echo"

-----------------------------------------------------------------------------
RingTypeOK ==
  /\ lastId \in EventId
  /\ history \in Seq(Entry)
  /\ lastTrimmed \in EventId \cup {NoId}
  /\ accepted \subseteq Entry
  /\ evicted \subseteq EventId
=============================================================================
