--------------------------- MODULE RedisBackplane ---------------------------
(***************************************************************************)
(* The Redis Streams backplane: one stream and its floor marker shared by  *)
(* several hub processes, the writer of the marker, the reader loop, and a *)
(* replay asked for on behalf of one subscriber while everybody else goes  *)
(* on.  Every await is a step of its own.                                  *)
(*                                                                         *)
(* An entry is its id, and ids are 1, 2, 3, ... in the order XADD minted   *)
(* them, across the loss of the stream too.  All entries are on topics the *)
(* subscriber asked for.                                                   *)
(***************************************************************************)
EXTENDS Integers, FiniteSets, FiniteSetsExt

CONSTANTS
  Procs,        \* hub processes
  Watched,      \* those whose reader and subscribers are followed
  MaxLen,       \* maxLen
  MaxReplay,    \* maxReplay
  Adapters,     \* what the injected clients implement of get and setnx
  MaxEntries,   \* bound: entries ever added
  MaxBoots,     \* bound: times a process is started
  MaxFailures,  \* bound: round trips of writeFloor that fail
  MaxLosses     \* bound: times the stream, the marker or both are lost

ASSUME RedisAssumption ==
  /\ Watched \subseteq Procs
  /\ Adapters \subseteq SUBSET {"get", "setnx"}
  /\ {MaxLen, MaxReplay, MaxEntries, MaxBoots, MaxFailures, MaxLosses} \subseteq Nat
  /\ MaxLen >= 1

VARIABLES
  last,     \* the newest id XADD ever minted
  stream,   \* the entries the stream holds
  floor,    \* the marker beside it
  proc,     \* per process: its part of the closure createRedisBackplane makes
  writer,   \* per process: the writeFloor call under way
  sub,      \* one subscriber and the replay asked for on its behalf
  begin,    \* the first id of this stream, the ids before it being lost
  unmarked, \* up to here entries were lost and no marker left to tell of it
  outrun,   \* whether trimming ever caught up with a publish under way
  boots, failures, losses

shared == <<last, stream, floor>>
past == <<begin, unmarked, outrun>>
bounds == <<boots, failures, losses>>
vars == <<shared, proc, writer, sub, past, bounds>>

Entries == 1..last

\* Stands for '0-0', and for no entry at all.
Zero == 0

NewestId(s) == IF s = {} THEN Zero ELSE Max(s)
OldestId(s) == IF s = {} THEN Zero ELSE Min(s)

NoFloor == [created |-> FALSE, id |-> Zero]

\* Of missedAnything's reads, one that has not returned.
Unread == -1

Idle == [at |-> "idle", mine |-> Zero, oldest |-> Zero]
Off == [pc |-> "off", startedEmpty |-> FALSE, floorWritten |-> FALSE, lastRead |-> Zero,
        commands |-> {}]
NoSub == [at |-> "none"]

Init ==
  /\ last = 0
  /\ stream = {}
  /\ floor = NoFloor
  /\ proc = [p \in Procs |-> Off]
  /\ writer = [p \in Procs |-> Idle]
  /\ sub = NoSub
  /\ begin = 1
  /\ unmarked = 0
  /\ outrun = FALSE
  /\ boots = 0
  /\ failures = 0
  /\ losses = 0

Up(p) == proc[p].pc = "up"

Serving(p) == sub # NoSub /\ sub.proc = p

-----------------------------------------------------------------------------
(* Redis.  XADD trims from the front, by whole nodes: as much as it likes  *)
(* of what is over the limit.                                              *)
Add ==
  /\ last < MaxEntries
  /\ last' = last + 1
  /\ LET all == stream \cup {last'}
     IN \E kept \in SUBSET all :
          /\ \A x \in kept, y \in all \ kept : y < x
          /\ kept # all => Cardinality(kept) >= MaxLen
          /\ stream' = kept
  /\ UNCHANGED floor

(* The keys are deleted, expire, are evicted, or are lost with the machine *)
(* that held them: the stream, its marker, or both.                        *)
LoseStream ==
  /\ losses < MaxLosses
  /\ losses' = losses + 1
  /\ \/ stream' = {} /\ floor' = floor
     \/ stream' \in {stream, {}} /\ floor' = NoFloor
  /\ begin' = IF stream' = {} THEN last + 1 ELSE begin
  /\ unmarked' = IF floor' = NoFloor THEN begin' - 1 ELSE unmarked
  /\ UNCHANGED <<last, proc, writer, sub, outrun, boots, failures>>

-----------------------------------------------------------------------------
(* writeFloor does nothing for a client without both commands. *)
CanMark(commands) == {"get", "setnx"} \subseteq commands

(* createRedisBackplane up to its writeFloor, with the reader started. *)
Boot(p) ==
  /\ proc[p].pc = "off"
  /\ boots < MaxBoots
  /\ boots' = boots + 1
  /\ \E commands \in Adapters :
       /\ proc' = [proc EXCEPT ![p] =
            [pc |-> IF CanMark(commands) THEN "booting" ELSE "up",
             startedEmpty |-> NewestId(stream) = Zero, floorWritten |-> FALSE,
             lastRead |-> NewestId(stream), commands |-> commands]]
       /\ writer' = IF CanMark(commands) THEN [writer EXCEPT ![p] = [Idle EXCEPT !.at = "get"]]
                    ELSE writer
  /\ UNCHANGED <<shared, sub, past, failures, losses>>

(* What follows writeFloor, in createRedisBackplane or in publish; a hub   *)
(* made of the backplane sets its sink at once.                            *)
WriterDone(p, recorded) ==
  /\ writer' = [writer EXCEPT ![p] = Idle]
  /\ proc' = [proc EXCEPT ![p].floorWritten = recorded,
                          ![p].pc = IF @ = "booting" THEN "up" ELSE @]

WriterGet(p) ==
  /\ writer[p].at = "get"
  /\ IF floor # NoFloor
     THEN WriterDone(p, TRUE)
     ELSE writer' = [writer EXCEPT ![p].at = "oldest"] /\ UNCHANGED proc
  /\ UNCHANGED <<shared, sub, past, bounds>>

(* The marker is taken for written though there was nothing to write. *)
WriterOldestGivesUp(p) ==
  /\ writer[p].at = "oldest"
  /\ IF stream = {}
     THEN WriterDone(p, TRUE)
     ELSE /\ writer' = [writer EXCEPT ![p].at = "setnx", ![p].oldest = OldestId(stream)]
          /\ UNCHANGED proc
  /\ UNCHANGED <<shared, sub, past, bounds>>

WriterOldest(p) ==
  /\ writer[p].at = "oldest"
  /\ IF stream = {}
     THEN WriterDone(p, FALSE)
     ELSE /\ writer' = [writer EXCEPT ![p].at = "setnx", ![p].oldest = OldestId(stream)]
          /\ UNCHANGED proc
  /\ UNCHANGED <<shared, sub, past, bounds>>

(* The claim is made for the entry just added without looking whether it   *)
(* is the oldest.                                                          *)
FloorUnchecked(p) ==
  IF proc[p].startedEmpty /\ writer[p].mine # Zero
  THEN [created |-> TRUE, id |-> writer[p].mine]
  ELSE [created |-> FALSE, id |-> writer[p].oldest]

FloorOf(p) ==
  [created |-> proc[p].startedEmpty /\ writer[p].oldest = writer[p].mine,
   id |-> writer[p].oldest]

WriterSet(p) ==
  /\ writer[p].at = "setnx"
  /\ floor' = IF floor = NoFloor THEN FloorOf(p) ELSE floor
  /\ WriterDone(p, TRUE)
  /\ UNCHANGED <<last, stream, sub, past, bounds>>

(* A round trip fails: the next publish tries again. *)
WriterFails(p) ==
  /\ writer[p].at # "idle"
  /\ failures < MaxFailures
  /\ failures' = failures + 1
  /\ WriterDone(p, FALSE)
  /\ UNCHANGED <<shared, sub, past, boots, losses>>

(* An entry just added is the oldest there is because those before it have *)
(* been trimmed, while its publish still awaits its marker.                *)
Outruns == stream' # stream \cup {last'} /\
  \E p \in Procs : writer'[p].mine \in stream' /\ \A x \in stream' : writer'[p].mine <= x

(* publish: XADD, and writeFloor begins.  One at a time per process; it is *)
(* acknowledged when the writer is idle again.                             *)
Publish(p) ==
  /\ Up(p)
  /\ writer[p].at = "idle"
  /\ Add
  /\ writer' = IF proc[p].floorWritten \/ ~CanMark(proc[p].commands) THEN writer
               ELSE [writer EXCEPT ![p] = [Idle EXCEPT !.at = "get", !.mine = last']]
  /\ outrun' = (outrun \/ Outruns)
  /\ UNCHANGED <<proc, sub, begin, unmarked, bounds>>

(* What the reader never gets to see: gone before it came by. *)
PassedOver(p, batch) ==
  {e \in Entries : proc[p].lastRead < e /\ e < NewestId(batch) /\ e \notin batch}

(* One turn of the reader loop: everything after lastRead, in order, to    *)
(* the sink, which hands it to whoever is registered.                      *)
Read(p) ==
  LET batch == {e \in stream : e > proc[p].lastRead}
  IN /\ proc[p].pc \in {"booting", "up"}
     /\ batch # {}
     /\ proc' = [proc EXCEPT ![p].lastRead = NewestId(batch)]
     /\ sub' = IF Serving(p)
               THEN [sub EXCEPT !.live = @ \cup batch,
                                !.skipped = @ \cup PassedOver(p, batch)]
               ELSE sub
     /\ UNCHANGED <<shared, writer, past, bounds>>

(* close: the reader stops and the hub's connections end. *)
Close(p) ==
  /\ Up(p)
  /\ writer[p].at = "idle"
  /\ proc' = [proc EXCEPT ![p] = Off]
  /\ sub' = IF Serving(p) THEN NoSub ELSE sub
  /\ UNCHANGED <<shared, writer, past, bounds>>

(* The process dies; between XADD and the marker that is a failure too. *)
Die(p) ==
  /\ proc[p].pc # "off"
  /\ proc' = [proc EXCEPT ![p] = Off]
  /\ writer' = [writer EXCEPT ![p] = Idle]
  /\ failures' = IF writer[p].at = "idle" THEN failures ELSE failures + 1
  /\ failures' <= MaxFailures
  /\ sub' = IF Serving(p) THEN NoSub ELSE sub
  /\ UNCHANGED <<shared, past, boots, losses>>

-----------------------------------------------------------------------------
(* A client connects to p with a cursor XADD once issued: its subscriber   *)
(* is registered, and the replay asked for.                                *)
Ask(p, cursor) ==
  /\ sub = NoSub
  /\ Up(p)
  /\ sub' = [at |-> "asked", proc |-> p, cursor |-> cursor,
             live |-> {}, skipped |-> {}, got |-> {}, top |-> last, vouched |-> FALSE,
             newest |-> Unread, oldest |-> Unread, truncated |-> FALSE, blind |-> FALSE]
  /\ UNCHANGED <<shared, proc, writer, past, bounds>>

(* readFloor: a client without get never sees a marker. *)
Readable == IF "get" \in proc[sub.proc].commands THEN floor ELSE NoFloor

(* replay: the entries after the cursor; too many of them are a gap. *)
Scan ==
  LET after == {e \in stream : e > sub.cursor}
      over == Cardinality(after) > MaxReplay
  IN /\ sub.at = "asked"
     /\ sub' = [sub EXCEPT !.at = IF over THEN "open" ELSE "scanned",
                           !.truncated = over,
                           !.got = IF over THEN {} ELSE after,
                           !.top = last, !.vouched = Readable.created]
     /\ UNCHANGED <<shared, proc, writer, past, bounds>>

(* missedAnything's three reads: commands sent together over one           *)
(* connection, answered in that order, others' commands in between.        *)
ReadNewest ==
  /\ sub.at = "scanned"
  /\ sub' = [sub EXCEPT !.at = "newest", !.newest = NewestId(stream)]
  /\ UNCHANGED <<shared, proc, writer, past, bounds>>

ReadOldest ==
  /\ sub.at = "newest"
  /\ sub' = [sub EXCEPT !.at = "oldest", !.oldest = OldestId(stream)]
  /\ UNCHANGED <<shared, proc, writer, past, bounds>>

(* A cursor below what is retained is always a gap. *)
MissedBelowOldest(cursor, newest, oldest, mark) ==
  \/ cursor > newest
  \/ cursor < oldest

(* missedAnything, of what the three reads returned. *)
MissedAnything(cursor, newest, oldest, mark) ==
  \/ cursor > newest
  \/ oldest = Zero /\ mark # NoFloor
  \/ cursor < oldest /\ ~(mark.created /\ mark.id = oldest)

(* The entries are read last, after the loss question was decided. *)
AnswerReadingLast ==
  /\ sub.at = "oldest"
  /\ sub' = [sub EXCEPT !.at = "open", !.newest = Unread, !.oldest = Unread,
       !.got = {e \in stream : e > sub.cursor}, !.top = last,
       !.truncated = MissedAnything(sub.cursor, sub.newest, sub.oldest, Readable)]
  /\ UNCHANGED <<shared, proc, writer, past, bounds>>

(* The last of them, readFloor, and the answer. *)
Answer ==
  /\ sub.at = "oldest"
  /\ sub' = [sub EXCEPT !.at = "open", !.newest = Unread, !.oldest = Unread,
       !.vouched = @ /\ Readable.created,
       !.blind = sub.oldest = Zero /\ "get" \notin proc[sub.proc].commands,
       !.truncated = MissedAnything(sub.cursor, sub.newest, sub.oldest, Readable)]
  /\ UNCHANGED <<shared, proc, writer, past, bounds>>

Leave ==
  /\ sub # NoSub
  /\ sub' = NoSub
  /\ UNCHANGED <<shared, proc, writer, past, bounds>>

-----------------------------------------------------------------------------
Writes(p) == WriterGet(p) \/ WriterOldest(p) \/ WriterSet(p) \/ WriterFails(p)

Replays == Scan \/ ReadNewest \/ ReadOldest \/ Answer \/ Leave

Next ==
  \/ LoseStream
  \/ Replays
  \/ \E p \in Procs :
       \/ Boot(p) \/ Close(p) \/ Die(p)
       \/ Writes(p)
       \/ Publish(p)
       \/ p \in Watched /\ (Read(p) \/ \E cursor \in 0..last : Ask(p, cursor))

Spec == Init /\ [][Next]_vars

-----------------------------------------------------------------------------
Floor == [created : BOOLEAN, id : 0..MaxEntries]

(* Every variable has its type; a process takes the marker for written     *)
(* only if there is one, or was one that has been lost since, and ids that *)
(* were lost with a stream are those before the present one's first.       *)
TypeOK ==
  /\ last \in 0..MaxEntries
  /\ begin \in 1..(last + 1) /\ unmarked \in 0..(begin - 1) /\ outrun \in BOOLEAN
  /\ stream \subseteq begin..last
  /\ floor \in Floor
  /\ proc \in [Procs -> [pc : {"off", "booting", "up"}, startedEmpty : BOOLEAN,
                         floorWritten : BOOLEAN, lastRead : 0..last,
                         commands : SUBSET {"get", "setnx"}]]
  /\ writer \in [Procs -> [at : {"idle", "get", "oldest", "setnx"},
                           mine : 0..last, oldest : 0..last]]
  /\ \A p \in Procs : proc[p].floorWritten => floor # NoFloor \/ losses # 0
  /\ sub # NoSub => /\ sub.at \in {"asked", "scanned", "newest", "oldest", "open"}
                    /\ sub.got \cup sub.live \subseteq Entries
                    /\ Up(sub.proc)

(* A `created` marker is the doc's licence to answer that nothing was ever *)
(* evicted (index.ts:105-108).  Nothing before the entry it names was      *)
(* trimmed, or lost while an earlier marker stood by to tell of it: it is  *)
(* the first entry there ever was, or the first since the keys were last   *)
(* lost together or without a marker, which no marker written later can    *)
(* know.  Excepted is a stream trimmed so fast that it loses what precedes *)
(* an entry while that entry's publish still writes the marker.            *)
FloorTellsTheTruth == (floor.created /\ ~outrun) => floor.id <= unmarked + 1

(* What a replay cannot know to be missing: entries lost with no marker    *)
(* left, and for a client without get all that was lost with a stream, if  *)
(* nothing has been added since.                                           *)
Untold(e) == e <= unmarked \/ (sub.blind /\ e < begin)

(* A client that was not told of a gap has, from the replay and from the   *)
(* fan-out together, everything on its topics between its cursor and what  *)
(* its process last read, whatever was trimmed, lost, published or read    *)
(* while its replay was under way.  Excepted are Untold entries, markers   *)
(* outrun by trimming, and, of what follows the replay, what was gone from *)
(* under the reader itself: nobody is told of these.                       *)
Covered ==
  (sub # NoSub /\ sub.at = "open" /\ ~sub.truncated /\ ~outrun) =>
    \A e \in Entries :
      /\ sub.cursor < e /\ e <= sub.top => e \in sub.got \/ Untold(e)
      /\ sub.top < e /\ e <= proc[sub.proc].lastRead => e \in sub.live \cup sub.skipped

(* A cold page, or a client whose cursor the stream still holds, is not    *)
(* told of a gap it does not have: the first if a marker that could vouch  *)
(* was there from the replay's first read to its last, the second always.  *)
NoNeedlessGap ==
  (sub # NoSub /\ sub.at = "open" /\ sub.truncated) =>
    \/ sub.got = {} /\ Cardinality({e \in 1..sub.top : e > sub.cursor}) > MaxReplay
    \/ /\ sub.vouched => stream # Entries
       /\ sub.cursor \notin stream
=============================================================================
