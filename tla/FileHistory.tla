---------------------------- MODULE FileHistory ----------------------------
(***************************************************************************)
(* The file-backed history store and the hub that restores from it, over   *)
(* several lives of the process: the log, its clean certificate, the chain *)
(* of unawaited appends, compaction, and what a hub then answers a cursor. *)
(*                                                                         *)
(* Ids are numbers: an id is minted by the clock, so it is after those of  *)
(* earlier lives even if their events are lost.  The ring keeps all it is  *)
(* given (eviction is HubCore's subject); a line is one unit of the log's  *)
(* byte budget.  The file system is taken at its word: renames and unlinks *)
(* are durable and in order, written bytes are durable once synced, and    *)
(* what is lost of the rest is a suffix.                                   *)
(***************************************************************************)
EXTENDS Integers, Sequences, FiniteSets, SequencesExt, Listing

CONSTANTS
  MaxLines,   \* maxBytes, in lines
  MaxEvents,  \* bound: events ever published
  MaxBoots,   \* bound: lives of the process
  MaxFaults   \* bound: failed loads and writes, dead processes and machines

ASSUME FileAssumption ==
  {MaxLines, MaxEvents, MaxBoots, MaxFaults} \subseteq Nat

VARIABLES
  log,        \* the lines of the file
  exists,     \* whether there is a file
  synced,     \* how many of its lines are durable
  clean,      \* whether the certificate is on disk
  phase,      \* the process: down, up or closing
  queue,      \* appends accepted and not yet written (the chain on `tail`)
  failed,     \* the chain is rejected, and every append after it
  full,       \* the write just made calls for a compaction
  opened,     \* the file is open for appending (handle)
  fsync,      \* options.fsync of this life
  ring,       \* the hub's history
  floor,      \* historyFloor, 0 when there is none
  uncertain,  \* historyUncertain
  published,  \* every id ever accepted
  found,      \* what load found: nothing, a log, garbage, or what it cannot read
  before,     \* what the previous life had found
  died,       \* whether the previous life ended without a certificate
  everDied,   \* whether any life has
  boots,
  faults

disk == <<log, exists, synced, clean>>
chain == <<queue, failed, full, opened, fsync>>
hub == <<ring, floor, uncertain, found>>
lives == <<before, died, everDied>>
vars == <<disk, phase, chain, hub, published, lives, boots, faults>>

Line(id) == [kind |-> "event", id |-> id]
Trimmed(id) == [kind |-> "trimmed", id |-> id]
Torn == [kind |-> "torn", id |-> 0]        \* a prefix of a line, no newline
Garbled == [kind |-> "garbled", id |-> 0]  \* a torn line and its successor

Newer(S, id) == {e \in S : e > id}
Newest(S) == CHOOSE m \in S \cup {0} : \A e \in S : e <= m
Ids(lines) == {l.id : l \in {x \in ToSet(lines) : x.kind = "event"}}
Floor(lines) == Newest({l.id : l \in {x \in ToSet(lines) : x.kind = "trimmed"}})
EndsTorn(lines) == lines # <<>> /\ lines[Len(lines)] = Torn

Init ==
  /\ log = <<>> /\ exists = FALSE /\ synced = 0 /\ clean = FALSE
  /\ phase = "down"
  /\ queue = <<>> /\ failed = FALSE /\ full = FALSE /\ opened = FALSE /\ fsync = FALSE
  /\ ring = {} /\ floor = 0 /\ uncertain = FALSE /\ found = "nothing"
  /\ published = {}
  /\ before = "nothing" /\ died = FALSE /\ everDied = FALSE
  /\ boots = 0
  /\ faults = 0

Fault == faults < MaxFaults /\ faults' = faults + 1

-----------------------------------------------------------------------------
(* A readable log is taken for a complete one. *)
RestoreTrusting ==
  /\ ring' = Ids(log)
  /\ floor' = Floor(log)
  /\ uncertain' = EndsTorn(log)
  /\ found' = "log"

(* What a readable log restores. *)
Restore ==
  /\ ring' = Ids(log)
  /\ floor' = Floor(log)
  /\ uncertain' = (~clean \/ EndsTorn(log))
  /\ found' = "log"

(* No file, or a load that throws: the hub starts empty, and certain. *)
StartEmpty(what) ==
  /\ ring' = {}
  /\ floor' = 0
  /\ uncertain' = FALSE
  /\ found' = what

(* A life begins; nothing is served or published before load is done. *)
Begin ==
  /\ phase = "down"
  /\ boots < MaxBoots
  /\ boots' = boots + 1
  /\ phase' = "up"
  /\ queue' = <<>> /\ failed' = FALSE /\ full' = FALSE /\ opened' = FALSE
  /\ fsync' \in BOOLEAN
  /\ before' = found
  /\ UNCHANGED <<log, exists, synced, published, died, everDied>>

(* load() and the hub's use of it.  Without a file it returns before it    *)
(* looks at the certificate; a log it cannot parse costs the certificate.  *)
Boot ==
  /\ Begin
  /\ clean' = (clean /\ ~exists)
  /\ IF ~exists THEN StartEmpty("nothing")
     ELSE IF Garbled \in ToSet(log) THEN StartEmpty("garbage")
     ELSE Restore
  /\ UNCHANGED faults

(* The log or the certificate cannot be read, or the certificate cannot be *)
(* withdrawn: load throws, the certificate stays, and appends go on to the *)
(* log that is there.                                                      *)
LoadFails ==
  /\ Begin
  /\ Fault
  /\ StartEmpty("unread")
  /\ UNCHANGED clean

(* hub.publish: delivered first, then appended to the chain, not awaited. *)
Publish ==
  /\ phase = "up"
  /\ Cardinality(published) < MaxEvents
  /\ LET id == Cardinality(published) + 1
     IN /\ published' = published \cup {id}
        /\ ring' = ring \cup {id}
        /\ queue' = Append(queue, id)
  /\ UNCHANGED <<disk, phase, failed, full, opened, fsync, floor, uncertain, found, lives, boots, faults>>

-----------------------------------------------------------------------------
(* A torn line is taken for a line like the others. *)
ExtendedNeverGlues(lines, line) == Append(lines, line)

(* Appending a line to one that has no newline runs the two together. *)
Extended(lines, line) ==
  IF EndsTorn(lines)
  THEN Front(lines) \o <<IF line = Torn THEN Torn ELSE Garbled>>
  ELSE Append(lines, line)

(* A durable torn line is no longer durable in the form it now has. *)
SyncedStill == IF EndsTorn(log) /\ synced = Len(log) THEN synced - 1 ELSE synced

Running == phase \in {"up", "closing"}

(* The next append of the chain, when the one before it is done. *)
Write ==
  /\ Running
  /\ queue # <<>> /\ ~full
  /\ queue' = Tail(queue)
  /\ IF failed
     THEN UNCHANGED <<log, exists, synced, full, opened>>
     ELSE LET written == Extended(log, Line(queue[1]))
          IN /\ log' = written
             /\ exists' = TRUE
             /\ synced' = IF fsync THEN Len(written) ELSE SyncedStill
             /\ full' = (Len(written) > 2 * MaxLines)
             /\ opened' = TRUE
  /\ UNCHANGED <<clean, phase, failed, fsync, hub, published, lives, boots, faults>>

(* The write, the sync after it or the compaction throws: the chain stays  *)
(* rejected.  A line whose sync fails is in the file, and not durable.     *)
WriteFails ==
  /\ Running
  /\ ~failed
  /\ Fault
  /\ \/ full /\ UNCHANGED <<log, exists, synced, queue>>
     \/ /\ queue # <<>> /\ ~full
        /\ queue' = Tail(queue)
        /\ \/ log' = log /\ exists' \in {exists, TRUE} /\ synced' = synced
           \/ log' = Extended(log, Torn) /\ exists' = TRUE /\ synced' = synced
           \/ fsync /\ log' = Extended(log, Line(queue[1])) /\ exists' = TRUE /\ synced' = SyncedStill
  /\ failed' = TRUE
  /\ full' = FALSE
  /\ UNCHANGED <<opened, fsync, clean, phase, hub, published, lives, boots>>

(* The event lines of the file, in its order; what does not parse is left  *)
(* out.                                                                    *)
Entries(lines) ==
  {[i \in DOMAIN at |-> lines[at[i]]] :
     at \in OldestFirst({i \in DOMAIN lines : lines[i].kind = "event"})}

Surplus(entries) == IF Len(entries) > MaxLines THEN Len(entries) - MaxLines ELSE 0

(* The mark is the oldest line kept, not the newest one dropped. *)
MarkOldestKept(entries, mark) ==
  IF Surplus(entries) > 0 THEN entries[Surplus(entries) + 1].id ELSE mark

(* The mark an earlier compaction left is all there is. *)
MarkCarriedOver(entries, mark) == mark

(* The newest line dropped or, when none is, the mark already there. *)
Mark(entries, mark) ==
  IF Surplus(entries) > 0 THEN entries[Surplus(entries)].id ELSE mark

(* The newest lines that fit, behind the mark. *)
Compacted(entries, mark) ==
  (IF Mark(entries, mark) = 0 THEN <<>> ELSE <<Trimmed(Mark(entries, mark))>>)
    \o SubSeq(entries, Surplus(entries) + 1, Len(entries))

(* compact(): a synced temporary file renamed over the log. *)
Compact ==
  /\ Running
  /\ full
  /\ \E entries \in Entries(log) : log' = Compacted(entries, Floor(log))
  /\ synced' = Len(log')
  /\ full' = FALSE
  /\ opened' = FALSE
  /\ UNCHANGED <<exists, clean, phase, queue, failed, fsync, hub, published, lives, boots, faults>>

-----------------------------------------------------------------------------
(* hub.close, which closes the store: nothing more is accepted. *)
Close ==
  /\ phase = "up"
  /\ phase' = "closing"
  /\ UNCHANGED <<disk, chain, hub, published, lives, boots, faults>>

Ended(badly) ==
  /\ phase' = "down"
  /\ died' = badly
  /\ everDied' = (everDied \/ badly)

Drained == phase = "closing" /\ queue = <<>> /\ ~full

(* A shutdown that waits for the failed write to succeed. *)
FinishOnSuccess ==
  /\ Drained
  /\ ~failed
  /\ Ended(FALSE)
  /\ clean' = TRUE
  /\ synced' = Len(log)
  /\ UNCHANGED <<log, exists, chain, hub, published, before, boots, faults>>

(* The chain has drained: unless a write failed the log, if it is open, is *)
(* synced, and then certified.                                             *)
Finish ==
  /\ Drained
  /\ Ended(failed)
  /\ clean' = (clean \/ ~failed)
  /\ synced' = IF failed \/ ~opened THEN synced ELSE Len(log)
  /\ UNCHANGED <<log, exists, chain, hub, published, before, boots, faults>>

(* The process dies: the chain is lost, and at most a part of the line     *)
(* being written reaches the file.                                         *)
ProcessDies ==
  /\ Running
  /\ Fault
  /\ Ended(TRUE)
  /\ \/ UNCHANGED <<log, exists>>
     \/ /\ queue # <<>> /\ ~full /\ ~failed
        /\ log' = Extended(log, Torn)
        /\ exists' = TRUE
  /\ UNCHANGED <<synced, clean, chain, hub, published, before, boots>>

(* The machine dies, in any phase: with it what was not synced, from some  *)
(* byte on.                                                                *)
MachineDies ==
  /\ Fault
  /\ IF Running THEN Ended(TRUE) ELSE synced < Len(log) /\ UNCHANGED <<phase, died, everDied>>
  /\ \E k \in synced..Len(log) :
       \/ log' = SubSeq(log, 1, k)
       \/ k < Len(log) /\ log' = Append(SubSeq(log, 1, k), Torn)
  /\ synced' = Len(log')
  /\ UNCHANGED <<exists, clean, chain, hub, published, before, boots>>

Next ==
  \/ Boot \/ LoadFails \/ Publish \/ Close
  \/ Write \/ WriteFails \/ Compact \/ Finish
  \/ ProcessDies \/ MachineDies

(* The chain and the shutdown that waits for it run to their end; no life  *)
(* has to begin or end.                                                    *)
Spec == Init /\ [][Next]_vars /\ WF_vars(Write \/ Compact) /\ WF_vars(Finish)

-----------------------------------------------------------------------------
(* Every variable has its type; at most the last line is torn, durability  *)
(* is a prefix, and a log that is not there is empty.                      *)
TypeOK ==
  /\ log \in Seq([kind : {"event", "trimmed", "torn", "garbled"}, id : 0..MaxEvents])
  /\ \A i \in DOMAIN log : log[i] = Torn => i = Len(log)
  /\ \A i \in DOMAIN log : log[i].kind = "trimmed" => i = 1
  /\ synced \in 0..Len(log)
  /\ ~exists => log = <<>>
  /\ phase \in {"down", "up", "closing"}
  /\ queue \in Seq(published)
  /\ ring \subseteq published
  /\ floor \in 0..MaxEvents
  /\ {found, before} \subseteq {"nothing", "log", "garbage", "unread"}
  /\ {clean, failed, full, opened, fsync, uncertain, died, everDied} \subseteq BOOLEAN

Vouched(c) == c <= Newest(ring) /\ ~uncertain /\ c >= floor

Honest == \A c \in published : Vouched(c) => Newer(published, c) \subseteq ring

(* As long as every life shut down properly, a hub that tells a resuming   *)
(* client it missed nothing has every event after that client's cursor,    *)
(* over any number of lives and compactions.  The exception is a life      *)
(* whose own load threw, which starts empty without being uncertain and    *)
(* vouches for any cursor it has published past; the lives after it, which *)
(* read the log, are held to this again.                                   *)
HonestAcrossDeploys ==
  (phase = "up" /\ ~everDied /\ found # "unread") => Honest

(* The same of the life that follows a crash, whatever the crash lost, if  *)
(* the life that crashed had found a log (and so withdrew the certificate) *)
(* and this one can read it.                                               *)
HonestAfterCrash ==
  (phase = "up" /\ died /\ before = "log" /\ found = "log") => Honest

(* A proper shutdown costs no client a refetch it does not need: a cursor  *)
(* after which the hub has every event is vouched for.                     *)
NoNeedlessGap ==
  (phase = "up" /\ ~everDied) =>
    \A c \in published :
      (Newer(published, c) \subseteq ring /\ c <= Newest(ring)) => Vouched(c)

(* A shutdown ends, also after writes that failed. *)
CloseEnds == phase = "closing" ~> phase = "down"

(* A crash that tears the last line costs that line, never the whole log:  *)
(* the next load, and the loads after it, do not throw.                    *)
TornTailIsDropped == found # "garbage"
=============================================================================
