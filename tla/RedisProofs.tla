---------------------------- MODULE RedisProofs ----------------------------
(***************************************************************************)
(* Theorems about RedisBackplane, for any number of processes, entries,    *)
(* restarts, failures and losses, and every limit, whatever the clients    *)
(* implement and whether the stream, its marker or both are lost.          *)
(***************************************************************************)
EXTENDS RedisBackplane, FiniteSetTheorems, WellFoundedInduction, TLAPS

Processes == [pc : {"off", "booting", "up"}, startedEmpty : BOOLEAN,
              floorWritten : BOOLEAN, lastRead : 0..last,
              commands : SUBSET {"get", "setnx"}]
Writers == [at : {"idle", "get", "oldest", "setnx"}, mine : 0..last, oldest : 0..last]
Subs == [at : {"asked", "scanned", "newest", "oldest", "open"}, proc : Procs,
         cursor : 0..last, live : SUBSET Entries, skipped : SUBSET Entries,
         got : SUBSET Entries, top : 0..last, vouched : BOOLEAN,
         newest : -1..last, oldest : -1..last, truncated : BOOLEAN, blind : BOOLEAN]

Types ==
  /\ last \in 0..MaxEntries
  /\ begin \in 1..(last + 1) /\ unmarked \in 0..(begin - 1) /\ outrun \in BOOLEAN
  /\ stream \subseteq Entries /\ stream \subseteq begin..last
  /\ floor \in Floor
  /\ proc \in [Procs -> Processes]
  /\ writer \in [Procs -> Writers]
  /\ losses \in Nat
  /\ sub # NoSub => sub \in Subs /\ Up(sub.proc)

(* The stream loses its oldest entries only. *)
NewestAreKept == \A x \in stream, y \in Entries : x <= y => y \in stream

FirstIsGone == 1 \in Entries \ stream

(* A process's entry is the oldest only while it is the stream's first,    *)
(* unless trimming has outrun it, and so is the one its marker is to name  *)
(* if it is to say `created`.                                              *)
WriterInv(p) ==
  /\ proc[p].floorWritten => floor # NoFloor \/ losses # 0
  /\ proc[p].pc = "off" => writer[p].at = "idle"
  /\ writer[p].at = "idle" => writer[p] = Idle
  /\ ~outrun /\ writer[p].mine \in stream =>
       writer[p].mine = begin \/ \E x \in stream : x < writer[p].mine
  /\ writer[p].at = "setnx" =>
       /\ writer[p].oldest \in Entries
       /\ ~outrun /\ writer[p].oldest = writer[p].mine => writer[p].oldest <= begin

MarkerInv ==
  /\ floor = NoFloor => unmarked = begin - 1
  /\ floor # NoFloor => floor.id \in Entries
  /\ FloorTellsTheTruth
  /\ stream = {} => begin = last + 1
  /\ outrun => FirstIsGone
  /\ \A p \in Procs : WriterInv(p)

(* What the fan-out gave the subscriber. *)
LiveInv ==
  sub # NoSub =>
    \A e \in Entries :
      sub.top < e /\ e <= proc[sub.proc].lastRead => e \in sub.live \cup sub.skipped

(* What the replay left out is gone, and older than the oldest it saw, or  *)
(* than the whole stream if it saw none.                                   *)
Missing(e) == sub.cursor < e /\ e <= sub.top /\ e \notin sub.got

ReplayInv ==
  sub # NoSub =>
    /\ sub.at = "oldest" /\ sub.oldest = Zero => sub.top < begin
    /\ \A e \in Entries : Missing(e) =>
         /\ sub.at \in {"scanned", "newest", "oldest"} => e \notin stream
         /\ sub.at = "oldest" => sub.oldest = Zero \/ e < sub.oldest
         /\ sub.at = "open" /\ ~outrun => sub.truncated \/ Untold(e)

(* What each of missedAnything's signs of a loss says of the stream, then  *)
(* and ever after.                                                         *)
SignsInv ==
  sub # NoSub =>
    /\ sub.vouched => 1 \in Entries
    /\ sub.at \in {"newest", "oldest"} /\ sub.cursor > sub.newest =>
         sub.cursor \notin stream /\ FirstIsGone
    /\ sub.at = "oldest" =>
         /\ sub.oldest \in 0..last
         /\ sub.oldest = Zero \/ sub.cursor < sub.oldest => sub.cursor \notin stream
         /\ sub.oldest = Zero /\ sub.vouched => FirstIsGone
         /\ sub.oldest \notin {Zero, 1} => FirstIsGone
    /\ sub.at = "open" /\ sub.truncated =>
         \/ sub.got = {} /\ Cardinality({e \in 1..sub.top : e > sub.cursor}) > MaxReplay
         \/ (sub.vouched => FirstIsGone) /\ sub.cursor \notin stream

IInv ==
  /\ Types
  /\ NewestAreKept
  /\ MarkerInv
  /\ LiveInv
  /\ ReplayInv
  /\ SignsInv

-----------------------------------------------------------------------------
LEMMA EntriesAreNumbers ==
  ASSUME Types
  PROVE  /\ last \in Nat /\ begin \in Nat /\ unmarked \in Nat
         /\ 1 <= begin /\ begin <= last + 1 /\ unmarked <= begin - 1
         /\ stream \subseteq Entries
         /\ \A e : e \in Entries <=> e \in Nat /\ 1 <= e /\ e <= last
         /\ \A e \in stream : begin <= e
<1>1. {MaxEntries, MaxFailures} \subseteq Nat
  BY RedisAssumption
<1>2. last \in Nat
  BY <1>1 DEF Types
<1> QED
  BY <1>2 DEF Types, Entries

LEMMA LessOnNat == OpToRel(<, Nat) = {ss \in Nat \X Nat : ss[1] < ss[2]}
  BY Zenon DEF OpToRel

(* The ends of a set of entries.                                           *)
LEMMA LeastExists ==
  ASSUME NEW S \in SUBSET Nat, S # {}
  PROVE  Min(S) \in S /\ \A y \in S : Min(S) <= y
<1> DEFINE R == {ss \in Nat \X Nat : ss[1] < ss[2]}
<1>1. IsWellFoundedOn(R, Nat)
  BY NatLessThanWellFounded, LessOnNat, Zenon
<1> HIDE DEF R
<1>2. PICK x \in S : \A y \in S : ~(<<y, x>> \in R)
  BY <1>1, WFMin
<1>3. \A y \in Nat : y < x => <<y, x>> \in R
  BY DEF R
<1>4. \A y \in S : ~(y < x)
  BY <1>2, <1>3
<1>5. \A y \in S : x <= y
  BY <1>4
<1> QED
  BY <1>5 DEF Min

LEMMA Ends ==
  ASSUME Types, NewestAreKept, NEW b \in Nat,
         NEW S, S = {e \in stream : e > b}, S # {}
  PROVE  last \in S /\ NewestId(S) = last
<1>0. \E e \in stream : e > b
  OBVIOUS
<1>1. last \in S
  BY <1>0, EntriesAreNumbers DEF NewestAreKept
<1>2. \A e \in S : e \in Nat /\ e <= last
  BY EntriesAreNumbers
<1>3. Max(S) \in S /\ \A y \in S : Max(S) >= y
  BY <1>1, <1>2 DEF Max
<1>4. Max(S) = last
  BY <1>1, <1>2, <1>3
<1> QED
  BY <1>1, <1>4 DEF NewestId

LEMMA Newest ==
  ASSUME Types, NewestAreKept
  PROVE  NewestId(stream) = IF stream = {} THEN Zero ELSE last
<1>1. CASE stream = {}
  BY <1>1 DEF NewestId
<1>2. CASE stream # {}
  <2>1. stream = {e \in stream : e > 0}
    BY EntriesAreNumbers
  <2> QED
    BY <1>2, <2>1, Ends
<1> QED
  BY <1>1, <1>2

LEMMA Oldest ==
  ASSUME Types, NewestAreKept
  PROVE  /\ stream = {} => OldestId(stream) = Zero
         /\ stream # {} => /\ OldestId(stream) \in stream
                           /\ OldestId(stream) \in 1..last
                           /\ \A e \in Entries : e \in stream <=> OldestId(stream) <= e
<1>1. CASE stream = {}
  BY <1>1 DEF OldestId
<1>2. CASE stream # {}
  <2>1. stream \in SUBSET Nat
    BY EntriesAreNumbers
  <2>2. OldestId(stream) \in stream /\ \A e \in stream : OldestId(stream) <= e
    BY <1>2, <2>1, LeastExists DEF OldestId
  <2> QED
    BY EntriesAreNumbers, <1>2, <2>2 DEF NewestAreKept
<1> QED
  BY <1>1, <1>2

-----------------------------------------------------------------------------
(* What is true of the subscriber outlasts every step of the others: what  *)
(* is gone does not come back, nor what was lost unmarked.                 *)
LEMMA OthersStep ==
  ASSUME IInv, Types', UNCHANGED sub,
         last' \in {last, last + 1}, begin <= begin', unmarked <= unmarked',
         outrun => outrun',
         \A e \in Entries : e \in stream' => e \in stream,
         sub # NoSub => proc'[sub.proc].lastRead = proc[sub.proc].lastRead
  PROVE  LiveInv' /\ ReplayInv' /\ SignsInv'
<1> SUFFICES ASSUME sub # NoSub
             PROVE  LiveInv' /\ ReplayInv' /\ SignsInv'
  BY DEF LiveInv, ReplayInv, SignsInv
<1>1. Types
  BY DEF IInv
<1>2. /\ sub \in Subs /\ proc[sub.proc] \in Processes
      /\ last \in Nat /\ last' \in Nat /\ last <= last'
      /\ begin \in Nat /\ begin' \in Nat /\ unmarked \in Nat /\ unmarked' \in Nat
      /\ stream \subseteq Entries /\ stream' \subseteq Entries'
      /\ \A e : e \in Entries <=> e \in Nat /\ 1 <= e /\ e <= last
      /\ \A e : e \in Entries' <=> e \in Nat /\ 1 <= e /\ e <= last'
  <2>1. sub \in Subs /\ proc[sub.proc] \in Processes
    BY <1>1 DEF Types, Subs
  <2>2. last' \in Nat
    BY <1>1, EntriesAreNumbers
  <2> QED
    BY <1>1, <2>1, <2>2, EntriesAreNumbers DEF Types, Entries
<1>3. sub.cursor \in 0..last /\ sub.top \in 0..last /\ proc[sub.proc].lastRead \in 0..last
  BY <1>2 DEF Subs, Processes
<1>4. FirstIsGone => FirstIsGone'
  BY <1>2 DEF FirstIsGone
<1>5. sub.cursor \notin stream => sub.cursor \notin stream'
  BY <1>2, <1>3
<1>6. LiveInv'
  BY <1>2, <1>3 DEF IInv, LiveInv
<1>7. ReplayInv'
  <2>0. sub.at = "oldest" /\ sub.oldest = Zero => sub.top < begin'
    BY <1>2, <1>3 DEF IInv, ReplayInv
  <2> SUFFICES ASSUME NEW e \in Entries', Missing(e)'
               PROVE  /\ sub.at \in {"scanned", "newest", "oldest"} => e \notin stream'
                      /\ sub.at = "oldest" => sub.oldest = Zero \/ e < sub.oldest
                      /\ sub.at = "open" /\ ~outrun' => sub.truncated \/ Untold(e)'
    BY <2>0 DEF ReplayInv
  <2>1. Missing(e) /\ e \in Entries /\ e \in Nat
    BY <1>2, <1>3 DEF Missing
  <2>2. Untold(e) => Untold(e)'
    BY <1>2, <2>1 DEF Untold
  <2> QED
    BY <2>1, <2>2 DEF IInv, ReplayInv
<1>8. SignsInv'
  <2>1. SignsInv
    BY DEF IInv
  <2>2. sub.at = "oldest" => sub.oldest \in 0..last'
    BY <1>2, <2>1 DEF SignsInv
  <2>3. 1 \in Entries => 1 \in Entries'
    BY <1>2
  <2> QED
    BY <1>4, <1>5, <2>1, <2>2, <2>3 DEF SignsInv
<1> QED
  BY <1>6, <1>7, <1>8

LEMMA WriterDoneTypes ==
  ASSUME Types, NEW p \in Procs, NEW recorded \in BOOLEAN, WriterDone(p, recorded)
  PROVE  /\ writer' \in [Procs -> Writers]
         /\ proc' \in [Procs -> Processes]
         /\ writer'[p] = Idle
         /\ proc'[p].floorWritten = recorded
         /\ \A q \in Procs : /\ proc'[q].pc = proc[q].pc \/ Up(q)'
                             /\ proc[q].pc # "off" => proc'[q].pc # "off"
                             /\ proc'[q].lastRead = proc[q].lastRead
                             /\ q # p => proc'[q] = proc[q] /\ writer'[q] = writer[q]
<1>1. last \in Nat /\ proc[p] \in Processes
  BY EntriesAreNumbers DEF Types
<1>2. Idle \in Writers
  BY <1>1 DEF Idle, Writers, Zero
<1>3. [proc[p] EXCEPT !.floorWritten = recorded,
                      !.pc = IF @ = "booting" THEN "up" ELSE @] \in Processes
  BY <1>1 DEF Processes
<1> QED
  BY <1>1, <1>2, <1>3 DEF Types, WriterDone, Up, Processes

(* Nothing in the stream is the entry of an idle writer.                   *)
LEMMA NoneIsIdles ==
  ASSUME Types
  PROVE  Idle.mine \notin stream /\ Idle.at = "idle"
BY EntriesAreNumbers DEF Idle, Zero

(* A writer that ends, having recorded a marker or failed to.              *)
LEMMA DoneIInv ==
  ASSUME IInv, NEW p \in Procs, NEW recorded \in BOOLEAN, WriterDone(p, recorded),
         UNCHANGED <<last, stream, sub, past, losses>>,
         floor' \in Floor, floor # NoFloor => floor' = floor,
         floor' # NoFloor => floor'.id \in Entries, FloorTellsTheTruth',
         recorded => floor' # NoFloor
  PROVE  IInv'
<1>1. /\ Types /\ last \in Nat
      /\ UNCHANGED <<begin, unmarked, outrun>>
  BY EntriesAreNumbers DEF IInv, past
<1>2. /\ writer' \in [Procs -> Writers]
      /\ proc' \in [Procs -> Processes]
      /\ writer'[p] = Idle
      /\ proc'[p].floorWritten = recorded
      /\ \A q \in Procs : /\ proc'[q].pc = proc[q].pc \/ Up(q)'
                          /\ proc[q].pc # "off" => proc'[q].pc # "off"
                          /\ proc'[q].lastRead = proc[q].lastRead
                          /\ q # p => proc'[q] = proc[q] /\ writer'[q] = writer[q]
  BY <1>1, WriterDoneTypes
<1>3. Types'
  <2>2. sub # NoSub => sub \in Subs /\ Up(sub.proc)'
    BY <1>1, <1>2 DEF Types, Up, Subs
  <2> QED
    BY <1>1, <1>2, <2>2 DEF Types, Entries, Processes, Writers, Subs
<1>4. NewestAreKept'
  BY DEF IInv, NewestAreKept, Entries
<1>5. MarkerInv
  BY DEF IInv
<1>6. MarkerInv'
  <2>1. ASSUME NEW q \in Procs
        PROVE  WriterInv(q)'
    <3>1. CASE q = p
      BY <1>1, <1>2, <3>1, NoneIsIdles DEF WriterInv, Idle
    <3>2. CASE q # p
      <4>1. proc'[q] = proc[q] /\ writer'[q] = writer[q] /\ WriterInv(q)
        BY <1>2, <1>5, <3>2 DEF MarkerInv
      <4> QED
        BY <1>1, <4>1 DEF WriterInv, Entries
    <3> QED
      BY <3>1, <3>2
  <2>2. floor' # NoFloor => floor'.id \in Entries'
    BY DEF Entries
  <2>3. /\ floor' = NoFloor => unmarked' = begin' - 1
        /\ stream' = {} => begin' = last' + 1
        /\ outrun' => FirstIsGone'
    BY <1>1, <1>5 DEF MarkerInv, FirstIsGone, Entries
  <2> QED
    BY <2>1, <2>2, <2>3 DEF MarkerInv
<1>7. LiveInv' /\ ReplayInv' /\ SignsInv'
  <2>1. /\ begin <= begin' /\ unmarked <= unmarked'
        /\ sub # NoSub => proc'[sub.proc].lastRead = proc[sub.proc].lastRead
    BY <1>1, <1>2, EntriesAreNumbers DEF Types, Subs
  <2> QED
    BY <1>1, <1>3, <2>1, OthersStep
<1> QED
  BY <1>3, <1>4, <1>6, <1>7 DEF IInv

(* Writers that go on, or begin as their process does.                     *)
LEMMA AdvanceIInv ==
  ASSUME IInv, UNCHANGED <<last, stream, floor, sub, past, losses>>,
         proc' \in [Procs -> Processes], writer' \in [Procs -> Writers],
         \A q \in Procs :
           /\ Up(q) => proc'[q] = proc[q]
           /\ proc'[q].floorWritten => proc[q].floorWritten
           /\ writer'[q].mine = writer[q].mine
           /\ proc'[q].pc = "off" => writer'[q].at = "idle"
           /\ writer'[q].at = "idle" => writer'[q] = Idle
           /\ writer'[q].at = "setnx" =>
                /\ writer'[q].oldest \in Entries
                /\ ~outrun /\ writer'[q].oldest = writer'[q].mine =>
                     writer'[q].oldest <= begin
  PROVE  IInv'
<1>1. Types /\ UNCHANGED <<begin, unmarked, outrun>> /\ MarkerInv
  BY DEF IInv, past
<1>2. Types'
  <2>1. sub # NoSub => sub \in Subs /\ Up(sub.proc)'
    BY <1>1 DEF Types, Up, Subs
  <2> QED
    BY <1>1, <2>1 DEF Types, Entries, Processes, Writers, Subs
<1>3. NewestAreKept'
  BY DEF IInv, NewestAreKept, Entries
<1>4. MarkerInv'
  <2>1. ASSUME NEW q \in Procs
        PROVE  WriterInv(q)'
    <3>1. WriterInv(q)
      BY <1>1 DEF MarkerInv
    <3> QED
      BY <1>1, <3>1 DEF WriterInv, Entries
  <2> QED
    BY <1>1, <2>1 DEF MarkerInv, FirstIsGone, Entries, FloorTellsTheTruth
<1>5. LiveInv' /\ ReplayInv' /\ SignsInv'
  <2>1. /\ begin <= begin' /\ unmarked <= unmarked'
        /\ sub # NoSub => proc'[sub.proc].lastRead = proc[sub.proc].lastRead
    BY <1>1, EntriesAreNumbers DEF Types, Subs
  <2> QED
    BY <1>1, <1>2, <2>1, OthersStep
<1> QED
  BY <1>2, <1>3, <1>4, <1>5 DEF IInv

-----------------------------------------------------------------------------
(* One lemma per kind of step. *)
LEMMA GetIInv ==
  ASSUME IInv, NEW p \in Procs, WriterGet(p)
  PROVE  IInv'
<1>1. Types /\ MarkerInv /\ UNCHANGED <<last, stream, floor, sub, past, losses>>
  BY DEF IInv, WriterGet, shared, bounds
<1>2. CASE floor # NoFloor
  <2>1. WriterDone(p, TRUE)
    BY <1>2 DEF WriterGet
  <2>2. floor' \in Floor /\ floor'.id \in Entries /\ FloorTellsTheTruth'
    BY <1>1, <1>2 DEF Types, MarkerInv, FloorTellsTheTruth, past
  <2> QED
    BY <1>1, <1>2, <2>1, <2>2, DoneIInv
<1>3. CASE floor = NoFloor
  <2> DEFINE w == [writer[p] EXCEPT !.at = "oldest"]
  <2>1. w \in Writers /\ w.mine = writer[p].mine /\ w.at = "oldest"
    BY <1>1 DEF Types, Writers
  <2>2. writer' = [writer EXCEPT ![p] = w] /\ proc' = proc
    BY <1>3 DEF WriterGet
  <2>3. proc[p].pc # "off"
    BY <1>1 DEF WriterGet, MarkerInv, WriterInv
  <2> HIDE DEF w
  <2>4. writer' \in [Procs -> Writers] /\ writer'[p] = w
        /\ \A q \in Procs : q # p => writer'[q] = writer[q]
    BY <1>1, <2>1, <2>2 DEF Types
  <2>5. \A q \in Procs : WriterInv(q)
    BY <1>1 DEF MarkerInv
  <2>6. proc' \in [Procs -> Processes]
    BY <1>1, <2>2 DEF Types
  <2> QED
    BY <1>1, <2>1, <2>2, <2>3, <2>4, <2>5, <2>6, AdvanceIInv DEF WriterInv
<1> QED
  BY <1>2, <1>3

(* The oldest entry is the one just added only if the stream began with    *)
(* it, or was trimmed to it.                                               *)
LEMMA OldestIInv ==
  ASSUME IInv, NEW p \in Procs, WriterOldest(p)
  PROVE  IInv'
<1>1. Types /\ MarkerInv /\ UNCHANGED <<last, stream, floor, sub, past, losses>>
  BY DEF IInv, WriterOldest, shared, bounds
<1>2. CASE stream = {}
  <2>1. WriterDone(p, FALSE)
    BY <1>2 DEF WriterOldest
  <2>2. /\ floor' \in Floor /\ FloorTellsTheTruth'
        /\ floor' # NoFloor => floor'.id \in Entries
    BY <1>1 DEF Types, MarkerInv, FloorTellsTheTruth, past
  <2> QED
    BY <1>1, <2>1, <2>2, DoneIInv
<1>3. CASE stream # {}
  <2> DEFINE w == [writer[p] EXCEPT !.at = "setnx", !.oldest = OldestId(stream)]
  <2>1. /\ OldestId(stream) \in stream /\ OldestId(stream) \in 1..last
        /\ \A e \in Entries : e \in stream <=> OldestId(stream) <= e
    BY <1>1, <1>3, Oldest DEF IInv
  <2>2. ~outrun /\ OldestId(stream) = writer[p].mine => OldestId(stream) <= begin
    <3> SUFFICES ASSUME ~outrun, OldestId(stream) = writer[p].mine
                 PROVE  OldestId(stream) <= begin
      OBVIOUS
    <3>1. WriterInv(p) /\ writer[p].mine \in stream
      BY <1>1, <2>1 DEF MarkerInv
    <3>2. ~ \E x \in stream : x < writer[p].mine
      BY <1>1, <2>1, EntriesAreNumbers
    <3>3. writer[p].mine = begin
      BY <3>1, <3>2 DEF WriterInv
    <3> QED
      BY <1>1, <3>3, EntriesAreNumbers
  <2>3. OldestId(stream) \in 0..last /\ OldestId(stream) \in Entries
    BY <1>1, <2>1, EntriesAreNumbers DEF Entries
  <2>4. w \in Writers /\ w.mine = writer[p].mine /\ w.at = "setnx" /\ w.oldest = OldestId(stream)
    BY <1>1, <2>3 DEF Types, Writers
  <2>5. writer' = [writer EXCEPT ![p] = w] /\ proc' = proc
    BY <1>3 DEF WriterOldest
  <2>6. proc[p].pc # "off"
    BY <1>1 DEF WriterOldest, MarkerInv, WriterInv
  <2> HIDE DEF w
  <2>7. writer' \in [Procs -> Writers] /\ writer'[p] = w
        /\ \A q \in Procs : q # p => writer'[q] = writer[q]
    BY <1>1, <2>4, <2>5 DEF Types
  <2>8. \A q \in Procs : WriterInv(q)
    BY <1>1 DEF MarkerInv
  <2>9. proc' \in [Procs -> Processes]
    BY <1>1, <2>5 DEF Types
  <2> QED
    BY <1>1, <2>2, <2>3, <2>4, <2>5, <2>6, <2>7, <2>8, <2>9, AdvanceIInv DEF WriterInv
<1> QED
  BY <1>2, <1>3

(* SET NX: with no marker there, what came before the stream's first entry *)
(* was lost unmarked.                                                      *)
LEMMA SetIInv ==
  ASSUME IInv, NEW p \in Procs, WriterSet(p)
  PROVE  IInv'
<1>1. /\ Types /\ MarkerInv /\ WriterDone(p, TRUE)
      /\ UNCHANGED <<last, stream, sub, past, losses>>
      /\ UNCHANGED <<begin, unmarked, outrun>>
  BY DEF IInv, WriterSet, bounds, past
<1>2. /\ writer[p].oldest \in Entries
      /\ ~outrun /\ writer[p].oldest = writer[p].mine => writer[p].oldest <= begin
  BY <1>1 DEF WriterSet, MarkerInv, WriterInv
<1>3. writer[p].oldest \in 0..MaxEntries /\ writer[p].oldest # 0
  BY <1>1, <1>2, EntriesAreNumbers, RedisAssumption DEF Types
<1>4. CASE floor = NoFloor
  <2>1. floor' = FloorOf(p)
    BY <1>4 DEF WriterSet
  <2>2. /\ floor' \in Floor /\ floor' # NoFloor /\ floor'.id \in Entries
    BY <1>1, <1>2, <1>3, <1>4, <2>1 DEF FloorOf, Floor, NoFloor, Zero, Types, Processes
  <2>3. FloorTellsTheTruth'
    <3>1. floor'.created => writer[p].oldest = writer[p].mine
      BY <2>1 DEF FloorOf
    <3>2. floor'.id = writer[p].oldest
      BY <2>1 DEF FloorOf
    <3>3. unmarked = begin - 1
      BY <1>1, <1>4 DEF MarkerInv
    <3> QED
      BY <1>1, <1>2, <3>1, <3>2, <3>3, EntriesAreNumbers DEF FloorTellsTheTruth
  <2> QED
    BY <1>1, <1>4, <2>2, <2>3, DoneIInv
<1>5. CASE floor # NoFloor
  <2>1. floor' = floor
    BY <1>5 DEF WriterSet
  <2>2. floor' \in Floor /\ floor'.id \in Entries /\ FloorTellsTheTruth'
    BY <1>1, <1>5, <2>1 DEF Types, MarkerInv, FloorTellsTheTruth
  <2> QED
    BY <1>1, <1>5, <2>1, <2>2, DoneIInv
<1> QED
  BY <1>4, <1>5

LEMMA FailsIInv ==
  ASSUME IInv, NEW p \in Procs, WriterFails(p)
  PROVE  IInv'
<1>1. /\ Types /\ MarkerInv /\ WriterDone(p, FALSE)
      /\ UNCHANGED <<last, stream, floor, sub, past, losses>>
  BY DEF IInv, WriterFails, shared
<1>2. /\ floor' \in Floor /\ FloorTellsTheTruth'
      /\ floor' # NoFloor => floor'.id \in Entries
  BY <1>1 DEF Types, MarkerInv, FloorTellsTheTruth, past
<1> QED
  BY <1>1, <1>2, DoneIInv

LEMMA BootIInv ==
  ASSUME IInv, NEW p \in Procs, Boot(p)
  PROVE  IInv'
<1>1. Types /\ MarkerInv /\ UNCHANGED <<last, stream, floor, sub, past, losses>>
  BY DEF IInv, Boot, shared
<1> DEFINE w == [Idle EXCEPT !.at = "get"]
           c(commands) == [pc |-> IF CanMark(commands) THEN "booting" ELSE "up",
                           startedEmpty |-> NewestId(stream) = Zero,
                           floorWritten |-> FALSE, lastRead |-> NewestId(stream),
                           commands |-> commands]
<1>2. last \in Nat /\ NewestId(stream) \in 0..last
  BY <1>1, EntriesAreNumbers, Newest DEF IInv, Zero
<1>3. PICK commands \in Adapters :
        /\ proc' = [proc EXCEPT ![p] = c(commands)]
        /\ writer' = IF CanMark(commands) THEN [writer EXCEPT ![p] = w] ELSE writer
  BY DEF Boot
<1>4. commands \in SUBSET {"get", "setnx"}
  BY RedisAssumption
<1>5. /\ c(commands) \in Processes /\ c(commands).pc # "off"
      /\ c(commands).floorWritten = FALSE
  BY <1>2, <1>4 DEF Processes
<1>6. w \in Writers /\ w.mine = Idle.mine /\ w.at = "get"
  BY <1>2 DEF Idle, Writers, Zero
<1>7. proc[p].pc = "off" /\ writer[p] = Idle /\ ~Up(p)
  BY <1>1 DEF Boot, MarkerInv, WriterInv, Up
<1> HIDE DEF w, c
<1>8. /\ proc' \in [Procs -> Processes] /\ writer' \in [Procs -> Writers]
      /\ proc'[p] = c(commands) /\ writer'[p] \in {w, Idle}
      /\ \A q \in Procs : q # p => proc'[q] = proc[q] /\ writer'[q] = writer[q]
  BY <1>1, <1>3, <1>5, <1>6, <1>7 DEF Types
<1>9. \A q \in Procs : WriterInv(q)
  BY <1>1 DEF MarkerInv
<1>10. Idle.at = "idle"
  BY DEF Idle
<1> QED
  BY <1>1, <1>5, <1>6, <1>7, <1>8, <1>9, <1>10, AdvanceIInv DEF WriterInv

(* A lost stream's ids are lost for good, and unmarked if no marker is     *)
(* left.                                                                   *)
LEMMA LoseStreamIInv ==
  ASSUME IInv, LoseStream
  PROVE  IInv'
<1>1. /\ Types /\ MarkerInv /\ stream' \in {stream, {}} /\ floor' \in {floor, NoFloor}
      /\ begin' = IF stream' = {} THEN last + 1 ELSE begin
      /\ unmarked' = IF floor' = NoFloor THEN begin' - 1 ELSE unmarked
      /\ losses' = losses + 1
      /\ UNCHANGED <<last, proc, writer, sub, outrun>>
  BY DEF IInv, LoseStream
<1>2. /\ last \in Nat /\ begin \in Nat /\ unmarked \in Nat /\ losses \in Nat
      /\ 1 <= begin /\ begin <= last + 1 /\ unmarked <= begin - 1
  BY <1>1, EntriesAreNumbers DEF Types
<1>3. /\ begin' \in Nat /\ begin <= begin' /\ begin' <= last + 1
      /\ unmarked' \in Nat /\ unmarked <= unmarked' /\ unmarked' <= begin' - 1
  BY <1>1, <1>2
<1>4. Types'
  <2>1. NoFloor \in Floor
    BY RedisAssumption DEF NoFloor, Floor, Zero
  <2>2. stream' \subseteq Entries' /\ stream' \subseteq begin'..last'
    BY <1>1, <1>2 DEF Types, Entries
  <2>3. begin' \in 1..(last' + 1) /\ unmarked' \in 0..(begin' - 1) /\ losses' \in Nat
    BY <1>1, <1>2, <1>3
  <2> QED
    BY <1>1, <2>1, <2>2, <2>3 DEF Types, Entries, Processes, Writers, Subs, Up
<1>5. NewestAreKept'
  BY <1>1 DEF IInv, NewestAreKept, Entries
<1>6. MarkerInv'
  <2>1. ASSUME NEW q \in Procs
        PROVE  WriterInv(q)'
    <3>1. WriterInv(q)
      BY <1>1 DEF MarkerInv
    <3>2. losses' # 0
      BY <1>1, <1>2
    <3>3. ~outrun' /\ writer'[q].mine \in stream' =>
            writer'[q].mine = begin' \/ \E x \in stream' : x < writer'[q].mine
      BY <1>1, <3>1 DEF WriterInv
    <3>4. writer'[q].at = "setnx" =>
            /\ writer'[q].oldest \in Entries'
            /\ ~outrun' /\ writer'[q].oldest = writer'[q].mine => writer'[q].oldest <= begin'
      <4>1. Entries' = Entries
        BY <1>1 DEF Entries
      <4>2. \A e \in Entries : e <= begin => e <= begin'
        BY <1>1, <1>2, <1>3, EntriesAreNumbers
      <4> QED
        BY <1>1, <3>1, <4>1, <4>2 DEF WriterInv
    <3> QED
      BY <1>1, <3>1, <3>2, <3>3, <3>4 DEF WriterInv
  <2>2. FloorTellsTheTruth'
    <3>1. CASE floor' = NoFloor
      BY <3>1 DEF FloorTellsTheTruth, NoFloor
    <3>2. CASE floor' = floor /\ floor # NoFloor
      <4>1. floor.created /\ ~outrun => floor.id <= unmarked + 1
        BY <1>1 DEF MarkerInv, FloorTellsTheTruth
      <4> QED
        BY <1>1, <3>2, <4>1 DEF FloorTellsTheTruth
    <3> QED
      BY <1>1, <3>1, <3>2
  <2>3. /\ floor' = NoFloor => unmarked' = begin' - 1
        /\ floor' # NoFloor => floor'.id \in Entries'
        /\ stream' = {} => begin' = last' + 1
        /\ outrun' => FirstIsGone'
    BY <1>1 DEF MarkerInv, FirstIsGone, Entries
  <2> QED
    BY <2>1, <2>2, <2>3 DEF MarkerInv
<1>7. LiveInv' /\ ReplayInv' /\ SignsInv'
  <2>1. \A e \in Entries : e \in stream' => e \in stream
    BY <1>1
  <2> QED
    BY <1>1, <1>3, <1>4, <2>1, OthersStep
<1> QED
  BY <1>4, <1>5, <1>6, <1>7 DEF IInv

(* A trimmed stream still has entries, and no longer the first there was. *)
LEMMA AddKeeps ==
  ASSUME Types, NewestAreKept, Add
  PROVE  /\ last' = last + 1 /\ last' \in Nat /\ last' <= MaxEntries
         /\ stream' \subseteq stream \cup {last'} /\ last' \in stream'
         /\ \A e : e \in Entries' <=> e \in Entries \/ e = last'
         /\ NewestAreKept'
         /\ stream' # stream \cup {last'} => 1 \in Entries' \ stream'
<1>1. /\ last \in Nat /\ stream \subseteq Entries /\ MaxEntries \in Nat
      /\ \A e : e \in Entries <=> e \in Nat /\ 1 <= e /\ e <= last
      /\ last' = last + 1 /\ last < MaxEntries
  BY EntriesAreNumbers, RedisAssumption DEF Add
<1>2. \A e : e \in Entries' <=> e \in Entries \/ e = last'
  BY <1>1 DEF Entries
<1>3. PICK kept \in SUBSET (stream \cup {last'}) :
        /\ \A x \in kept, y \in (stream \cup {last'}) \ kept : y < x
        /\ kept # stream \cup {last'} => Cardinality(kept) >= MaxLen
        /\ stream' = kept
  BY DEF Add
<1>4. kept # {}
  <2>1. Cardinality({}) = 0 /\ MaxLen \in Nat /\ MaxLen >= 1
    BY FS_EmptySet, RedisAssumption
  <2> QED
    BY <1>3, <2>1
<1>5. last' \in stream'
  <2> SUFFICES ASSUME last' \notin kept
               PROVE  FALSE
    BY <1>3
  <2>1. PICK x \in kept : x \in stream
    BY <1>3, <1>4
  <2>2. last' < x /\ x <= last
    BY <1>1, <1>3, <2>1
  <2> QED
    BY <1>1, <2>1, <2>2
<1>6. NewestAreKept'
  <2> SUFFICES ASSUME NEW x \in stream', NEW y \in Entries', x <= y, y \notin stream'
               PROVE  FALSE
    BY DEF NewestAreKept
  <2>1. y \in stream \cup {last'}
    BY <1>1, <1>2, <1>3 DEF NewestAreKept
  <2> QED
    BY <1>1, <1>2, <1>3, <2>1
<1>7. ASSUME stream' # stream \cup {last'}
      PROVE  1 \in Entries' \ stream'
  <2>1. PICK y \in stream \cup {last'} : y \notin stream'
    BY <1>3, <1>7
  <2>2. y \in Entries /\ 1 \in Entries /\ 1 <= y
    BY <1>1, <1>5, <2>1
  <2>3. 1 \notin stream'
    BY <1>2, <1>6, <2>1, <2>2 DEF NewestAreKept
  <2> QED
    BY <1>2, <2>2, <2>3
<1> QED
  BY <1>1, <1>2, <1>3, <1>5, <1>6, <1>7

LEMMA PublishIInv ==
  ASSUME IInv, NEW p \in Procs, Publish(p)
  PROVE  IInv'
<1>1. /\ Types /\ NewestAreKept /\ MarkerInv /\ Up(p) /\ Add
      /\ UNCHANGED <<floor, proc, sub, begin, unmarked, losses>>
      /\ outrun' = (outrun \/ Outruns)
  BY DEF IInv, Publish, Add, bounds
<1>2. /\ last' = last + 1 /\ last' \in Nat /\ last' <= MaxEntries
      /\ stream' \subseteq stream \cup {last'} /\ last' \in stream'
      /\ \A e : e \in Entries' <=> e \in Entries \/ e = last'
      /\ NewestAreKept'
      /\ stream' # stream \cup {last'} => 1 \in Entries' \ stream'
  BY <1>1, AddKeeps
<1>3. /\ last \in Nat /\ begin \in Nat /\ unmarked \in Nat
      /\ 1 <= begin /\ begin <= last + 1 /\ unmarked <= begin - 1
      /\ stream \subseteq Entries
      /\ \A e : e \in Entries <=> e \in Nat /\ 1 <= e /\ e <= last
      /\ \A e \in stream : begin <= e
  BY <1>1, EntriesAreNumbers
<1> DEFINE w == [Idle EXCEPT !.at = "get", !.mine = last']
<1>4. w \in Writers' /\ w.mine = last' /\ w.at = "get"
  <2>1. {0, last'} \subseteq 0..last'
    BY <1>2
  <2> QED
    BY <2>1 DEF Idle, Writers, Zero
<1>5. writer' \in {writer, [writer EXCEPT ![p] = w]}
  BY DEF Publish
<1> HIDE DEF w
<1>6. writer' \in [Procs -> Writers']
  <2>1. writer \in [Procs -> Writers']
    BY <1>1, <1>2, <1>3 DEF Types, Writers
  <2> QED
    BY <1>4, <1>5, <2>1
<1>7. outrun' \in BOOLEAN
  BY <1>1 DEF Types, Outruns
<1>8. Types'
  <2>1. proc' \in [Procs -> Processes'] /\ (sub # NoSub => sub \in Subs')
    BY <1>1, <1>2, <1>3 DEF Types, Processes, Subs
  <2>2. stream' \subseteq Entries' /\ stream' \subseteq begin'..last'
    BY <1>1, <1>2, <1>3
  <2>3. last' \in 0..MaxEntries /\ begin' \in 1..(last' + 1) /\ unmarked' \in 0..(begin' - 1)
    BY <1>1, <1>2, <1>3, RedisAssumption
  <2> QED
    BY <1>1, <1>6, <1>7, <2>1, <2>2, <2>3 DEF Types, Up
<1>9. \A q \in Procs : writer'[q] = writer[q] \/ (q = p /\ writer'[q] = w)
  BY <1>1, <1>5 DEF Types
<1>10. ASSUME NEW q \in Procs
       PROVE  WriterInv(q)'
  <2>1. WriterInv(q) /\ writer[q] \in Writers /\ proc'[q] = proc[q]
    BY <1>1 DEF MarkerInv, Types
  <2>2. proc'[p].pc # "off"
    BY <1>1 DEF Up
  <2>3. ASSUME ~outrun', writer'[q].mine \in stream'
        PROVE  writer'[q].mine = begin' \/ \E x \in stream' : x < writer'[q].mine
    <3>1. ~outrun /\ ~Outruns
      BY <1>1, <2>3
    <3>2. CASE stream' # stream \cup {last'}
      <4>1. ~ \A x \in stream' : writer'[q].mine <= x
        BY <2>3, <3>1, <3>2 DEF Outruns
      <4>2. stream' \subseteq Nat
        BY <1>2, <1>3
      <4>3. PICK x \in stream' : ~(writer'[q].mine <= x)
        BY <4>1
      <4>4. x \in Nat /\ writer'[q].mine \in Nat
        BY <2>3, <4>2
      <4> QED
        BY <4>3, <4>4
    <3>3. CASE stream' = stream \cup {last'} /\ writer'[q] = w
      <4>1. CASE stream = {}
        BY <1>1, <1>2, <1>4, <3>3, <4>1 DEF MarkerInv
      <4>2. CASE stream # {}
        <5>1. PICK x \in stream : TRUE
          BY <4>2
        <5>2. x \in stream' /\ x < last'
          BY <1>2, <1>3, <3>3, <5>1
        <5> QED
          BY <1>4, <3>3, <5>2
      <4> QED
        BY <4>1, <4>2
    <3>4. CASE stream' = stream \cup {last'} /\ writer'[q] = writer[q]
      <4>1. writer[q].mine \in 0..last
        BY <2>1 DEF Writers
      <4>2. writer[q].mine \in stream
        BY <1>2, <1>3, <2>3, <3>4, <4>1
      <4> QED
        BY <1>1, <2>1, <3>1, <3>4, <4>2 DEF WriterInv
    <3> QED
      BY <1>9, <3>2, <3>3, <3>4
  <2>4. writer'[q].at = "setnx" =>
          /\ writer'[q].oldest \in Entries'
          /\ ~outrun' /\ writer'[q].oldest = writer'[q].mine => writer'[q].oldest <= begin'
    <3>1. CASE writer'[q] = w
      BY <1>4, <3>1
    <3>2. CASE writer'[q] = writer[q]
      BY <1>1, <1>2, <2>1, <3>2 DEF WriterInv
    <3> QED
      BY <1>9, <3>1, <3>2
  <2>5. /\ proc'[q].floorWritten => floor' # NoFloor \/ losses' # 0
        /\ proc'[q].pc = "off" => writer'[q].at = "idle"
        /\ writer'[q].at = "idle" => writer'[q] = Idle
    BY <1>1, <1>4, <1>9, <2>1, <2>2 DEF WriterInv
  <2> QED
    BY <2>3, <2>4, <2>5 DEF WriterInv
<1>11. MarkerInv'
  <2>1. FloorTellsTheTruth' /\ (floor' # NoFloor => floor'.id \in Entries')
    BY <1>1, <1>2 DEF MarkerInv, FloorTellsTheTruth
  <2>2. outrun' => FirstIsGone'
    <3>1. CASE outrun
      BY <1>1, <1>2, <1>3, <3>1 DEF MarkerInv, FirstIsGone
    <3>2. CASE Outruns
      BY <1>2, <3>2 DEF Outruns, FirstIsGone
    <3> QED
      BY <1>1, <3>1, <3>2
  <2>3. floor' = NoFloor => unmarked' = begin' - 1
    BY <1>1 DEF MarkerInv
  <2> QED
    BY <1>2, <1>10, <2>1, <2>2, <2>3 DEF MarkerInv
<1>12. LiveInv' /\ ReplayInv' /\ SignsInv'
  <2>1. \A e \in Entries : e \in stream' => e \in stream
    BY <1>2, <1>3
  <2>2. begin <= begin' /\ unmarked <= unmarked'
    BY <1>1, <1>3
  <2>3. outrun => outrun'
    BY <1>1, Zenon
  <2> QED
    BY <1>1, <1>2, <1>8, <2>1, <2>2, <2>3, OthersStep
<1> QED
  BY <1>2, <1>8, <1>11, <1>12 DEF IInv

LEMMA ReadIInv ==
  ASSUME IInv, NEW p \in Procs, Read(p)
  PROVE  IInv'
<1> DEFINE batch == {e \in stream : e > proc[p].lastRead}
<1>1. /\ Types /\ batch # {} /\ proc[p].pc # "off"
      /\ proc' = [proc EXCEPT ![p].lastRead = NewestId(batch)]
      /\ sub' = IF Serving(p)
                THEN [sub EXCEPT !.live = @ \cup batch, !.skipped = @ \cup PassedOver(p, batch)]
                ELSE sub
      /\ UNCHANGED <<last, stream, floor, writer, begin, unmarked, outrun, losses>>
  BY DEF IInv, Read, shared, past, bounds
<1>2. last \in Nat /\ proc[p] \in Processes /\ proc[p].lastRead \in 0..last
  BY <1>1, EntriesAreNumbers DEF Types, Processes
<1>3. NewestId(batch) = last
  <2>1. proc[p].lastRead \in Nat
    BY <1>2
  <2> QED
    BY <1>1, <2>1, Ends DEF IInv
<1>4. proc' = [proc EXCEPT ![p].lastRead = last]
  BY <1>1, <1>3
<1>5. proc' \in [Procs -> Processes]
  BY <1>1, <1>2, <1>4 DEF Types, Processes
<1>6. \A q \in Procs : proc'[q].pc = proc[q].pc /\ proc'[q].floorWritten = proc[q].floorWritten
  BY <1>1, <1>4 DEF Types, Processes
<1>7. batch \subseteq Entries /\ PassedOver(p, batch) \subseteq Entries
  BY <1>1, EntriesAreNumbers DEF PassedOver
<1>8. \A e \in Entries : e > proc[p].lastRead => e \in batch \cup PassedOver(p, batch)
  <2>1. last \in batch
    <3>1. proc[p].lastRead \in Nat
      BY <1>2
    <3> QED
      BY <1>1, <3>1, Ends DEF IInv
  <2> QED
    BY <1>1, <1>2, <1>3, <2>1, EntriesAreNumbers DEF PassedOver
<1> HIDE DEF batch
<1>9. sub # NoSub => /\ sub \in Subs /\ sub' \in Subs /\ sub' # NoSub
                     /\ sub'.proc = sub.proc /\ sub'.at = sub.at /\ sub'.top = sub.top
                     /\ sub'.got = sub.got /\ sub'.cursor = sub.cursor
                     /\ sub'.truncated = sub.truncated /\ sub'.vouched = sub.vouched
                     /\ sub'.newest = sub.newest /\ sub'.oldest = sub.oldest
                     /\ sub'.blind = sub.blind
  <2>1. NoSub \notin Subs
    BY DEF NoSub, Subs
  <2>2. CASE sub # NoSub /\ Serving(p)
    <3> DEFINE live == sub.live \cup batch
               skipped == sub.skipped \cup PassedOver(p, batch)
    <3>1. sub \in Subs /\ sub' = [sub EXCEPT !.live = live, !.skipped = skipped]
      BY <1>1, <2>2 DEF Types
    <3>2. live \in SUBSET Entries /\ skipped \in SUBSET Entries
      BY <1>7, <3>1 DEF Subs
    <3> HIDE DEF live, skipped
    <3>3. sub' \in Subs
      BY <3>1, <3>2 DEF Subs
    <3> QED
      BY <2>1, <3>1, <3>3 DEF Subs
  <2>3. CASE sub # NoSub /\ ~Serving(p)
    BY <1>1, <2>1, <2>3 DEF Types
  <2> QED
    BY <2>2, <2>3
<1>10. sub = NoSub => sub' = NoSub
  BY <1>1 DEF Serving
<1>11. Types'
  <2>1. sub' # NoSub => Up(sub.proc)'
    BY <1>1, <1>6, <1>9, <1>10 DEF Types, Up, Subs
  <2>2. sub' # NoSub => sub' \in Subs'
    BY <1>1, <1>9, <1>10 DEF Subs, Entries
  <2> QED
    BY <1>1, <1>5, <2>1, <2>2 DEF Types, Entries, Processes, Writers
<1>12. NewestAreKept' /\ MarkerInv'
  <2>1. ASSUME NEW q \in Procs
        PROVE  WriterInv(q)'
    BY <1>1, <1>6 DEF IInv, MarkerInv, WriterInv, Entries
  <2>2. NewestAreKept'
    BY <1>1 DEF IInv, NewestAreKept, Entries
  <2> QED
    BY <1>1, <2>1, <2>2 DEF IInv, MarkerInv, FirstIsGone, Entries, FloorTellsTheTruth
<1>13. LiveInv'
  <2> SUFFICES ASSUME sub # NoSub, NEW e \in Entries,
                      sub.top < e, e <= proc'[sub.proc].lastRead
               PROVE  e \in sub'.live \cup sub'.skipped
    BY <1>1, <1>9, <1>10 DEF LiveInv, Entries
  <2>1. CASE Serving(p)
    <3>1. /\ sub.proc = p /\ sub'.live = sub.live \cup batch
          /\ sub'.skipped = sub.skipped \cup PassedOver(p, batch)
      BY <1>1, <1>9, <2>1 DEF Serving, Subs
    <3>2. CASE e <= proc[p].lastRead
      BY <3>1, <3>2 DEF IInv, LiveInv
    <3>3. CASE e > proc[p].lastRead
      BY <1>8, <3>1, <3>3
    <3> QED
      BY <1>2, <3>2, <3>3 DEF Entries
  <2>2. CASE ~Serving(p)
    <3>1. sub' = sub /\ sub.proc # p /\ sub.proc \in Procs
      BY <1>1, <1>9, <2>2 DEF Serving, Subs
    <3>2. proc'[sub.proc] = proc[sub.proc]
      BY <1>1, <1>4, <3>1 DEF Types
    <3> QED
      BY <3>1, <3>2 DEF IInv, LiveInv
  <2> QED
    BY <2>1, <2>2
<1>14. ReplayInv'
  BY <1>1, <1>9, <1>10 DEF IInv, ReplayInv, Missing, Untold, Entries
<1>15. SignsInv'
  BY <1>1, <1>9, <1>10 DEF IInv, SignsInv, FirstIsGone, Entries
<1> QED
  BY <1>11, <1>12, <1>13, <1>14, <1>15 DEF IInv

(* A process that goes takes its subscriber with it.                       *)
LEMMA GoesIInv ==
  ASSUME IInv, NEW p \in Procs, UNCHANGED <<last, stream, floor, past, losses>>,
         proc' = [proc EXCEPT ![p] = Off],
         writer' = [writer EXCEPT ![p] = Idle],
         sub' = IF Serving(p) THEN NoSub ELSE sub
  PROVE  IInv'
<1>1. Types /\ MarkerInv /\ last \in Nat /\ UNCHANGED <<begin, unmarked, outrun>>
  BY EntriesAreNumbers DEF IInv, past
<1>2. Off \in Processes /\ Idle \in Writers
  BY <1>1 DEF Off, Idle, Zero, Processes, Writers
<1>3. /\ proc' \in [Procs -> Processes] /\ writer' \in [Procs -> Writers]
      /\ proc'[p] = Off /\ writer'[p] = Idle
      /\ \A q \in Procs : q # p => proc'[q] = proc[q] /\ writer'[q] = writer[q]
  BY <1>1, <1>2 DEF Types
<1>4. sub' # NoSub => sub' = sub /\ sub.proc # p /\ sub \in Subs /\ sub.proc \in Procs
  BY <1>1 DEF Serving, Types, Subs
<1>5. Types'
  <2>1. sub' # NoSub => sub' \in Subs' /\ Up(sub.proc)'
    BY <1>1, <1>3, <1>4 DEF Types, Up, Subs, Entries
  <2> QED
    BY <1>1, <1>3, <2>1 DEF Types, Entries, Processes, Writers
<1>6. NewestAreKept'
  BY DEF IInv, NewestAreKept, Entries
<1>7. MarkerInv'
  <2>1. ASSUME NEW q \in Procs
        PROVE  WriterInv(q)'
    <3>1. CASE q = p
      BY <1>1, <1>3, <3>1, NoneIsIdles DEF WriterInv, Off, Idle
    <3>2. CASE q # p
      <4>1. proc'[q] = proc[q] /\ writer'[q] = writer[q] /\ WriterInv(q)
        BY <1>1, <1>3, <3>2 DEF MarkerInv
      <4> QED
        BY <1>1, <4>1 DEF WriterInv, Entries
    <3> QED
      BY <3>1, <3>2
  <2> QED
    BY <1>1, <2>1 DEF MarkerInv, FirstIsGone, Entries, FloorTellsTheTruth
<1>8. LiveInv' /\ ReplayInv' /\ SignsInv'
  <2>1. CASE sub' = NoSub
    BY <2>1 DEF LiveInv, ReplayInv, SignsInv
  <2>2. CASE sub' # NoSub
    <3>1. sub' = sub /\ proc'[sub.proc].lastRead = proc[sub.proc].lastRead
      BY <1>3, <1>4, <2>2
    <3>2. begin <= begin' /\ unmarked <= unmarked'
      BY <1>1, EntriesAreNumbers
    <3> QED
      BY <1>1, <1>5, <3>1, <3>2, OthersStep
  <2> QED
    BY <2>1, <2>2
<1> QED
  BY <1>5, <1>6, <1>7, <1>8 DEF IInv

LEMMA CloseIInv ==
  ASSUME IInv, NEW p \in Procs, Close(p)
  PROVE  IInv'
<1>1. Types /\ writer[p] = Idle
  BY DEF IInv, MarkerInv, WriterInv, Close
<1>2. writer' = [writer EXCEPT ![p] = Idle]
  BY <1>1 DEF Types, Close
<1> QED
  BY <1>2, GoesIInv DEF Close, shared, bounds

LEMMA DieIInv ==
  ASSUME IInv, NEW p \in Procs, Die(p)
  PROVE  IInv'
BY GoesIInv DEF Die, shared

LEMMA NoSubIsNoSub == NoSub \notin Subs
  BY DEF NoSub, Subs

(* The subscriber's own steps touch nothing else.                          *)
LEMMA SubStep ==
  ASSUME IInv, UNCHANGED <<shared, proc, writer, past, bounds>>,
         sub' # NoSub => sub' \in Subs /\ proc[sub'.proc].pc = "up"
  PROVE  /\ Types' /\ NewestAreKept' /\ MarkerInv'
         /\ UNCHANGED <<last, stream, floor, proc, begin, unmarked, outrun>>
<1>1. UNCHANGED <<last, stream, floor, proc, writer, begin, unmarked, outrun, losses>>
  BY DEF shared, past, bounds
<1>2. Types'
  <2>1. sub' # NoSub => sub' \in Subs' /\ Up(sub.proc)'
    BY <1>1 DEF Subs, Entries, Up
  <2> QED
    BY <1>1, <2>1 DEF IInv, Types, Entries, Processes, Writers
<1>3. NewestAreKept'
  BY <1>1 DEF IInv, NewestAreKept, Entries
<1>4. MarkerInv'
  <2>1. ASSUME NEW q \in Procs
        PROVE  WriterInv(q)'
    BY <1>1 DEF IInv, MarkerInv, WriterInv, Entries
  <2> QED
    BY <1>1, <2>1 DEF IInv, MarkerInv, FirstIsGone, Entries, FloorTellsTheTruth
<1> QED
  BY <1>1, <1>2, <1>3, <1>4

LEMMA LeaveIInv ==
  ASSUME IInv, Leave
  PROVE  IInv'
<1>1. Types' /\ NewestAreKept' /\ MarkerInv'
  BY SubStep DEF Leave
<1> QED
  BY <1>1 DEF IInv, Leave, LiveInv, ReplayInv, SignsInv

LEMMA AskIInv ==
  ASSUME IInv, NEW p \in Procs, NEW cursor \in 0..last, Ask(p, cursor)
  PROVE  IInv'
<1>1. Types /\ last \in Nat
  BY EntriesAreNumbers DEF IInv
<1>2. sub' = [at |-> "asked", proc |-> p, cursor |-> cursor,
              live |-> {}, skipped |-> {}, got |-> {}, top |-> last, vouched |-> FALSE,
              newest |-> Unread, oldest |-> Unread, truncated |-> FALSE, blind |-> FALSE]
      /\ proc[p].pc = "up" /\ UNCHANGED <<shared, proc, writer, past, bounds>>
  BY DEF Ask, Up
<1>3. sub' \in Subs
  <2>1. last \in 0..last /\ Unread \in -1..last
    BY <1>1 DEF Unread
  <2> QED
    BY <1>2, <2>1 DEF Subs
<1>4. /\ Types' /\ NewestAreKept' /\ MarkerInv'
      /\ UNCHANGED <<last, stream, floor, proc, begin, unmarked, outrun>>
  BY <1>2, <1>3, SubStep
<1>5. LiveInv'
  <2>1. proc[p].lastRead \in 0..last
    BY <1>1 DEF Types, Processes
  <2> QED
    BY <1>1, <1>2, <1>4, <2>1, EntriesAreNumbers DEF LiveInv, Entries
<1>6. ReplayInv' /\ SignsInv'
  BY <1>2 DEF ReplayInv, SignsInv
<1> QED
  BY <1>4, <1>5, <1>6 DEF IInv

(* Everything between the cursor and the newest entry that the stream      *)
(* still holds, or a gap of more than the limit.                           *)
LEMMA ScanIInv ==
  ASSUME IInv, Scan
  PROVE  IInv'
<1> DEFINE after == {e \in stream : e > sub.cursor}
           over == Cardinality(after) > MaxReplay
<1>1. sub # NoSub /\ sub.at = "asked"
  BY DEF Scan, NoSub
<1>2. /\ Types /\ last \in Nat /\ stream \subseteq Entries
      /\ sub \in Subs /\ proc[sub.proc].pc = "up"
      /\ sub.cursor \in 0..last /\ proc[sub.proc].lastRead \in 0..last
  BY <1>1, EntriesAreNumbers DEF IInv, Types, Subs, Up, Processes
<1>3. /\ sub' = [sub EXCEPT !.at = IF over THEN "open" ELSE "scanned", !.truncated = over,
                            !.got = IF over THEN {} ELSE after,
                            !.top = last, !.vouched = Readable.created]
      /\ UNCHANGED <<shared, proc, writer, past, bounds>>
  BY DEF Scan
<1>4. Readable.created \in BOOLEAN /\ over \in BOOLEAN /\ after \in SUBSET Entries
      /\ last \in 0..last
  <2>1. floor.created \in BOOLEAN /\ NoFloor.created \in BOOLEAN
    BY <1>2 DEF Types, Floor, NoFloor
  <2>2. Readable = floor \/ Readable = NoFloor
    BY DEF Readable
  <2>3. Readable.created \in BOOLEAN
    BY <2>1, <2>2, Zenon
  <2> QED
    BY <1>2, <2>3
<1>5. over => Cardinality({e \in 1..last : e > sub.cursor}) > MaxReplay
  <2>1. IsFiniteSet({e \in 1..last : e > sub.cursor})
    <3>1. IsFiniteSet(1..last)
      BY <1>2, FS_Interval
    <3>2. {e \in 1..last : e > sub.cursor} \in SUBSET (1..last)
      OBVIOUS
    <3> QED
      BY <3>1, <3>2, FS_Subset
  <2>2. after \in SUBSET {e \in 1..last : e > sub.cursor}
    BY <1>2 DEF Entries
  <2>3. Cardinality(after) <= Cardinality({e \in 1..last : e > sub.cursor})
    BY <2>1, <2>2, FS_Subset
  <2>4. Cardinality(after) \in Nat /\ Cardinality({e \in 1..last : e > sub.cursor}) \in Nat
    BY <2>1, <2>2, FS_Subset, FS_CardinalityType
  <2>5. MaxReplay \in Nat
    BY RedisAssumption
  <2> QED
    BY <2>3, <2>4, <2>5
<1>6. \A e \in Entries : sub.cursor < e /\ e \notin after => e \notin stream
  BY <1>2 DEF Entries
<1> HIDE DEF after, over
<1>7. /\ sub' \in Subs /\ sub' # NoSub
      /\ sub'.proc = sub.proc /\ sub'.cursor = sub.cursor
      /\ sub'.top = last /\ sub'.vouched = Readable.created /\ sub'.truncated = over
      /\ over => sub'.at = "open" /\ sub'.got = {}
      /\ ~over => sub'.at = "scanned" /\ sub'.got = after
  BY <1>2, <1>3, <1>4 DEF Subs, NoSub
<1>8. /\ Types' /\ NewestAreKept' /\ MarkerInv'
      /\ UNCHANGED <<last, stream, floor, proc, begin, unmarked, outrun>>
  BY <1>2, <1>3, <1>7, SubStep
<1>9. LiveInv'
  BY <1>2, <1>7, <1>8 DEF LiveInv, Entries
<1>10. ReplayInv'
  BY <1>6, <1>7, <1>8 DEF ReplayInv, Missing, Entries
<1>11. SignsInv'
  <2>1. Readable.created => floor # NoFloor
    BY DEF Readable, NoFloor
  <2>2. Readable.created => 1 \in Entries
    BY <1>2, <2>1, EntriesAreNumbers DEF IInv, MarkerInv
  <2> QED
    BY <1>5, <1>7, <1>8, <2>2 DEF SignsInv, Entries
<1> QED
  BY <1>8, <1>9, <1>10, <1>11 DEF IInv

(* A cursor above the newest entry: there is none left.                    *)
LEMMA ReadNewestIInv ==
  ASSUME IInv, ReadNewest
  PROVE  IInv'
<1>1. sub # NoSub /\ sub.at = "scanned"
  BY DEF ReadNewest, NoSub
<1>2. /\ Types /\ last \in Nat /\ stream \subseteq Entries
      /\ sub \in Subs /\ proc[sub.proc].pc = "up" /\ sub.cursor \in 0..last
  BY <1>1, EntriesAreNumbers DEF IInv, Types, Subs, Up
<1>3. NewestId(stream) \in 0..last /\ NewestId(stream) = IF stream = {} THEN 0 ELSE last
  BY <1>2, Newest DEF IInv, Zero
<1>4. /\ sub' = [sub EXCEPT !.at = "newest", !.newest = NewestId(stream)]
      /\ UNCHANGED <<shared, proc, writer, past, bounds>>
  BY DEF ReadNewest
<1>5. /\ sub' \in Subs /\ sub' # NoSub /\ sub'.at = "newest"
      /\ sub'.newest = NewestId(stream)
      /\ sub'.proc = sub.proc /\ sub'.cursor = sub.cursor /\ sub'.top = sub.top
      /\ sub'.got = sub.got /\ sub'.vouched = sub.vouched
      /\ sub'.live = sub.live /\ sub'.skipped = sub.skipped
  <2> DEFINE id == NewestId(stream)
  <2>1. id \in -1..last
    BY <1>2, <1>3
  <2> HIDE DEF id
  <2>2. sub' \in Subs
    BY <1>2, <1>4, <2>1 DEF Subs, id
  <2> QED
    BY <1>2, <1>4, <2>2, NoSubIsNoSub DEF Subs
<1>6. /\ Types' /\ NewestAreKept' /\ MarkerInv'
      /\ UNCHANGED <<last, stream, floor, proc, begin, unmarked, outrun>>
  BY <1>2, <1>4, <1>5, SubStep
<1>7. LiveInv' /\ ReplayInv'
  BY <1>1, <1>5, <1>6 DEF IInv, LiveInv, ReplayInv, Missing, Entries
<1>8. sub.cursor > NewestId(stream) => sub.cursor \notin stream /\ FirstIsGone
  BY <1>2, <1>3 DEF FirstIsGone, Entries
<1>9. SignsInv'
  BY <1>1, <1>5, <1>6, <1>8 DEF IInv, SignsInv, FirstIsGone, Entries
<1> QED
  BY <1>6, <1>7, <1>9 DEF IInv

(* What the replay left out is older than the oldest entry there is now.   *)
LEMMA ReadOldestIInv ==
  ASSUME IInv, ReadOldest
  PROVE  IInv'
<1>1. sub # NoSub /\ sub.at = "newest"
  BY DEF ReadOldest, NoSub
<1>2. /\ Types /\ last \in Nat /\ stream \subseteq Entries
      /\ sub \in Subs /\ proc[sub.proc].pc = "up" /\ sub.cursor \in 0..last
      /\ \A e : e \in Entries <=> e \in Nat /\ 1 <= e /\ e <= last
  BY <1>1, EntriesAreNumbers DEF IInv, Types, Subs, Up
<1>3. /\ OldestId(stream) \in 0..last
      /\ stream = {} => OldestId(stream) = 0
      /\ stream # {} => OldestId(stream) \in 1..last
      /\ \A e \in Entries \ stream : OldestId(stream) = 0 \/ e < OldestId(stream)
      /\ \A e \in stream : OldestId(stream) <= e
  <2>1. /\ stream = {} => OldestId(stream) = 0
        /\ stream # {} => /\ OldestId(stream) \in 1..last
                          /\ \A e \in Entries : e \in stream <=> OldestId(stream) <= e
    BY <1>2, Oldest DEF IInv, Zero
  <2> QED
    BY <1>2, <2>1
<1>4. /\ sub' = [sub EXCEPT !.at = "oldest", !.oldest = OldestId(stream)]
      /\ UNCHANGED <<shared, proc, writer, past, bounds>>
  BY DEF ReadOldest
<1>5. /\ sub' \in Subs /\ sub' # NoSub /\ sub'.at = "oldest"
      /\ sub'.oldest = OldestId(stream) /\ sub'.newest = sub.newest
      /\ sub'.proc = sub.proc /\ sub'.cursor = sub.cursor /\ sub'.top = sub.top
      /\ sub'.got = sub.got /\ sub'.vouched = sub.vouched
      /\ sub'.live = sub.live /\ sub'.skipped = sub.skipped
  <2> DEFINE id == OldestId(stream)
  <2>1. id \in -1..last
    BY <1>2, <1>3
  <2> HIDE DEF id
  <2>2. sub' \in Subs
    BY <1>2, <1>4, <2>1 DEF Subs, id
  <2> QED
    BY <1>2, <1>4, <2>2, NoSubIsNoSub DEF Subs
<1>6. /\ Types' /\ NewestAreKept' /\ MarkerInv'
      /\ UNCHANGED <<last, stream, floor, proc, begin, unmarked, outrun>>
  BY <1>2, <1>4, <1>5, SubStep
<1>7. LiveInv'
  BY <1>1, <1>5, <1>6 DEF IInv, LiveInv, Entries
<1>8. ReplayInv'
  <2>0. OldestId(stream) = Zero => sub.top < begin
    <3>1. OldestId(stream) = Zero => begin = last + 1
      BY <1>2, <1>3 DEF IInv, MarkerInv, Zero
    <3> QED
      BY <1>2, <3>1 DEF Subs
  <2> SUFFICES ASSUME NEW e \in Entries, Missing(e)
               PROVE  e \notin stream /\ (OldestId(stream) = Zero \/ e < OldestId(stream))
    BY <1>5, <1>6, <2>0 DEF ReplayInv, Missing, Entries
  <2>1. e \notin stream
    BY <1>1 DEF IInv, ReplayInv
  <2> QED
    BY <1>3, <2>1 DEF Zero
<1>9. /\ OldestId(stream) = Zero \/ sub.cursor < OldestId(stream) => sub.cursor \notin stream
      /\ OldestId(stream) = Zero /\ sub.vouched => FirstIsGone
      /\ OldestId(stream) \notin {Zero, 1} => FirstIsGone
  <2>1. OldestId(stream) = Zero => stream = {}
    BY <1>3 DEF Zero
  <2>2. sub.vouched => 1 \in Entries
    BY <1>1 DEF IInv, SignsInv
  <2>3. OldestId(stream) \notin {Zero, 1} => 1 \in Entries \ stream
    BY <1>2, <1>3 DEF Zero
  <2> QED
    BY <1>2, <1>3, <2>1, <2>2, <2>3 DEF FirstIsGone
<1>10. SignsInv'
  BY <1>1, <1>3, <1>5, <1>6, <1>9 DEF IInv, SignsInv, FirstIsGone, Entries
<1> QED
  BY <1>6, <1>7, <1>8, <1>10 DEF IInv

(* missedAnything: without a sign of a loss nothing is missing that could  *)
(* be told, and each sign is of a loss there was.                          *)
LEMMA AnswerIInv ==
  ASSUME IInv, Answer
  PROVE  IInv'
<1> DEFINE mark == Readable
           missed == MissedAnything(sub.cursor, sub.newest, sub.oldest, mark)
           vouched == sub.vouched /\ mark.created
           blind == sub.oldest = Zero /\ "get" \notin proc[sub.proc].commands
<1>1. sub # NoSub /\ sub.at = "oldest"
  BY DEF Answer, NoSub
<1>2. /\ Types /\ MarkerInv /\ last \in Nat /\ stream \subseteq Entries
      /\ sub \in Subs /\ proc[sub.proc].pc = "up" /\ sub.cursor \in 0..last
      /\ sub.oldest \in 0..last /\ floor \in Floor /\ sub.top \in 0..last
      /\ begin \in Nat /\ unmarked \in Nat /\ unmarked <= begin - 1
      /\ \A e : e \in Entries <=> e \in Nat /\ 1 <= e /\ e <= last
      /\ \A e \in stream : begin <= e
  BY <1>1, EntriesAreNumbers DEF IInv, Types, Subs, Up, SignsInv
<1>3. /\ sub' = [sub EXCEPT !.at = "open", !.newest = Unread, !.oldest = Unread,
                            !.vouched = vouched, !.blind = blind, !.truncated = missed]
      /\ UNCHANGED <<shared, proc, writer, past, bounds>>
  BY DEF Answer
<1>4. /\ missed <=> \/ sub.cursor > sub.newest
                    \/ sub.oldest = Zero /\ mark # NoFloor
                    \/ sub.cursor < sub.oldest /\ ~(mark.created /\ mark.id = sub.oldest)
      /\ missed \in BOOLEAN
  BY DEF MissedAnything
<1>5. /\ mark = NoFloor \/ mark = floor
      /\ mark = NoFloor => floor = NoFloor \/ "get" \notin proc[sub.proc].commands
      /\ mark.created => mark = floor /\ floor # NoFloor /\ floor.id \in Entries
      /\ mark.created /\ ~outrun => floor.id <= unmarked + 1
      /\ floor = NoFloor => unmarked = begin - 1
  BY <1>2 DEF Readable, NoFloor, MarkerInv, FloorTellsTheTruth
<1> HIDE DEF mark
<1>6. ASSUME NEW e \in Entries, Missing(e), ~missed, ~outrun
      PROVE  e <= unmarked \/ (blind /\ e < begin)
  <2>1. sub.oldest = Zero \/ e < sub.oldest
    BY <1>1, <1>6 DEF IInv, ReplayInv
  <2>2. CASE sub.oldest = Zero
    <3>1. e < begin
      <4>1. sub.top < begin /\ e <= sub.top
        BY <1>1, <1>6, <2>2 DEF IInv, ReplayInv, Missing
      <4> QED
        BY <1>2, <4>1
    <3>2. mark = NoFloor
      BY <1>4, <1>6, <2>2
    <3> QED
      BY <1>2, <1>5, <2>2, <3>1, <3>2
  <2>3. CASE sub.oldest # Zero
    <3>1. e < sub.oldest /\ sub.cursor < sub.oldest
      BY <1>2, <1>6, <2>1, <2>3 DEF Missing
    <3>2. mark.created /\ mark.id = sub.oldest
      BY <1>4, <1>6, <3>1
    <3> QED
      BY <1>2, <1>5, <1>6, <3>1, <3>2
  <2> QED
    BY <2>2, <2>3
<1>7. missed => (vouched => FirstIsGone) /\ sub.cursor \notin stream
  <2>0. SignsInv
    BY DEF IInv
  <2>1. CASE sub.cursor > sub.newest
    BY <1>1, <2>0, <2>1 DEF SignsInv
  <2>2. CASE sub.oldest = Zero
    BY <1>1, <2>0, <2>2 DEF SignsInv
  <2>3. CASE sub.oldest # Zero /\ sub.cursor < sub.oldest
             /\ ~(mark.created /\ mark.id = sub.oldest)
    <3>1. ASSUME vouched
          PROVE  FirstIsGone
      <4>1. floor.id # sub.oldest /\ floor.id \in Entries /\ 1 \in Entries
        BY <1>1, <1>5, <2>0, <2>3, <3>1 DEF SignsInv
      <4>2. CASE sub.oldest # 1
        BY <1>1, <2>0, <2>3, <4>2 DEF SignsInv
      <4>3. CASE outrun
        BY <1>2, <4>3 DEF MarkerInv
      <4>4. CASE sub.oldest = 1 /\ ~outrun
        <5>1. floor.id <= unmarked + 1 /\ floor.id > 1
          BY <1>2, <1>5, <3>1, <4>1, <4>4
        <5>2. begin > 1
          BY <1>2, <4>1, <5>1
        <5>3. 1 \notin stream
          BY <1>2, <5>2
        <5> QED
          BY <4>1, <5>3 DEF FirstIsGone
      <4> QED
        BY <1>2, <4>2, <4>3, <4>4 DEF Types
    <3> QED
      BY <1>1, <2>0, <2>3, <3>1 DEF SignsInv
  <2> QED
    BY <1>4, <2>1, <2>2, <2>3
<1>8. vouched \in BOOLEAN /\ blind \in BOOLEAN /\ (vouched => sub.vouched)
  <2>1. sub.vouched \in BOOLEAN
    BY <1>2 DEF Subs
  <2> QED
    BY <2>1
<1> HIDE DEF missed, vouched
<1>9. /\ sub' \in Subs /\ sub' # NoSub /\ sub'.at = "open" /\ sub'.truncated = missed
      /\ sub'.vouched = vouched /\ sub'.blind = blind
      /\ sub'.proc = sub.proc /\ sub'.cursor = sub.cursor /\ sub'.top = sub.top
      /\ sub'.got = sub.got
      /\ sub'.live = sub.live /\ sub'.skipped = sub.skipped
  <2> HIDE DEF blind
  <2>1. Unread \in -1..last
    BY <1>2 DEF Unread
  <2>2. sub' \in Subs
    BY <1>2, <1>3, <1>4, <1>8, <2>1 DEF Subs
  <2> QED
    BY <1>2, <1>3, <2>2, NoSubIsNoSub DEF Subs
<1>10. /\ Types' /\ NewestAreKept' /\ MarkerInv'
       /\ UNCHANGED <<last, stream, floor, proc, begin, unmarked, outrun>>
  BY <1>2, <1>3, <1>9, SubStep
<1>11. LiveInv'
  BY <1>1, <1>9, <1>10 DEF IInv, LiveInv, Entries
<1>12. ReplayInv'
  <2> HIDE DEF blind
  <2> QED
    BY <1>6, <1>9, <1>10 DEF ReplayInv, Missing, Untold, Entries
<1>13. SignsInv'
  <2> HIDE DEF blind
  <2> QED
    BY <1>1, <1>7, <1>8, <1>9, <1>10 DEF IInv, SignsInv, FirstIsGone, Entries
<1> QED
  BY <1>10, <1>11, <1>12, <1>13 DEF IInv

-----------------------------------------------------------------------------
LEMMA InitIInv == Init => IInv
<1> SUFFICES ASSUME Init PROVE IInv
  OBVIOUS
<1>1. Entries = {}
  BY DEF Init, Entries
<1>2. Types
  <2>1. Off \in Processes /\ Idle \in Writers
    BY DEF Init, Off, Idle, Zero, Processes, Writers
  <2>2. NoFloor \in Floor /\ 0 \in Nat /\ 0 \in 0..MaxEntries
    BY RedisAssumption DEF NoFloor, Zero, Floor
  <2>3. 1 \in 1..(0 + 1) /\ 0 \in 0..(1 - 1)
    OBVIOUS
  <2> QED
    BY <2>1, <2>2, <2>3 DEF Init, Types
<1>3. NewestAreKept
  BY DEF Init, NewestAreKept
<1>4. MarkerInv
  BY <1>1 DEF Init, MarkerInv, WriterInv, FloorTellsTheTruth, NoFloor, Off, Idle
<1> QED
  BY <1>2, <1>3, <1>4 DEF Init, IInv, LiveInv, ReplayInv, SignsInv

LEMMA NextIInv == IInv /\ [Next]_vars => IInv'
<1> SUFFICES ASSUME IInv, [Next]_vars PROVE IInv'
  OBVIOUS
<1>1. CASE LoseStream
  BY <1>1, LoseStreamIInv
<1>2. CASE Replays
  BY <1>2, ScanIInv, ReadNewestIInv, ReadOldestIInv, AnswerIInv, LeaveIInv DEF Replays
<1>3. ASSUME NEW p \in Procs, Boot(p) \/ Close(p) \/ Die(p)
      PROVE  IInv'
  BY <1>3, BootIInv, CloseIInv, DieIInv
<1>4. ASSUME NEW p \in Procs, Writes(p)
      PROVE  IInv'
  BY <1>4, GetIInv, OldestIInv, SetIInv, FailsIInv DEF Writes
<1>5. ASSUME NEW p \in Procs, Publish(p)
      PROVE  IInv'
  BY <1>5, PublishIInv
<1>6. ASSUME NEW p \in Procs, Read(p) \/ \E cursor \in 0..last : Ask(p, cursor)
      PROVE  IInv'
  BY <1>6, ReadIInv, AskIInv
<1>7. CASE UNCHANGED vars
  <2>1. UNCHANGED <<shared, proc, writer, sub, past, bounds>>
    BY <1>7 DEF vars
  <2>2. Types' /\ NewestAreKept' /\ MarkerInv' /\ UNCHANGED <<last, stream, floor, proc, begin, unmarked, outrun>>
    BY <2>1, SubStep DEF IInv, Types, Up
  <2> QED
    BY <2>1, <2>2 DEF IInv, LiveInv, ReplayInv, SignsInv, Missing, Untold, FirstIsGone, Entries
<1> QED
  BY <1>1, <1>2, <1>3, <1>4, <1>5, <1>6, <1>7 DEF Next

LEMMA Invariant == Spec => []IInv
  BY InitIInv, NextIInv, PTL DEF Spec

(* Every variable of RedisBackplane keeps its type: no position is ahead   *)
(* of the stream, a process takes the marker for written only if there is  *)
(* one or was one, and a subscriber's process is up.                       *)
THEOREM TypeCorrect == Spec => []TypeOK
<1>1. IInv => TypeOK
  BY DEF IInv, Types, TypeOK, MarkerInv, WriterInv, Subs, Processes, Writers
<1> QED
  BY <1>1, Invariant, PTL

(* writeFloor's claim, whichever process makes it and however long after   *)
(* its own XADD: before the entry that a `created` marker names nothing    *)
(* was trimmed, or lost while a marker stood by (index.ts:105-108), unless *)
(* trimming caught up with an entry whose publish was still under way.     *)
THEOREM MarkersAreTrue == Spec => []FloorTellsTheTruth
<1>1. IInv => FloorTellsTheTruth
  BY DEF IInv, MarkerInv
<1> QED
  BY <1>1, Invariant, PTL

(* A client that replay() and missedAnything did not tell of a gap has     *)
(* everything, whatever the other processes, the trimming and the loss of  *)
(* the stream, its marker or both do between the four reads.  Excepted is  *)
(* what Covered names: entries lost together with the marker or before it, *)
(* a lost stream asked about without get, a marker outrun by trimming, and *)
(* what was gone from under the reader after the replay.                   *)
THEOREM NothingIsMissed == Spec => []Covered
<1>1. IInv => Covered
  BY DEF IInv, ReplayInv, LiveInv, Missing, Covered
<1> QED
  BY <1>1, Invariant, PTL

(* missedAnything does not cry wolf: a client told of a gap holds a cursor *)
(* the stream no longer has, or more than maxReplay events were due.       *)
THEOREM GapsAreReal == Spec => []NoNeedlessGap
<1>1. IInv => NoNeedlessGap
  BY DEF IInv, SignsInv, FirstIsGone, NoNeedlessGap
<1> QED
  BY <1>1, Invariant, PTL

=============================================================================
