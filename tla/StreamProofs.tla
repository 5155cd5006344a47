---------------------------- MODULE StreamProofs ----------------------------
(***************************************************************************)
(* Stream's type invariant, in every life of the hub, and the promise of   *)
(* Delivery for as long as the first life lasts: for every byte budget,    *)
(* every bound on what a slow client may leave unread, and any number of   *)
(* evictions, broken connections, refusals and topic changes.              *)
(***************************************************************************)
EXTENDS Stream, HubRingProofs

Frame ==
  [kind : {"head"}, truncated : BOOLEAN] \cup [kind : {"event"}, event : Entry]
    \cup {GapFrame, EndFrame}

Wired == wire \in Seq(Frame)

(* What holds in every life. *)
Types == TypeOK /\ Wired /\ RingInv

-----------------------------------------------------------------------------
(* The first life.                                                         *)

InOrder == \A i, j \in 1..Len(history) : Before(history[i].id, history[j].id) => i < j

(* The ring has all that was published, and what a page may begin at is    *)
(* something an event was given.                                           *)
Recorded ==
  /\ published = accepted
  /\ Held \subseteq accepted
  /\ lastId = ZeroId \/ \E e \in accepted : lastId = e.id
  /\ InOrder

IsEvent(i) == wire[i].kind = "event"

(* A response has one head, in front, and nothing else is read before it. *)
HeadFirst == \A i \in 1..Len(wire) : wire[i].kind = "head" => i = 1 /\ ~gapFired

Sent == \A i \in 1..Len(wire) : IsEvent(i) => wire[i].event \in published

(* The client will hear of a gap before it reads any event. *)
GapAhead == wire # <<>> /\ wire[1].kind = "head" /\ wire[1].truncated

(* What is owed of x before position n of the wire is met: it is reflected *)
(* already, or will be by the time the client reads that far.              *)
Met(x, n) ==
  \/ x \in reflected
  \/ GapAhead
  \/ \E i \in 1..(n - 1) : IsEvent(i) /\ wire[i].event = x

(* The cursor the client will have at position n is one x is after; the    *)
(* first event gives a cursor to a client that has none.                   *)
After(x, n) ==
  IF cursor # NoId THEN Before(cursor, x.id)
  ELSE \E i \in 1..(n - 1) : IsEvent(i) /\ Before(wire[i].event.id, x.id)

Due(n) == {x \in published : x.topic \in asked /\ After(x, n)}

(* No event on the wire comes before one that is owed. *)
NoneJumped ==
  \A n \in 1..Len(wire) :
    IsEvent(n) => \A x \in Due(n) : Before(x.id, wire[n].event.id) => Met(x, n)

(* Nor will one that is published next, while the client is registered. *)
NoneLeftOut ==
  registered => \A n \in {Len(wire) + 1} : \A x \in Due(n) : Met(x, n)

FirstLife ==
  /\ Recorded
  /\ pc = "absent" => cursor = NoId
  /\ HeadFirst
  /\ Sent
  /\ NoneJumped
  /\ NoneLeftOut

IInv == Types /\ restarts \in Nat /\ (restarts = 0 => FirstLife)

-----------------------------------------------------------------------------
(* Frames and sequences of them.                                           *)

LEMMA FrameKinds ==
  /\ \A e \in Entry : EventFrame(e) \in Frame
  /\ \A b \in BOOLEAN : HeadFrame(b) \in Frame
  /\ GapFrame \in Frame /\ EndFrame \in Frame
  /\ \A f \in Frame : f.kind = "event" => f.event \in Entry
  /\ \A f \in Frame : f.kind = "head" => f.truncated \in BOOLEAN
<1>1. \A e \in Entry : EventFrame(e) \in Frame
  BY DEF EventFrame, Frame
<1>2. \A b \in BOOLEAN : HeadFrame(b) \in Frame
  BY DEF HeadFrame, Frame
<1>3. GapFrame \in Frame /\ EndFrame \in Frame
  BY DEF Frame
<1>4. \A f \in Frame : f.kind = "event" => f.event \in Entry
  BY DEF Frame, GapFrame, EndFrame
<1>5. \A f \in Frame : f.kind = "head" => f.truncated \in BOOLEAN
  BY DEF Frame, GapFrame, EndFrame
<1> QED
  BY <1>1, <1>2, <1>3, <1>4, <1>5

LEMMA Behind ==
  ASSUME NEW s \in Seq(Frame), NEW t \in Seq(Frame)
  PROVE  /\ s \o t \in Seq(Frame)
         /\ Len(s) \in Nat /\ Len(t) \in Nat
         /\ Len(s \o t) = Len(s) + Len(t)
         /\ \A i \in 1..Len(s) : (s \o t)[i] = s[i]
         /\ \A i \in 1..Len(t) : (s \o t)[Len(s) + i] = t[i]
<1>1. /\ s \o t \in Seq(Frame)
      /\ Len(s) \in Nat /\ Len(t) \in Nat
      /\ Len(s \o t) = Len(s) + Len(t)
      /\ \A i \in 1..(Len(s) + Len(t)) :
           (s \o t)[i] = IF i <= Len(s) THEN s[i] ELSE t[i - Len(s)]
  BY ConcatProperties, LenProperties
<1>2. \A i \in 1..Len(t) : Len(s) + i \in 1..(Len(s) + Len(t)) /\ ~(Len(s) + i <= Len(s))
                          /\ Len(s) + i - Len(s) = i
  BY <1>1
<1>3. \A i \in 1..Len(s) : i \in 1..(Len(s) + Len(t))
  BY <1>1
<1> QED
  BY <1>1, <1>2, <1>3

LEMMA ReadOff ==
  ASSUME Wired, wire # <<>>, wire' = Tail(wire)
  PROVE  /\ Wired'
         /\ Len(wire) \in Nat /\ Len(wire') = Len(wire) - 1 /\ Len(wire) >= 1
         /\ wire[1] \in Frame
         /\ \A i \in 1..Len(wire') : wire'[i] = wire[i + 1] /\ i + 1 \in 1..Len(wire)
<1>1. wire \in Seq(Frame)
  BY DEF Wired
<1>2. /\ Tail(wire) \in Seq(Frame)
      /\ Len(Tail(wire)) = Len(wire) - 1
      /\ \A i \in 1..Len(Tail(wire)) : Tail(wire)[i] = wire[i + 1]
  BY <1>1, HeadTailProperties
<1>3. Len(wire) \in Nat /\ Len(wire) >= 1
  BY <1>1, EmptySeq, LenProperties
<1>4. wire[1] \in Frame
  BY <1>1, <1>3, ElementOfSeq
<1> QED
  BY <1>1, <1>2, <1>3, <1>4 DEF Wired

-----------------------------------------------------------------------------
(* What a fan-out may do to the wire.                                      *)

Sends(e) ==
  /\ registered /\ e.topic \in asked
  /\ wire' = Append(wire, EventFrame(e))
  /\ registered' = registered

Cuts(e) ==
  /\ registered /\ e.topic \in asked
  /\ wire' = wire \o <<EventFrame(e), GapFrame, EndFrame>>
  /\ registered' = FALSE

PassesOver(e) ==
  /\ ~(registered /\ e.topic \in asked)
  /\ wire' = wire /\ registered' = registered

LEMMA FanOutCases ==
  ASSUME NEW e, FanOut(e)
  PROVE  Sends(e) \/ Cuts(e) \/ PassesOver(e)
  BY DEF FanOut, Sends, Cuts, PassesOver

(* The new frames stand behind the old ones, the event first, and only a   *)
(* cut connection's wire gets an end.                                      *)
LEMMA FanOutAppends ==
  ASSUME Wired, NEW e \in Entry, Sends(e) \/ Cuts(e)
  PROVE  /\ Wired'
         /\ Len(wire) \in Nat /\ Len(wire') \in Nat /\ Len(wire') >= Len(wire) + 1
         /\ \A i \in 1..Len(wire) : wire'[i] = wire[i]
         /\ wire'[Len(wire) + 1] = EventFrame(e)
         /\ \A i \in 1..Len(wire') :
              i > Len(wire) + 1 => Cuts(e) /\ wire'[i].kind \in {"gap", "end"}
         /\ Sends(e) => Len(wire') = Len(wire) + 1
<1>1. /\ wire \in Seq(Frame) /\ EventFrame(e) \in Frame
      /\ GapFrame \in Frame /\ EndFrame \in Frame
      /\ Len(wire) \in Nat
  BY FrameKinds, LenProperties DEF Wired
<1>2. CASE Sends(e)
  <2>1. /\ wire' \in Seq(Frame)
        /\ Len(wire') = Len(wire) + 1
        /\ \A i \in 1..Len(wire) : wire'[i] = wire[i]
        /\ wire'[Len(wire) + 1] = EventFrame(e)
    BY <1>1, <1>2, AppendProperties DEF Sends
  <2>2. \A i \in 1..Len(wire') : ~(i > Len(wire) + 1)
    BY <1>1, <2>1
  <2> QED
    BY <1>1, <2>1, <2>2 DEF Wired
<1>3. CASE Cuts(e)
  <2> DEFINE t == <<EventFrame(e), GapFrame, EndFrame>>
  <2>1. /\ t \in Seq(Frame) /\ Len(t) = 3
        /\ t[1] = EventFrame(e) /\ t[2] = GapFrame /\ t[3] = EndFrame
    BY <1>1
  <2> HIDE DEF t
  <2>2. /\ wire' \in Seq(Frame)
        /\ Len(wire') = Len(wire) + 3
        /\ \A i \in 1..Len(wire) : wire'[i] = wire[i]
        /\ \A i \in 1..3 : wire'[Len(wire) + i] = t[i]
    BY <1>1, <1>3, <2>1, Behind DEF Cuts, t
  <2>3. \A i \in 1..Len(wire') :
          i > Len(wire) + 1 => i = Len(wire) + 2 \/ i = Len(wire) + 3
    BY <1>1, <2>2
  <2>4. GapFrame.kind = "gap" /\ EndFrame.kind = "end"
    BY DEF GapFrame, EndFrame
  <2>5. wire'[Len(wire) + 1] = EventFrame(e) /\ wire'[Len(wire) + 2].kind = "gap"
          /\ wire'[Len(wire) + 3].kind = "end"
    BY <1>1, <2>1, <2>2, <2>4
  <2>6. ~Sends(e)
    BY <1>3 DEF Cuts, Sends
  <2> QED
    BY <1>1, <1>3, <2>2, <2>3, <2>5, <2>6 DEF Wired
<1> QED
  BY <1>2, <1>3

-----------------------------------------------------------------------------
(* What a response begins with.                                            *)

LEMMA ReplayIsFinite == RingInv => IsFiniteSet(Replay(cursor, asked))
<1> SUFFICES ASSUME RingInv PROVE IsFiniteSet(Replay(cursor, asked))
  OBVIOUS
<1>1. Len(history) \in Nat
  BY LenProperties DEF RingInv, RingTypeOK
<1>2. IsFiniteSet(1..Len(history))
  BY <1>1, FS_Interval
<1>3. Replay(cursor, asked) \subseteq 1..Len(history)
  BY DEF Replay
<1> QED
  BY <1>2, <1>3, FS_Subset

Opener ==
  <<HeadFrame(Checkpoint(cursor) = "earliest")>>
    \o (IF Checkpoint(cursor) = "earliest" THEN <<GapFrame>> ELSE <<>>)

LEMMA OpenerShape ==
  /\ Opener \in Seq(Frame)
  /\ Opener[1] = HeadFrame(Checkpoint(cursor) = "earliest")
  /\ Len(Opener) = IF Checkpoint(cursor) = "earliest" THEN 2 ELSE 1
  /\ Checkpoint(cursor) = "earliest" => Opener[2] = GapFrame
<1> DEFINE b == Checkpoint(cursor) = "earliest"
           t == IF b THEN <<GapFrame>> ELSE <<>>
           s == <<HeadFrame(b)>>
<1>1. b \in BOOLEAN
  OBVIOUS
<1>2. s \in Seq(Frame) /\ Len(s) = 1 /\ s[1] = HeadFrame(b)
  <2> HIDE DEF b
  <2> QED
    BY <1>1, FrameKinds
<1>3. t \in Seq(Frame) /\ Len(t) = (IF b THEN 1 ELSE 0) /\ (b => t[1] = GapFrame)
  <2> HIDE DEF b
  <2>1. CASE b
    BY <2>1, FrameKinds
  <2>2. CASE ~b
    <3>1. t = <<>>
      BY <2>2
    <3> QED
      BY <2>2, <3>1
  <2> QED
    BY <2>1, <2>2
<1>4. Opener = s \o t
  BY DEF Opener
<1> HIDE DEF s, t, b
<1>5. /\ Opener \in Seq(Frame)
      /\ Len(Opener) = 1 + (IF b THEN 1 ELSE 0)
      /\ Opener[1] = s[1]
      /\ b => Opener[2] = t[1]
  BY <1>2, <1>3, <1>4, Behind
<1> QED
  BY <1>2, <1>3, <1>5 DEF b

(* The head, a gap if the head says so, and the replay in ring order.      *)
LEMMA ServedWire ==
  ASSUME RingInv, Serve
  PROVE  \E at \in OldestFirst(Replay(cursor, asked)) :
           /\ DOMAIN at = 1..Cardinality(Replay(cursor, asked))
           /\ Cardinality(Replay(cursor, asked)) \in Nat
           /\ Wired'
           /\ Len(wire') = Len(Opener) + Cardinality(Replay(cursor, asked))
           /\ \A i \in 1..Len(Opener) : wire'[i] = Opener[i]
           /\ \A i \in DOMAIN at : wire'[Len(Opener) + i] = EventFrame(history[at[i]])
<1> DEFINE n == Cardinality(Replay(cursor, asked))
<1>1. n \in Nat
  BY ReplayIsFinite, FS_CardinalityType
<1>2. PICK at \in OldestFirst(Replay(cursor, asked)) :
        wire' = <<HeadFrame(Checkpoint(cursor) = "earliest")>>
                  \o (IF Checkpoint(cursor) = "earliest" THEN <<GapFrame>> ELSE <<>>)
                  \o [i \in DOMAIN at |-> EventFrame(history[at[i]])]
  BY DEF Serve, ReplayFrames
<1>3. DOMAIN at = 1..n /\ at \in [1..n -> Replay(cursor, asked)]
  BY <1>2 DEF OldestFirst
<1> DEFINE s == [i \in DOMAIN at |-> EventFrame(history[at[i]])]
<1>4. \A i \in 1..n : history[at[i]] \in Entry
  <2>1. history \in Seq(Entry)
    BY DEF RingInv, RingTypeOK
  <2>2. \A i \in 1..n : at[i] \in 1..Len(history)
    BY <1>3 DEF Replay
  <2> QED
    BY <2>1, <2>2, ElementOfSeq
<1>5. s \in [1..n -> Frame]
  BY <1>3, <1>4, FrameKinds
<1>6. s \in Seq(Frame) /\ Len(s) = n
  BY <1>1, <1>5
<1>7. \A i \in DOMAIN at : s[i] = EventFrame(history[at[i]])
  OBVIOUS
<1> HIDE DEF s
<1>8. wire' = Opener \o s
  BY <1>2 DEF Opener, s
<1>9. Opener \in Seq(Frame)
  BY OpenerShape
<1>10. /\ wire' \in Seq(Frame)
       /\ Len(wire') = Len(Opener) + n
       /\ \A i \in 1..Len(Opener) : wire'[i] = Opener[i]
       /\ \A i \in 1..n : wire'[Len(Opener) + i] = s[i]
  BY <1>6, <1>8, <1>9, Behind
<1> QED
  BY <1>1, <1>2, <1>3, <1>7, <1>10 DEF Wired

-----------------------------------------------------------------------------
(* Types, in every life.                                                   *)

LEMMA InitTypes == Init => Types
<1> SUFFICES ASSUME Init PROVE Types
  OBVIOUS
<1>1. RingInv
  BY RingInitInv DEF Init
<1>2. TypeOK
  BY DEF Init, TypeOK
<1>3. Wired
  BY DEF Init, Wired
<1> QED
  BY <1>1, <1>2, <1>3 DEF Types

LEMMA PublishTypes ==
  ASSUME Types, NEW now \in 0..MaxMs, NEW t \in Topics, NEW n \in Sizes, NEW o \in Origins,
         Publish(now, t, n, o)
  PROVE  Types'
<1> DEFINE e == Minted(now, t, n, o)
<1>1. e \in Entry
  BY MintedIsFresh DEF Types
<1>2. /\ AppendEvent(e) /\ FanOut(e) /\ published' = published \cup {e}
      /\ UNCHANGED <<pc, asked, cursor, gapFired, reflected>>
  BY DEF Publish
<1> HIDE DEF e
<1>3. RingInv'
  BY <1>1, <1>2, RingAppendInv DEF Types
<1>4. TypeOK /\ Wired
  BY DEF Types
<1>5. Sends(e) \/ Cuts(e) \/ PassesOver(e)
  BY <1>2, FanOutCases
<1>6. CASE PassesOver(e)
  BY <1>2, <1>3, <1>4, <1>6 DEF Types, TypeOK, Wired, PassesOver
<1>7. CASE Sends(e) \/ Cuts(e)
  <2>1. /\ Wired'
        /\ Len(wire) \in Nat /\ Len(wire') \in Nat
        /\ \A i \in 1..Len(wire) : wire'[i] = wire[i]
        /\ wire'[Len(wire) + 1] = EventFrame(e)
        /\ Sends(e) => Len(wire') = Len(wire) + 1
    BY <1>1, <1>4, <1>7, FanOutAppends
  <2>2. registered
    BY <1>7 DEF Sends, Cuts
  <2>3. pc = "open"
    BY <1>4, <2>2 DEF TypeOK
  <2>4. ASSUME registered' PROVE \A i \in DOMAIN wire' : wire'[i].kind # "end"
    <3>1. Sends(e)
      BY <1>7, <2>4 DEF Cuts
    <3>2. DOMAIN wire = 1..Len(wire) /\ DOMAIN wire' = 1..Len(wire')
      BY <1>4, <2>1 DEF Wired
    <3>3. \A i \in 1..Len(wire) : wire[i].kind # "end"
      BY <1>4, <2>2, <3>2 DEF TypeOK
    <3>4. EventFrame(e).kind = "event"
      BY DEF EventFrame
    <3>5. \A i \in 1..Len(wire') : i \in 1..Len(wire) \/ i = Len(wire) + 1
      BY <2>1, <3>1
    <3> QED
      BY <2>1, <3>2, <3>3, <3>4, <3>5
  <2>5. TypeOK'
    BY <1>2, <1>4, <2>3, <2>4 DEF TypeOK
  <2> QED
    BY <1>3, <2>1, <2>5 DEF Types
<1> QED
  BY <1>5, <1>6, <1>7

LEMMA ServeTypes ==
  ASSUME Types, Serve
  PROVE  Types'
<1>1. RingInv /\ TypeOK /\ RingInv'
  BY RingStutterInv DEF Types, Serve
<1>2. PICK at \in OldestFirst(Replay(cursor, asked)) :
        /\ DOMAIN at = 1..Cardinality(Replay(cursor, asked))
        /\ Cardinality(Replay(cursor, asked)) \in Nat
        /\ Wired'
        /\ Len(wire') = Len(Opener) + Cardinality(Replay(cursor, asked))
        /\ \A i \in 1..Len(Opener) : wire'[i] = Opener[i]
        /\ \A i \in DOMAIN at : wire'[Len(Opener) + i] = EventFrame(history[at[i]])
  BY <1>1, ServedWire
<1> DEFINE n == Cardinality(Replay(cursor, asked))
<1> HIDE DEF n
<1>3. /\ DOMAIN at = 1..n /\ n \in Nat /\ Wired' /\ Len(wire') = Len(Opener) + n
      /\ \A i \in 1..n : wire'[Len(Opener) + i] = EventFrame(history[at[i]])
  BY <1>2 DEF n
<1>4. \A i \in 1..Len(wire') : wire'[i].kind # "end"
  <2>1. Len(Opener) \in {1, 2}
    BY OpenerShape
  <2>2. \A i \in 1..Len(Opener) : Opener[i].kind # "end"
    BY <2>1, OpenerShape DEF HeadFrame, GapFrame
  <2>3. \A i \in 1..Len(wire') :
          i \in 1..Len(Opener) \/ (i - Len(Opener) \in 1..n /\ Len(Opener) + (i - Len(Opener)) = i)
    BY <1>3, <2>1
  <2>4. \A i \in 1..n : wire'[Len(Opener) + i].kind = "event"
    <3>1. \A e : EventFrame(e).kind = "event"
      BY DEF EventFrame
    <3> QED
      BY <1>3, <3>1
  <2> QED
    BY <1>2, <2>2, <2>3, <2>4
<1>5. DOMAIN wire' = 1..Len(wire')
  BY <1>3 DEF Wired
<1>6. TypeOK'
  BY <1>1, <1>4, <1>5 DEF TypeOK, Serve
<1> QED
  BY <1>1, <1>3, <1>6 DEF Types

LEMMA ReadTypes ==
  ASSUME Types, ReadHead \/ ReadGap \/ ReadEvent
  PROVE  Types'
<1>1. /\ TypeOK /\ Wired /\ wire # <<>> /\ wire' = Tail(wire) /\ pc = "open"
      /\ UNCHANGED <<ringVars, registered, pc, asked, published>>
  BY DEF Types, ReadHead, ReadGap, ReadEvent, Reading
<1>2. /\ Wired'
      /\ wire[1] \in Frame
      /\ \A i \in 1..Len(wire') : wire'[i] = wire[i + 1] /\ i + 1 \in 1..Len(wire)
  BY <1>1, ReadOff
<1>3. RingInv'
  BY <1>1, RingStutterInv DEF Types
<1>4. DOMAIN wire' = 1..Len(wire') /\ DOMAIN wire = 1..Len(wire)
  BY <1>1, <1>2 DEF Wired
<1>5. registered' => \A i \in DOMAIN wire' : wire'[i].kind # "end"
  BY <1>1, <1>2, <1>4 DEF TypeOK
<1>6. cursor' \in EventId \cup {NoId}
  <2>1. CASE ReadEvent
    <3>1. wire[1].event.id \in EventId
      BY <1>2, <2>1, FrameKinds DEF ReadEvent, Reading, Entry
    <3> QED
      BY <1>1, <2>1, <3>1 DEF ReadEvent, Later, TypeOK
  <2>2. CASE ReadHead \/ ReadGap
    BY <1>1, <2>2 DEF ReadHead, ReadGap, TypeOK
  <2> QED
    BY <2>1, <2>2
<1>7. reflected' \subseteq published'
  BY <1>1 DEF TypeOK, ReadHead, ReadGap, ReadEvent, ReportGap
<1>8. TypeOK'
  BY <1>1, <1>5, <1>6, <1>7 DEF TypeOK
<1> QED
  BY <1>2, <1>3, <1>8 DEF Types

(* The wire is empty, and nothing can be put on it. *)
LEMMA HungUpTypes ==
  ASSUME Types, Sync(asked') \/ Break \/ ReadEnd, asked' \subseteq Topics
  PROVE  Types'
<1>1. /\ wire' = <<>> /\ registered' = FALSE /\ gapFired' = FALSE
      /\ pc' \in {"idle", "connecting", "sleeping"}
      /\ UNCHANGED <<ringVars, cursor, reflected, published>>
  BY DEF Sync, Break, ReadEnd, HangUp
<1>2. TypeOK /\ RingInv'
  BY <1>1, RingStutterInv DEF Types
<1>3. Wired'
  BY <1>1 DEF Wired
<1>4. TypeOK'
  BY <1>1, <1>2 DEF TypeOK
<1> QED
  BY <1>2, <1>3, <1>4 DEF Types

LEMMA WaitTypes ==
  ASSUME Types, (\E T \in SUBSET Topics : Start(T)) \/ Refuse \/ Wake
  PROVE  Types'
<1>1. /\ TypeOK /\ Wired /\ RingInv
      /\ pc # "open" /\ pc' \in {"connecting", "sleeping"}
      /\ UNCHANGED <<ringVars, registered, wire, gapFired, published>>
      /\ asked' \subseteq Topics
  BY DEF Types, TypeOK, Start, Refuse, Wake
<1>2. Wired' /\ RingInv'
  BY <1>1, RingStutterInv DEF Wired
<1>3. cursor' \in EventId \cup {NoId} /\ reflected' \subseteq published'
  BY <1>1 DEF TypeOK, Start, Refuse, Wake, RingInv, RingTypeOK
<1>4. TypeOK'
  BY <1>1, <1>3 DEF TypeOK
<1> QED
  BY <1>2, <1>4 DEF Types

LEMMA RestartTypes ==
  ASSUME Types, Restart
  PROVE  Types'
<1>1. TypeOK /\ Wired
  BY DEF Types
<1>2. RingInv'
  <2>1. /\ lastId' = ZeroId /\ history' = <<>> /\ lastTrimmed' = NoId
        /\ accepted' = {} /\ evicted' = {}
    BY DEF Restart
  <2> QED
    BY <2>1, IdOrder, EmptySeq DEF RingInv, RingTypeOK, Held
<1>3. Wired'
  <2>1. Append(wire, EndFrame) \in Seq(Frame)
    BY <1>1, FrameKinds, AppendProperties DEF Wired
  <2> QED
    BY <1>1, <2>1 DEF Restart, Wired
<1>4. TypeOK'
  BY <1>1 DEF TypeOK, Restart
<1> QED
  BY <1>2, <1>3, <1>4 DEF Types

LEMMA NextTypes ==
  ASSUME Types, [Next]_vars
  PROVE  Types'
<1>1. CASE UNCHANGED vars
  <2>1. UNCHANGED ringVars /\ UNCHANGED connVars /\ published' = published
    BY <1>1 DEF vars
  <2> QED
    BY <2>1, RingStutterInv DEF Types, TypeOK, Wired, connVars
<1>2. ASSUME NEW T \in SUBSET Topics, Sync(T) PROVE Types'
  <2>1. asked' = T
    BY <1>2 DEF Sync
  <2>2. Sync(asked')
    BY <1>2, <2>1
  <2>3. asked' \subseteq Topics
    BY <2>1
  <2> QED
    BY <2>2, <2>3, HungUpTypes
<1>3. CASE Break \/ ReadEnd
  <2>1. asked' \subseteq Topics
    BY <1>3 DEF Break, ReadEnd, Types, TypeOK
  <2> QED
    BY <1>3, <2>1, HungUpTypes
<1> QED
  BY <1>1, <1>2, <1>3, PublishTypes, ServeTypes, ReadTypes, WaitTypes, RestartTypes
     DEF Next, Client

(* Stream.TypeOK: in every life of the hub, only an open response has      *)
(* anything on the wire, a connection in the hub's map has not been ended, *)
(* and no snapshot reflects an event that never was.                       *)
THEOREM TypeCorrect == Spec => []TypeOK
<1>1. Init => Types
  BY InitTypes
<1>2. Types /\ [Next]_vars => Types'
  BY NextTypes
<1>3. Types => TypeOK
  BY DEF Types
<1> QED
  BY <1>1, <1>2, <1>3, PTL DEF Spec

-----------------------------------------------------------------------------
(* The first life: nothing is jumped.                                      *)

(* Nothing on the wire, and nobody to put anything on it. *)
LEMMA NothingWired ==
  ASSUME wire' = <<>>, registered' = FALSE
  PROVE  HeadFirst' /\ Sent' /\ NoneJumped' /\ NoneLeftOut'
<1>1. 1..Len(wire') = {}
  BY DEF HeadFirst
<1> QED
  BY <1>1 DEF HeadFirst, Sent, NoneJumped, NoneLeftOut

(* An append keeps the ring in the order of its ids. *)
LEMMA PublishRecorded ==
  ASSUME Types, Recorded,
         NEW now \in 0..MaxMs, NEW t \in Topics, NEW n \in Sizes, NEW o \in Origins,
         Publish(now, t, n, o)
  PROVE  Recorded'
<1> DEFINE e == Minted(now, t, n, o)
<1>1. e \in Entry /\ \A x \in accepted : Before(x.id, e.id)
  BY MintedIsFresh DEF Types
<1>2. /\ AppendEvent(e) /\ published' = published \cup {e}
      /\ RingInv
  BY DEF Publish, Types
<1>3. accepted' = accepted \cup {e} /\ lastId' = Later(lastId, e.id)
  BY <1>2 DEF AppendEvent
<1> HIDE DEF e
<1>4. PICK k \in Nat :
        /\ Len(history') + k = Len(history) + 1
        /\ \A i \in 1..Len(history') :
             history'[i] = IF k + i <= Len(history) THEN history[k + i] ELSE e
  BY <1>1, <1>2, AppendKeepsASuffix
<1>5. Len(history) \in Nat /\ RingInv' /\ Len(history') \in Nat
  <2>1. RingInv'
    BY <1>1, <1>2, RingAppendInv
  <2> QED
    BY <1>2, <2>1, LenProperties DEF RingInv, RingTypeOK
<1>6. \A i \in 1..Len(history') :
        \/ k + i \in 1..Len(history) /\ history'[i] = history[k + i] /\ history[k + i] \in Held
        \/ k + i = Len(history) + 1 /\ history'[i] = e
  <2> SUFFICES ASSUME NEW i \in 1..Len(history')
               PROVE  \/ k + i \in 1..Len(history) /\ history'[i] = history[k + i] /\ history[k + i] \in Held
                      \/ k + i = Len(history) + 1 /\ history'[i] = e
    OBVIOUS
  <2>1. CASE k + i <= Len(history)
    <3>1. k + i \in 1..Len(history)
      BY <1>4, <1>5, <2>1
    <3> QED
      BY <1>4, <2>1, <3>1 DEF Held
  <2>2. CASE ~(k + i <= Len(history))
    <3>1. k + i = Len(history) + 1
      BY <1>4, <1>5, <2>2
    <3> QED
      BY <1>4, <2>2, <3>1
  <2> QED
    BY <2>1, <2>2
<1>7. Held' \subseteq accepted'
  BY <1>3, <1>6 DEF Held, Recorded
<1>8. \A x \in accepted : x.id \in EventId
  BY <1>2 DEF RingInv, RingTypeOK, Entry
<1>9. InOrder'
  <2> SUFFICES ASSUME NEW i \in 1..Len(history'), NEW j \in 1..Len(history'),
                      Before(history'[i].id, history'[j].id)
               PROVE  i < j
    BY DEF InOrder
  <2>1. CASE k + i \in 1..Len(history) /\ k + j \in 1..Len(history)
    <3>1. history'[i] = history[k + i] /\ history'[j] = history[k + j]
      BY <1>6, <2>1
    <3>2. k + i < k + j
      BY <2>1, <3>1 DEF Recorded, InOrder
    <3> QED
      BY <1>4, <1>5, <3>2
  <2>2. CASE k + i \in 1..Len(history) /\ k + j = Len(history) + 1
    BY <1>4, <1>5, <2>2
  <2>3. CASE k + i = Len(history) + 1
    <3>1. history'[i] = e
      BY <1>5, <1>6, <2>3
    <3>2. history'[j] \in accepted \cup {e}
      BY <1>3, <1>6, <1>7 DEF Held
    <3>3. e.id \in EventId
      BY <1>1 DEF Entry
    <3>4. history'[j].id \in EventId /\ AtOrBefore(history'[j].id, e.id)
      BY <1>1, <1>8, <3>2, <3>3 DEF AtOrBefore
    <3> QED
      BY <2>3, <3>1, <3>3, <3>4, IdOrder DEF IdOrNull
  <2> QED
    BY <1>6, <2>1, <2>2, <2>3
<1>10. lastId' = ZeroId \/ \E x \in accepted' : lastId' = x.id
  BY <1>3 DEF Recorded, Later
<1> QED
  BY <1>2, <1>3, <1>7, <1>9, <1>10 DEF Recorded

LEMMA PublishFirstLife ==
  ASSUME Types, FirstLife,
         NEW now \in 0..MaxMs, NEW t \in Topics, NEW n \in Sizes, NEW o \in Origins,
         Publish(now, t, n, o)
  PROVE  FirstLife'
<1> DEFINE e == Minted(now, t, n, o)
<1>1. /\ e \in Entry /\ \A x \in accepted : Before(x.id, e.id)
      /\ RingInv /\ Wired /\ Recorded /\ TypeOK
  BY MintedIsFresh DEF Types, FirstLife
<1>2. /\ FanOut(e) /\ published' = published \cup {e}
      /\ UNCHANGED <<pc, asked, cursor, gapFired, reflected>>
  BY DEF Publish
<1>3. Recorded' /\ (pc' = "absent" => cursor' = NoId)
  BY <1>1, <1>2, PublishRecorded DEF FirstLife
<1> HIDE DEF e
<1>4. /\ published = accepted
      /\ \A x \in published : x \in Entry /\ x.id \in EventId /\ Before(x.id, e.id)
                             /\ ~Before(e.id, x.id)
      /\ e.id \in EventId /\ ~Before(e.id, e.id)
  <2>1. published = accepted /\ accepted \subseteq Entry
    BY <1>1 DEF Recorded, RingInv, RingTypeOK
  <2>2. \A x \in Entry : x.id \in EventId
    BY DEF Entry
  <2> QED
    BY <1>1, <2>1, <2>2, IdOrder DEF IdOrNull, AtOrBefore
<1>5. Sends(e) \/ Cuts(e) \/ PassesOver(e)
  BY <1>2, FanOutCases
<1>6. Len(wire) \in Nat
  BY <1>1, LenProperties DEF Wired
<1>7. \A i \in 1..Len(wire) : wire'[i] = wire[i]
  <2>1. CASE PassesOver(e)
    BY <2>1 DEF PassesOver
  <2>2. CASE Sends(e) \/ Cuts(e)
    BY <1>1, <2>2, FanOutAppends
  <2> QED
    BY <1>5, <2>1, <2>2
<1>8. Len(wire') >= Len(wire) /\ Len(wire') \in Nat
  <2>1. CASE PassesOver(e)
    BY <1>6, <2>1 DEF PassesOver
  <2>2. CASE Sends(e) \/ Cuts(e)
    BY <1>1, <1>6, <2>2, FanOutAppends
  <2> QED
    BY <1>5, <2>1, <2>2
<1>9. \A i \in 1..Len(wire) : i \in 1..Len(wire')
  BY <1>6, <1>8
<1>10. \A i \in 1..Len(wire') : i > Len(wire) =>
         \/ i = Len(wire) + 1 /\ wire'[i] = EventFrame(e) /\ (Sends(e) \/ Cuts(e))
         \/ wire'[i].kind \in {"gap", "end"} /\ i > Len(wire) + 1
  <2>1. CASE PassesOver(e)
    BY <1>6, <2>1 DEF PassesOver
  <2>2. CASE Sends(e) \/ Cuts(e)
    <3>1. /\ wire'[Len(wire) + 1] = EventFrame(e)
          /\ \A i \in 1..Len(wire') : i > Len(wire) + 1 => wire'[i].kind \in {"gap", "end"}
      BY <1>1, <2>2, FanOutAppends
    <3>2. \A i \in 1..Len(wire') : i > Len(wire) => i = Len(wire) + 1 \/ i > Len(wire) + 1
      BY <1>6, <1>8
    <3> QED
      BY <2>2, <3>1, <3>2
  <2> QED
    BY <1>5, <2>1, <2>2
<1>11. EventFrame(e).kind = "event" /\ EventFrame(e).event = e
  BY DEF EventFrame
<1>12. \A i \in 1..Len(wire') : i \in 1..Len(wire) \/ i > Len(wire)
  BY <1>6
<1>13. HeadFirst'
  <2> SUFFICES ASSUME NEW i \in 1..Len(wire'), wire'[i].kind = "head"
               PROVE  i = 1 /\ ~gapFired'
    BY DEF HeadFirst
  <2>1. i \in 1..Len(wire)
    BY <1>10, <1>11, <1>12
  <2> QED
    BY <1>2, <1>7, <2>1 DEF FirstLife, HeadFirst
<1>14. Sent'
  <2> SUFFICES ASSUME NEW i \in 1..Len(wire'), wire'[i].kind = "event"
               PROVE  wire'[i].event \in published'
    BY DEF Sent, IsEvent
  <2>1. CASE i \in 1..Len(wire)
    BY <1>2, <1>7, <2>1 DEF FirstLife, Sent, IsEvent
  <2>2. CASE i > Len(wire)
    BY <1>2, <1>10, <1>11, <2>2
  <2> QED
    BY <1>12, <2>1, <2>2
\* What was met at a place still is; and behind e nothing older is due.
<1>15. ASSUME NEW x \in published, NEW m \in 1..(Len(wire) + 1), Met(x, m)
       PROVE  Met(x, m)'
  <2>1. \A i \in 1..(m - 1) : i \in 1..Len(wire)
    BY <1>6
  <2>2. CASE x \in reflected
    BY <1>2, <2>2 DEF Met
  <2>3. CASE GapAhead
    <3>1. Len(wire) >= 1
      BY <1>1, <1>6, <2>3, EmptySeq DEF GapAhead, Wired
    <3>2. wire'[1] = wire[1] /\ wire' # <<>>
      <4>1. 1 \in 1..Len(wire) /\ Len(wire') >= 1
        BY <1>6, <1>8, <3>1
      <4>2. Len(<<>>) = 0
        OBVIOUS
      <4> QED
        BY <1>7, <4>1, <4>2
    <3> QED
      BY <2>3, <3>2 DEF Met, GapAhead
  <2>4. CASE \E i \in 1..(m - 1) : IsEvent(i) /\ wire[i].event = x
    BY <1>7, <2>1, <2>4 DEF Met, IsEvent
  <2> QED
    BY <1>15, <2>2, <2>3, <2>4 DEF Met
<1>16. ASSUME NEW x \in published, NEW m \in 1..(Len(wire) + 1), After(x, m)'
       PROVE  After(x, m)
  <2>1. \A i \in 1..(m - 1) : i \in 1..Len(wire)
    BY <1>6
  <2> QED
    BY <1>2, <1>7, <1>16, <2>1 DEF After, IsEvent
<1>17. ASSUME NEW x \in published, Sends(e), NEW m \in Nat, m = Len(wire) + 1,
              NEW l \in Nat, l = m + 1, After(x, l)'
       PROVE  After(x, m)
  <2>1. CASE cursor # NoId
    BY <1>2, <1>17, <2>1 DEF After
  <2>2. CASE cursor = NoId
    <3>1. PICK i \in 1..(l - 1) : wire'[i].kind = "event" /\ Before(wire'[i].event.id, x.id)
      BY <1>2, <1>17, <2>2 DEF After, IsEvent
    <3>2. wire'[Len(wire) + 1] = EventFrame(e)
      BY <1>1, <1>17, FanOutAppends
    <3>3. i # Len(wire) + 1
      BY <1>4, <1>11, <3>1, <3>2
    <3>4. i \in 1..Len(wire) /\ i \in 1..(m - 1)
      BY <1>6, <1>17, <3>1, <3>3
    <3> QED
      BY <1>7, <2>2, <3>1, <3>4 DEF After, IsEvent
  <2> QED
    BY <2>1, <2>2
<1>18. NoneJumped'
  <2> SUFFICES ASSUME NEW m \in 1..Len(wire'), wire'[m].kind = "event",
                      NEW x \in published', x.topic \in asked', After(x, m)',
                      Before(x.id, wire'[m].event.id)
               PROVE  Met(x, m)'
    BY DEF NoneJumped, IsEvent, Due
  <2>1. x # e => x \in published
    BY <1>2
  <2>2. CASE m \in 1..Len(wire)
    <3>1. wire'[m] = wire[m] /\ m \in 1..(Len(wire) + 1)
      BY <1>6, <1>7, <2>2
    <3>2. wire[m].event \in published
      BY <2>2, <3>1 DEF FirstLife, Sent, IsEvent
    <3>3. x \in published
      BY <1>4, <2>1, <3>1, <3>2
    <3>4. x \in Due(m)
      BY <1>2, <1>16, <3>1, <3>3 DEF Due
    <3>5. Met(x, m)
      BY <2>2, <3>1, <3>4 DEF FirstLife, NoneJumped, IsEvent
    <3> QED
      BY <1>15, <3>1, <3>3, <3>5
  <2>3. CASE m > Len(wire)
    <3>1. m = Len(wire) + 1 /\ wire'[m] = EventFrame(e) /\ (Sends(e) \/ Cuts(e))
      <4>1. wire'[m].kind \notin {"gap", "end"}
        OBVIOUS
      <4> QED
        BY <1>10, <2>3, <4>1
    <3>2. x \in published
      BY <1>4, <1>11, <2>1, <3>1
    <3>3. m \in 1..(Len(wire) + 1) /\ m \in {Len(wire) + 1}
      BY <1>6, <3>1
    <3>4. x \in Due(m)
      BY <1>2, <1>16, <3>2, <3>3 DEF Due
    <3>5. Met(x, m)
      BY <3>1, <3>3, <3>4 DEF FirstLife, NoneLeftOut, Sends, Cuts
    <3> QED
      BY <1>15, <3>2, <3>3, <3>5
  <2> QED
    BY <1>12, <2>2, <2>3
<1>19. NoneLeftOut'
  <2> SUFFICES ASSUME registered', NEW l \in {Len(wire') + 1},
                      NEW x \in published', x.topic \in asked', After(x, l)'
               PROVE  Met(x, l)'
    BY DEF NoneLeftOut, Due
  <2>1. x # e => x \in published
    BY <1>2
  <2>2. l = Len(wire') + 1 /\ l \in Nat
    BY <1>8
  <2>3. CASE PassesOver(e)
    <3>1. wire' = wire /\ registered /\ e.topic \notin asked
      BY <2>3 DEF PassesOver
    <3>2. x \in published
      BY <1>2, <2>1, <3>1
    <3>3. l \in 1..(Len(wire) + 1) /\ l \in {Len(wire) + 1}
      BY <1>6, <2>2, <3>1
    <3>4. x \in Due(l)
      BY <1>2, <1>16, <3>1, <3>2, <3>3 DEF Due
    <3>5. Met(x, l)
      BY <3>1, <3>3, <3>4 DEF FirstLife, NoneLeftOut
    <3> QED
      BY <1>15, <3>2, <3>3, <3>5
  <2>4. CASE Sends(e)
    <3>1. Len(wire') = Len(wire) + 1 /\ wire'[Len(wire) + 1] = EventFrame(e)
      BY <1>1, <1>6, <2>4, FanOutAppends
    <3>2. PICK m \in Nat : m = Len(wire) + 1 /\ l = m + 1
      BY <1>6, <2>2, <3>1
    <3>3. m \in 1..(l - 1) /\ m \in {Len(wire) + 1} /\ m \in 1..(Len(wire) + 1)
      BY <1>6, <3>2
    <3>4. CASE x = e
      BY <1>11, <3>1, <3>2, <3>3, <3>4 DEF Met, IsEvent
    <3>5. CASE x # e
      <4>1. x \in published
        BY <2>1, <3>5
      <4>2. x \in Due(m)
        BY <1>2, <1>17, <2>2, <2>4, <3>2, <4>1 DEF Due
      <4>3. Met(x, m)
        BY <2>4, <3>3, <4>2 DEF FirstLife, NoneLeftOut, Sends
      <4>4. Met(x, m)'
        BY <1>15, <3>3, <4>1, <4>3
      <4>5. \A i \in 1..(m - 1) : i \in 1..(l - 1)
        BY <3>2
      <4> QED
        BY <4>4, <4>5 DEF Met
    <3> QED
      BY <3>4, <3>5
  <2>5. ~Cuts(e)
    BY DEF Cuts
  <2> QED
    BY <1>5, <2>3, <2>4, <2>5
<1> QED
  BY <1>3, <1>13, <1>14, <1>18, <1>19 DEF FirstLife

LEMMA ServeFirstLife ==
  ASSUME Types, FirstLife, Serve
  PROVE  FirstLife'
<1>1. /\ RingInv /\ TypeOK /\ Recorded /\ NoneLeftOut
      /\ pc' = "open" /\ ~gapFired /\ cursor \in IdOrNull
      /\ UNCHANGED <<lastId, history, accepted, asked, cursor, gapFired, reflected, published>>
  BY DEF Types, TypeOK, FirstLife, Serve, ringVars, IdOrNull
<1>2. Recorded'
  BY <1>1 DEF Recorded, Held, InOrder
<1> DEFINE S == Replay(cursor, asked)
           n == Cardinality(S)
           d == Len(Opener)
<1>3. PICK at \in OldestFirst(S) :
        /\ DOMAIN at = 1..n /\ n \in Nat
        /\ Wired'
        /\ Len(wire') = d + n
        /\ \A i \in 1..d : wire'[i] = Opener[i]
        /\ \A i \in DOMAIN at : wire'[d + i] = EventFrame(history[at[i]])
  BY <1>1, ServedWire
<1>4. /\ \A i \in 1..n : at[i] \in S
      /\ \A p \in S : \E i \in 1..n : at[i] = p
      /\ \A i, j \in 1..n : i < j => at[i] < at[j]
  BY <1>3 DEF OldestFirst, Range
<1>5. \A p \in S : /\ p \in 1..Len(history) /\ Before(cursor, history[p].id)
                  /\ history[p] \in accepted /\ cursor # NoId
  <2>1. \A p \in S : p \in 1..Len(history) /\ Before(cursor, history[p].id) /\ cursor # NoId
    BY DEF Replay
  <2>2. \A p \in 1..Len(history) : history[p] \in accepted
    BY <1>1 DEF Recorded, Held
  <2> QED
    BY <2>1, <2>2
<1>6. S \subseteq Int
  BY <1>1, LenProperties DEF Replay, RingInv, RingTypeOK
<1> HIDE DEF S, n, d
<1>7. (d = 1 \/ d = 2) /\ (d = 2 => Checkpoint(cursor) = "earliest")
  BY OpenerShape DEF d
<1>8. /\ Opener[1] = HeadFrame(Checkpoint(cursor) = "earliest")
      /\ d = 2 => Opener[2] = GapFrame
  BY <1>7, OpenerShape DEF d
<1>9. \A f : EventFrame(f).kind = "event" /\ EventFrame(f).event = f
  BY DEF EventFrame
<1>10. HeadFrame(Checkpoint(cursor) = "earliest").kind = "head" /\ GapFrame.kind = "gap"
       /\ HeadFrame(Checkpoint(cursor) = "earliest").truncated = (Checkpoint(cursor) = "earliest")
  BY DEF HeadFrame, GapFrame
<1>11. \A i \in 1..Len(wire') :
         \/ i = 1 /\ wire'[i].kind = "head"
         \/ i = 2 /\ wire'[i].kind = "gap"
         \/ i - d \in 1..n /\ i = d + (i - d) /\ wire'[i] = EventFrame(history[at[i - d]])
  <2> SUFFICES ASSUME NEW i \in 1..Len(wire')
               PROVE \/ i = 1 /\ wire'[i].kind = "head"
                     \/ i = 2 /\ wire'[i].kind = "gap"
                     \/ i - d \in 1..n /\ i = d + (i - d) /\ wire'[i] = EventFrame(history[at[i - d]])
    OBVIOUS
  <2>1. CASE i <= d
    <3>1. i \in 1..d /\ (i = 1 \/ (i = 2 /\ d = 2))
      BY <1>3, <1>7, <2>1
    <3> QED
      BY <1>3, <1>8, <1>10, <3>1
  <2>2. CASE i > d
    <3>1. i - d \in 1..n /\ i = d + (i - d)
      BY <1>3, <1>7, <2>2
    <3>2. wire'[d + (i - d)] = EventFrame(history[at[i - d]])
      BY <1>3, <3>1
    <3> QED
      BY <3>1, <3>2
  <2> QED
    BY <1>3, <1>7, <2>1, <2>2
<1>12. HeadFirst'
  BY <1>1, <1>9, <1>11 DEF HeadFirst
<1>13. Sent'
  <2> SUFFICES ASSUME NEW i \in 1..Len(wire'), wire'[i].kind = "event"
               PROVE  wire'[i].event \in published'
    BY DEF Sent, IsEvent
  <2>1. i - d \in 1..n /\ wire'[i] = EventFrame(history[at[i - d]])
    BY <1>11
  <2>2. history[at[i - d]] \in accepted
    BY <1>4, <1>5, <2>1
  <2> QED
    BY <1>1, <1>9, <2>1, <2>2 DEF Recorded
<1>14. CASE Checkpoint(cursor) = "earliest"
  <2>1. GapAhead'
    <3>1. Len(wire') >= 1 /\ wire' # <<>>
      <4>1. Len(wire') >= 1
        BY <1>3, <1>7
      <4>2. Len(<<>>) = 0
        OBVIOUS
      <4> QED
        BY <4>1, <4>2
    <3>2. wire'[1] = HeadFrame(Checkpoint(cursor) = "earliest")
      BY <1>3, <1>7, <1>8
    <3> QED
      BY <1>10, <1>14, <3>1, <3>2 DEF GapAhead
  <2>2. NoneJumped' /\ NoneLeftOut'
    BY <2>1 DEF NoneJumped, NoneLeftOut, Met
  <2> QED
    BY <1>1, <1>2, <1>12, <1>13, <2>2 DEF FirstLife
<1>15. CASE Checkpoint(cursor) = "absent"
  <2>1. cursor = NoId
    BY <1>15 DEF Checkpoint
  <2>2. \A i \in 1..Len(wire') : wire'[i].kind # "event"
    BY <1>4, <1>5, <1>11, <2>1
  <2>3. NoneJumped'
    BY <2>2 DEF NoneJumped, IsEvent
  <2>4. NoneLeftOut'
    <3> SUFFICES ASSUME NEW m \in {Len(wire') + 1}, NEW x, After(x, m)'
                 PROVE  FALSE
      BY DEF NoneLeftOut, Due
    <3>1. Len(wire') \in Nat
      BY <1>3, <1>7
    <3>2. \A i \in 1..(m - 1) : i \in 1..Len(wire')
      BY <3>1
    <3> QED
      BY <1>1, <2>1, <2>2, <3>2 DEF After, IsEvent
  <2> QED
    BY <1>1, <1>2, <1>12, <1>13, <2>3, <2>4 DEF FirstLife
<1>16. CASE Checkpoint(cursor) = "echo"
  <2>1. cursor # NoId /\ ~Truncated(cursor) /\ cursor \in EventId
    BY <1>1, <1>16 DEF Checkpoint, IdOrNull
  <2>2. ASSUME NEW x \in published, x.topic \in asked, Before(cursor, x.id)
        PROVE  \E i \in 1..n : x = history[at[i]]
    <3>1. x \in Replayed(cursor, asked)
      BY <1>1, <2>1, <2>2, EchoIsSound DEF Recorded
    <3>2. PICK p \in S : x = history[p]
      BY <3>1 DEF Replayed, S
    <3> QED
      BY <1>4, <3>2
  <2>3. \A i \in 1..n : d + i \in 1..Len(wire')
    BY <1>3, <1>7
  <2>4. NoneJumped'
    <3> SUFFICES ASSUME NEW m \in 1..Len(wire'), wire'[m].kind = "event",
                        NEW x \in published', x.topic \in asked', After(x, m)',
                        Before(x.id, wire'[m].event.id)
                 PROVE  Met(x, m)'
      BY DEF NoneJumped, IsEvent, Due
    <3>1. x \in published /\ x.topic \in asked /\ Before(cursor, x.id)
      BY <1>1, <2>1 DEF After
    <3>2. PICK i \in 1..n : x = history[at[i]]
      BY <2>2, <3>1
    <3>3. PICK j \in 1..n : m = d + j /\ wire'[m] = EventFrame(history[at[j]])
      BY <1>11
    <3>4. at[i] < at[j]
      <4>1. at[i] \in 1..Len(history) /\ at[j] \in 1..Len(history)
        BY <1>4, <1>5
      <4> QED
        BY <1>1, <1>9, <3>2, <3>3, <4>1 DEF Recorded, InOrder
    <3>5. i < j
      <4>1. at[i] \in Int /\ at[j] \in Int
        BY <1>4, <1>6
      <4> SUFFICES ASSUME ~(i < j) PROVE FALSE
        OBVIOUS
      <4>2. i = j \/ j < i
        BY <1>3
      <4> QED
        BY <1>4, <3>4, <4>1, <4>2
    <3>6. d + i \in 1..(m - 1)
      BY <1>3, <1>7, <3>3, <3>5
    <3>7. wire'[d + i] = EventFrame(x)
      BY <1>3, <3>2
    <3> QED
      BY <1>9, <3>6, <3>7 DEF Met, IsEvent
  <2>5. NoneLeftOut'
    <3> SUFFICES ASSUME NEW m \in {Len(wire') + 1},
                        NEW x \in published', x.topic \in asked', After(x, m)'
                 PROVE  Met(x, m)'
      BY DEF NoneLeftOut, Due
    <3>1. x \in published /\ x.topic \in asked /\ Before(cursor, x.id)
      BY <1>1, <2>1 DEF After
    <3>2. PICK i \in 1..n : x = history[at[i]]
      BY <2>2, <3>1
    <3>3. d + i \in 1..(m - 1)
      BY <1>3, <1>7
    <3>4. wire'[d + i] = EventFrame(x)
      BY <1>3, <3>2
    <3> QED
      BY <1>9, <3>3, <3>4 DEF Met, IsEvent
  <2> QED
    BY <1>1, <1>2, <1>12, <1>13, <2>4, <2>5 DEF FirstLife
<1> QED
  BY <1>14, <1>15, <1>16 DEF Checkpoint

(* Reading a frame: what was met further down is met nearer the front. *)
LEMMA ReadFirstLife ==
  ASSUME Types, FirstLife, ReadHead \/ ReadGap \/ ReadEvent
  PROVE  FirstLife'
<1>1. /\ TypeOK /\ Wired /\ RingInv /\ wire # <<>> /\ wire' = Tail(wire) /\ pc = "open"
      /\ UNCHANGED <<lastId, history, accepted, registered, pc, asked, published>>
  BY DEF Types, ReadHead, ReadGap, ReadEvent, Reading, ringVars
<1>2. /\ Len(wire) \in Nat /\ Len(wire') = Len(wire) - 1 /\ Len(wire) >= 1
      /\ wire[1] \in Frame
      /\ \A i \in 1..Len(wire') : wire'[i] = wire[i + 1] /\ i + 1 \in 1..Len(wire)
  BY <1>1, ReadOff
<1>3. Recorded'
  BY <1>1 DEF FirstLife, Recorded, Held, InOrder
<1>4. \A i \in 1..Len(wire') : wire'[i].kind # "head"
  <2> SUFFICES ASSUME NEW i \in 1..Len(wire'), wire'[i].kind = "head" PROVE FALSE
    OBVIOUS
  <2>1. i + 1 = 1
    BY <1>2 DEF FirstLife, HeadFirst
  <2> QED
    BY <2>1
<1>5. HeadFirst'
  BY <1>4 DEF HeadFirst
<1>6. Sent'
  BY <1>1, <1>2 DEF Sent, IsEvent, FirstLife
<1>7. /\ reflected \subseteq reflected'
      /\ GapAhead => reflected' = published
  <2>1. reflected \subseteq published
    BY <1>1 DEF TypeOK
  <2>2. wire[1].kind = "head" => ~gapFired
    BY <1>2 DEF FirstLife, HeadFirst
  <2>3. CASE ReadHead
    BY <2>1, <2>2, <2>3 DEF ReadHead, ReportGap, GapAhead, Reading
  <2>4. CASE ReadGap
    BY <2>1, <2>4 DEF ReadGap, ReportGap, GapAhead, Reading
  <2>5. CASE ReadEvent
    BY <2>5 DEF ReadEvent, GapAhead, Reading
  <2> QED
    BY <2>3, <2>4, <2>5
<1>8. ASSUME NEW x \in published, NEW m \in Nat, m >= 1, m - 1 <= Len(wire'), After(x, m)'
      PROVE  After(x, m + 1) /\ ~(wire[1].kind = "event" /\ wire[1].event = x)
  <2>0. \A i \in 1..(m - 1) : i \in 1..Len(wire') /\ i + 1 \in 1..(m + 1 - 1)
    BY <1>2, <1>8
  <2>1. x.id \in EventId /\ cursor \in IdOrNull
    BY <1>1 DEF FirstLife, Recorded, RingInv, RingTypeOK, Entry, TypeOK, IdOrNull
  <2>2. CASE wire[1].kind # "event"
    <3>1. cursor' = cursor
      BY <2>2 DEF ReadHead, ReadGap, ReadEvent, Reading
    <3>2. CASE cursor # NoId
      BY <1>8, <2>2, <3>1, <3>2 DEF After
    <3>3. CASE cursor = NoId
      <4>1. PICK i \in 1..(m - 1) : wire'[i].kind = "event" /\ Before(wire'[i].event.id, x.id)
        BY <1>8, <3>1, <3>3 DEF After, IsEvent
      <4>2. i + 1 \in 1..(m + 1 - 1) /\ wire[i + 1].kind = "event" /\ Before(wire[i + 1].event.id, x.id)
        BY <1>2, <2>0, <4>1
      <4> QED
        BY <2>2, <3>3, <4>2 DEF After, IsEvent
    <3> QED
      BY <3>2, <3>3
  <2>3. CASE wire[1].kind = "event"
    <3> DEFINE c == wire[1].event.id
    <3>1. c \in EventId
      BY <1>2, <2>3, FrameKinds DEF Entry
    <3>2. cursor' = Later(cursor, c)
      BY <2>3 DEF ReadHead, ReadGap, ReadEvent, Reading
    <3> HIDE DEF c
    <3>3. cursor' # NoId /\ cursor' \in IdOrNull /\ AtOrBefore(c, cursor') /\ AtOrBefore(cursor, cursor')
      BY <2>1, <3>1, <3>2, IdOrder DEF Later, IdOrNull, AtOrBefore
    <3>4. Before(cursor', x.id)
      BY <1>8, <3>3 DEF After
    <3>5. Before(cursor, x.id) /\ Before(c, x.id)
      BY <2>1, <3>1, <3>3, <3>4, IdOrder DEF IdOrNull
    <3>6. wire[1].event # x
      BY <2>1, <3>5, IdOrder DEF c, IdOrNull
    <3>7. After(x, m + 1)
      <4>1. 1 \in 1..(m + 1 - 1)
        BY <1>8
      <4> QED
        BY <2>3, <3>5, <4>1 DEF After, IsEvent, c
    <3> QED
      BY <3>6, <3>7
  <2> QED
    BY <2>2, <2>3
<1>9. ASSUME NEW x \in published, NEW m \in Nat, m >= 1, m - 1 <= Len(wire'),
             ~(wire[1].kind = "event" /\ wire[1].event = x), Met(x, m + 1)
      PROVE  Met(x, m)'
  <2>1. CASE x \in reflected \/ GapAhead
    BY <1>7, <2>1 DEF Met
  <2>2. CASE \E i \in 1..(m + 1 - 1) : IsEvent(i) /\ wire[i].event = x
    <3>1. PICK i \in 1..(m + 1 - 1) : wire[i].kind = "event" /\ wire[i].event = x
      BY <2>2 DEF IsEvent
    <3>2. i # 1
      BY <1>9, <3>1
    <3>3. i - 1 \in 1..(m - 1) /\ i - 1 \in 1..Len(wire') /\ i - 1 + 1 = i
      BY <1>2, <1>9, <3>1, <3>2
    <3>4. wire'[i - 1] = wire[i]
      BY <1>2, <3>3
    <3> QED
      BY <3>1, <3>3, <3>4 DEF Met, IsEvent
  <2> QED
    BY <1>9, <2>1, <2>2 DEF Met
<1>10. NoneJumped'
  <2> SUFFICES ASSUME NEW m \in 1..Len(wire'), wire'[m].kind = "event",
                      NEW x \in published', x.topic \in asked', After(x, m)',
                      Before(x.id, wire'[m].event.id)
               PROVE  Met(x, m)'
    BY DEF NoneJumped, IsEvent, Due
  <2>1. x \in published /\ x.topic \in asked
    BY <1>1
  <2>2. m \in Nat /\ m >= 1 /\ m - 1 <= Len(wire')
    BY <1>2
  <2>3. After(x, m + 1) /\ ~(wire[1].kind = "event" /\ wire[1].event = x)
    BY <1>8, <2>1, <2>2
  <2>4. x \in Due(m + 1) /\ m + 1 \in 1..Len(wire) /\ wire'[m] = wire[m + 1]
    BY <1>2, <2>1, <2>3 DEF Due
  <2>5. Met(x, m + 1)
    BY <2>4 DEF FirstLife, NoneJumped, IsEvent
  <2> QED
    BY <1>9, <2>1, <2>2, <2>3, <2>5
<1>11. NoneLeftOut'
  <2> SUFFICES ASSUME registered', NEW m \in {Len(wire') + 1},
                      NEW x \in published', x.topic \in asked', After(x, m)'
               PROVE  Met(x, m)'
    BY DEF NoneLeftOut, Due
  <2>1. x \in published /\ x.topic \in asked /\ registered
    BY <1>1
  <2>2. m \in Nat /\ m >= 1 /\ m - 1 <= Len(wire') /\ m + 1 = Len(wire) + 1
    BY <1>2
  <2>3. After(x, m + 1) /\ ~(wire[1].kind = "event" /\ wire[1].event = x)
    BY <1>8, <2>1, <2>2
  <2>4. x \in Due(m + 1) /\ m + 1 \in {Len(wire) + 1}
    BY <2>1, <2>2, <2>3 DEF Due
  <2>5. Met(x, m + 1)
    BY <2>1, <2>4 DEF FirstLife, NoneLeftOut
  <2> QED
    BY <1>9, <2>1, <2>2, <2>3, <2>5
<1> QED
  BY <1>1, <1>3, <1>5, <1>6, <1>10, <1>11 DEF FirstLife

(* Steps that empty the wire, or find it empty. *)
LEMMA OtherFirstLife ==
  ASSUME Types, FirstLife,
         \/ (\E T \in SUBSET Topics : Start(T) \/ Sync(T))
         \/ Refuse \/ Break \/ Wake \/ ReadEnd
  PROVE  FirstLife'
<1>1. TypeOK
  BY DEF Types
<1>2. wire' = <<>> /\ registered' = FALSE
  BY <1>1 DEF TypeOK, Start, Sync, Refuse, Break, Wake, ReadEnd, Reading, HangUp
<1>3. UNCHANGED <<lastId, history, accepted, published>>
  BY DEF Start, Sync, Refuse, Break, Wake, ReadEnd, ringVars
<1>4. pc' # "absent"
  BY DEF Start, Sync, Refuse, Break, Wake, ReadEnd, HangUp
<1>5. Recorded'
  BY <1>3 DEF FirstLife, Recorded, Held, InOrder
<1> QED
  BY <1>2, <1>4, <1>5, NothingWired DEF FirstLife

LEMMA StutterFirstLife ==
  ASSUME FirstLife, UNCHANGED vars
  PROVE  FirstLife'
<1>1. /\ UNCHANGED <<lastId, history, accepted>>
      /\ UNCHANGED <<registered, wire, pc, asked, cursor, gapFired, reflected, published>>
  BY DEF vars, ringVars, connVars
<1>2. Recorded'
  BY <1>1 DEF FirstLife, Recorded, Held, InOrder
<1>3. HeadFirst' /\ Sent' /\ NoneJumped' /\ NoneLeftOut'
  BY <1>1 DEF FirstLife, HeadFirst, Sent, NoneJumped, NoneLeftOut, Due, After, Met, GapAhead, IsEvent
<1> QED
  BY <1>1, <1>2, <1>3 DEF FirstLife

LEMMA InitIInv == Init => IInv
<1> SUFFICES ASSUME Init PROVE IInv
  OBVIOUS
<1>1. Types
  BY InitTypes
<1>2. wire = <<>> /\ registered = FALSE /\ published = {} /\ accepted = {} /\ history = <<>>
      /\ lastId = ZeroId /\ cursor = NoId /\ restarts = 0
  BY DEF Init, RingInit
<1>3. 1..Len(wire) = {} /\ 1..Len(history) = {}
  BY <1>2
<1>4. Recorded
  BY <1>2, <1>3 DEF Recorded, Held, InOrder
<1>5. HeadFirst /\ Sent /\ NoneJumped /\ NoneLeftOut
  BY <1>2, <1>3 DEF HeadFirst, Sent, NoneJumped, NoneLeftOut
<1> QED
  BY <1>1, <1>2, <1>4, <1>5 DEF IInv, FirstLife

LEMMA NextIInv ==
  ASSUME IInv, [Next]_vars
  PROVE  IInv'
<1>1. Types' /\ Types
  BY NextTypes DEF IInv
<1>2. restarts' = restarts \/ (Restart /\ restarts' = restarts + 1)
  BY DEF Next, Client, vars, Publish, Start, Sync, Refuse, Restart, Break,
         Serve, Wake, ReadHead, ReadGap, ReadEvent, ReadEnd
<1>3. restarts' \in Nat
  BY <1>2 DEF IInv
<1>4. ASSUME restarts' = 0 PROVE FirstLife'
  <2>1. restarts' = restarts /\ FirstLife
    BY <1>2, <1>4 DEF IInv
  <2>2. ~Restart
    BY <2>1 DEF IInv, Restart
  <2> QED
    BY <1>1, <2>1, <2>2, PublishFirstLife, ServeFirstLife, ReadFirstLife, OtherFirstLife,
       StutterFirstLife DEF Next, Client
<1> QED
  BY <1>1, <1>3, <1>4 DEF IInv

-----------------------------------------------------------------------------
(* The refinement: each step of the first life is one of Delivery's.       *)

LEMMA PublishAccepts ==
  ASSUME Types, FirstLife,
         NEW now \in 0..MaxMs, NEW t \in Topics, NEW n \in Sizes, NEW o \in Origins,
         Publish(now, t, n, o)
  PROVE  Promise!Accept
<1> DEFINE e == Minted(now, t, n, o)
<1>1. e \in Entry /\ \A x \in accepted : Before(x.id, e.id)
  BY MintedIsFresh DEF Types
<1>2. published' = published \cup {e} /\ UNCHANGED <<asked, cursor, reflected>>
  BY DEF Publish
<1> HIDE DEF e
<1>3. e \notin published
  <2>1. published = accepted /\ e.id \in IdOrNull
    BY <1>1 DEF FirstLife, Recorded, Entry, IdOrNull
  <2> QED
    BY <1>1, <2>1, IdOrder
<1> QED
  BY <1>2, <1>3 DEF Promise!Accept

LEMMA ReadDelivers ==
  ASSUME Types, FirstLife, ReadEvent
  PROVE  UNCHANGED Promise!deliveryVars \/ \E e \in published : Promise!Deliver(e)
<1> DEFINE e == wire[1].event
<1>1. /\ wire \in Seq(Frame) /\ wire # <<>> /\ wire[1].kind = "event"
      /\ cursor' = Later(cursor, e.id)
      /\ UNCHANGED <<asked, reflected, published>>
  BY DEF ReadEvent, Reading, Types, Wired
<1>2. 1 \in 1..Len(wire)
  BY <1>1, EmptySeq, LenProperties
<1>3. e \in published
  BY <1>1, <1>2 DEF FirstLife, Sent, IsEvent
<1>4. CASE ~Before(cursor, e.id)
  BY <1>1, <1>4 DEF Later, Promise!deliveryVars
<1>5. CASE Before(cursor, e.id)
  <2>1. ASSUME cursor # NoId PROVE Promise!Skipped(e) \subseteq reflected
    <3> SUFFICES ASSUME NEW x \in published, x.topic \in asked,
                        Before(cursor, x.id), Before(x.id, e.id)
                 PROVE  x \in reflected
      BY DEF Promise!Skipped, Promise!Before, Before
    <3>1. x \in Due(1)
      BY <2>1 DEF Due, After
    <3>2. Met(x, 1)
      BY <1>1, <1>2, <3>1 DEF FirstLife, NoneJumped, IsEvent
    <3> QED
      BY <1>1, <3>2 DEF Met, GapAhead
  <2>2. cursor' = e.id
    BY <1>1, <1>5 DEF Later
  <2>3. Promise!Deliver(e)
    BY <1>1, <1>5, <2>1, <2>2
       DEF Promise!Deliver, Promise!Before, Before, Promise!NoId, NoId, Promise!Id, Id
  <2> QED
    BY <1>3, <2>3
<1> QED
  BY <1>4, <1>5

LEMMA StepKeepsPromise ==
  ASSUME IInv, [Next]_vars, restarts' = 0
  PROVE  [Promise!Next]_(Promise!deliveryVars)
<1>1. Types /\ FirstLife /\ ~Restart
  <2>1. restarts' = restarts \/ (Restart /\ restarts' = restarts + 1)
    BY DEF Next, Client, vars, Publish, Start, Sync, Refuse, Restart, Break,
           Serve, Wake, ReadHead, ReadGap, ReadEvent, ReadEnd
  <2>2. restarts \in Nat
    BY DEF IInv
  <2>3. ~Restart
    BY <2>2 DEF Restart
  <2> QED
    BY <2>1, <2>3 DEF IInv
<1>2. ASSUME NEW now \in 0..MaxMs, NEW t \in Topics, NEW n \in Sizes, NEW o \in Origins,
             Publish(now, t, n, o)
      PROVE  Promise!Next
  BY <1>1, <1>2, PublishAccepts DEF Promise!Next
<1>3. ASSUME NEW T, Start(T) PROVE Promise!Next
  <2>1. cursor = NoId /\ published' = published
    BY <1>1, <1>3 DEF FirstLife, Start
  <2>2. CASE UNCHANGED <<cursor, reflected>>
    BY <2>1, <2>2 DEF Promise!Next, Promise!Follow
  <2>3. CASE cursor' = lastId /\ reflected' = published
    <3>1. lastId = ZeroId \/ \E e \in published : lastId = e.id
      BY <1>1 DEF FirstLife, Recorded
    <3> QED
      BY <2>1, <2>3, <3>1
         DEF Promise!Next, Promise!Begin, Promise!ZeroId, ZeroId, Promise!NoId, NoId, Promise!Id, Id
  <2> QED
    BY <1>3, <2>2, <2>3 DEF Start
<1>4. ASSUME NEW T, Sync(T) PROVE Promise!Next
  BY <1>4 DEF Sync, HangUp, Promise!Next, Promise!Follow
<1>5. CASE Refuse \/ Break \/ Serve \/ Wake \/ ReadEnd
  BY <1>5 DEF Refuse, Break, Serve, Wake, ReadEnd, HangUp, Promise!Next, Promise!Follow
<1>6. CASE ReadHead \/ ReadGap
  BY <1>6 DEF ReadHead, ReadGap, ReportGap, Promise!Next, Promise!Follow, Promise!Gap
<1>7. CASE ReadEvent
  BY <1>1, <1>7, ReadDelivers DEF Promise!Next
<1>8. CASE UNCHANGED vars
  <2>1. UNCHANGED connVars /\ published' = published
    BY <1>8 DEF vars
  <2> QED
    BY <2>1 DEF connVars, Promise!deliveryVars
<1> QED
  BY <1>1, <1>2, <1>3, <1>4, <1>5, <1>6, <1>7, <1>8 DEF Next, Client

(* Stream.NoSilentSkip: for as long as the hub that accepted them lives,   *)
(* the client's cursor passes no event on a topic it follows that it was   *)
(* neither given nor told of, whatever the ring evicts, whichever slow     *)
(* connection is cut, and however often the client loses its own.          *)
THEOREM NothingIsSkipped == Spec => NoSilentSkip
<1>1. Init => IInv
  BY InitIInv
<1>2. IInv /\ [Next]_vars => IInv'
  BY NextIInv
<1>3. IInv /\ [Next]_vars => [restarts' = 0 => Promise!Next]_(Promise!deliveryVars)
  BY StepKeepsPromise
<1>4. Init => Promise!Init
  BY DEF Init, Promise!Init, NoId, Promise!NoId, Id, Promise!Id
<1> QED
  BY <1>1, <1>2, <1>3, <1>4, PTL DEF Spec, NoSilentSkip
=============================================================================
