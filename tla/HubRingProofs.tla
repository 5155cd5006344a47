---------------------------- MODULE HubRingProofs ----------------------------
(***************************************************************************)
(* What holds of the hub's ids and of its ring whoever appends, for every  *)
(* byte budget and any order of ids.  Both the protocol core's theorems    *)
(* and the stream's rest on it.                                            *)
(***************************************************************************)
EXTENDS HubRing, FiniteSetTheorems, SequenceTheorems, WellFoundedInduction, TLAPS

IdOrNull == EventId \cup {NoId}

(* Ids are totally ordered by their halves, and null is before all. *)
LEMMA IdOrder ==
  /\ ZeroId \in EventId
  /\ NoId \notin EventId
  /\ \A a \in IdOrNull : ~Before(a, a)
  /\ \A a \in EventId : Before(NoId, a) /\ ~Before(a, NoId)
  /\ \A a, b \in IdOrNull : AtOrBefore(a, b) \/ Before(b, a)
  /\ \A a, b \in IdOrNull : ~(AtOrBefore(a, b) /\ Before(b, a))
  /\ \A a, b, c \in IdOrNull : AtOrBefore(a, b) /\ AtOrBefore(b, c) => AtOrBefore(a, c)
  /\ \A a, b, c \in IdOrNull : AtOrBefore(a, b) /\ Before(b, c) => Before(a, c)
  /\ \A a, b, c \in IdOrNull : Before(a, b) /\ AtOrBefore(b, c) => Before(a, c)
<1>1. \A a, b \in IdOrNull : a.ms = b.ms /\ a.seq = b.seq => a = b
  BY DEF IdOrNull, EventId, NoId, Id
<1>2. \A a \in IdOrNull : a.ms \in Int /\ a.seq \in Int
  BY DEF IdOrNull, EventId, NoId, Id
<1>3. ZeroId \in EventId /\ NoId \notin EventId
  BY DEF ZeroId, EventId, NoId, Id
<1>4. \A a \in EventId : Before(NoId, a) /\ ~Before(a, NoId)
  BY DEF EventId, NoId, Id, Before
<1> QED
  BY <1>1, <1>2, <1>3, <1>4 DEF Before, AtOrBefore

(* A minted id is an id, and after the one before it. *)
LEMMA MintIsLater ==
  ASSUME NEW last \in EventId, NEW now \in Nat
  PROVE  NextId(last, now) \in EventId /\ Before(last, NextId(last, now))
  BY DEF EventId, NextId, Id, Before

(* The later of two ids is one of them and not before either. *)
LEMMA LaterIsUpper ==
  ASSUME NEW a \in EventId, NEW b \in EventId
  PROVE  /\ Later(a, b) \in EventId
         /\ AtOrBefore(a, Later(a, b))
         /\ AtOrBefore(b, Later(a, b))
  BY IdOrder DEF Later, AtOrBefore, IdOrNull

-----------------------------------------------------------------------------
(* The ring.                                                               *)

Held == {history[i] : i \in 1..Len(history)}

(* What an append leaves true of the ring: every accepted event is still   *)
(* held or its id is among the evicted, the mark is the newest of those,   *)
(* and no accepted id is after the sequence.                               *)
RingInv ==
  /\ RingTypeOK
  /\ \A e \in accepted : e \in Held \/ e.id \in evicted
  /\ \A x \in evicted : AtOrBefore(x, lastTrimmed)
  /\ lastTrimmed \in evicted \cup {NoId}
  /\ \A e \in accepted : AtOrBefore(e.id, lastId)

LEMMA RingInitInv == RingInit => RingInv
  BY IdOrder, EmptySeq DEF RingInit, RingInv, RingTypeOK, Held

(* Dropping the first k entries of an appended ring. *)
LEMMA RingAppendInv ==
  ASSUME RingInv, NEW e \in Entry, AppendEvent(e)
  PROVE  RingInv'
<1> DEFINE h == Append(history, e)
           w == bytes + e.size
<1>1. /\ h \in Seq(Entry)
      /\ Len(h) = Len(history) + 1
      /\ \A i \in 1..Len(history) : h[i] = history[i]
      /\ h[Len(history) + 1] = e
      /\ Len(history) \in Nat
  BY AppendProperties, LenProperties DEF RingInv, RingTypeOK
<1> HIDE DEF h
<1> DEFINE dropped(k) == {h[i].id : i \in 1..k}
<1>2. PICK k \in TrimCount(h, w) :
        /\ history' = SubSeq(h, k + 1, Len(h))
        /\ lastTrimmed' \in MarkAfter(lastTrimmed, dropped(k))
        /\ evicted' = evicted \cup dropped(k)
  BY DEF AppendEvent, h
<1>3. k \in 0..Len(h)
  BY <1>2 DEF TrimCount
<1>4. \A i \in 1..Len(h) : h[i] \in Entry
  BY <1>1, ElementOfSeq
<1>5. /\ history' \in Seq(Entry)
      /\ Len(history') = Len(h) - k
      /\ \A i \in 1..(Len(h) - k) : history'[i] = h[k + i]
  <2>1. \A i \in (k + 1)..Len(h) : h[i] \in Entry
    BY <1>1, <1>3, <1>4
  <2>2. k + 1 \in Int /\ Len(h) \in Int
    BY <1>1, <1>3
  <2>3. /\ SubSeq(h, k + 1, Len(h)) \in Seq(Entry)
        /\ Len(SubSeq(h, k + 1, Len(h))) = IF k + 1 <= Len(h) THEN Len(h) - (k + 1) + 1 ELSE 0
        /\ \A i \in 1..(Len(h) - (k + 1) + 1) : SubSeq(h, k + 1, Len(h))[i] = h[k + 1 + i - 1]
    BY <2>1, <2>2, SubSeqProperties
  <2> QED
    BY <1>1, <1>2, <1>3, <2>3
<1>6. /\ accepted' = accepted \cup {e}
      /\ lastId' = Later(lastId, e.id)
  BY DEF AppendEvent
<1>7. /\ dropped(k) \subseteq EventId
      /\ evicted \subseteq EventId
      /\ lastTrimmed \in IdOrNull
      /\ lastId \in EventId
      /\ e.id \in EventId
  BY <1>3, <1>4 DEF Entry, RingInv, RingTypeOK, IdOrNull
<1>8. /\ lastTrimmed' \in {lastTrimmed} \cup dropped(k)
      /\ \A x \in {lastTrimmed} \cup dropped(k) : AtOrBefore(x, lastTrimmed')
  BY <1>2 DEF MarkAfter, Newest
<1>9. RingTypeOK'
  <2>1. lastId' \in EventId
    BY <1>6, <1>7, LaterIsUpper
  <2>2. lastTrimmed' \in EventId \cup {NoId}
    BY <1>7, <1>8 DEF IdOrNull
  <2> QED
    BY <1>2, <1>5, <1>6, <1>7, <2>1, <2>2 DEF RingTypeOK, RingInv
<1>10. \A x \in accepted' : x \in Held' \/ x.id \in evicted'
  <2>1. \A i \in 1..Len(h) : h[i] \in Held' \/ h[i].id \in dropped(k)
    <3> SUFFICES ASSUME NEW i \in 1..Len(h), i > k
                 PROVE  h[i] \in Held'
      BY <1>1, <1>3
    <3>1. i - k \in 1..(Len(h) - k) /\ k + (i - k) = i
      BY <1>1, <1>3
    <3> QED
      BY <1>5, <3>1 DEF Held
  <2>2. ASSUME NEW x \in accepted'
        PROVE  (\E i \in 1..Len(h) : x = h[i]) \/ x.id \in evicted
    <3>1. CASE x = e
      <4>1. Len(history) + 1 \in 1..Len(h)
        BY <1>1
      <4> QED
        BY <1>1, <3>1, <4>1
    <3>2. CASE x \in accepted /\ x.id \notin evicted
      <4>1. PICK i \in 1..Len(history) : x = history[i]
        BY <3>2 DEF RingInv, Held
      <4>2. i \in 1..Len(h)
        BY <1>1
      <4> QED
        BY <1>1, <4>1, <4>2
    <3> QED
      BY <1>6, <3>1, <3>2
  <2> QED
    BY <1>2, <2>1, <2>2
<1>11. \A x \in evicted' : AtOrBefore(x, lastTrimmed')
  <2>1. \A x \in evicted : AtOrBefore(x, lastTrimmed)
    BY DEF RingInv
  <2>2. lastTrimmed' \in IdOrNull
    BY <1>9 DEF RingTypeOK, IdOrNull
  <2>3. \A x \in evicted : AtOrBefore(x, lastTrimmed')
    BY <1>7, <1>8, <2>1, <2>2, IdOrder DEF IdOrNull
  <2> QED
    BY <1>2, <1>8, <2>3
<1>12. lastTrimmed' \in evicted' \cup {NoId}
  BY <1>2, <1>8 DEF RingInv
<1>13. \A x \in accepted' : AtOrBefore(x.id, lastId')
  <2>1. \A x \in accepted : AtOrBefore(x.id, lastId) /\ x.id \in EventId
    BY DEF RingInv, RingTypeOK, Entry
  <2>2. AtOrBefore(lastId, lastId') /\ AtOrBefore(e.id, lastId') /\ lastId' \in EventId
    BY <1>6, <1>7, LaterIsUpper
  <2> QED
    BY <1>6, <1>7, <2>1, <2>2, IdOrder DEF IdOrNull
<1> QED
  BY <1>9, <1>10, <1>11, <1>12, <1>13 DEF RingInv

(* An append keeps a suffix of the ring with the new entry behind it. *)
LEMMA AppendKeepsASuffix ==
  ASSUME RingInv, NEW e \in Entry, AppendEvent(e)
  PROVE  \E k \in Nat :
           /\ Len(history') + k = Len(history) + 1
           /\ \A i \in 1..Len(history') :
                history'[i] = IF k + i <= Len(history) THEN history[k + i] ELSE e
<1> DEFINE h == Append(history, e)
<1>1. /\ h \in Seq(Entry)
      /\ Len(h) = Len(history) + 1
      /\ \A i \in 1..Len(history) : h[i] = history[i]
      /\ h[Len(history) + 1] = e
      /\ Len(history) \in Nat
  BY AppendProperties, LenProperties DEF RingInv, RingTypeOK
<1> HIDE DEF h
<1>2. PICK k \in 0..Len(h) : history' = SubSeq(h, k + 1, Len(h))
  BY DEF AppendEvent, TrimCount, h
<1>3. \A i \in (k + 1)..Len(h) : h[i] \in Entry
  BY <1>1, <1>2, ElementOfSeq
<1>4. k + 1 \in Int /\ Len(h) \in Int
  BY <1>1, <1>2
<1>5. /\ Len(SubSeq(h, k + 1, Len(h))) = IF k + 1 <= Len(h) THEN Len(h) - (k + 1) + 1 ELSE 0
      /\ \A i \in 1..(Len(h) - (k + 1) + 1) : SubSeq(h, k + 1, Len(h))[i] = h[k + 1 + i - 1]
  BY <1>3, <1>4, SubSeqProperties
<1>6. Len(history') = Len(h) - k /\ \A i \in 1..Len(history') : history'[i] = h[k + i]
  BY <1>1, <1>2, <1>5
<1>7. k \in Nat /\ Len(history') + k = Len(history) + 1
  BY <1>1, <1>2, <1>6
<1>8. \A i \in 1..Len(history') : k + i \in 1..(Len(history) + 1)
  BY <1>1, <1>7
<1>9. \A i \in 1..Len(history') :
        history'[i] = IF k + i <= Len(history) THEN history[k + i] ELSE e
  <2> SUFFICES ASSUME NEW i \in 1..Len(history')
               PROVE  history'[i] = IF k + i <= Len(history) THEN history[k + i] ELSE e
    OBVIOUS
  <2>1. CASE k + i <= Len(history)
    BY <1>1, <1>6, <1>8, <2>1
  <2>2. CASE ~(k + i <= Len(history))
    <3>1. k + i = Len(history) + 1
      BY <1>1, <1>8, <2>2
    <3> QED
      BY <1>1, <1>6, <2>2, <3>1
  <2> QED
    BY <2>1, <2>2
<1> QED
  BY <1>7, <1>9

LEMMA RingStutterInv ==
  ASSUME RingInv, UNCHANGED ringVars
  PROVE  RingInv'
  BY DEF RingInv, RingTypeOK, ringVars, Held

(* The entry a publish appends is well formed and after all accepted ones. *)
LEMMA MintedIsFresh ==
  ASSUME RingInv, NEW now \in 0..MaxMs, NEW t \in Topics, NEW n \in Sizes, NEW o \in Origins
  PROVE  /\ Minted(now, t, n, o) \in Entry
         /\ \A x \in accepted : Before(x.id, Minted(now, t, n, o).id)
<1>1. lastId \in EventId /\ now \in Nat
  BY RingAssumption DEF RingInv, RingTypeOK
<1>2. /\ Minted(now, t, n, o).id = NextId(lastId, now)
      /\ NextId(lastId, now) \in EventId
      /\ Before(lastId, NextId(lastId, now))
  BY <1>1, MintIsLater DEF Minted
<1>3. Minted(now, t, n, o) \in Entry
  BY <1>2 DEF Minted, Entry
<1>4. \A x \in accepted : AtOrBefore(x.id, lastId) /\ x.id \in EventId
  BY DEF RingInv, RingTypeOK, Entry
<1> QED
  BY <1>1, <1>2, <1>3, <1>4, IdOrder DEF IdOrNull

(* Why a checkpoint may be echoed: what is not held any more was evicted,  *)
(* so is at or before the mark, so at or before the cursor.                *)
LEMMA EchoIsSound ==
  ASSUME RingInv, NEW c \in EventId, ~Truncated(c), NEW T
  PROVE  {e \in accepted : Before(c, e.id) /\ e.topic \in T} \subseteq Replayed(c, T)
<1> SUFFICES ASSUME NEW e \in accepted, Before(c, e.id), e.topic \in T
             PROVE  e \in Replayed(c, T)
  OBVIOUS
<1>1. e.id \in EventId /\ lastTrimmed \in IdOrNull /\ c \in IdOrNull
  BY DEF RingInv, RingTypeOK, Entry, IdOrNull
<1>2. ~Before(c, lastTrimmed)
  BY DEF Truncated, EvictedPast
<1>3. e.id \notin evicted
  <2>1. SUFFICES ASSUME AtOrBefore(e.id, lastTrimmed) PROVE FALSE
    BY DEF RingInv
  <2> QED
    BY <1>1, <1>2, <2>1, IdOrder DEF IdOrNull
<1>4. PICK i \in 1..Len(history) : e = history[i]
  BY <1>3 DEF RingInv, Held
<1>5. c # NoId
  BY IdOrder
<1> QED
  BY <1>4, <1>5 DEF Replayed, Replay

-----------------------------------------------------------------------------
(* The least of a set of numbers, which is how the proofs below argue by   *)
(* induction.                                                              *)
LEMMA LessOnNat == OpToRel(<, Nat) = {ss \in Nat \X Nat : ss[1] < ss[2]}
  BY Zenon DEF OpToRel

LEMMA LeastNumber ==
  ASSUME NEW S \in SUBSET Nat, S # {}
  PROVE  \E x \in S : \A y \in S : x <= y
<1> DEFINE R == {ss \in Nat \X Nat : ss[1] < ss[2]}
<1>1. IsWellFoundedOn(R, Nat)
  BY NatLessThanWellFounded, LessOnNat, Zenon
<1> HIDE DEF R
<1>2. PICK x \in S : \A y \in S : ~(<<y, x>> \in R)
  BY <1>1, WFMin
<1>3. \A y \in Nat : y < x => <<y, x>> \in R
  BY DEF R
<1>4. \A y \in S : ~(y < x)
  BY <1>2, <1>3
<1>5. \A y \in S : x <= y
  BY <1>4
<1> QED
  BY <1>5

-----------------------------------------------------------------------------
(* Sums over a finite set, as the community modules fold them: one element *)
(* after another is taken out and added.                                   *)
Taken(s) == CHOOSE x \in s : TRUE

Added(g, f, s) == IF s = {} THEN 0 ELSE f[Taken(s)] + g[s \ {Taken(s)}]

Sums(g, f, S) == g = [s \in SUBSET S |-> Added(g, f, s)]

LEMMA SumIsOfSums ==
  ASSUME NEW f, NEW S
  PROVE  SumFunctionOnSet(f, S) = (CHOOSE g : Sums(g, f, S))[S]
  BY SMT DEF SumFunctionOnSet, FoldFunctionOnSet, MapThenFoldSet, Sums, Added, Taken

(* What is left is smaller. *)
LEMMA TakenOut ==
  ASSUME NEW S, IsFiniteSet(S), NEW x \in S
  PROVE  /\ IsFiniteSet(S \ {x})
         /\ Cardinality(S) \in Nat /\ Cardinality(S \ {x}) \in Nat
         /\ Cardinality(S \ {x}) = Cardinality(S) - 1
<1>1. IsFiniteSet(S \ {x}) /\ Cardinality(S \ {x}) = Cardinality(S) - 1
  BY FS_RemoveElement
<1> QED
  BY <1>1, FS_CardinalityType

LEMMA TakenIsIn ==
  ASSUME NEW S, S # {}
  PROVE  Taken(S) \in S
  BY DEF Taken

Further(g, f, S) == [s \in SUBSET S |-> Added(g, f, s)]

(* A function that adds up the sets of at most n elements gives one that   *)
(* adds up those of at most n + 1.                                         *)
SumsUpTo(g, f, S, n) ==
  \A s \in SUBSET S : Cardinality(s) <= n => g[s] = Added(g, f, s)

LEMMA OneMore ==
  ASSUME NEW f, NEW S, IsFiniteSet(S), NEW n \in Nat, NEW g,
         \A s \in SUBSET S : Cardinality(s) <= n - 1 => g[s] = Added(g, f, s)
  PROVE  SumsUpTo(Further(g, f, S), f, S, n)
<1> DEFINE h == Further(g, f, S)
<1>1. \A s \in SUBSET S : h[s] = Added(g, f, s)
  BY DEF Further
<1> HIDE DEF h
<1>2. ASSUME NEW s \in SUBSET S, Cardinality(s) <= n
      PROVE  h[s] = Added(h, f, s)
  <2>1. CASE s = {}
    BY <1>1, <2>1 DEF Added
  <2>2. CASE s # {}
    <3> DEFINE r == s \ {Taken(s)}
    <3>1. Taken(s) \in s
      BY <2>2, TakenIsIn
    <3>2. IsFiniteSet(s)
      BY FS_Subset
    <3>3. Cardinality(s) \in Nat /\ Cardinality(r) \in Nat /\ Cardinality(r) = Cardinality(s) - 1
      BY <3>1, <3>2, TakenOut
    <3>4. r \in SUBSET S
      OBVIOUS
    <3>5. Cardinality(r) <= n - 1
      BY <1>2, <3>3
    <3>6. g[r] = Added(g, f, r)
      BY <3>4, <3>5
    <3>7. h[r] = g[r]
      BY <1>1, <3>4, <3>6
    <3>8. h[s] = f[Taken(s)] + g[r]
      BY <1>1, <2>2 DEF Added
    <3>9. Added(h, f, s) = f[Taken(s)] + h[r]
      BY <2>2 DEF Added
    <3> QED
      BY <3>7, <3>8, <3>9
  <2> QED
    BY <2>1, <2>2
<1> QED
  BY <1>2 DEF SumsUpTo, h

LEMMA SumsExist ==
  ASSUME NEW f, NEW S, IsFiniteSet(S)
  PROVE  \E g : Sums(g, f, S)
<1> DEFINE Bad == {n \in Nat : ~\E g : SumsUpTo(g, f, S, n)}
<1>1. Bad = {}
  <2> SUFFICES ASSUME Bad # {} PROVE FALSE
    OBVIOUS
  <2>1. PICK n \in Bad : \A m \in Bad : n <= m
    BY LeastNumber, Bad \in SUBSET Nat
  <2>2. n \in Nat /\ ~\E g : SumsUpTo(g, f, S, n)
    OBVIOUS
  <2>3. \E g : \A s \in SUBSET S : Cardinality(s) <= n - 1 => g[s] = Added(g, f, s)
    <3>1. CASE n = 0
      <4>1. \A s \in SUBSET S : Cardinality(s) \in Nat
        BY FS_Subset, FS_CardinalityType
      <4>2. \A s \in SUBSET S : ~(Cardinality(s) <= n - 1)
        BY <4>1, <3>1
      <4> QED
        BY <4>2
    <3>2. CASE n # 0
      <4>1. n - 1 \in Nat /\ ~(n <= n - 1)
        BY <2>2, <3>2
      <4>2. n - 1 \notin Bad
        BY <2>1, <4>1
      <4>3. \E g : SumsUpTo(g, f, S, n - 1)
        BY <4>1, <4>2
      <4> QED
        BY <4>3 DEF SumsUpTo
    <3> QED
      BY <3>1, <3>2
  <2>4. PICK g : \A s \in SUBSET S : Cardinality(s) <= n - 1 => g[s] = Added(g, f, s)
    BY <2>3
  <2>5. \E h : SumsUpTo(h, f, S, n)
    BY <2>2, <2>4, OneMore
  <2> QED
    BY <2>2, <2>5
<1> DEFINE c == Cardinality(S)
<1>2. c \in Nat
  BY FS_CardinalityType
<1>3. \A s \in SUBSET S : Cardinality(s) <= c
  BY FS_Subset
<1>4. PICK g : SumsUpTo(g, f, S, c)
  BY <1>1, <1>2
<1>5. \A s \in SUBSET S : g[s] = Added(g, f, s)
  BY <1>3, <1>4 DEF SumsUpTo
<1>6. \A s \in SUBSET S : Cardinality(s) <= c - 1 => g[s] = Added(g, f, s)
  BY <1>5
<1> DEFINE h == Further(g, f, S)
<1>7. SumsUpTo(h, f, S, c)
  BY <1>2, <1>6, OneMore
<1> HIDE DEF c
<1>8. h = [s \in SUBSET S |-> Added(g, f, s)]
  BY DEF Further
<1> HIDE DEF h
<1>9. \A s \in SUBSET S : Added(g, f, s) = Added(h, f, s)
  BY <1>3, <1>7, <1>8 DEF SumsUpTo
<1>10. h = [s \in SUBSET S |-> Added(h, f, s)]
  BY <1>8, <1>9
<1> QED
  BY <1>10 DEF Sums

LEMMA SumsAgree ==
  ASSUME NEW S, NEW T, IsFiniteSet(S), IsFiniteSet(T), NEW f, NEW k, NEW g, NEW h,
         Sums(g, f, S), Sums(h, k, T),
         NEW s, s \subseteq S, s \subseteq T, \A x \in s : f[x] = k[x]
  PROVE  g[s] = h[s]
<1> DEFINE Low(r) == r \subseteq s
           Bad == {n \in Nat : \E r \in SUBSET s : Cardinality(r) = n /\ g[r] # h[r]}
<1>1. \A r \in SUBSET s : IsFiniteSet(r) /\ Cardinality(r) \in Nat
  BY FS_Subset, FS_CardinalityType
<1>2. \A r \in SUBSET s : g[r] = Added(g, f, r) /\ h[r] = Added(h, k, r)
  <2>1. \A r \in SUBSET S : g[r] = Added(g, f, r)
    BY Zenon DEF Sums
  <2>2. \A r \in SUBSET T : h[r] = Added(h, k, r)
    BY Zenon DEF Sums
  <2> QED
    BY <2>1, <2>2
<1>3. Bad = {}
  <2> SUFFICES ASSUME Bad # {} PROVE FALSE
    OBVIOUS
  <2>1. PICK n \in Bad : \A m \in Bad : n <= m
    BY LeastNumber, Bad \in SUBSET Nat
  <2>2. PICK r \in SUBSET s : Cardinality(r) = n /\ g[r] # h[r]
    OBVIOUS
  <2>3. r # {}
    BY <1>2, <2>2 DEF Added
  <2>4. Taken(r) \in r
    BY <2>3, TakenIsIn
  <2> DEFINE q == r \ {Taken(r)}
  <2>5. Cardinality(q) \in Nat /\ Cardinality(q) = n - 1 /\ n \in Nat
    BY <1>1, <2>2, <2>4, TakenOut
  <2>6. q \in SUBSET s
    OBVIOUS
  <2>7. ~(n <= Cardinality(q))
    BY <2>5
  <2>8. g[q] = h[q]
    BY <2>1, <2>5, <2>6, <2>7
  <2>9. f[Taken(r)] = k[Taken(r)]
    BY <2>4
  <2>10. g[r] = f[Taken(r)] + g[q] /\ h[r] = k[Taken(r)] + h[q]
    BY <1>2, <2>3 DEF Added
  <2> QED
    BY <2>2, <2>8, <2>9, <2>10
<1>4. s \in SUBSET s /\ Cardinality(s) \in Nat
  BY <1>1
<1> QED
  BY <1>3, <1>4

(* Such a sum depends on nothing but the values it adds. *)
LEMMA SumOfAgreeing ==
  ASSUME NEW f, NEW k, NEW S, IsFiniteSet(S), \A x \in S : f[x] = k[x]
  PROVE  SumFunctionOnSet(f, S) = SumFunctionOnSet(k, S)
<1> DEFINE g == CHOOSE g : Sums(g, f, S)
           h == CHOOSE h : Sums(h, k, S)
<1>1. Sums(g, f, S)
  BY SumsExist
<1>2. Sums(h, k, S)
  BY SumsExist
<1>3. SumFunctionOnSet(f, S) = g[S] /\ SumFunctionOnSet(k, S) = h[S]
  BY SumIsOfSums
<1> HIDE DEF g, h
<1>4. S \subseteq S
  OBVIOUS
<1>5. g[S] = h[S]
  BY <1>1, <1>2, <1>4, SumsAgree
<1> QED
  BY <1>3, <1>5

LEMMA SumUnfolds ==
  ASSUME NEW f, NEW S, IsFiniteSet(S)
  PROVE  SumFunctionOnSet(f, S) =
           IF S = {} THEN 0
           ELSE f[Taken(S)] + SumFunctionOnSet(f, S \ {Taken(S)})
<1> DEFINE R == S \ {Taken(S)}
           g == CHOOSE g : Sums(g, f, S)
           h == CHOOSE h : Sums(h, f, R)
<1>1. IsFiniteSet(R) /\ R \subseteq S
  BY FS_Subset
<1>2. Sums(g, f, S)
  BY SumsExist
<1>3. Sums(h, f, R)
  BY <1>1, SumsExist
<1>4. SumFunctionOnSet(f, S) = g[S] /\ SumFunctionOnSet(f, R) = h[R]
  BY SumIsOfSums
<1> HIDE DEF g, h
<1>5. g[S] = Added(g, f, S)
  BY <1>2, S \in SUBSET S, Zenon DEF Sums
<1>6. R \subseteq R /\ \A x \in R : f[x] = f[x]
  OBVIOUS
<1>7. g[R] = h[R]
  BY <1>1, <1>2, <1>3, <1>6, SumsAgree
<1> QED
  BY <1>4, <1>5, <1>7 DEF Added

Numbers(f, S) == \A x \in S : f[x] \in Nat

LEMMA SumIsANumber ==
  ASSUME NEW f, NEW S, IsFiniteSet(S), Numbers(f, S)
  PROVE  SumFunctionOnSet(f, S) \in Nat
<1> DEFINE Bad == {n \in Nat : \E r \in SUBSET S :
                     Cardinality(r) = n /\ SumFunctionOnSet(f, r) \notin Nat}
<1>1. \A r \in SUBSET S : IsFiniteSet(r) /\ Cardinality(r) \in Nat
  BY FS_Subset, FS_CardinalityType
<1>2. Bad = {}
  <2> SUFFICES ASSUME Bad # {} PROVE FALSE
    OBVIOUS
  <2>1. PICK n \in Bad : \A m \in Bad : n <= m
    BY LeastNumber, Bad \in SUBSET Nat
  <2>2. PICK r \in SUBSET S : Cardinality(r) = n /\ SumFunctionOnSet(f, r) \notin Nat
    OBVIOUS
  <2> DEFINE q == r \ {Taken(r)}
  <2>3. r # {}
    <3>1. IsFiniteSet({}) /\ {} = {}
      BY FS_EmptySet
    <3>2. SumFunctionOnSet(f, {}) = 0
      BY <3>1, SumUnfolds
    <3> QED
      BY <2>2, <3>2
  <2>4. SumFunctionOnSet(f, r) = f[Taken(r)] + SumFunctionOnSet(f, q)
    BY <1>1, <2>3, SumUnfolds
  <2>5. Taken(r) \in r
    BY <2>3, TakenIsIn
  <2>6. Cardinality(q) \in Nat /\ Cardinality(q) = n - 1 /\ n \in Nat
    BY <1>1, <2>2, <2>5, TakenOut
  <2>7. ~(n <= Cardinality(q)) /\ q \in SUBSET S
    BY <2>6
  <2>8. SumFunctionOnSet(f, q) \in Nat
    BY <2>1, <2>6, <2>7
  <2>9. f[Taken(r)] \in Nat
    BY <2>5 DEF Numbers
  <2> QED
    BY <2>2, <2>4, <2>8, <2>9
<1>3. S \in SUBSET S /\ Cardinality(S) \in Nat
  BY <1>1
<1> QED
  BY <1>2, <1>3

(* It does not matter which element is added last. *)
LEMMA SumWithout ==
  ASSUME NEW f, NEW S, IsFiniteSet(S), Numbers(f, S), NEW x \in S
  PROVE  SumFunctionOnSet(f, S) = f[x] + SumFunctionOnSet(f, S \ {x})
<1> DEFINE Sum(r) == SumFunctionOnSet(f, r)
           Bad == {n \in Nat : \E r \in SUBSET S :
                     Cardinality(r) = n /\ \E y \in r : Sum(r) # f[y] + Sum(r \ {y})}
<1>1. \A r \in SUBSET S : IsFiniteSet(r) /\ Cardinality(r) \in Nat
  BY FS_Subset, FS_CardinalityType
<1>2. \A r \in SUBSET S : Sum(r) \in Nat
  <2> SUFFICES ASSUME NEW r \in SUBSET S PROVE Sum(r) \in Nat
    OBVIOUS
  <2>1. Numbers(f, r)
    BY DEF Numbers
  <2> QED
    BY <1>1, <2>1, SumIsANumber
<1>3. \A r \in SUBSET S : r # {} => Sum(r) = f[Taken(r)] + Sum(r \ {Taken(r)})
  BY <1>1, SumUnfolds
<1> HIDE DEF Sum
<1>4. Bad = {}
  <2> SUFFICES ASSUME Bad # {} PROVE FALSE
    OBVIOUS
  <2>1. PICK n \in Bad : \A m \in Bad : n <= m
    BY LeastNumber, Bad \in SUBSET Nat
  <2>2. PICK r \in SUBSET S : Cardinality(r) = n /\ \E y \in r : Sum(r) # f[y] + Sum(r \ {y})
    OBVIOUS
  <2>3. PICK y \in r : Sum(r) # f[y] + Sum(r \ {y})
    BY <2>2
  <2> DEFINE c == Taken(r)
  <2>4. c \in r /\ c # y
    BY <1>3, <2>3, TakenIsIn
  <2> HIDE DEF c
  <2>5. Sum(r) = f[c] + Sum(r \ {c})
    BY <1>3, <2>3 DEF c
  <2>6. \A z \in r : Cardinality(r \ {z}) \in Nat /\ ~(n <= Cardinality(r \ {z}))
    <3> SUFFICES ASSUME NEW z \in r
                 PROVE  Cardinality(r \ {z}) \in Nat /\ ~(n <= Cardinality(r \ {z}))
      OBVIOUS
    <3>1. Cardinality(r \ {z}) \in Nat /\ Cardinality(r \ {z}) = n - 1 /\ n \in Nat
      BY <1>1, <2>2, TakenOut
    <3> QED
      BY <3>1
  <2>7. \A z \in r : \A u \in r \ {z} : Sum(r \ {z}) = f[u] + Sum((r \ {z}) \ {u})
    <3> SUFFICES ASSUME NEW z \in r, NEW u \in r \ {z}
                 PROVE  Sum(r \ {z}) = f[u] + Sum((r \ {z}) \ {u})
      OBVIOUS
    <3>1. Cardinality(r \ {z}) \notin Bad
      BY <2>1, <2>6
    <3> QED
      BY <2>6, <3>1, r \ {z} \in SUBSET S
  <2>8. Sum(r \ {c}) = f[y] + Sum((r \ {c}) \ {y})
    BY <2>4, <2>7
  <2>9. Sum(r \ {y}) = f[c] + Sum((r \ {y}) \ {c})
    BY <2>4, <2>7
  <2>10. (r \ {c}) \ {y} = (r \ {y}) \ {c}
    OBVIOUS
  <2>11. Sum((r \ {c}) \ {y}) \in Nat
    BY <1>2, (r \ {c}) \ {y} \in SUBSET S
  <2>12. f[c] \in Nat /\ f[y] \in Nat
    BY <2>4 DEF Numbers
  <2> QED
    BY <2>3, <2>5, <2>8, <2>9, <2>10, <2>11, <2>12
<1>5. S \in SUBSET S /\ Cardinality(S) \in Nat
  BY <1>1
<1>6. Sum(S) = f[x] + Sum(S \ {x})
  BY <1>4, <1>5
<1> QED
  BY <1>6 DEF Sum

-----------------------------------------------------------------------------
(* What a stretch of the ring weighs.                                      *)

LEMMA WeightOfNone == Weight(<<>>) = 0
<1>1. DOMAIN [i \in DOMAIN <<>> |-> <<>>[i].size] = {}
  OBVIOUS
<1>2. IsFiniteSet({})
  BY FS_EmptySet
<1> QED
  BY <1>1, <1>2, SumUnfolds DEF Weight, SumFunction

LEMMA WeightIsANumber ==
  ASSUME NEW s \in Seq(Entry)
  PROVE  Weight(s) \in Nat
<1> DEFINE f == [i \in DOMAIN s |-> s[i].size]
           S == DOMAIN s
<1>1. S = 1..Len(s) /\ Len(s) \in Nat
  BY LenProperties
<1>2. IsFiniteSet(S)
  BY <1>1, FS_Interval
<1>3. \A i \in S : s[i] \in Entry
  BY <1>1, ElementOfSeq
<1>4. Numbers(f, S)
  BY <1>3, RingAssumption DEF Numbers, Entry, RingAssumption
<1>5. DOMAIN f = S
  OBVIOUS
<1> HIDE DEF f, S
<1>6. SumFunctionOnSet(f, S) \in Nat
  BY <1>2, <1>4, SumIsANumber
<1> QED
  BY <1>5, <1>6 DEF Weight, SumFunction, f, S

(* An entry appended adds its own size. *)
LEMMA WeightOfAppended ==
  ASSUME NEW s \in Seq(Entry), NEW e \in Entry
  PROVE  Weight(Append(s, e)) = Weight(s) + e.size
<1> DEFINE t == Append(s, e)
           n == Len(s)
<1>1. /\ t \in Seq(Entry)
      /\ Len(t) = n + 1
      /\ \A i \in 1..n : t[i] = s[i]
      /\ t[n + 1] = e
      /\ n \in Nat
  BY AppendProperties, LenProperties
<1>2. DOMAIN s = 1..n /\ DOMAIN t = 1..(n + 1)
  BY <1>1, LenProperties
<1> HIDE DEF t, n
<1> DEFINE f == [i \in DOMAIN s |-> s[i].size]
           k == [i \in DOMAIN t |-> t[i].size]
<1>3. \A i \in 1..n : f[i] = k[i]
  BY <1>1, <1>2
<1>4. k[n + 1] = e.size
  BY <1>1, <1>2
<1>5. \A i \in 1..(n + 1) : t[i] \in Entry
  BY <1>1, ElementOfSeq
<1>6. Numbers(k, 1..(n + 1))
  BY <1>2, <1>5, RingAssumption DEF Numbers, Entry, RingAssumption
<1>7. DOMAIN f = 1..n /\ DOMAIN k = 1..(n + 1)
  BY <1>2
<1> HIDE DEF f, k
<1>8. IsFiniteSet(1..n) /\ IsFiniteSet(1..(n + 1)) /\ n + 1 \in 1..(n + 1)
  BY <1>1, FS_Interval
<1>9. SumFunctionOnSet(k, 1..(n + 1)) =
        k[n + 1] + SumFunctionOnSet(k, (1..(n + 1)) \ {n + 1})
  BY <1>6, <1>8, SumWithout
<1>10. (1..(n + 1)) \ {n + 1} = 1..n
  BY <1>1
<1>11. SumFunctionOnSet(f, 1..n) = SumFunctionOnSet(k, 1..n)
  BY <1>3, <1>8, SumOfAgreeing
<1>12. Weight(t) = SumFunctionOnSet(k, 1..(n + 1))
  BY <1>7 DEF Weight, SumFunction, k
<1>13. Weight(s) = SumFunctionOnSet(f, 1..n)
  BY <1>7 DEF Weight, SumFunction, f
<1>14. Weight(s) \in Nat /\ e.size \in Nat
  BY WeightIsANumber, RingAssumption DEF Entry, RingAssumption
<1>15. Weight(t) = e.size + Weight(s)
  BY <1>4, <1>9, <1>10, <1>11, <1>12, <1>13
<1> QED
  BY <1>14, <1>15 DEF t

LEMMA StretchesOf ==
  ASSUME NEW s \in Seq(Entry), NEW a \in 1..(Len(s) + 1), NEW m \in 0..Len(s)
  PROVE  SubSeq(s, a, m) \in Seq(Entry)
<1>1. Len(s) \in Nat /\ a \in Int /\ m \in Int
  BY LenProperties
<1>2. \A i \in a..m : s[i] \in Entry
  BY <1>1, ElementOfSeq
<1> QED
  BY <1>1, <1>2, SubSeqProperties

LEMMA WeightOfLonger ==
  ASSUME NEW s \in Seq(Entry), NEW a \in 1..Len(s), NEW m \in a..Len(s)
  PROVE  Weight(SubSeq(s, a, m)) = Weight(SubSeq(s, a, m - 1)) + s[m].size
<1>1. Len(s) \in Nat /\ m - 1 \in 0..Len(s) /\ a \in 1..(Len(s) + 1) /\ m \in 1..Len(s)
  BY LenProperties
<1>2. SubSeq(s, a, m - 1) \in Seq(Entry)
  BY <1>1, StretchesOf
<1>3. s[m] \in Entry
  BY <1>1, ElementOfSeq
<1>4. SubSeq(s, a, m) = SubSeq(s, a, m - 1) \o <<s[m]>>
  BY SubSeqRecursiveSecond
<1>5. Append(SubSeq(s, a, m - 1), s[m]) = SubSeq(s, a, m - 1) \o <<s[m]>>
  BY <1>2, <1>3, AppendIsConcat
<1>6. SubSeq(s, a, m) = Append(SubSeq(s, a, m - 1), s[m])
  BY <1>4, <1>5
<1>7. Weight(Append(SubSeq(s, a, m - 1), s[m])) = Weight(SubSeq(s, a, m - 1)) + s[m].size
  BY <1>2, <1>3, WeightOfAppended
<1> QED
  BY <1>6, <1>7

(* Where it is cut, a ring weighs what its two parts weigh. *)
LEMMA WeightInParts ==
  ASSUME NEW s \in Seq(Entry), NEW k \in 0..Len(s)
  PROVE  Weight(s) = Weight(SubSeq(s, 1, k)) + Weight(SubSeq(s, k + 1, Len(s)))
<1> DEFINE W(a, m) == Weight(SubSeq(s, a, m))
           Bad == {m \in Nat : k <= m /\ m <= Len(s) /\ W(1, m) # W(1, k) + W(k + 1, m)}
<1>1. Len(s) \in Nat /\ k \in Nat /\ k <= Len(s)
  BY LenProperties
<1>2. \A a \in 1..(Len(s) + 1) : \A m \in 0..Len(s) : W(a, m) \in Nat
  BY StretchesOf, WeightIsANumber
<1>3. \A a \in 1..Len(s) : \A m \in a..Len(s) : W(a, m) = W(a, m - 1) + s[m].size
  BY WeightOfLonger
<1>4. W(k + 1, k) = 0
  <2>1. SubSeq(s, k + 1, k) = <<>>
    BY <1>1, SubSeqEmpty
  <2> QED
    BY <2>1, WeightOfNone
<1>5. \A m \in 1..Len(s) : s[m].size \in Nat
  <2> SUFFICES ASSUME NEW m \in 1..Len(s) PROVE s[m].size \in Nat
    OBVIOUS
  <2>1. s[m] \in Entry
    BY ElementOfSeq
  <2> QED
    BY <2>1, RingAssumption DEF Entry, RingAssumption
<1> HIDE DEF W
<1>6. Bad = {}
  <2> SUFFICES ASSUME Bad # {} PROVE FALSE
    OBVIOUS
  <2>1. PICK m \in Bad : \A j \in Bad : m <= j
    BY LeastNumber, Bad \in SUBSET Nat
  <2>2. m \in Nat /\ k <= m /\ m <= Len(s) /\ W(1, m) # W(1, k) + W(k + 1, m)
    OBVIOUS
  <2>3. m # k
    <3>1. W(1, k) \in Nat
      BY <1>1, <1>2
    <3> QED
      BY <1>4, <2>2, <3>1
  <2>4. m - 1 \in Nat /\ k <= m - 1 /\ m - 1 <= Len(s) /\ ~(m <= m - 1)
    BY <1>1, <2>2, <2>3
  <2>5. m - 1 \notin Bad
    BY <2>1, <2>4
  <2>6. W(1, m - 1) = W(1, k) + W(k + 1, m - 1)
    BY <2>4, <2>5
  <2>7. 1 \in 1..Len(s) /\ k + 1 \in 1..Len(s) /\ m \in 1..Len(s) /\ m \in (k + 1)..Len(s)
    BY <1>1, <2>2, <2>3
  <2>8. W(1, m) = W(1, m - 1) + s[m].size /\ W(k + 1, m) = W(k + 1, m - 1) + s[m].size
    BY <1>3, <2>7
  <2>9. W(1, k) \in Nat /\ W(k + 1, m - 1) \in Nat /\ s[m].size \in Nat
    <3>1. 1 \in 1..(Len(s) + 1) /\ k + 1 \in 1..(Len(s) + 1) /\ m - 1 \in 0..Len(s)
      BY <1>1, <2>4
    <3> QED
      BY <1>2, <1>5, <2>7, <3>1
  <2> QED
    BY <2>2, <2>6, <2>8, <2>9
<1>7. W(1, Len(s)) = W(1, k) + W(k + 1, Len(s))
  BY <1>1, <1>6
<1>8. SubSeq(s, 1, Len(s)) = s
  BY SubSeqFull
<1> QED
  BY <1>7, <1>8 DEF W

(* What an append leaves fits, and its bytes are still counted right: the  *)
(* loop takes off what it drops, and stops when the rest fits or is empty. *)
Fitting == bytes <= MaxBytes /\ bytes = Weight(history)

LEMMA AppendStaysFitting ==
  ASSUME history \in Seq(Entry), Fitting, NEW e \in Entry, AppendEvent(e)
  PROVE  Fitting'
<1> DEFINE h == Append(history, e)
           w == bytes + e.size
<1>1. h \in Seq(Entry) /\ Len(h) \in Nat
  BY AppendProperties, LenProperties
<1>2. w = Weight(h)
  BY WeightOfAppended DEF Fitting
<1> HIDE DEF h, w
<1>3. PICK k \in TrimCount(h, w) :
        /\ history' = SubSeq(h, k + 1, Len(h))
        /\ bytes' = w - Weight(SubSeq(h, 1, k))
  BY DEF AppendEvent, h, w
<1>4. k \in 0..Len(h) /\ (w - Weight(SubSeq(h, 1, k)) <= MaxBytes \/ k = Len(h))
  BY <1>3 DEF TrimCount
<1>5. w = Weight(SubSeq(h, 1, k)) + Weight(SubSeq(h, k + 1, Len(h)))
  BY <1>1, <1>2, <1>4, WeightInParts
<1>6. Weight(SubSeq(h, 1, k)) \in Nat /\ Weight(SubSeq(h, k + 1, Len(h))) \in Nat
  <2>1. 1 \in 1..(Len(h) + 1) /\ k + 1 \in 1..(Len(h) + 1) /\ Len(h) \in 0..Len(h)
    BY <1>1, <1>4
  <2> QED
    BY <1>1, <1>4, <2>1, StretchesOf, WeightIsANumber
<1>7. bytes' = Weight(history')
  BY <1>3, <1>5, <1>6
<1>8. bytes' <= MaxBytes
  <2>1. CASE k = Len(h)
    <3>1. history' = <<>>
      BY <1>1, <1>3, <2>1, SubSeqEmpty
    <3> QED
      BY <1>7, <3>1, WeightOfNone, RingAssumption DEF RingAssumption
  <2>2. CASE w - Weight(SubSeq(h, 1, k)) <= MaxBytes
    BY <1>3, <2>2
  <2> QED
    BY <1>4, <2>1, <2>2
<1> QED
  BY <1>7, <1>8 DEF Fitting
=============================================================================
