-------------------------- MODULE FileHistoryProofs --------------------------
(***************************************************************************)
(* What FileHistory's runs check of a few lines and lives, for every byte  *)
(* budget, any number of events, lives and faults, in either fsync mode:   *)
(* its type invariant, and that a hub restored from the file vouches for   *)
(* no cursor it should not, and for every cursor it can.                   *)
(***************************************************************************)
EXTENDS FileHistory, FiniteSetTheorems, SequenceTheorems, TLAPS

LineType == [kind : {"event", "trimmed", "torn", "garbled"}, id : 0..MaxEvents]

Numbered(l) == l.kind \in {"event", "trimmed"}

(* Whatever was torn or run together, the numbers in a file go up, the     *)
(* mark is its first line and below every event it still has.              *)
InPlace(lines) ==
  \A i \in 1..Len(lines) :
    /\ lines[i].kind = "torn" => lines[i] = Torn /\ i = Len(lines)
    /\ lines[i].kind = "garbled" => lines[i] = Garbled
    /\ lines[i].kind = "trimmed" => i = 1
    /\ Numbered(lines[i]) => lines[i].id >= 1

Rising(lines) ==
  \A i, j \in 1..Len(lines) :
    (i < j /\ Numbered(lines[i]) /\ Numbered(lines[j])) => lines[i].id < lines[j].id

Shaped(lines) == lines \in Seq(LineType) /\ InPlace(lines) /\ Rising(lines)

Within(lines, S) == \A i \in 1..Len(lines) : Numbered(lines[i]) => lines[i].id \in S

(* What waits to be written is in order, and after all that was written. *)
InTurn(q) == \A i, j \in 1..Len(q) : i < j => q[i] < q[j]

Ahead(q, lines) ==
  \A k \in 1..Len(q), i \in 1..Len(lines) : Numbered(lines[i]) => lines[i].id < q[k]

Counted == \E n \in 0..MaxEvents : published = 1..n

Fits(lines, S, q) == Shaped(lines) /\ Within(lines, S) /\ Ahead(q, lines)

Flags ==
  /\ clean \in BOOLEAN /\ failed \in BOOLEAN /\ full \in BOOLEAN /\ opened \in BOOLEAN /\ fsync \in BOOLEAN
  /\ uncertain \in BOOLEAN /\ died \in BOOLEAN /\ everDied \in BOOLEAN /\ exists \in BOOLEAN

Names ==
  /\ phase \in {"down", "up", "closing"}
  /\ found \in {"nothing", "log", "garbage", "unread"}
  /\ before \in {"nothing", "log", "garbage", "unread"}

(* The file and what is to be added to it. *)
Filed ==
  /\ Fits(log, published, queue)
  /\ synced \in 0..Len(log)
  /\ ~exists => log = <<>>
  /\ queue \in Seq(published)
  /\ InTurn(queue)

(* What holds in every life, whatever the lives before it lost. *)
Types ==
  /\ Flags
  /\ Names
  /\ Counted
  /\ Filed
  /\ ring \subseteq published
  /\ floor \in {0} \cup published

(* A life that found a log withdrew the certificate, and a life that finds *)
(* a log without one is uncertain.                                         *)
Certified ==
  /\ (phase # "down" /\ found = "log") => ~clean
  /\ (phase = "down" /\ died /\ found = "log") => ~clean
  /\ (phase # "down" /\ died /\ before = "log" /\ found = "log") => uncertain

(* Every accepted event is on file, on its way there or below the mark. *)
OnFile ==
  \A id \in published : id <= Floor(log) \/ id \in Ids(log) \/ id \in ToSet(queue)

(* As long as no life has ended badly. *)
Deployed ==
  /\ phase = "down" => ~failed /\ queue = <<>> /\ (exists => clean)
  /\ ~failed /\ (phase = "down" \/ ~opened) => synced = Len(log)
  /\ ~failed => (\A i \in 1..Len(log) : Numbered(log[i])) /\ OnFile
  /\ found # "unread" => \A id \in published : id > floor => id \in ring
  /\ floor \notin ring
  /\ ~uncertain

IInv == Types /\ Certified /\ (~everDied => Deployed)

-----------------------------------------------------------------------------
(* What the helpers return.                                                *)

LEMMA LineKinds ==
  /\ Torn.kind = "torn" /\ Garbled.kind = "garbled"
  /\ Torn \in LineType /\ Garbled \in LineType
  /\ ~Numbered(Torn) /\ ~Numbered(Garbled) /\ Torn # Garbled
  /\ \A id : Line(id).kind = "event" /\ Line(id).id = id /\ Numbered(Line(id)) /\ Line(id) # Torn
  /\ \A id : Trimmed(id).kind = "trimmed" /\ Trimmed(id).id = id /\ Numbered(Trimmed(id))
  /\ \A id \in 0..MaxEvents : Line(id) \in LineType /\ Trimmed(id) \in LineType
  /\ \A l \in LineType : Numbered(l) \/ l.kind = "torn" \/ l.kind = "garbled"
<1>1. MaxEvents \in Nat
  BY FileAssumption DEF FileAssumption
<1>2. 0 \in 0..MaxEvents
  BY <1>1
<1>3. Torn \in LineType /\ Garbled \in LineType
  BY <1>2 DEF Torn, Garbled, LineType
<1>4. Torn.kind = "torn" /\ Garbled.kind = "garbled"
  BY DEF Torn, Garbled
<1>5. \A id : Line(id).kind = "event" /\ Line(id).id = id
  BY DEF Line
<1>6. \A id : Trimmed(id).kind = "trimmed" /\ Trimmed(id).id = id
  BY DEF Trimmed
<1>7. \A id \in 0..MaxEvents : Line(id) \in LineType /\ Trimmed(id) \in LineType
  BY DEF Line, Trimmed, LineType
<1>8. \A l \in LineType : Numbered(l) \/ l.kind = "torn" \/ l.kind = "garbled"
  BY DEF LineType, Numbered
<1>9. ~Numbered(Torn) /\ ~Numbered(Garbled) /\ Torn # Garbled
  BY <1>4 DEF Numbered
<1>10. \A id : Numbered(Line(id)) /\ Line(id) # Torn /\ Numbered(Trimmed(id))
  BY <1>4, <1>5, <1>6 DEF Numbered
<1> QED
  BY <1>3, <1>4, <1>5, <1>6, <1>7, <1>8, <1>9, <1>10

(* The mark of a file is its first line's or there is none. *)
LEMMA FloorIsFirst ==
  ASSUME NEW lines, Shaped(lines)
  PROVE  /\ (Len(lines) >= 1 /\ lines[1].kind = "trimmed") => Floor(lines) = lines[1].id
         /\ ~(Len(lines) >= 1 /\ lines[1].kind = "trimmed") => Floor(lines) = 0
         /\ Floor(lines) \in 0..MaxEvents
<1>1. /\ lines \in Seq(LineType) /\ Len(lines) \in Nat /\ DOMAIN lines = 1..Len(lines)
      /\ \A i \in 1..Len(lines) : lines[i] \in LineType
  BY ElementOfSeq, LenProperties DEF Shaped
<1> DEFINE M == {l.id : l \in {x \in ToSet(lines) : x.kind = "trimmed"}}
<1>2. M = {lines[i].id : i \in {j \in 1..Len(lines) : lines[j].kind = "trimmed"}}
  BY <1>1 DEF ToSet
<1>3. CASE Len(lines) >= 1 /\ lines[1].kind = "trimmed"
  <2>1. 1 \in 1..Len(lines)
    BY <1>1, <1>3
  <2>2. M = {lines[1].id}
    <3>1. {j \in 1..Len(lines) : lines[j].kind = "trimmed"} = {1}
      BY <1>3, <2>1 DEF Shaped, InPlace
    <3> QED
      BY <1>2, <3>1
  <2>3. lines[1].id \in 0..MaxEvents
    BY <1>1, <2>1 DEF LineType
  <2>4. Floor(lines) = CHOOSE m \in M \cup {0} : \A e \in M : e <= m
    BY DEF Floor, Newest
  <2>5. Floor(lines) \in M \cup {0} /\ \A e \in M : e <= Floor(lines)
    <3> HIDE DEF M
    <3>1. lines[1].id \in M \cup {0} /\ \A e \in M : e <= lines[1].id
      BY <2>2, <2>3
    <3> QED
      BY <2>4, <3>1
  <2>6. lines[1].id >= 1
    BY <1>3, <2>1 DEF Shaped, InPlace, Numbered
  <2>7. Floor(lines) = lines[1].id
    <3>1. Floor(lines) \in {lines[1].id, 0} /\ lines[1].id <= Floor(lines)
      BY <2>2, <2>5
    <3> QED
      BY <2>3, <2>6, <3>1
  <2> QED
    BY <1>3, <2>3, <2>7
<1>4. CASE ~(Len(lines) >= 1 /\ lines[1].kind = "trimmed")
  <2>1. \A i \in 1..Len(lines) : lines[i].kind # "trimmed"
    <3> SUFFICES ASSUME NEW i \in 1..Len(lines), lines[i].kind = "trimmed" PROVE FALSE
      OBVIOUS
    <3>1. i = 1
      BY <1>4 DEF Shaped, InPlace
    <3>2. Len(lines) >= 1
      BY <1>1
    <3> QED
      BY <1>4, <3>1, <3>2
  <2>2. M = {}
    BY <1>2, <2>1
  <2>3. Floor(lines) = CHOOSE m \in M \cup {0} : \A e \in M : e <= m
    BY DEF Floor, Newest
  <2>4. Floor(lines) = 0
    BY <2>2, <2>3
  <2>5. MaxEvents \in Nat
    BY FileAssumption DEF FileAssumption
  <2> QED
    BY <1>4, <2>4, <2>5
<1> QED
  BY <1>3, <1>4

LEMMA IdsAreEvents ==
  ASSUME NEW lines, Shaped(lines)
  PROVE  /\ \A i \in 1..Len(lines) : lines[i].kind = "event" => lines[i].id \in Ids(lines)
         /\ \A id \in Ids(lines) :
              \E i \in 1..Len(lines) : lines[i].kind = "event" /\ id = lines[i].id
<1>1. DOMAIN lines = 1..Len(lines)
  BY LenProperties DEF Shaped
<1> QED
  BY <1>1 DEF Ids, ToSet

(* A line after a torn one is glued to it; any other is a line of its own. *)
LEMMA ExtendedIs ==
  ASSUME NEW lines, Shaped(lines), NEW line \in LineType
  PROVE  /\ Extended(lines, line) \in Seq(LineType)
         /\ Len(lines) \in Nat
         /\ Len(Extended(lines, line)) = IF EndsTorn(lines) THEN Len(lines) ELSE Len(lines) + 1
         /\ Len(Extended(lines, line)) >= 1
         /\ \A i \in 1..(Len(Extended(lines, line)) - 1) :
              /\ Extended(lines, line)[i] = lines[i] /\ i \in 1..Len(lines)
              /\ lines[i].kind # "torn"
         /\ Extended(lines, line)[Len(Extended(lines, line))]
              = IF EndsTorn(lines) THEN (IF line = Torn THEN Torn ELSE Garbled) ELSE line
<1>1. /\ lines \in Seq(LineType) /\ Len(lines) \in Nat
      /\ \A i \in 1..Len(lines) : lines[i] \in LineType
      /\ \A i \in 1..Len(lines) : lines[i].kind = "torn" => lines[i] = Torn /\ i = Len(lines)
  BY ElementOfSeq, LenProperties DEF Shaped, InPlace
<1>2. CASE EndsTorn(lines)
  <2> DEFINE glued == IF line = Torn THEN Torn ELSE Garbled
  <2>1. Len(lines) >= 1 /\ glued \in LineType
    BY <1>1, <1>2, EmptySeq, LineKinds DEF EndsTorn
  <2>2. /\ Front(lines) \in Seq(LineType)
        /\ Len(Front(lines)) = Len(lines) - 1
        /\ \A i \in 1..(Len(lines) - 1) : Front(lines)[i] = lines[i]
    <3>1. Len(lines) - 1 \in Int /\ 1 \in Int /\ \A i \in 1..(Len(lines) - 1) : lines[i] \in LineType
      BY <1>1
    <3>2. /\ Front(lines) \in Seq(LineType)
          /\ Len(Front(lines)) = IF 1 <= Len(lines) - 1 THEN Len(lines) - 1 - 1 + 1 ELSE 0
          /\ \A i \in 1..(Len(lines) - 1 - 1 + 1) : Front(lines)[i] = lines[1 + i - 1]
      BY <3>1, SubSeqProperties DEF Front
    <3>3. Len(Front(lines)) = Len(lines) - 1
      <4> DEFINE n == Len(lines)
      <4>1. n \in Nat /\ n >= 1
        BY <1>1, <2>1
      <4>2. Len(Front(lines)) = IF 1 <= n - 1 THEN n - 1 - 1 + 1 ELSE 0
        BY <3>2
      <4> HIDE DEF n
      <4>3. Len(Front(lines)) = n - 1
        BY <4>1, <4>2
      <4> QED
        BY <4>3 DEF n
    <3>4. \A i \in 1..(Len(lines) - 1) : i \in 1..(Len(lines) - 1 - 1 + 1) /\ 1 + i - 1 = i
      BY <1>1
    <3> QED
      BY <3>2, <3>3, <3>4
  <2>3. Extended(lines, line) = Front(lines) \o <<glued>>
    BY <1>2 DEF Extended
  <2> HIDE DEF glued
  <2>4. <<glued>> \in Seq(LineType) /\ Len(<<glued>>) = 1 /\ <<glued>>[1] = glued
    BY <2>1
  <2>5. /\ Extended(lines, line) \in Seq(LineType)
        /\ Len(Extended(lines, line)) = Len(Front(lines)) + Len(<<glued>>)
        /\ \A i \in 1..(Len(Front(lines)) + Len(<<glued>>)) : Extended(lines, line)[i]
              = IF i <= Len(Front(lines)) THEN Front(lines)[i] ELSE <<glued>>[i - Len(Front(lines))]
    BY <2>2, <2>3, <2>4, ConcatProperties
  <2>6. Len(Extended(lines, line)) = Len(lines)
    BY <1>1, <2>2, <2>4, <2>5
  <2>7. \A i \in 1..(Len(lines) - 1) : Extended(lines, line)[i] = lines[i]
    BY <1>1, <2>2, <2>4, <2>5
  <2>8. Extended(lines, line)[Len(lines)] = glued
    <3>1. Len(lines) \in 1..(Len(Front(lines)) + Len(<<glued>>)) /\ ~(Len(lines) <= Len(Front(lines)))
          /\ Len(lines) - Len(Front(lines)) = 1
      BY <1>1, <2>1, <2>2, <2>4
    <3> QED
      BY <2>4, <2>5, <3>1
  <2>9. \A i \in 1..(Len(lines) - 1) : i \in 1..Len(lines) /\ i # Len(lines)
    BY <1>1
  <2> QED
    BY <1>1, <1>2, <2>1, <2>5, <2>6, <2>7, <2>8, <2>9 DEF glued
<1>3. CASE ~EndsTorn(lines)
  <2>1. /\ Extended(lines, line) \in Seq(LineType)
        /\ Len(Extended(lines, line)) = Len(lines) + 1
        /\ \A i \in 1..Len(lines) : Extended(lines, line)[i] = lines[i]
        /\ Extended(lines, line)[Len(lines) + 1] = line
    BY <1>1, <1>3, AppendProperties DEF Extended
  <2>2. \A i \in 1..Len(lines) : lines[i].kind # "torn"
    <3> SUFFICES ASSUME NEW i \in 1..Len(lines), lines[i].kind = "torn" PROVE FALSE
      OBVIOUS
    <3>1. lines[Len(lines)] = Torn /\ Len(lines) >= 1
      BY <1>1
    <3>2. lines # <<>>
      BY <3>1, EmptySeq
    <3> QED
      BY <1>3, <3>1, <3>2 DEF EndsTorn
  <2>3. Len(lines) + 1 - 1 = Len(lines) /\ Len(lines) + 1 >= 1
    BY <1>1
  <2>4. Len(Extended(lines, line)) - 1 = Len(lines) /\ Len(Extended(lines, line)) >= 1
    BY <2>1, <2>3
  <2>5. \A i \in 1..(Len(Extended(lines, line)) - 1) :
           /\ Extended(lines, line)[i] = lines[i] /\ i \in 1..Len(lines)
           /\ lines[i].kind # "torn"
    BY <2>1, <2>2, <2>4
  <2>6. Extended(lines, line)[Len(Extended(lines, line))] = line
    BY <2>1
  <2> QED
    BY <1>1, <1>3, <2>1, <2>4, <2>5, <2>6
<1> QED
  BY <1>2, <1>3

-----------------------------------------------------------------------------
(* What every step does to the file leaves it in shape.                    *)

(* A tear changes the last line at most. *)
LEMMA TornFits ==
  ASSUME NEW lines, NEW S, NEW q, Fits(lines, S, q)
  PROVE  Fits(Extended(lines, Torn), S, q)
<1> DEFINE r == Extended(lines, Torn)
           n == Len(r)
<1>1. /\ r \in Seq(LineType) /\ n \in Nat /\ n >= 1 /\ Len(lines) \in Nat
      /\ \A i \in 1..(n - 1) : r[i] = lines[i] /\ i \in 1..Len(lines) /\ lines[i].kind # "torn"
      /\ r[n] = Torn
  BY ExtendedIs, LineKinds DEF Fits
<1> HIDE DEF r
<1>2. \A i \in 1..n : i = n \/ i \in 1..(n - 1)
  BY <1>1
<1>3. \A i \in 1..n : Numbered(r[i]) => r[i] = lines[i] /\ i \in 1..Len(lines)
  BY <1>1, <1>2, LineKinds
<1>4. \A i \in 1..n :
       /\ r[i].kind = "torn" => r[i] = Torn /\ i = n
       /\ r[i].kind = "garbled" => r[i] = Garbled
       /\ r[i].kind = "trimmed" => i = 1
       /\ Numbered(r[i]) => r[i].id >= 1
  <2> SUFFICES ASSUME NEW i \in 1..n
               PROVE  /\ r[i].kind = "torn" => r[i] = Torn /\ i = n
                      /\ r[i].kind = "garbled" => r[i] = Garbled
                      /\ r[i].kind = "trimmed" => i = 1
                      /\ Numbered(r[i]) => r[i].id >= 1
    OBVIOUS
  <2>1. CASE i = n
    BY <1>1, <2>1, LineKinds DEF Numbered
  <2>2. CASE i \in 1..(n - 1)
    BY <1>1, <2>2 DEF Fits, Shaped, InPlace, Rising
  <2> QED
    BY <1>2, <2>1, <2>2
<1>5. \A i, j \in 1..n : (i < j /\ Numbered(r[i]) /\ Numbered(r[j])) => r[i].id < r[j].id
  BY <1>3 DEF Fits, Shaped, InPlace, Rising
<1>6. Shaped(r)
  <2>1. InPlace(r)
    BY <1>4 DEF InPlace
  <2>2. Rising(r)
    BY <1>5 DEF Rising
  <2> QED
    BY <1>1, <2>1, <2>2 DEF Shaped
<1>7. Within(r, S) /\ Ahead(q, r)
  BY <1>3 DEF Fits, Within, Ahead
<1> QED
  BY <1>6, <1>7 DEF Fits, r

(* The next of the queue is above everything on file. *)
LEMMA WrittenFits ==
  ASSUME NEW lines, NEW S \in SUBSET (1..MaxEvents), NEW q \in Seq(S), q # <<>>, InTurn(q),
         Fits(lines, S, q)
  PROVE  /\ Fits(Extended(lines, Line(q[1])), S, Tail(q))
         /\ InTurn(Tail(q)) /\ Tail(q) \in Seq(S)
<1> DEFINE r == Extended(lines, Line(q[1]))
           n == Len(r)
<1>1. /\ Tail(q) \in Seq(S) /\ Len(Tail(q)) = Len(q) - 1 /\ Len(q) \in Nat /\ Len(q) >= 1
      /\ \A k \in 1..Len(Tail(q)) : Tail(q)[k] = q[k + 1]
      /\ q[1] \in S
  <2>1. Len(q) \in Nat /\ Len(q) >= 1
    BY EmptySeq, LenProperties
  <2>2. q[1] \in S
    BY <2>1, ElementOfSeq
  <2> QED
    BY <2>1, <2>2, HeadTailProperties
<1>2. q[1] \in 1..MaxEvents /\ MaxEvents \in Nat
  BY <1>1, FileAssumption DEF FileAssumption
<1>3. q[1] \in 0..MaxEvents /\ q[1] >= 1
  BY <1>2
<1>4. Line(q[1]) \in LineType /\ Line(q[1]).kind = "event" /\ Line(q[1]).id = q[1] /\ Line(q[1]) # Torn
  BY <1>3, LineKinds
<1>5. /\ r \in Seq(LineType) /\ n \in Nat /\ n >= 1 /\ Len(lines) \in Nat
      /\ \A i \in 1..(n - 1) : r[i] = lines[i] /\ i \in 1..Len(lines) /\ lines[i].kind # "torn"
      /\ r[n] \in {Line(q[1]), Garbled}
  BY <1>4, ExtendedIs DEF Fits
<1> HIDE DEF r
<1>6. \A i \in 1..n : i = n \/ i \in 1..(n - 1)
  BY <1>5
<1>7. \A i \in 1..n : Numbered(r[i]) =>
        \/ i \in 1..(n - 1) /\ i \in 1..Len(lines) /\ r[i] = lines[i]
        \/ i = n /\ r[i].id = q[1]
  BY <1>4, <1>5, <1>6, LineKinds
<1>8. 1 \in 1..Len(q)
  BY <1>1
<1>9. \A i \in 1..Len(lines) : Numbered(lines[i]) => lines[i].id < q[1]
  BY <1>8 DEF Fits, Ahead
<1>10. \A i \in 1..n :
       /\ r[i].kind = "torn" => r[i] = Torn /\ i = n
       /\ r[i].kind = "garbled" => r[i] = Garbled
       /\ r[i].kind = "trimmed" => i = 1
       /\ Numbered(r[i]) => r[i].id >= 1
  <2> SUFFICES ASSUME NEW i \in 1..n
               PROVE  /\ r[i].kind = "torn" => r[i] = Torn /\ i = n
                      /\ r[i].kind = "garbled" => r[i] = Garbled
                      /\ r[i].kind = "trimmed" => i = 1
                      /\ Numbered(r[i]) => r[i].id >= 1
    OBVIOUS
  <2>1. CASE i = n
    <3>1. CASE r[n] = Garbled
      BY <2>1, <3>1, LineKinds DEF Numbered
    <3>2. CASE r[n] = Line(q[1])
      BY <1>3, <1>4, <2>1, <3>2
    <3> QED
      BY <1>5, <3>1, <3>2
  <2>2. CASE i \in 1..(n - 1)
    BY <1>5, <2>2 DEF Fits, Shaped, InPlace, Rising
  <2> QED
    BY <1>6, <2>1, <2>2
<1>11. \A i, j \in 1..n : (i < j /\ Numbered(r[i]) /\ Numbered(r[j])) => r[i].id < r[j].id
  <2> SUFFICES ASSUME NEW i \in 1..n, NEW j \in 1..n, i < j, Numbered(r[i]), Numbered(r[j])
               PROVE  r[i].id < r[j].id
    OBVIOUS
  <2>1. i \in 1..Len(lines) /\ r[i] = lines[i]
    <3>1. i # n
      BY <1>5
    <3> QED
      BY <1>7, <3>1
  <2>2. CASE j = n /\ r[j].id = q[1]
    BY <1>9, <2>1, <2>2
  <2>3. CASE j \in 1..Len(lines) /\ r[j] = lines[j]
    BY <2>1, <2>3 DEF Fits, Shaped, InPlace, Rising
  <2> QED
    BY <1>7, <2>2, <2>3
<1>12. Shaped(r)
  <2>1. InPlace(r)
    BY <1>10 DEF InPlace
  <2>2. Rising(r)
    BY <1>11 DEF Rising
  <2> QED
    BY <1>5, <2>1, <2>2 DEF Shaped
<1>13. Within(r, S)
  BY <1>1, <1>7 DEF Fits, Within
<1>14. \A k \in 1..Len(Tail(q)) : k + 1 \in 1..Len(q) /\ 1 < k + 1
  BY <1>1
<1>15. Ahead(Tail(q), r)
  BY <1>1, <1>7, <1>8, <1>14 DEF Fits, Ahead, InTurn
<1>16. InTurn(Tail(q))
  BY <1>1, <1>14 DEF InTurn
<1> QED
  BY <1>1, <1>12, <1>13, <1>15, <1>16 DEF Fits, r

(* Cutting the file leaves a file that does not end torn. *)
LEMMA CutFits ==
  ASSUME NEW lines, NEW S, NEW q, Fits(lines, S, q), NEW k \in 0..Len(lines)
  PROVE  /\ Fits(SubSeq(lines, 1, k), S, q)
         /\ Len(SubSeq(lines, 1, k)) = k
         /\ k < Len(lines) => ~EndsTorn(SubSeq(lines, 1, k))
<1> DEFINE r == SubSeq(lines, 1, k)
<1>1. /\ lines \in Seq(LineType) /\ Len(lines) \in Nat /\ k \in Int
      /\ \A i \in 1..k : lines[i] \in LineType /\ i \in 1..Len(lines)
  BY ElementOfSeq, LenProperties DEF Fits, Shaped, InPlace, Rising
<1>2. /\ r \in Seq(LineType)
      /\ Len(r) = IF 1 <= k THEN k - 1 + 1 ELSE 0
      /\ \A i \in 1..(k - 1 + 1) : r[i] = lines[1 + i - 1]
  BY <1>1, SubSeqProperties
<1>3. Len(r) = k /\ \A i \in 1..k : r[i] = lines[i]
  BY <1>1, <1>2
<1> HIDE DEF r
<1>4. \A i \in 1..k : i \in 1..Len(lines) /\ (i = Len(lines) => i = k)
  BY <1>1
<1>5. Shaped(r)
  BY <1>2, <1>3, <1>4 DEF Fits, Shaped, InPlace, Rising
<1>6. Within(r, S) /\ Ahead(q, r)
  BY <1>3, <1>4 DEF Fits, Within, Ahead
<1>7. ASSUME k < Len(lines), EndsTorn(r) PROVE FALSE
  <2>1. k >= 1
    <3>1. r # <<>>
      BY <1>7 DEF EndsTorn
    <3> QED
      BY <1>1, <1>2, <1>3, <3>1, EmptySeq
  <2>2. k \in 1..k /\ r[k] = Torn /\ k # Len(lines)
    BY <1>1, <1>3, <1>7, <2>1 DEF EndsTorn
  <2>3. lines[k].kind = "torn"
    BY <1>3, <2>2, LineKinds
  <2> QED
    BY <1>4, <2>2, <2>3 DEF Fits, Shaped, InPlace, Rising
<1> QED
  BY <1>3, <1>5, <1>6, <1>7 DEF Fits, r

-----------------------------------------------------------------------------
(* Compaction.                                                             *)

(* All the events of the file, in its order, so in that of their ids.      *)
LEMMA EntriesAre ==
  ASSUME NEW lines, Shaped(lines), NEW es \in Entries(lines)
  PROVE  /\ es \in Seq(LineType) /\ Len(es) \in Nat
         /\ \A i \in 1..Len(es) :
              es[i].kind = "event" /\ \E p \in 1..Len(lines) : es[i] = lines[p]
         /\ \A p \in 1..Len(lines) :
              lines[p].kind = "event" => \E i \in 1..Len(es) : es[i] = lines[p]
         /\ \A i, j \in 1..Len(es) : i < j => es[i].id < es[j].id
<1> DEFINE P == {i \in DOMAIN lines : lines[i].kind = "event"}
           n == Cardinality(P)
<1>1. /\ lines \in Seq(LineType) /\ Len(lines) \in Nat /\ DOMAIN lines = 1..Len(lines)
      /\ \A i \in 1..Len(lines) : lines[i] \in LineType
  BY ElementOfSeq, LenProperties DEF Shaped
<1>2. n \in Nat
  <2>1. IsFiniteSet(1..Len(lines))
    BY <1>1, FS_Interval
  <2>2. P \in SUBSET (1..Len(lines))
    BY <1>1
  <2> HIDE DEF P
  <2> QED
    BY <2>1, <2>2, FS_Subset, FS_CardinalityType
<1>3. PICK at \in OldestFirst(P) : es = [i \in DOMAIN at |-> lines[at[i]]]
  BY DEF Entries
<1>4. /\ DOMAIN at = 1..n
      /\ \A i \in 1..n : at[i] \in P
      /\ \A p \in P : \E i \in 1..n : at[i] = p
      /\ \A i, j \in 1..n : i < j => at[i] < at[j]
  BY <1>3 DEF OldestFirst, Range
<1>5. \A p \in P : p \in 1..Len(lines) /\ lines[p].kind = "event" /\ Numbered(lines[p])
  BY <1>1 DEF Numbered
<1>6. \A p \in 1..Len(lines) : lines[p].kind = "event" => p \in P
  BY <1>1
<1> HIDE DEF P, n
<1>7. es \in [1..n -> LineType]
  BY <1>1, <1>3, <1>4, <1>5
<1>8. es \in Seq(LineType) /\ Len(es) = n
  BY <1>2, <1>7
<1>9. \A i \in 1..n : es[i] = lines[at[i]]
  BY <1>3, <1>4
<1>10. \A i \in 1..n : es[i].kind = "event" /\ \E p \in 1..Len(lines) : es[i] = lines[p]
  BY <1>4, <1>5, <1>9
<1>11. \A p \in 1..Len(lines) : lines[p].kind = "event" => \E i \in 1..n : es[i] = lines[p]
  BY <1>4, <1>6, <1>9
<1>12. \A i, j \in 1..n : i < j => es[i].id < es[j].id
  BY <1>4, <1>5, <1>9 DEF Shaped, Rising
<1> QED
  BY <1>2, <1>8, <1>10, <1>11, <1>12

(* What is dropped is at or below the mark, and what is kept above it.     *)
LEMMA MarkDivides ==
  ASSUME NEW lines, Shaped(lines), NEW es \in Entries(lines)
  PROVE  /\ Surplus(es) \in 0..Len(es)
         /\ Mark(es, Floor(lines)) \in 0..MaxEvents
         /\ Floor(lines) <= Mark(es, Floor(lines)) /\ Floor(lines) \in Nat
         /\ \A i \in 1..Surplus(es) : es[i].id <= Mark(es, Floor(lines))
         /\ \A i \in (Surplus(es) + 1)..Len(es) : Mark(es, Floor(lines)) < es[i].id
         /\ Mark(es, Floor(lines)) = 0
              \/ \E p \in 1..Len(lines) :
                   Numbered(lines[p]) /\ lines[p].id = Mark(es, Floor(lines))
<1> DEFINE s == Surplus(es)
           f == Floor(lines)
           m == Mark(es, f)
<1>1. /\ es \in Seq(LineType) /\ Len(es) \in Nat
      /\ \A i \in 1..Len(es) :
           es[i].kind = "event" /\ \E p \in 1..Len(lines) : es[i] = lines[p]
      /\ \A i, j \in 1..Len(es) : i < j => es[i].id < es[j].id
  BY EntriesAre
<1>2. MaxLines \in Nat /\ MaxEvents \in Nat
  <2>1. {MaxLines, MaxEvents} \subseteq Nat
    BY FileAssumption DEF FileAssumption
  <2> QED
    BY <2>1
<1>3. s \in 0..Len(es) /\ s \in Nat
  BY <1>1, <1>2 DEF Surplus
<1>4. \A i \in 1..Len(es) : es[i].id \in 0..MaxEvents /\ es[i].id \in Int
  <2>1. \A i \in 1..Len(es) : es[i] \in LineType
    BY <1>1, ElementOfSeq
  <2> QED
    BY <1>2, <2>1 DEF LineType
<1>5. f \in 0..MaxEvents /\ f \in Nat
  BY <1>2, FloorIsFirst
<1>6. \A i \in 1..Len(es) : f < es[i].id
  <2> SUFFICES ASSUME NEW i \in 1..Len(es) PROVE f < es[i].id
    OBVIOUS
  <2>1. PICK p \in 1..Len(lines) : es[i] = lines[p] /\ lines[p].kind = "event"
    BY <1>1
  <2>2. Numbered(lines[p]) /\ lines[p].id >= 1
    BY <2>1 DEF Shaped, InPlace, Numbered
  <2>3. CASE Len(lines) >= 1 /\ lines[1].kind = "trimmed"
    <3>1. f = lines[1].id /\ Numbered(lines[1]) /\ p # 1
      BY <2>1, <2>3, FloorIsFirst DEF Numbered
    <3>2. 1 \in 1..Len(lines) /\ 1 < p
      BY <3>1
    <3> QED
      BY <2>1, <2>2, <3>1, <3>2 DEF Shaped, Rising
  <2>4. CASE ~(Len(lines) >= 1 /\ lines[1].kind = "trimmed")
    <3>1. f = 0
      BY <2>4, FloorIsFirst
    <3> QED
      BY <1>4, <2>1, <2>2, <3>1
  <2> QED
    BY <2>3, <2>4
<1>7. CASE s > 0
  <2>1. m = es[s].id /\ s \in 1..Len(es)
    BY <1>3, <1>7 DEF Mark
  <2>2. m \in 0..MaxEvents /\ f <= m
    BY <1>4, <1>5, <1>6, <2>1
  <2>3. \A i \in 1..s : es[i].id <= m
    <3> SUFFICES ASSUME NEW i \in 1..s PROVE es[i].id <= m
      OBVIOUS
    <3>1. i \in 1..Len(es) /\ (i = s \/ i < s)
      BY <1>1, <1>3
    <3>2. es[i].id = es[s].id \/ es[i].id < es[s].id
      BY <1>1, <2>1, <3>1
    <3> QED
      BY <1>4, <2>1, <3>1, <3>2
  <2>4. \A i \in (s + 1)..Len(es) : m < es[i].id
    <3>1. \A i \in (s + 1)..Len(es) : i \in 1..Len(es) /\ s < i
      BY <1>1, <1>3
    <3> QED
      BY <1>1, <2>1, <3>1
  <2>5. \E p \in 1..Len(lines) : Numbered(lines[p]) /\ lines[p].id = m
    BY <1>1, <2>1 DEF Numbered
  <2> QED
    BY <1>3, <1>5, <2>2, <2>3, <2>4, <2>5
<1>8. CASE s = 0
  <2>1. m = f
    BY <1>8 DEF Mark
  <2>2. \A i \in (s + 1)..Len(es) : m < es[i].id
    BY <1>6, <1>8, <2>1
  <2>3. m = 0 \/ \E p \in 1..Len(lines) : Numbered(lines[p]) /\ lines[p].id = m
    <3>1. CASE Len(lines) >= 1 /\ lines[1].kind = "trimmed"
      <4>1. Len(lines) \in Nat
        BY LenProperties DEF Shaped
      <4>2. 1 \in 1..Len(lines)
        BY <3>1, <4>1
      <4> QED
        BY <2>1, <3>1, <4>2, FloorIsFirst DEF Numbered
    <3>2. CASE ~(Len(lines) >= 1 /\ lines[1].kind = "trimmed")
      BY <2>1, <3>2, FloorIsFirst
    <3> QED
      BY <3>1, <3>2
  <2>4. \A i \in 1..s : es[i].id <= m
    BY <1>8
  <2>5. f <= m
    BY <1>5, <2>1
  <2>6. m \in 0..MaxEvents
    BY <1>5, <2>1
  <2> QED
    BY <1>3, <1>5, <2>2, <2>3, <2>4, <2>5, <2>6
<1> QED
  BY <1>3, <1>7, <1>8

LEMMA CompactedFits ==
  ASSUME NEW lines, NEW S, NEW q, Fits(lines, S, q), NEW es \in Entries(lines)
  PROVE  /\ Fits(Compacted(es, Floor(lines)), S, q)
         /\ \A i \in 1..Len(Compacted(es, Floor(lines))) :
              Numbered(Compacted(es, Floor(lines))[i])
         /\ \A id \in Nat :
              id <= Floor(lines) \/ id \in Ids(lines) =>
                \/ id <= Floor(Compacted(es, Floor(lines)))
                \/ id \in Ids(Compacted(es, Floor(lines)))
<1> DEFINE s == Surplus(es)
           f == Floor(lines)
           m == Mark(es, f)
           front == IF m = 0 THEN <<>> ELSE <<Trimmed(m)>>
           kept == SubSeq(es, s + 1, Len(es))
           r == Compacted(es, f)
<1>1. /\ es \in Seq(LineType) /\ Len(es) \in Nat
      /\ \A i \in 1..Len(es) :
           es[i].kind = "event" /\ \E p \in 1..Len(lines) : es[i] = lines[p]
      /\ \A p \in 1..Len(lines) :
           lines[p].kind = "event" => \E i \in 1..Len(es) : es[i] = lines[p]
      /\ \A i, j \in 1..Len(es) : i < j => es[i].id < es[j].id
      /\ Shaped(lines)
  BY EntriesAre DEF Fits
<1>2. /\ s \in 0..Len(es) /\ m \in 0..MaxEvents /\ f <= m /\ f \in Nat
      /\ \A i \in 1..s : es[i].id <= m
      /\ \A i \in (s + 1)..Len(es) : m < es[i].id
      /\ m = 0 \/ \E p \in 1..Len(lines) : Numbered(lines[p]) /\ lines[p].id = m
  BY <1>1, MarkDivides
<1>3. /\ \A i \in 1..Len(es) : es[i] \in LineType /\ es[i].id \in Int /\ es[i].id >= 1
      /\ MaxEvents \in Nat
  <2>1. \A i \in 1..Len(es) : es[i] \in LineType
    BY <1>1, ElementOfSeq
  <2>2. MaxEvents \in Nat
    BY FileAssumption DEF FileAssumption
  <2>3. \A i \in 1..Len(es) : es[i].id >= 1
    BY <1>1 DEF Shaped, InPlace, Numbered
  <2> QED
    BY <2>1, <2>2, <2>3 DEF LineType
<1>4. /\ kept \in Seq(LineType) /\ Len(kept) = Len(es) - s
      /\ \A i \in 1..(Len(es) - s) : kept[i] = es[s + i] /\ s + i \in (s + 1)..Len(es)
                                   /\ s + i \in 1..Len(es)
  <2> DEFINE n == Len(es)
  <2>1. n \in Nat /\ s \in Nat /\ s <= n
    BY <1>1, <1>2
  <2>2. \A i \in (s + 1)..n : i \in 1..n
    BY <2>1
  <2>3. /\ kept \in Seq(LineType)
        /\ Len(kept) = IF s + 1 <= n THEN n - (s + 1) + 1 ELSE 0
        /\ \A i \in 1..(n - (s + 1) + 1) : kept[i] = es[s + 1 + i - 1]
    <3>1. \A i \in (s + 1)..n : es[i] \in LineType
      BY <1>3, <2>2
    <3>2. s + 1 \in Int /\ n \in Int
      BY <2>1
    <3> HIDE DEF s
    <3> QED
      BY <3>1, <3>2, SubSeqProperties
  <2> HIDE DEF n, s, kept
  <2>4. Len(kept) = n - s
    BY <2>1, <2>3
  <2>5. \A i \in 1..(n - s) : i \in 1..(n - (s + 1) + 1) /\ s + 1 + i - 1 = s + i
                            /\ s + i \in (s + 1)..n /\ s + i \in 1..n
    BY <2>1
  <2>6. \A i \in 1..(n - s) : kept[i] = es[s + i]
    BY <2>3, <2>5
  <2> QED
    BY <2>3, <2>4, <2>5, <2>6 DEF n
<1>5. /\ front \in Seq(LineType)
      /\ Len(front) = IF m = 0 THEN 0 ELSE 1
      /\ m # 0 => front[1] = Trimmed(m)
  <2>1. CASE m = 0
    BY <2>1
  <2>2. CASE m # 0
    BY <1>2, <2>2, LineKinds
  <2> QED
    BY <2>1, <2>2
<1> DEFINE h == Len(front)
<1>6. r = front \o kept
  BY DEF Compacted
<1>7. /\ r \in Seq(LineType) /\ h \in Nat /\ Len(r) = h + (Len(es) - s) /\ Len(r) \in Nat
      /\ \A i \in 1..h : r[i] = front[i]
      /\ \A i \in 1..(Len(es) - s) : r[h + i] = kept[i]
  <2> HIDE DEF front, kept, r, s
  <2>1. /\ r \in Seq(LineType)
        /\ Len(r) = h + Len(kept)
        /\ \A i \in 1..(h + Len(kept)) : r[i] = IF i <= h THEN front[i] ELSE kept[i - h]
    BY <1>4, <1>5, <1>6, ConcatProperties
  <2>2. h \in Nat /\ Len(kept) \in Nat
    BY <1>4, <1>5, LenProperties
  <2> HIDE DEF h
  <2>3. \A i \in 1..h : r[i] = front[i]
    BY <2>1, <2>2
  <2>4. \A i \in 1..Len(kept) : r[h + i] = kept[i]
    <3> SUFFICES ASSUME NEW i \in 1..Len(kept) PROVE r[h + i] = kept[i]
      OBVIOUS
    <3> DEFINE j == h + i
    <3>1. j \in 1..(h + Len(kept)) /\ ~(j <= h) /\ j - h = i
      BY <2>2
    <3> HIDE DEF j
    <3>2. r[j] = kept[j - h]
      BY <2>1, <3>1
    <3> QED
      BY <3>1, <3>2 DEF j
  <2> QED
    BY <1>4, <2>1, <2>2, <2>3, <2>4
<1> HIDE DEF s, f, m, front, kept, r, h
<1>8. /\ h = (IF m = 0 THEN 0 ELSE 1)
      /\ m # 0 => r[1] = Trimmed(m)
  BY <1>5, <1>7 DEF h
<1>9. \A i \in 1..(Len(es) - s) : /\ r[h + i] = es[s + i]
                                /\ s + i \in (s + 1)..Len(es)
                                /\ s + i \in 1..Len(es)
  BY <1>4, <1>7
<1>10. \A i \in 1..Len(r) :
         \/ i = 1 /\ m # 0 /\ r[i] = Trimmed(m)
         \/ i - h \in 1..(Len(es) - s) /\ i = h + (i - h)
  BY <1>1, <1>2, <1>7, <1>8
<1>11. \A i \in 1..Len(r) :
         \/ i = 1 /\ h = 1 /\ r[i] = Trimmed(m) /\ m >= 1
         \/ /\ r[i].kind = "event" /\ r[i].id >= 1 /\ m < r[i].id /\ i > h
            /\ \E p \in 1..Len(lines) : r[i] = lines[p]
  <2> SUFFICES ASSUME NEW i \in 1..Len(r), i - h \in 1..(Len(es) - s), i = h + (i - h)
               PROVE  /\ r[i].kind = "event" /\ r[i].id >= 1 /\ m < r[i].id /\ i > h
                      /\ \E p \in 1..Len(lines) : r[i] = lines[p]
    BY <1>2, <1>8, <1>10
  <2>1. r[i] = es[s + (i - h)] /\ s + (i - h) \in (s + 1)..Len(es) /\ s + (i - h) \in 1..Len(es)
    BY <1>9
  <2>2. i > h
    BY <1>7
  <2> QED
    BY <1>1, <1>2, <1>3, <2>1, <2>2
<1>12. \A i \in 1..Len(r) : Numbered(r[i])
  BY <1>11, LineKinds DEF Numbered
<1>13. InPlace(r)
  <2> SUFFICES ASSUME NEW i \in 1..Len(r)
               PROVE  /\ r[i].kind \notin {"torn", "garbled"}
                      /\ r[i].kind = "trimmed" => i = 1
                      /\ r[i].id >= 1
    BY DEF InPlace
  <2> QED
    BY <1>11, LineKinds
<1>14. Rising(r)
  <2> SUFFICES ASSUME NEW i \in 1..Len(r), NEW j \in 1..Len(r), i < j
               PROVE  r[i].id < r[j].id
    BY DEF Rising
  <2>1. CASE i - h \in 1..(Len(es) - s) /\ i = h + (i - h)
    <3>1. j - h \in 1..(Len(es) - s) /\ j = h + (j - h)
      <4>1. j > h /\ j # 1
        BY <1>7, <2>1
      <4> QED
        BY <1>10, <4>1
    <3>2. r[i] = es[s + (i - h)] /\ r[j] = es[s + (j - h)]
          /\ s + (i - h) \in 1..Len(es) /\ s + (j - h) \in 1..Len(es)
      BY <1>9, <2>1, <3>1
    <3>3. s + (i - h) < s + (j - h)
      BY <1>2, <1>7
    <3> QED
      BY <1>1, <3>2, <3>3
  <2>2. CASE i = 1 /\ m # 0 /\ r[i] = Trimmed(m)
    <3>1. j # 1
      BY <2>2
    <3>2. m < r[j].id
      BY <1>11, <3>1
    <3> QED
      BY <2>2, <3>2, LineKinds
  <2> QED
    BY <1>10, <2>1, <2>2
<1>15. Shaped(r)
  BY <1>7, <1>13, <1>14 DEF Shaped
<1>16. \A i \in 1..Len(r) : \E p \in 1..Len(lines) : Numbered(lines[p]) /\ lines[p].id = r[i].id
  BY <1>2, <1>11, <1>12, LineKinds
<1>17. Within(r, S) /\ Ahead(q, r)
  BY <1>16 DEF Fits, Within, Ahead
<1>18. Floor(r) = m
  <2>1. CASE m = 0
    <3>1. ~(Len(r) >= 1 /\ r[1].kind = "trimmed")
      <4> SUFFICES ASSUME Len(r) >= 1, r[1].kind = "trimmed" PROVE FALSE
        OBVIOUS
      <4>1. 1 \in 1..Len(r)
        BY <1>7
      <4> QED
        BY <1>11, <2>1, <4>1
    <3> QED
      BY <1>15, <2>1, <3>1, FloorIsFirst
  <2>2. CASE m # 0
    <3>1. Len(r) >= 1 /\ r[1] = Trimmed(m)
      BY <1>1, <1>2, <1>7, <1>8, <2>2
    <3> QED
      BY <1>15, <3>1, FloorIsFirst, LineKinds
  <2> QED
    BY <2>1, <2>2
<1>19. ASSUME NEW id \in Nat, id <= f \/ id \in Ids(lines)
       PROVE  id <= Floor(r) \/ id \in Ids(r)
  <2>1. CASE id <= f
    <3>1. m \in Int
      BY <1>2
    <3>2. id <= m
      BY <1>2, <2>1, <3>1
    <3> QED
      BY <1>18, <3>2
  <2>2. CASE id \in Ids(lines)
    <3>1. PICK p \in 1..Len(lines) : lines[p].kind = "event" /\ id = lines[p].id
      BY <1>1, <2>2, IdsAreEvents
    <3>2. PICK i \in 1..Len(es) : es[i] = lines[p]
      BY <1>1, <3>1
    <3>3. CASE i <= s
      <4>1. i \in 1..s
        BY <1>2, <3>3
      <4> QED
        BY <1>2, <1>18, <3>1, <3>2, <4>1
    <3>4. CASE i > s
      <4>1. PICK j \in 1..(Len(es) - s) : s + j = i
        <5>1. i - s \in 1..(Len(es) - s) /\ s + (i - s) = i
          BY <1>1, <1>2, <3>4
        <5> QED
          BY <5>1
      <4>2. r[h + j] = es[i] /\ h + j \in 1..Len(r)
        <5>1. r[h + j] = es[s + j]
          BY <1>9
        <5>2. h + j \in 1..Len(r)
          BY <1>1, <1>2, <1>7
        <5> QED
          BY <4>1, <5>1, <5>2
      <4> QED
        BY <1>15, <3>1, <3>2, <4>2, IdsAreEvents
    <3> QED
      BY <1>2, <3>3, <3>4
  <2> QED
    BY <1>19, <2>1, <2>2
<1> QED
  BY <1>12, <1>15, <1>17, <1>19 DEF Fits, r, f

-----------------------------------------------------------------------------
(* Types.                                                                  *)

LEMMA TypesImply == Types => TypeOK /\ published \in SUBSET (1..MaxEvents)
<1> SUFFICES ASSUME Types PROVE TypeOK /\ published \in SUBSET (1..MaxEvents)
  OBVIOUS
<1>1. MaxEvents \in Nat
  BY FileAssumption DEF FileAssumption
<1>2. published \in SUBSET (1..MaxEvents)
  BY <1>1 DEF Types, Counted
<1>3. log \in Seq([kind : {"event", "trimmed", "torn", "garbled"}, id : 0..MaxEvents])
  BY DEF Types, Filed, Fits, Shaped, LineType
<1>4. DOMAIN log = 1..Len(log)
  BY <1>3, LenProperties
<1>5. \A i \in DOMAIN log : (log[i] = Torn => i = Len(log)) /\ (log[i].kind = "trimmed" => i = 1)
  BY <1>4, LineKinds DEF Types, Filed, Fits, Shaped, InPlace
<1>6. floor \in 0..MaxEvents
  BY <1>1, <1>2 DEF Types
<1>7. {clean, failed, full, opened, fsync, uncertain, died, everDied} \subseteq BOOLEAN
  BY DEF Types, Flags
<1>8. {found, before} \subseteq {"nothing", "log", "garbage", "unread"}
  BY DEF Types, Names
<1>9. /\ synced \in 0..Len(log) /\ (~exists => log = <<>>) /\ queue \in Seq(published)
      /\ phase \in {"down", "up", "closing"} /\ ring \subseteq published
  BY DEF Types, Filed, Names
<1> QED
  BY <1>2, <1>3, <1>5, <1>6, <1>7, <1>8, <1>9 DEF TypeOK

LEMMA NoLines ==
  ASSUME NEW S, NEW q
  PROVE  Fits(<<>>, S, q)
<1>1. <<>> \in Seq(LineType) /\ Len(<<>>) = 0 /\ 1..0 = {}
  OBVIOUS
<1>2. \A i \in 1..Len(<<>>) : FALSE
  BY <1>1
<1> QED
  BY <1>1, <1>2 DEF Fits, Shaped, InPlace, Rising, Within, Ahead

LEMMA NoQueue ==
  ASSUME NEW lines, NEW S, NEW q, Fits(lines, S, q)
  PROVE  Fits(lines, S, <<>>) /\ InTurn(<<>>) /\ <<>> \in Seq(S)
<1>1. Len(<<>>) = 0 /\ 1..0 = {}
  OBVIOUS
<1>2. \A i \in 1..Len(<<>>) : FALSE
  BY <1>1
<1>3. Ahead(<<>>, lines)
  BY <1>2 DEF Ahead
<1>4. InTurn(<<>>)
  BY <1>2 DEF InTurn
<1> QED
  BY <1>3, <1>4 DEF Fits

LEMMA InitTypes == Init => Types
<1> SUFFICES ASSUME Init PROVE Types
  OBVIOUS
<1>1. MaxEvents \in Nat
  BY FileAssumption DEF FileAssumption
<1>2. Flags
  BY DEF Init, Flags
<1>3. Names
  BY DEF Init, Names
<1>4. Counted
  BY <1>1 DEF Init, Counted
<1>5. Filed
  BY NoLines, NoQueue DEF Init, Filed
<1> QED
  BY <1>2, <1>3, <1>4, <1>5 DEF Init, Types

(* What a file restores is published. *)
LEMMA RestoredIsPublished ==
  ASSUME Types
  PROVE  Ids(log) \subseteq published /\ Floor(log) \in {0} \cup published
<1>1. Shaped(log) /\ Within(log, published)
  BY DEF Types, Filed, Fits
<1>2. Ids(log) \subseteq published
  BY <1>1, IdsAreEvents DEF Within, Numbered
<1>3. Floor(log) \in {0} \cup published
  <2>1. CASE Len(log) >= 1 /\ log[1].kind = "trimmed"
    <3>1. Len(log) \in Nat
      BY <1>1, LenProperties DEF Shaped
    <3>2. 1 \in 1..Len(log)
      BY <2>1, <3>1
    <3> QED
      BY <1>1, <2>1, <3>2, FloorIsFirst DEF Within, Numbered
  <2> QED
    BY <1>1, <2>1, FloorIsFirst
<1> QED
  BY <1>2, <1>3

LEMMA BootTypes ==
  ASSUME Types, Boot \/ LoadFails
  PROVE  Types'
<1>1. /\ queue' = <<>> /\ phase' = "up" /\ failed' = FALSE /\ full' = FALSE /\ opened' = FALSE
      /\ fsync' \in BOOLEAN /\ before' = found
      /\ UNCHANGED <<log, exists, synced, published, died, everDied>>
  BY DEF Boot, LoadFails, Begin
<1>2. /\ uncertain' \in BOOLEAN /\ found' \in {"nothing", "log", "garbage", "unread"}
      /\ ring' \subseteq published /\ floor' \in {0} \cup published
  <2>1. CASE Boot
    BY <2>1, RestoredIsPublished DEF Boot, StartEmpty, Restore
  <2>2. CASE LoadFails
    BY <2>2 DEF LoadFails, StartEmpty
  <2> QED
    BY <2>1, <2>2
<1>3. clean' \in BOOLEAN
  BY DEF Boot, LoadFails, Types, Flags
<1>4. Flags'
  BY <1>1, <1>2, <1>3 DEF Types, Flags
<1>5. Names'
  BY <1>1, <1>2 DEF Types, Names
<1>6. Filed'
  BY <1>1, NoQueue DEF Types, Filed
<1>7. Counted'
  BY <1>1 DEF Types, Counted
<1> QED
  BY <1>1, <1>2, <1>4, <1>5, <1>6, <1>7 DEF Types

LEMMA PublishTypes ==
  ASSUME Types, Publish
  PROVE  /\ Types'
         /\ \A x \in published : x < Cardinality(published) + 1
         /\ published \subseteq Nat
<1>1. PICK n \in 0..MaxEvents : published = 1..n
  BY DEF Types, Counted
<1>2. MaxEvents \in Nat /\ n \in Nat
  BY <1>1, FileAssumption DEF FileAssumption
<1>3. Cardinality(published) = n
  BY <1>1, <1>2, FS_Interval
<1> DEFINE id == n + 1
<1>4. /\ published' = published \cup {id} /\ ring' = ring \cup {id} /\ queue' = Append(queue, id)
      /\ n < MaxEvents
      /\ UNCHANGED <<log, exists, synced, clean, phase, failed, full, opened, fsync, floor, uncertain, found,
                     before, died, everDied>>
  BY <1>3 DEF Publish, disk, lives
<1>5. published' = 1..id /\ id \in 0..MaxEvents
  BY <1>1, <1>2, <1>4
<1>6. Counted'
  BY <1>2, <1>5 DEF Counted
<1>7. \A x \in published : x < id
  BY <1>1, <1>2
<1> HIDE DEF id
<1>8. /\ queue \in Seq(published) /\ Len(queue) \in Nat
      /\ \A k \in 1..Len(queue) : queue[k] \in published
  BY ElementOfSeq, LenProperties DEF Types, Filed
<1>9. queue \in Seq(published')
  BY <1>4, <1>8
<1>10. /\ queue' \in Seq(published') /\ Len(queue') = Len(queue) + 1
       /\ \A k \in 1..Len(queue) : queue'[k] = queue[k]
       /\ queue'[Len(queue) + 1] = id
  BY <1>4, <1>9, AppendProperties
<1>11. \A k \in 1..Len(queue') : k \in 1..Len(queue) \/ k = Len(queue) + 1
  BY <1>8, <1>10
<1>12. InTurn(queue')
  <2> SUFFICES ASSUME NEW i \in 1..Len(queue'), NEW j \in 1..Len(queue'), i < j
               PROVE  queue'[i] < queue'[j]
    BY DEF InTurn
  <2>1. i \in 1..Len(queue)
    BY <1>8, <1>10
  <2>2. CASE j \in 1..Len(queue)
    BY <1>10, <2>1, <2>2 DEF Types, Filed, InTurn
  <2>3. CASE j = Len(queue) + 1
    BY <1>7, <1>8, <1>10, <2>1, <2>3
  <2> QED
    BY <1>11, <2>2, <2>3
<1>13. Fits(log, published', queue')
  <2>1. Fits(log, published, queue)
    BY DEF Types, Filed
  <2>2. Within(log, published')
    BY <1>4, <2>1 DEF Fits, Within
  <2>3. Ahead(queue', log)
    <3> SUFFICES ASSUME NEW k \in 1..Len(queue'), NEW i \in 1..Len(log), Numbered(log[i])
                 PROVE  log[i].id < queue'[k]
      BY DEF Ahead
    <3>1. CASE k \in 1..Len(queue)
      BY <1>10, <2>1, <3>1 DEF Fits, Ahead
    <3>2. CASE k = Len(queue) + 1
      BY <1>7, <1>10, <2>1, <3>2 DEF Fits, Within
    <3> QED
      BY <1>11, <3>1, <3>2
  <2> QED
    BY <2>1, <2>2, <2>3 DEF Fits
<1>14. Filed'
  BY <1>4, <1>10, <1>12, <1>13 DEF Types, Filed
<1>15. Flags' /\ Names'
  BY <1>4 DEF Types, Flags, Names
<1>16. ring' \subseteq published' /\ floor' \in {0} \cup published'
  BY <1>4 DEF Types
<1>17. published \subseteq Nat
  BY <1>1, <1>2
<1> QED
  BY <1>3, <1>6, <1>7, <1>14, <1>15, <1>16, <1>17 DEF Types, id

(* The steps after a boot leave what was accepted and restored alone. *)
LEMMA TypesKept ==
  ASSUME Types, Flags', Filed', phase' \in {"down", "up", "closing"},
         UNCHANGED <<published, ring, floor, found, before>>
  PROVE  Types'
<1>1. Counted'
  BY DEF Types, Counted
<1>2. Names'
  BY DEF Types, Names
<1> QED
  BY <1>1, <1>2 DEF Types

(* A file torn at its end, or not, is as long as before or one line more. *)
LEMMA TearTypes ==
  ASSUME Filed, UNCHANGED <<synced, published, queue>>,
         \/ UNCHANGED log /\ (exists => exists')
         \/ log' = Extended(log, Torn) /\ exists' = TRUE
  PROVE  Filed'
<1>1. Fits(log, published, queue) /\ Shaped(log)
  BY DEF Filed, Fits
<1>2. CASE UNCHANGED log /\ (exists => exists')
  BY <1>2 DEF Filed
<1>3. CASE log' = Extended(log, Torn) /\ exists' = TRUE
  <2>1. Fits(log', published, queue)
    BY <1>1, <1>3, TornFits
  <2>2. Len(log) \in Nat /\ Len(log') \in Nat /\ Len(log') >= Len(log)
    <3>1. Len(log') = IF EndsTorn(log) THEN Len(log) ELSE Len(log) + 1
      BY <1>1, <1>3, ExtendedIs, LineKinds
    <3>2. Len(log) \in Nat
      BY <1>1, LenProperties DEF Shaped
    <3> QED
      BY <3>1, <3>2
  <2>3. synced' \in 0..Len(log')
    BY <2>2 DEF Filed
  <2> QED
    BY <1>3, <2>1, <2>3 DEF Filed
<1> QED
  BY <1>2, <1>3

(* The head of the queue makes the file no shorter, and no more durable. *)
LEMMA HeadIsWritten ==
  ASSUME Types, queue # <<>>
  PROVE  /\ SyncedStill \in 0..Len(Extended(log, Line(queue[1])))
         /\ Len(Extended(log, Line(queue[1]))) \in 0..Len(Extended(log, Line(queue[1])))
<1> DEFINE r == Extended(log, Line(queue[1]))
<1>1. Filed /\ published \in SUBSET (1..MaxEvents)
  BY TypesImply DEF Types
<1>2. Line(queue[1]) \in LineType
  <2>1. queue \in Seq(published)
    BY <1>1 DEF Filed
  <2>2. Len(queue) >= 1 /\ Len(queue) \in Nat
    BY <2>1, EmptySeq, LenProperties
  <2>3. 1 \in 1..Len(queue)
    BY <2>2
  <2>4. queue[1] \in published
    BY <2>1, <2>3, ElementOfSeq
  <2>5. MaxEvents \in Nat
    BY FileAssumption DEF FileAssumption
  <2>6. \A id \in published : id \in 0..MaxEvents
    BY <1>1, <2>5
  <2> QED
    BY <2>4, <2>6, LineKinds
<1>3. /\ Len(r) = IF EndsTorn(log) THEN Len(log) ELSE Len(log) + 1
      /\ Len(log) \in Nat /\ Len(r) >= 1
  BY <1>1, <1>2, ExtendedIs DEF Filed, Fits
<1> HIDE DEF r
<1>4. synced \in 0..Len(log)
  BY <1>1 DEF Filed
<1>5. Len(r) \in Nat /\ Len(r) >= Len(log)
  BY <1>3
<1>6. SyncedStill \in 0..Len(r)
  <2>1. CASE EndsTorn(log) /\ synced = Len(log)
    <3>1. Len(r) = Len(log) /\ SyncedStill = synced - 1
      BY <1>3, <2>1 DEF SyncedStill
    <3> QED
      BY <1>3, <1>4, <2>1, <3>1
  <2>2. CASE ~(EndsTorn(log) /\ synced = Len(log))
    <3>1. SyncedStill = synced
      BY <2>2 DEF SyncedStill
    <3> QED
      BY <1>3, <1>4, <1>5, <3>1
  <2> QED
    BY <2>1, <2>2
<1>7. Len(r) \in 0..Len(r)
  BY <1>5
<1> QED
  BY <1>6, <1>7 DEF r

LEMMA WriteTypes ==
  ASSUME Types, Write
  PROVE  Types'
<1>1. /\ queue # <<>> /\ queue' = Tail(queue)
      /\ UNCHANGED <<clean, phase, failed, fsync, ring, floor, uncertain, found, published, before, died, everDied>>
  BY DEF Write, hub, lives
<1>2. Filed /\ Flags /\ published \in SUBSET (1..MaxEvents)
  BY TypesImply DEF Types
<1>3. /\ Fits(Extended(log, Line(queue[1])), published, Tail(queue))
      /\ InTurn(Tail(queue)) /\ Tail(queue) \in Seq(published)
  BY <1>1, <1>2, WrittenFits DEF Filed
<1>4. CASE failed
  <2>1. UNCHANGED <<log, exists, synced, full, opened>>
    BY <1>4 DEF Write
  <2>2. Ahead(Tail(queue), log)
    <3>1. queue \in Seq(published)
      BY <1>2 DEF Filed
    <3>2. /\ Len(Tail(queue)) = Len(queue) - 1
          /\ \A k \in 1..Len(Tail(queue)) : Tail(queue)[k] = queue[k + 1]
          /\ Len(queue) \in Nat
      BY <1>1, <3>1, HeadTailProperties, LenProperties
    <3>3. \A k \in 1..Len(Tail(queue)) : k + 1 \in 1..Len(queue)
      BY <3>2
    <3> QED
      BY <1>2, <3>2, <3>3 DEF Filed, Fits, Ahead
  <2>3. Filed'
    BY <1>1, <1>2, <1>3, <2>1, <2>2 DEF Filed, Fits
  <2>4. Flags'
    BY <1>1, <1>2, <2>1 DEF Flags
  <2> QED
    BY <1>1, <2>3, <2>4, TypesKept DEF Types, Names
<1>5. CASE ~failed
  <2> DEFINE r == Extended(log, Line(queue[1]))
  <2>1. /\ log' = r /\ exists' = TRUE /\ opened' = TRUE
        /\ synced' = IF fsync THEN Len(r) ELSE SyncedStill
        /\ full' = (Len(r) > 2 * MaxLines)
    BY <1>5 DEF Write
  <2>4. synced' \in 0..Len(r)
    BY <1>1, <2>1, HeadIsWritten
  <2>5. Filed'
    BY <1>1, <1>3, <2>1, <2>4 DEF Filed, r
  <2>6. full' \in BOOLEAN
    BY <2>1
  <2>7. Flags'
    BY <1>1, <1>2, <2>1, <2>6 DEF Flags
  <2> QED
    BY <1>1, <2>5, <2>7, TypesKept DEF Types, Names
<1> QED
  BY <1>4, <1>5

LEMMA WriteFailsTypes ==
  ASSUME Types, WriteFails
  PROVE  Types'
<1>1. /\ failed' = TRUE /\ full' = FALSE
      /\ UNCHANGED <<opened, fsync, clean, phase, ring, floor, uncertain, found, published,
                     before, died, everDied>>
  BY DEF WriteFails, hub, lives
<1>2. Filed /\ Flags
  BY DEF Types
<1>3. exists' \in BOOLEAN
  BY <1>2 DEF WriteFails, Flags
<1>4. Flags'
  BY <1>1, <1>2, <1>3 DEF Flags
<1>5. CASE full /\ UNCHANGED <<log, exists, synced, queue>>
  <2>1. Filed'
    BY <1>1, <1>2, <1>5, TearTypes
  <2> QED
    BY <1>1, <1>4, <2>1, TypesKept DEF Types, Names
<1>6. CASE /\ queue # <<>> /\ queue' = Tail(queue)
           /\ \/ log' = log /\ exists' \in {exists, TRUE} /\ synced' = synced
              \/ log' = Extended(log, Torn) /\ exists' = TRUE /\ synced' = synced
  <2>1. queue \in Seq(published) /\ InTurn(queue) /\ Shaped(log)
    BY <1>2 DEF Filed, Fits
  <2>2. /\ Tail(queue) \in Seq(published) /\ Len(Tail(queue)) = Len(queue) - 1
        /\ \A k \in 1..Len(Tail(queue)) : Tail(queue)[k] = queue[k + 1]
        /\ Len(queue) \in Nat
    BY <1>6, <2>1, HeadTailProperties, LenProperties
  <2>3. \A k \in 1..Len(Tail(queue)) : k + 1 \in 1..Len(queue)
    BY <2>2
  <2>4. InTurn(Tail(queue))
    <3>1. \A i, j \in 1..Len(Tail(queue)) : i < j => i + 1 < j + 1
      OBVIOUS
    <3> QED
      BY <2>1, <2>2, <2>3, <3>1 DEF InTurn
  <2>5. Fits(log, published, Tail(queue))
    BY <1>2, <2>2, <2>3 DEF Filed, Fits, Ahead
  <2>6. Fits(log', published, Tail(queue))
    BY <1>6, <2>5, TornFits
  <2>7. synced' \in 0..Len(log')
    <3>1. Len(log) \in Nat /\ synced \in 0..Len(log)
      BY <1>2, <2>1, LenProperties DEF Filed, Shaped
    <3>2. Len(Extended(log, Torn)) = IF EndsTorn(log) THEN Len(log) ELSE Len(log) + 1
      BY <2>1, ExtendedIs, LineKinds
    <3>3. Len(log') \in Nat /\ Len(log') >= Len(log)
      <4>1. CASE log' = log
        BY <3>1, <4>1
      <4>2. CASE log' = Extended(log, Torn)
        BY <3>1, <3>2, <4>2
      <4> QED
        BY <1>6, <4>1, <4>2
    <3> QED
      <4>1. synced' = synced
        BY <1>6
      <4> QED
        BY <3>1, <3>3, <4>1
  <2>8. ASSUME ~exists' PROVE log' = <<>>
    <3>1. exists' # TRUE
      BY <2>8
    <3>2. log' = log /\ exists' = exists
      BY <1>6, <3>1
    <3>3. ~exists
      BY <2>8, <3>2
    <3> QED
      BY <1>2, <3>2, <3>3 DEF Filed
  <2>9. Filed'
    BY <1>1, <1>6, <2>2, <2>4, <2>6, <2>7, <2>8 DEF Filed
  <2> QED
    BY <1>1, <1>4, <2>9, TypesKept DEF Types, Names
<1>7. CASE /\ queue # <<>> /\ queue' = Tail(queue)
           /\ log' = Extended(log, Line(queue[1])) /\ exists' = TRUE /\ synced' = SyncedStill
  <2>1. /\ Fits(log', published, Tail(queue))
        /\ InTurn(Tail(queue)) /\ Tail(queue) \in Seq(published)
    BY <1>2, <1>7, TypesImply, WrittenFits DEF Filed
  <2>2. synced' \in 0..Len(log')
    BY <1>7, HeadIsWritten
  <2>3. Filed'
    BY <1>1, <1>7, <2>1, <2>2 DEF Filed
  <2> QED
    BY <1>1, <1>4, <2>3, TypesKept DEF Types, Names
<1> QED
  BY <1>5, <1>6, <1>7 DEF WriteFails

LEMMA CompactTypes ==
  ASSUME Types, Compact
  PROVE  Types'
<1>1. /\ synced' = Len(log') /\ full' = FALSE /\ opened' = FALSE
      /\ UNCHANGED <<exists, clean, phase, queue, failed, fsync, ring, floor, uncertain, found, published,
                     before, died, everDied>>
  BY DEF Compact, hub, lives
<1>2. Filed /\ Flags
  BY DEF Types
<1>3. PICK es \in Entries(log) : log' = Compacted(es, Floor(log))
  BY DEF Compact
<1>4. Fits(log', published, queue)
  BY <1>2, <1>3, CompactedFits DEF Filed
<1>5. Len(log') \in 0..Len(log')
  <2>1. Len(log') \in Nat
    BY <1>4, LenProperties DEF Fits, Shaped
  <2> QED
    BY <2>1
<1>6. ~exists => log' = <<>>
  <2> SUFFICES ASSUME ~exists PROVE log' = <<>>
    OBVIOUS
  <2>1. log = <<>> /\ Shaped(log)
    BY <1>2 DEF Filed, Fits
  <2>2. \A i \in 1..Len(log) : FALSE
    BY <2>1
  <2>3. es \in Seq(LineType) /\ \A i \in 1..Len(es) : FALSE /\ Len(es) \in Nat
    BY <1>3, <2>1, <2>2, EntriesAre
  <2>4. Len(es) = 0
    BY <1>3, <2>1, <2>2, EntriesAre
  <2>5. Surplus(es) = 0 /\ Floor(log) = 0
    <3>1. MaxLines \in Nat
      <4>1. {MaxLines} \subseteq Nat
        BY FileAssumption DEF FileAssumption
      <4> QED
        BY <4>1
    <3>2. ~(Len(log) >= 1)
      BY <2>1
    <3> QED
      BY <2>1, <2>4, <3>1, <3>2, FloorIsFirst DEF Surplus
  <2>6. log' = <<>> \o SubSeq(es, 1, 0)
    BY <1>3, <2>4, <2>5 DEF Compacted, Mark
  <2>7. SubSeq(es, 1, 0) = <<>>
    BY SubSeqEmpty
  <2> QED
    BY <2>6, <2>7
<1>7. Filed'
  BY <1>1, <1>2, <1>4, <1>5, <1>6 DEF Filed
<1>8. Flags'
  BY <1>1, <1>2 DEF Flags
<1> QED
  BY <1>1, <1>7, <1>8, TypesKept DEF Types, Names

LEMMA ShutdownTypes ==
  ASSUME Types, Close \/ Finish
  PROVE  Types'
<1>1. /\ phase' \in {"down", "up", "closing"}
      /\ UNCHANGED <<log, exists, queue, failed, full, opened, fsync, ring, floor, uncertain, found, published,
                     before>>
  BY DEF Close, Finish, Ended, disk, chain, hub, lives
<1>2. Filed /\ Flags
  BY DEF Types
<1>3. Len(log) \in Nat
  BY <1>2, LenProperties DEF Filed, Fits, Shaped
<1>4. CASE Close
  <2>1. UNCHANGED <<synced, clean, died, everDied>>
    BY <1>4 DEF Close, disk, lives
  <2>2. Filed' /\ Flags'
    BY <1>1, <1>2, <2>1 DEF Filed, Flags
  <2> QED
    BY <1>1, <2>2, TypesKept
<1>5. CASE Finish
  <2>1. /\ died' = failed /\ everDied' = (everDied \/ failed) /\ clean' = (clean \/ ~failed)
        /\ synced' \in {synced, Len(log)}
    BY <1>5 DEF Finish, Ended
  <2>2. everDied' \in BOOLEAN /\ clean' \in BOOLEAN /\ died' \in BOOLEAN
    BY <1>2, <2>1 DEF Flags
  <2>3. Flags'
    BY <1>1, <1>2, <2>2 DEF Flags
  <2>4. synced' \in 0..Len(log)
    BY <1>2, <1>3, <2>1 DEF Filed
  <2>5. Filed'
    BY <1>1, <1>2, <2>4 DEF Filed
  <2> QED
    BY <1>1, <2>3, <2>5, TypesKept
<1> QED
  BY <1>4, <1>5

LEMMA DeathTypes ==
  ASSUME Types, ProcessDies \/ MachineDies
  PROVE  Types'
<1>1. /\ UNCHANGED <<clean, queue, failed, full, opened, fsync, ring, floor, uncertain, found, published, before>>
      /\ exists => exists'
  <2>1. CASE ProcessDies
    BY <2>1 DEF ProcessDies, chain, hub
  <2>2. CASE MachineDies
    BY <2>2 DEF MachineDies, chain, hub
  <2> QED
    BY <2>1, <2>2
<1>2. Filed /\ Flags /\ Names
  BY DEF Types
<1>3. phase' \in {"down", "up", "closing"} /\ died' \in BOOLEAN /\ everDied' \in BOOLEAN
  BY <1>2 DEF ProcessDies, MachineDies, Ended, Flags, Names
<1>4. exists' \in BOOLEAN
  BY <1>2 DEF ProcessDies, MachineDies, Flags
<1>5. Flags'
  BY <1>1, <1>2, <1>3, <1>4 DEF Flags
<1>6. CASE ProcessDies
  <2>1. UNCHANGED <<synced, published, queue>>
    BY <1>1, <1>6 DEF ProcessDies
  <2>2. \/ UNCHANGED log /\ (exists => exists')
        \/ log' = Extended(log, Torn) /\ exists' = TRUE
    BY <1>1, <1>6 DEF ProcessDies
  <2>3. Filed'
    BY <1>2, <2>1, <2>2, TearTypes
  <2> QED
    BY <1>1, <1>3, <1>5, <2>3, TypesKept
<1>7. CASE MachineDies
  <2>1. /\ exists' = exists /\ synced' = Len(log')
        /\ \E k \in synced..Len(log) :
             \/ log' = SubSeq(log, 1, k)
             \/ k < Len(log) /\ log' = Append(SubSeq(log, 1, k), Torn)
    BY <1>7 DEF MachineDies
  <2>2. Fits(log, published, queue) /\ Len(log) \in Nat /\ synced \in 0..Len(log)
    BY <1>2, LenProperties DEF Filed, Fits, Shaped
  <2>3. PICK k \in 0..Len(log) :
          \/ log' = SubSeq(log, 1, k)
          \/ k < Len(log) /\ log' = Append(SubSeq(log, 1, k), Torn)
    <3>1. \A k \in synced..Len(log) : k \in 0..Len(log)
      BY <2>2
    <3> QED
      BY <2>1, <3>1
  <2>4. /\ Fits(SubSeq(log, 1, k), published, queue)
        /\ k < Len(log) => ~EndsTorn(SubSeq(log, 1, k))
    BY <2>2, CutFits
  <2>5. Fits(log', published, queue)
    <3>1. CASE log' = SubSeq(log, 1, k)
      BY <2>4, <3>1
    <3>2. CASE k < Len(log) /\ log' = Append(SubSeq(log, 1, k), Torn)
      <4>1. log' = Extended(SubSeq(log, 1, k), Torn)
        BY <2>4, <3>2 DEF Extended
      <4> QED
        BY <2>4, <4>1, TornFits
    <3> QED
      BY <2>3, <3>1, <3>2
  <2>6. synced' \in 0..Len(log')
    <3>1. Len(log') \in Nat
      BY <2>5, LenProperties DEF Fits, Shaped
    <3> QED
      BY <2>1, <3>1
  <2>7. ASSUME ~exists PROVE log' = <<>>
    <3>1. log = <<>> /\ Len(log) = 0
      BY <1>2, <2>7 DEF Filed
    <3>2. log' = SubSeq(log, 1, 0)
      BY <2>3, <3>1
    <3> QED
      BY <3>2, SubSeqEmpty
  <2>8. Filed'
    BY <1>1, <1>2, <2>1, <2>5, <2>6, <2>7 DEF Filed
  <2> QED
    BY <1>1, <1>3, <1>5, <2>8, TypesKept
<1> QED
  BY <1>6, <1>7

LEMMA NextTypes ==
  ASSUME Types, [Next]_vars
  PROVE  Types'
<1>1. CASE UNCHANGED vars
  <2>1. UNCHANGED <<log, exists, synced, clean, phase, queue, failed, full, opened, fsync, ring, floor,
                    uncertain, found, published, before, died, everDied>>
    BY <1>1 DEF vars, disk, chain, hub, lives
  <2>2. Flags' /\ Filed' /\ phase' \in {"down", "up", "closing"}
    BY <2>1 DEF Types, Flags, Filed, Names
  <2> QED
    BY <2>1, <2>2, TypesKept
<1> QED
  BY <1>1, BootTypes, PublishTypes, WriteTypes, WriteFailsTypes, CompactTypes, ShutdownTypes, DeathTypes
     DEF Next

(* FileHistory.TypeOK: through every crash, tear and compaction at most    *)
(* the last line is torn, the mark is the first, what is durable is a      *)
(* prefix, and the hub holds nothing that was not published.               *)
THEOREM TypeCorrect == Spec => []TypeOK
<1>1. Init => Types
  BY InitTypes
<1>2. Types /\ [Next]_vars => Types'
  BY NextTypes
<1>3. Types => TypeOK
  BY TypesImply
<1> QED
  BY <1>1, <1>2, <1>3, PTL DEF Spec

-----------------------------------------------------------------------------
(* The certificate.                                                        *)

LEMMA NextCertified ==
  ASSUME Types, Certified, [Next]_vars
  PROVE  Certified'
<1>1. /\ clean \in BOOLEAN /\ exists \in BOOLEAN /\ died \in BOOLEAN /\ failed \in BOOLEAN
      /\ uncertain \in BOOLEAN
      /\ phase \in {"down", "up", "closing"}
  BY DEF Types, Flags, Names
<1>2. CASE Boot
  <2>1. /\ phase = "down" /\ phase' = "up" /\ before' = found /\ died' = died
        /\ clean' = (clean /\ ~exists)
    BY <1>2 DEF Boot, Begin
  <2>2. ASSUME found' = "log" PROVE exists /\ uncertain' = (~clean \/ EndsTorn(log))
    <3>1. CASE ~exists
      <4>1. found' = "nothing"
        BY <1>2, <3>1 DEF Boot, StartEmpty
      <4> QED
        BY <2>2, <4>1
    <3>2. CASE exists /\ Garbled \in ToSet(log)
      <4>1. found' = "garbage"
        BY <1>2, <3>2 DEF Boot, StartEmpty
      <4> QED
        BY <2>2, <4>1
    <3>3. CASE exists /\ Garbled \notin ToSet(log)
      BY <1>2, <3>3 DEF Boot, Restore
    <3> QED
      BY <3>1, <3>2, <3>3
  <2>3. found' = "log" => ~clean'
    BY <2>1, <2>2
  <2>4. (died' /\ before' = "log" /\ found' = "log") => uncertain'
    BY <2>1, <2>2 DEF Certified
  <2> QED
    BY <2>1, <2>3, <2>4 DEF Certified
<1>7. CASE LoadFails
  <2>1. found' = "unread" /\ phase' = "up"
    BY <1>7 DEF LoadFails, Begin, StartEmpty
  <2> QED
    BY <2>1 DEF Certified
<1>3. CASE Finish
  <2>1. /\ phase = "closing" /\ phase' = "down" /\ died' = failed /\ clean' = (clean \/ ~failed)
        /\ found' = found
    BY <1>3 DEF Finish, Drained, Ended, hub
  <2> QED
    BY <2>1 DEF Certified
<1>4. CASE ProcessDies \/ MachineDies
  <2>1. UNCHANGED <<clean, found, uncertain, before>>
    BY <1>4 DEF ProcessDies, MachineDies, hub
  <2>2. \/ phase # "down" /\ phase' = "down"
        \/ UNCHANGED <<phase, died>>
    BY <1>4 DEF ProcessDies, MachineDies, Ended, Running
  <2> QED
    BY <2>1, <2>2 DEF Certified
<1>5. CASE Publish \/ Close \/ Write \/ WriteFails \/ Compact
  <2>1. /\ UNCHANGED <<clean, found, uncertain, before, died>>
        /\ phase # "down" /\ phase' # "down"
    BY <1>5 DEF Publish, Close, Write, WriteFails, Compact, Running, disk, hub, lives
  <2> QED
    BY <2>1 DEF Certified
<1>6. CASE UNCHANGED vars
  <2>1. UNCHANGED <<clean, phase, found, uncertain, before, died>>
    BY <1>6 DEF vars, disk, hub, lives
  <2> QED
    BY <2>1 DEF Certified
<1> QED
  BY <1>2, <1>3, <1>4, <1>5, <1>6, <1>7 DEF Next

-----------------------------------------------------------------------------
(* Lives that all ended well.                                              *)

LEMMA InitDeployed == Init => Deployed
<1> SUFFICES ASSUME Init PROVE Deployed
  OBVIOUS
<1>1. log = <<>> /\ published = {} /\ ring = {} /\ synced = 0 /\ ~uncertain
      /\ ~failed /\ queue = <<>> /\ ~exists
  BY DEF Init
<1>2. \A i \in 1..Len(log) : FALSE
  BY <1>1
<1>3. Len(log) = 0
  BY <1>1
<1> QED
  BY <1>1, <1>2, <1>3 DEF Deployed, OnFile

(* Nothing but the end of a life ever says that one ended badly. *)
LEMMA BadEndings ==
  ASSUME [Next]_vars, Types
  PROVE  ~everDied' => ~everDied
<1>1. everDied \in BOOLEAN /\ failed \in BOOLEAN
  BY DEF Types, Flags
<1>2. CASE Finish \/ ProcessDies \/ MachineDies
  <2>1. everDied' = everDied \/ everDied' = (everDied \/ TRUE) \/ everDied' = (everDied \/ failed)
    BY <1>2 DEF Finish, ProcessDies, MachineDies, Ended
  <2> QED
    BY <1>1, <2>1
<1>3. CASE Boot \/ LoadFails \/ Publish \/ Close \/ Write \/ WriteFails \/ Compact \/ UNCHANGED vars
  <2>1. everDied' = everDied
    BY <1>3 DEF Boot, LoadFails, Begin, Publish, Close, Write, WriteFails, Compact, lives, vars
  <2> QED
    BY <2>1
<1> QED
  BY <1>2, <1>3 DEF Next

(* All that was published is restored, but for what the mark says is gone. *)
LEMMA BootDeployed ==
  ASSUME Types, Deployed, Boot
  PROVE  Deployed'
<1>1. /\ phase = "down" /\ phase' = "up" /\ ~failed' /\ queue' = <<>> /\ ~opened'
      /\ UNCHANGED <<log, synced, published>>
  BY DEF Boot, Begin
<1>2. /\ ~failed /\ queue = <<>> /\ (exists => clean) /\ synced = Len(log)
      /\ \A i \in 1..Len(log) : Numbered(log[i])
      /\ OnFile
  BY <1>1 DEF Deployed
<1>3. ToSet(queue) = {}
  BY <1>2 DEF ToSet
<1>4. Shaped(log) /\ DOMAIN log = 1..Len(log) /\ (~exists => log = <<>>)
  BY LenProperties DEF Types, Filed, Fits, Shaped
<1>5. Garbled \notin ToSet(log)
  BY <1>2, <1>4, LineKinds DEF ToSet
<1>6. ~EndsTorn(log)
  <2> SUFFICES ASSUME log # <<>>, log[Len(log)] = Torn PROVE FALSE
    BY DEF EndsTorn
  <2>1. Len(log) \in 1..Len(log)
    <3>1. Len(log) \in Nat /\ Len(log) # 0
      BY <1>4, EmptySeq, LenProperties DEF Shaped
    <3> QED
      BY <3>1
  <2> QED
    BY <1>2, <2>1, LineKinds
<1>7. OnFile'
  BY <1>1, <1>2, <1>3 DEF OnFile
<1>8. /\ \A id \in published : id > floor' => id \in ring'
      /\ floor' \notin ring' /\ ~uncertain'
  <2>1. CASE ~exists
    <3>1. ring' = {} /\ floor' = 0 /\ ~uncertain'
      BY <2>1 DEF Boot, StartEmpty
    <3>2. log = <<>> /\ Len(log) = 0
      BY <1>4, <2>1
    <3>3. Floor(log) = 0 /\ Ids(log) = {}
      <4>1. \A i \in 1..Len(log) : FALSE
        BY <3>2
      <4>2. ~(Len(log) >= 1)
        BY <3>2
      <4>3. Floor(log) = 0
        BY <1>4, <4>2, FloorIsFirst
      <4>4. Ids(log) = {}
        BY <1>4, <4>1, IdsAreEvents
      <4> QED
        BY <4>3, <4>4
    <3>4. \A id \in published : id <= 0
      BY <1>2, <1>3, <3>3 DEF OnFile
    <3>5. published \subseteq 1..MaxEvents /\ MaxEvents \in Nat
      BY TypesImply, FileAssumption DEF FileAssumption
    <3>6. published = {}
      BY <3>4, <3>5
    <3> QED
      BY <3>1, <3>6
  <2>2. CASE exists
    <3>1. ring' = Ids(log) /\ floor' = Floor(log) /\ uncertain' = (~clean \/ EndsTorn(log))
      BY <1>5, <2>2 DEF Boot, Restore
    <3>2. ~uncertain'
      BY <1>2, <1>6, <2>2, <3>1
    <3>3. published \subseteq 1..MaxEvents /\ MaxEvents \in Nat
      BY TypesImply, FileAssumption DEF FileAssumption
    <3>4. Floor(log) \in 0..MaxEvents
      BY <1>4, FloorIsFirst
    <3>5. \A id \in published : id > floor' => id \in ring'
      <4> SUFFICES ASSUME NEW id \in published, id > Floor(log) PROVE id \in Ids(log)
        BY <3>1
      <4>1. id \in Int /\ Floor(log) \in Int
        BY <3>3, <3>4
      <4>2. ~(id <= Floor(log))
        BY <4>1
      <4> QED
        BY <1>2, <1>3, <4>2 DEF OnFile
    <3>6. Floor(log) \notin Ids(log)
      <4> SUFFICES ASSUME Floor(log) \in Ids(log) PROVE FALSE
        OBVIOUS
      <4>1. PICK i \in 1..Len(log) : log[i].kind = "event" /\ Floor(log) = log[i].id
        BY <1>4, IdsAreEvents
      <4>2. log[i].id >= 1 /\ Numbered(log[i])
        BY <1>4, <4>1 DEF Shaped, InPlace, Numbered
      <4>3. Len(log) >= 1 /\ log[1].kind = "trimmed" /\ Floor(log) = log[1].id
        BY <1>4, <4>1, <4>2, FloorIsFirst
      <4>4. i # 1 /\ 1 \in 1..Len(log) /\ 1 < i /\ Numbered(log[1])
        BY <4>1, <4>3 DEF Numbered
      <4>5. log[1].id < log[i].id
        BY <1>4, <4>2, <4>4 DEF Shaped, Rising
      <4> QED
        BY <3>4, <4>1, <4>3, <4>5
    <3> QED
      BY <3>1, <3>2, <3>5, <3>6
  <2> QED
    BY <2>1, <2>2
<1> QED
  BY <1>1, <1>2, <1>7, <1>8 DEF Deployed

(* A life whose load threw knows nothing, and leaves the file as it is. *)
LEMMA LoadFailsDeployed ==
  ASSUME Types, Deployed, LoadFails
  PROVE  Deployed'
<1>1. /\ phase = "down" /\ phase' = "up" /\ ~failed' /\ queue' = <<>>
      /\ ring' = {} /\ ~uncertain' /\ found' = "unread"
      /\ UNCHANGED <<log, synced, published>>
  BY DEF LoadFails, Begin, StartEmpty
<1>2. /\ ~failed /\ queue = <<>> /\ synced = Len(log)
      /\ \A i \in 1..Len(log) : Numbered(log[i])
      /\ OnFile
  BY <1>1 DEF Deployed
<1>3. OnFile'
  BY <1>1, <1>2 DEF OnFile
<1> QED
  BY <1>1, <1>2, <1>3 DEF Deployed

LEMMA PublishDeployed ==
  ASSUME Types, Deployed, Publish
  PROVE  Deployed'
<1> DEFINE id == Cardinality(published) + 1
<1>1. /\ phase = "up" /\ phase' = "up"
      /\ published' = published \cup {id} /\ ring' = ring \cup {id} /\ queue' = Append(queue, id)
      /\ UNCHANGED <<log, synced, failed, opened, floor, uncertain, found>>
  BY DEF Publish, disk
<1>2. /\ \A x \in published : x < id
      /\ published \subseteq Nat
  BY PublishTypes
<1> HIDE DEF id
<1>3. floor # id
  <2>1. CASE floor \in published
    BY <1>2, <2>1
  <2>2. CASE floor = 0
    <3>1. id \in published' /\ published' \subseteq 1..MaxEvents
      <4>1. Types'
        BY PublishTypes
      <4>2. Counted'
        BY <4>1 DEF Types
      <4>3. MaxEvents \in Nat
        BY FileAssumption DEF FileAssumption
      <4> QED
        BY <1>1, <4>2, <4>3 DEF Counted
    <3> QED
      BY <2>2, <3>1
  <2> QED
    BY <2>1, <2>2 DEF Types
<1>4. /\ queue \in Seq(published') /\ Len(queue) \in Nat
      /\ DOMAIN queue = 1..Len(queue)
  <2>1. queue \in Seq(published)
    BY DEF Types, Filed
  <2>2. Len(queue) \in Nat /\ DOMAIN queue = 1..Len(queue)
    BY <2>1, LenProperties
  <2>3. \A k \in 1..Len(queue) : queue[k] \in published'
    BY <1>1, <2>1, ElementOfSeq
  <2> QED
    BY <1>1, <2>1, <2>2, <2>3
<1>5. ToSet(queue) \subseteq ToSet(queue') /\ id \in ToSet(queue')
  <2>1. /\ queue' \in Seq(published') /\ Len(queue') = Len(queue) + 1
        /\ \A k \in 1..Len(queue) : queue'[k] = queue[k]
        /\ queue'[Len(queue) + 1] = id
    BY <1>1, <1>4, AppendProperties
  <2>2. DOMAIN queue' = 1..Len(queue')
    BY <2>1, LenProperties
  <2>3. Len(queue) + 1 \in 1..Len(queue') /\ \A k \in 1..Len(queue) : k \in 1..Len(queue')
    BY <1>4, <2>1
  <2> QED
    BY <1>4, <2>1, <2>2, <2>3 DEF ToSet
<1>6. ~failed => OnFile'
  BY <1>1, <1>5 DEF Deployed, OnFile
<1> QED
  BY <1>1, <1>3, <1>6 DEF Deployed

(* The line at the head of the queue moves to the end of the file. *)
LEMMA WriteDeployed ==
  ASSUME Types, Deployed, Write
  PROVE  Deployed'
<1>1. /\ Running /\ queue # <<>> /\ queue' = Tail(queue)
      /\ UNCHANGED <<clean, phase, failed, ring, floor, uncertain, found, published>>
  BY DEF Write, hub
<1>2. phase # "down"
  BY <1>1 DEF Running
<1>3. CASE failed
  BY <1>1, <1>2, <1>3 DEF Deployed
<1>4. CASE ~failed
  <2>1. log' = Extended(log, Line(queue[1])) /\ opened' = TRUE
    BY <1>4 DEF Write
  <2>2. /\ Shaped(log) /\ queue \in Seq(published)
        /\ \A i \in 1..Len(log) : Numbered(log[i])
        /\ OnFile
    BY <1>4 DEF Types, Filed, Fits, Deployed
  <2>3. /\ Tail(queue) \in Seq(published) /\ Len(Tail(queue)) = Len(queue) - 1
        /\ \A k \in 1..Len(Tail(queue)) : Tail(queue)[k] = queue[k + 1]
        /\ Len(queue) \in Nat /\ Len(queue) >= 1
        /\ queue[1] \in published
    <3>1. Len(queue) \in Nat /\ Len(queue) >= 1
      BY <1>1, <2>2, EmptySeq, LenProperties
    <3>2. queue[1] \in published
      BY <2>2, <3>1, ElementOfSeq
    <3> QED
      BY <1>1, <2>2, <3>1, <3>2, HeadTailProperties
  <2>4. queue[1] \in 0..MaxEvents /\ Line(queue[1]) \in LineType
    <3>1. published \in SUBSET (1..MaxEvents) /\ MaxEvents \in Nat
      BY TypesImply, FileAssumption DEF FileAssumption
    <3>2. queue[1] \in published
      BY <2>3
    <3> DEFINE id == queue[1]
    <3>3. id \in 1..MaxEvents
      BY <3>1, <3>2
    <3> HIDE DEF id
    <3>4. id \in 0..MaxEvents
      BY <3>1, <3>3
    <3> USE DEF id
    <3> QED
      BY <3>4, LineKinds
  <2>5. Len(log) \in Nat /\ DOMAIN log = 1..Len(log) /\ log \in Seq(LineType)
    BY <2>2, LenProperties DEF Shaped
  <2>6. ~EndsTorn(log)
    <3> SUFFICES ASSUME log # <<>>, log[Len(log)] = Torn PROVE FALSE
      BY DEF EndsTorn
    <3>1. Len(log) \in 1..Len(log)
      <4>1. Len(log) # 0
        BY <2>5, EmptySeq
      <4> QED
        BY <2>5, <4>1
    <3> QED
      BY <2>2, <3>1, LineKinds
  <2>7. /\ log' \in Seq(LineType)
        /\ Len(log') = Len(log) + 1
        /\ \A i \in 1..Len(log) : log'[i] = log[i]
        /\ log'[Len(log) + 1] = Line(queue[1])
    BY <2>1, <2>4, <2>5, <2>6, AppendProperties DEF Extended
  <2>8. \A i \in 1..Len(log') : i \in 1..Len(log) \/ i = Len(log) + 1
    BY <2>5, <2>7
  <2>9. \A i \in 1..Len(log') : Numbered(log'[i])
    BY <2>2, <2>7, <2>8, LineKinds
  <2>10. Shaped(log')
    <3>1. Types'
      BY WriteTypes
    <3> QED
      BY <3>1 DEF Types, Filed, Fits
  <2>11. \A id \in published : id <= Floor(log) => id <= Floor(log')
    <3>1. CASE Len(log) >= 1 /\ log[1].kind = "trimmed"
      <4>1. 1 \in 1..Len(log) /\ Len(log') >= 1
        BY <2>5, <2>7, <3>1
      <4>2. Floor(log') = Floor(log)
        BY <2>2, <2>7, <2>10, <3>1, <4>1, FloorIsFirst
      <4> QED
        BY <4>2
    <3>2. CASE ~(Len(log) >= 1 /\ log[1].kind = "trimmed")
      <4>1. Floor(log) = 0
        BY <2>2, <3>2, FloorIsFirst
      <4>2. published \subseteq 1..MaxEvents /\ MaxEvents \in Nat
        BY TypesImply, FileAssumption DEF FileAssumption
      <4> QED
        BY <4>1, <4>2
    <3> QED
      BY <3>1, <3>2
  <2>12. Ids(log) \subseteq Ids(log')
    <3> SUFFICES ASSUME NEW id \in Ids(log) PROVE id \in Ids(log')
      OBVIOUS
    <3>1. PICK i \in 1..Len(log) : log[i].kind = "event" /\ id = log[i].id
      BY <2>2, IdsAreEvents
    <3>2. i \in 1..Len(log') /\ log'[i] = log[i]
      BY <2>5, <2>7
    <3> QED
      BY <2>10, <3>1, <3>2, IdsAreEvents
  <2>13. \A id \in ToSet(queue) : id \in ToSet(queue') \/ id \in Ids(log')
    <3>1. DOMAIN queue = 1..Len(queue) /\ DOMAIN queue' = 1..Len(Tail(queue))
      BY <1>1, <2>2, <2>3, LenProperties
    <3> SUFFICES ASSUME NEW k \in 1..Len(queue)
                 PROVE  queue[k] \in ToSet(queue') \/ queue[k] \in Ids(log')
      BY <3>1 DEF ToSet
    <3>2. CASE k = 1
      <4>1. Len(log) + 1 \in 1..Len(log')
        BY <2>5, <2>7
      <4>2. log'[Len(log) + 1].kind = "event" /\ log'[Len(log) + 1].id = queue[1]
        BY <2>7, LineKinds
      <4> QED
        BY <2>10, <3>2, <4>1, <4>2, IdsAreEvents
    <3>3. CASE k # 1
      <4>1. PICK j \in 1..Len(Tail(queue)) : j + 1 = k
        <5>1. k - 1 \in 1..Len(Tail(queue)) /\ k - 1 + 1 = k
          BY <2>3, <3>3
        <5> QED
          BY <5>1
      <4>2. queue'[j] = queue[k]
        BY <1>1, <2>3, <4>1
      <4> QED
        BY <3>1, <4>1, <4>2 DEF ToSet
    <3> QED
      BY <3>2, <3>3
  <2>14. OnFile'
    BY <1>1, <2>2, <2>11, <2>12, <2>13 DEF OnFile
  <2> QED
    BY <1>1, <1>2, <1>4, <2>1, <2>9, <2>14 DEF Deployed
<1> QED
  BY <1>3, <1>4

LEMMA CompactDeployed ==
  ASSUME Types, Deployed, Compact
  PROVE  Deployed'
<1>1. /\ Running /\ synced' = Len(log')
      /\ UNCHANGED <<exists, clean, phase, queue, failed, ring, floor, uncertain, found, published>>
  BY DEF Compact, hub
<1>2. phase # "down"
  BY <1>1 DEF Running
<1>3. PICK es \in Entries(log) : log' = Compacted(es, Floor(log))
  BY DEF Compact
<1>4. Fits(log, published, queue)
  BY DEF Types, Filed
<1>5. /\ \A i \in 1..Len(log') : Numbered(log'[i])
      /\ \A id \in Nat : id <= Floor(log) \/ id \in Ids(log) => id <= Floor(log') \/ id \in Ids(log')
  BY <1>3, <1>4, CompactedFits
<1>6. ~failed => OnFile'
  <2> SUFFICES ASSUME ~failed, NEW id \in published
               PROVE  id <= Floor(log') \/ id \in Ids(log') \/ id \in ToSet(queue)
    BY <1>1 DEF OnFile
  <2>1. id \in Nat
    <3>1. published \subseteq 1..MaxEvents /\ MaxEvents \in Nat
      BY TypesImply, FileAssumption DEF FileAssumption
    <3> QED
      BY <3>1
  <2>2. id <= Floor(log) \/ id \in Ids(log) \/ id \in ToSet(queue)
    BY DEF Deployed, OnFile
  <2> QED
    BY <1>5, <2>1, <2>2
<1> QED
  BY <1>1, <1>2, <1>5, <1>6 DEF Deployed

LEMMA FinishDeployed ==
  ASSUME Types, Deployed, Finish, ~everDied'
  PROVE  Deployed'
<1>1. everDied \in BOOLEAN /\ failed \in BOOLEAN /\ clean \in BOOLEAN /\ opened \in BOOLEAN
  BY DEF Types, Flags
<1>2. /\ queue = <<>> /\ phase' = "down" /\ everDied' = (everDied \/ failed)
      /\ clean' = (clean \/ ~failed)
      /\ synced' = IF failed \/ ~opened THEN synced ELSE Len(log)
      /\ UNCHANGED <<log, exists, queue, failed, opened, ring, floor, uncertain, found, published>>
  BY DEF Finish, Drained, Ended, chain, hub
<1>3. ~failed /\ clean'
  BY <1>1, <1>2
<1>4. synced' = Len(log)
  BY <1>2, <1>3 DEF Deployed
<1>5. OnFile'
  BY <1>2, <1>3 DEF Deployed, OnFile
<1> QED
  BY <1>2, <1>3, <1>4, <1>5 DEF Deployed

(* A machine that dies between two lives finds everything durable. *)
LEMMA DeathIsKnown ==
  ASSUME Types, Deployed, ProcessDies \/ MachineDies
  PROVE  everDied'
<1>1. synced \in 0..Len(log) /\ Len(log) \in Nat
  BY LenProperties DEF Types, Filed, Fits, Shaped
<1>2. CASE Ended(TRUE)
  BY <1>2 DEF Ended
<1>3. CASE ~Running /\ synced < Len(log)
  <2>1. phase = "down"
    BY <1>3 DEF Running, Types, Names
  <2>2. synced = Len(log)
    BY <2>1 DEF Deployed
  <2> QED
    BY <1>1, <1>3, <2>2
<1> QED
  BY <1>2, <1>3 DEF ProcessDies, MachineDies

LEMMA NextDeployed ==
  ASSUME Types, Deployed, [Next]_vars, ~everDied'
  PROVE  Deployed'
<1>1. CASE Close
  <2>1. /\ phase = "up" /\ phase' = "closing"
        /\ UNCHANGED <<log, exists, synced, clean, queue, failed, opened, ring, floor, uncertain, found, published>>
    BY <1>1 DEF Close, disk, chain, hub
  <2> QED
    BY <2>1 DEF Deployed, OnFile
<1>2. CASE WriteFails
  <2>1. /\ phase # "down" /\ failed'
        /\ UNCHANGED <<phase, ring, floor, uncertain, found, published>>
    BY <1>2 DEF WriteFails, Running, hub
  <2> QED
    BY <2>1 DEF Deployed
<1>3. CASE UNCHANGED vars
  <2>1. UNCHANGED <<log, exists, synced, clean, phase, queue, failed, opened, ring, floor, uncertain, found, published>>
    BY <1>3 DEF vars, disk, chain, hub
  <2> QED
    BY <2>1 DEF Deployed, OnFile
<1>4. ~(ProcessDies \/ MachineDies)
  BY DeathIsKnown
<1> QED
  BY <1>1, <1>2, <1>3, <1>4, BootDeployed, LoadFailsDeployed, PublishDeployed, WriteDeployed, CompactDeployed, FinishDeployed
     DEF Next

-----------------------------------------------------------------------------
LEMMA InitIInv == Init => IInv
<1>1. Init => Certified
  BY DEF Init, Certified
<1> QED
  BY <1>1, InitTypes, InitDeployed DEF IInv

LEMMA NextIInv ==
  ASSUME IInv, [Next]_vars
  PROVE  IInv'
<1>1. Types' /\ Certified'
  BY NextTypes, NextCertified DEF IInv
<1>2. ASSUME ~everDied' PROVE Deployed'
  BY <1>2, BadEndings, NextDeployed DEF IInv
<1> QED
  BY <1>1, <1>2 DEF IInv

LEMMA DeploysAreHonest == IInv => HonestAcrossDeploys
<1> SUFFICES ASSUME IInv, ~everDied, found # "unread",
                    NEW c \in published, Vouched(c), NEW x \in published, x > c
             PROVE  x \in ring
  BY DEF HonestAcrossDeploys, Honest, Newer
<1>1. Types /\ Deployed
  BY DEF IInv
<1>2. published \subseteq 1..MaxEvents /\ MaxEvents \in Nat /\ floor \in {0} \cup published
  BY <1>1, TypesImply, FileAssumption DEF FileAssumption, Types
<1>3. c \in Int /\ x \in Int /\ floor \in Int
  BY <1>2
<1>4. x > floor
  BY <1>3 DEF Vouched
<1> QED
  BY <1>1, <1>4 DEF Deployed

LEMMA CrashIsOwned == IInv => HonestAfterCrash
<1> SUFFICES ASSUME IInv, phase = "up", died, before = "log", found = "log"
             PROVE  uncertain
  BY DEF HonestAfterCrash, Honest, Vouched
<1> QED
  BY DEF IInv, Certified

LEMMA GapsAreNeeded == IInv => NoNeedlessGap
<1> SUFFICES ASSUME IInv, ~everDied, NEW c \in published, Newer(published, c) \subseteq ring,
                    c <= Newest(ring)
             PROVE  Vouched(c)
  BY DEF NoNeedlessGap
<1>1. Types /\ Deployed
  BY DEF IInv
<1>2. published \subseteq 1..MaxEvents /\ MaxEvents \in Nat /\ floor \in {0} \cup published
  BY <1>1, TypesImply, FileAssumption DEF FileAssumption, Types
<1>3. c \in Int /\ c >= 1 /\ floor \in Int
  BY <1>2
<1>4. c >= floor
  <2> SUFFICES ASSUME floor > c PROVE FALSE
    BY <1>3
  <2>1. floor \in published
    BY <1>2, <1>3
  <2>2. floor \in ring
    BY <2>1 DEF Newer
  <2> QED
    BY <1>1, <2>2 DEF Deployed
<1> QED
  BY <1>1, <1>4 DEF Deployed, Vouched

(* FileHistory.HonestAcrossDeploys: as long as every life shut down        *)
(* properly, a hub whose load did not throw and that tells a client it     *)
(* missed nothing has every event after that client's cursor, however      *)
(* often the file was compacted and whichever lives before could not load. *)
THEOREM DeploysStayHonest == Spec => []HonestAcrossDeploys
<1>1. IInv /\ [Next]_vars => IInv'
  BY NextIInv
<1> QED
  BY <1>1, InitIInv, DeploysAreHonest, PTL DEF Spec

(* FileHistory.HonestAfterCrash: a life that found a log and crashed left  *)
(* no certificate, so a next life that can read the log vouches for no     *)
(* cursor, whatever the crash lost.                                        *)
THEOREM CrashIsNeverHidden == Spec => []HonestAfterCrash
<1>1. IInv /\ [Next]_vars => IInv'
  BY NextIInv
<1> QED
  BY <1>1, InitIInv, CrashIsOwned, PTL DEF Spec

(* FileHistory.NoNeedlessGap: after proper shutdowns the hub vouches for   *)
(* every cursor after which it has every event.                            *)
THEOREM GapsAreNeverNeedless == Spec => []NoNeedlessGap
<1>1. IInv /\ [Next]_vars => IInv'
  BY NextIInv
<1> QED
  BY <1>1, InitIInv, GapsAreNeeded, PTL DEF Spec
=============================================================================
