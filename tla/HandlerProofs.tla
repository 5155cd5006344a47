---------------------------- MODULE HandlerProofs ----------------------------
(***************************************************************************)
(* Theorems about Handler, for every set of requests, every log and every  *)
(* number of connections: what is written to a stream, what is counted,    *)
(* and what is left when everyone has gone.                                *)
(***************************************************************************)
EXTENDS Handler, FiniteSetTheorems, WellFoundedInduction, TLAPS

(* The least of a set of numbers, which is how the proofs argue by         *)
(* induction.                                                              *)
LEMMA LessOnNat == OpToRel(<, Nat) = {ss \in Nat \X Nat : ss[1] < ss[2]}
  BY Zenon DEF OpToRel

LEMMA LeastNumber ==
  ASSUME NEW S \in SUBSET Nat, S # {}
  PROVE  \E x \in S : \A y \in S : x <= y
<1> DEFINE R == {ss \in Nat \X Nat : ss[1] < ss[2]}
<1>1. IsWellFoundedOn(R, Nat)
  BY NatLessThanWellFounded, LessOnNat, Zenon
<1> HIDE DEF R
<1>2. PICK x \in S : \A y \in S : ~(<<y, x>> \in R)
  BY <1>1, WFMin
<1>3. \A y \in Nat : y < x => <<y, x>> \in R
  BY DEF R
<1>4. \A y \in S : ~(y < x)
  BY <1>2, <1>3
<1>5. \A y \in S : x <= y
  BY <1>4
<1> QED
  BY <1>5

-----------------------------------------------------------------------------
(* A set of numbers put in order is listed whole, the smaller ones first.  *)
Increasing(s) == \A i, j \in DOMAIN s : i < j => s[i] < s[j]

Lists(s, S) == s \in [1..Cardinality(S) -> S] /\ Increasing(s) /\ ToSet(s) = S

LEMMA UpToIsFinite ==
  ASSUME NEW n \in Nat, NEW S \in SUBSET (1..n)
  PROVE  IsFiniteSet(S)
<1>1. IsFiniteSet(1..n)
  BY FS_Interval
<1> QED
  BY <1>1, FS_Subset

LEMMA ListedUpTo ==
  ASSUME NEW n \in Nat, n > 0,
         \A S \in SUBSET (1..(n - 1)) : \E s : Lists(s, S),
         NEW S \in SUBSET (1..n)
  PROVE  \E s : Lists(s, S)
<1>1. CASE n \notin S
  BY <1>1, S \in SUBSET (1..(n - 1))
<1>2. CASE n \in S
  <2> DEFINE T == S \ {n}
             c == Cardinality(T)
  <2>1. T \in SUBSET (1..(n - 1))
    OBVIOUS
  <2>2. PICK s : Lists(s, T)
    BY <2>1
  <2>3. IsFiniteSet(T)
    BY UpToIsFinite, T \in SUBSET (1..n)
  <2>4. c \in Nat
    BY <2>3, FS_CardinalityType
  <2>5. S = T \cup {n} /\ n \notin T
    BY <1>2
  <2>6. Cardinality(S) = c + 1
    BY <2>3, <2>5, FS_AddElement
  <2>7. s \in [1..c -> T] /\ Increasing(s) /\ \A x \in T : \E i \in 1..c : s[i] = x
    BY <2>2 DEF Lists, ToSet
  <2> DEFINE t == [i \in 1..(c + 1) |-> IF i = c + 1 THEN n ELSE s[i]]
  <2> HIDE DEF T, c
  <2>8. \A i \in 1..(c + 1) : i # c + 1 => i \in 1..c /\ t[i] = s[i] /\ t[i] \in T
    BY <2>4, <2>7
  <2>9. t[c + 1] = n
    BY <2>4
  <2>10. t \in [1..(c + 1) -> S]
    BY <2>8, <2>9, <2>5
  <2>11. Increasing(t)
    <3> SUFFICES ASSUME NEW i \in 1..(c + 1), NEW j \in 1..(c + 1), i < j
                 PROVE  t[i] < t[j]
      BY DEF Increasing
    <3>1. i # c + 1
      BY <2>4
    <3>2. CASE j = c + 1
      <4>1. t[i] \in T /\ t[j] = n
        BY <3>1, <3>2, <2>8, <2>9
      <4>2. \A x \in T : x < n
        BY DEF T
      <4> QED
        BY <4>1, <4>2
    <3>3. CASE j # c + 1
      BY <3>1, <3>3, <2>8, <2>7 DEF Increasing
    <3> QED
      BY <3>2, <3>3
  <2>12. ToSet(t) = S
    <3>1. \A x \in S : \E i \in DOMAIN t : t[i] = x
      <4> SUFFICES ASSUME NEW x \in S PROVE \E i \in 1..(c + 1) : t[i] = x
        OBVIOUS
      <4>1. CASE x = n
        BY <4>1, <2>9, <2>4
      <4>2. CASE x # n
        <5>1. PICK i \in 1..c : s[i] = x
          BY <4>2, <2>5, <2>7
        <5>2. i \in 1..(c + 1) /\ i # c + 1
          BY <2>4
        <5> QED
          BY <5>1, <5>2, <2>8
      <4> QED
        BY <4>1, <4>2
    <3> QED
      BY <3>1, <2>10 DEF ToSet
  <2> QED
    BY <2>6, <2>10, <2>11, <2>12 DEF Lists
<1> QED
  BY <1>1, <1>2

LEMMA AllAreListed ==
  ASSUME NEW n \in Nat, NEW S \in SUBSET (1..n)
  PROVE  \E s : Lists(s, S)
<1> DEFINE P(m) == \A X \in SUBSET (1..m) : \E s : Lists(s, X)
           Bad == {m \in Nat : ~P(m)}
<1>1. P(0)
  <2> SUFFICES ASSUME NEW X \in SUBSET (1..0) PROVE \E s : Lists(s, X)
    OBVIOUS
  <2>1. X = {}
    BY 1..0 = {}
  <2>2. Cardinality(X) = 0
    BY <2>1, FS_EmptySet
  <2>3. Lists([i \in 1..0 |-> i], X)
    BY <2>1, <2>2 DEF Lists, Increasing, ToSet
  <2> QED
    BY <2>3
<1>2. Bad = {}
  <2> SUFFICES ASSUME Bad # {} PROVE FALSE
    OBVIOUS
  <2>1. PICK m \in Bad : \A y \in Bad : m <= y
    BY LeastNumber, Bad \in SUBSET Nat
  <2>2. m \in Nat /\ m # 0 /\ ~P(m)
    BY <1>1
  <2>3. m > 0 /\ m - 1 \in Nat /\ ~(m <= m - 1)
    BY <2>2
  <2>4. P(m - 1)
    BY <2>1, <2>3
  <2>5. P(m)
    BY <2>2, <2>3, <2>4, ListedUpTo
  <2> QED
    BY <2>2, <2>5
<1> QED
  BY <1>2

LEMMA InOrderLists ==
  ASSUME NEW n \in Nat, NEW S \in SUBSET (1..n)
  PROVE  /\ InOrder(S) \in Seq(S)
         /\ Increasing(InOrder(S))
         /\ ToSet(InOrder(S)) = S
<1>1. \E s : Lists(s, S)
  BY AllAreListed
<1>2. Lists(InOrder(S), S)
  BY <1>1 DEF Lists, InOrder, Increasing
<1>3. IsFiniteSet(S)
  BY UpToIsFinite
<1>4. Cardinality(S) \in Nat
  BY <1>3, FS_CardinalityType
<1> QED
  BY <1>2, <1>4 DEF Lists

-----------------------------------------------------------------------------
(* What every request looks like. *)
RequestType ==
  [pc : {"new", "checking", "replaying", "abandoned", "open", "done"},
   left : Seq(Topics), granted : SUBSET Topics, cursor : Nat \cup {NoCursor},
   answer : [events : Seq(Nat), truncated : BOOLEAN, here : BOOLEAN],
   pending : Seq(Nat), since : Nat, out : Seq(Nat),
   head : {"none", "stream", "refused", "implicit"}, gone : BOOLEAN]

SweepType(left) ==
  [queue : SUBSET Requests, current : Requests \cup {NoRequest},
   left : {left}, denied : BOOLEAN]

Types ==
  /\ log \in Seq(Topics) /\ {trimmed, read} \subseteq Nat
  /\ trimmed <= read /\ read <= Len(log)
  /\ req \in [Requests -> RequestType]
  /\ conns \subseteq Requests /\ IsFiniteSet(conns)
  /\ {keepAlive, closed} \subseteq BOOLEAN
  /\ {opened, closes} \subseteq Nat

(* How far a request has come fixes what it holds: an open response has    *)
(* its head, an unopened one has none, and only an opening one is queued   *)
(* for.                                                                    *)
Stage(q) ==
  /\ IsInjective(q.left) /\ q.granted \cap ToSet(q.left) = {}
  /\ q.pc = "open" => q.head = "stream"
  /\ q.pc \in {"new", "checking", "replaying", "abandoned"} => q.head = "none"
  /\ q.head # "implicit"
  /\ q.pending # <<>> => q.pc = "replaying"

Stages == \A r \in Requests : Stage(req[r])

(* The map holds exactly the opening and the open. *)
Mapped == \A r \in Requests : r \in conns <=> req[r].pc \in {"replaying", "open"}

(* The sweep asks about someone, unless it is idle. *)
SweepOK ==
  /\ sweep \in SweepType(sweep.left)
  /\ sweep.current = NoRequest => sweep = NoSweep

IInv == Types /\ Stages /\ Mapped /\ SweepOK /\ ClosesAddUp /\ Quiet

-----------------------------------------------------------------------------
LEMMA FreshIsProper == Fresh \in RequestType /\ Stage(Fresh)
<1>1. <<>> \in Seq(Topics) /\ <<>> \in Seq(Nat) /\ NoCursor \in Nat \cup {NoCursor}
  OBVIOUS
<1>2. Fresh \in RequestType
  BY <1>1 DEF Fresh, Unanswered, RequestType
<1>3. IsInjective(<<>>) /\ ToSet(<<>>) = {}
  BY DEF IsInjective, ToSet
<1> QED
  BY <1>2, <1>3 DEF Fresh, Stage

LEMMA DoneIsProper ==
  ASSUME NEW head \in {"none", "stream", "refused"}
  PROVE  /\ Done(head) \in RequestType /\ Stage(Done(head))
         /\ Done(head).pc = "done"
<1>1. Fresh \in RequestType /\ Stage(Fresh) /\ Fresh.pending = <<>>
  BY FreshIsProper DEF Fresh
<1> DEFINE q == Done(head)
<1>2. q \in RequestType
  BY <1>1 DEF Done, RequestType
<1>3. /\ q.pc = "done" /\ q.head = head /\ q.left = Fresh.left /\ q.granted = Fresh.granted
      /\ q.pending = <<>> /\ q.gone = Fresh.gone
  BY <1>1 DEF Done, RequestType
<1> QED
  BY <1>1, <1>2, <1>3 DEF Stage

LEMMA EndedIsProper ==
  ASSUME NEW q \in RequestType, Stage(q)
  PROVE  /\ Ended(q) \in RequestType /\ Stage(Ended(q))
         /\ Ended(q).pc \in {"done", "abandoned"}
<1>1. CASE q.pc = "open"
  BY <1>1, DoneIsProper DEF Ended, Stage
<1>2. CASE q.pc # "open"
  <2> DEFINE e == [Fresh EXCEPT !.pc = "abandoned"]
  <2>1. Fresh \in RequestType /\ Stage(Fresh) /\ Fresh.pending = <<>> /\ Fresh.head = "none"
    BY FreshIsProper DEF Fresh
  <2>2. e \in RequestType
    BY <2>1 DEF RequestType
  <2>3. /\ e.pc = "abandoned" /\ e.head = "none" /\ e.left = Fresh.left
        /\ e.granted = Fresh.granted /\ e.pending = <<>> /\ e.gone = Fresh.gone
    BY <2>1 DEF RequestType
  <2>4. Stage(e)
    BY <2>1, <2>3 DEF Stage
  <2> QED
    BY <1>2, <2>2, <2>3, <2>4 DEF Ended
<1> QED
  BY <1>1, <1>2

(* Ending some connections: the counters still add up, and the requests    *)
(* that are ended are those that leave the map.                            *)
LEMMA DropsAddUp ==
  ASSUME IInv, NEW S \in SUBSET Requests, Drops(S), opened' = opened
  PROVE  /\ conns' = conns \ S
         /\ IsFiniteSet(conns') /\ closes' \in Nat /\ keepAlive' \in BOOLEAN
         /\ ClosesAddUp'
         /\ conns' = {} => ~keepAlive'
         /\ keepAlive /\ conns' # {} => keepAlive'
<1>1. IsFiniteSet(conns) /\ closes \in Nat /\ opened = Cardinality(conns) + closes
  BY DEF IInv, Types, ClosesAddUp
<1>2. /\ conns' = conns \ S
      /\ closes' = closes + Cardinality(S \cap conns)
      /\ keepAlive' = (keepAlive /\ conns' # {})
  BY DEF Drops
<1>3. S \cap conns \in SUBSET conns /\ S \cap conns = conns \cap S
  OBVIOUS
<1>4. IsFiniteSet(S \cap conns) /\ Cardinality(S \cap conns) \in Nat
  BY <1>1, <1>3, FS_Subset, FS_CardinalityType
<1>5. IsFiniteSet(conns') /\ Cardinality(conns') = Cardinality(conns) - Cardinality(S \cap conns)
  BY <1>1, <1>2, <1>3, FS_Difference
<1>6. Cardinality(conns) \in Nat
  BY <1>1, FS_CardinalityType
<1>7. closes' \in Nat /\ opened' = Cardinality(conns') + closes'
  BY <1>1, <1>2, <1>4, <1>5, <1>6
<1>8. /\ keepAlive' \in BOOLEAN
      /\ conns' = {} => ~keepAlive'
      /\ keepAlive /\ conns' # {} => keepAlive'
  BY <1>2, Zenon
<1> QED
  BY <1>2, <1>5, <1>7, <1>8 DEF ClosesAddUp

-----------------------------------------------------------------------------
(* A step of one request that neither registers, opens nor ends it. *)
LEMMA RequestStep ==
  ASSUME IInv, NEW r \in Requests, NEW q \in RequestType, Stage(q), Step(r, q),
         q.pc = "open" <=> At(r, "open"), q.pc = "replaying" <=> At(r, "replaying"),
         UNCHANGED <<logVars, hubVars>>
  PROVE  IInv'
<1>1. req' \in [Requests -> RequestType] /\ \A x \in Requests : req'[x] = IF x = r THEN q ELSE req[x]
  BY DEF IInv, Types, Step
<1>2. Types'
  BY <1>1 DEF IInv, Types, logVars, hubVars
<1>3. Stages'
  BY <1>1 DEF IInv, Stages
<1>4. Mapped'
  BY <1>1 DEF IInv, Mapped, At, hubVars
<1>5. SweepOK' /\ ClosesAddUp'
  BY DEF IInv, SweepOK, ClosesAddUp, hubVars
<1>6. Quiet'
  BY <1>1 DEF IInv, Quiet, At, hubVars, Types
<1> QED
  BY <1>2, <1>3, <1>4, <1>5, <1>6 DEF IInv

(* Steps of the log and of permissions touch no request. *)
LEMMA OutsideIInv ==
  ASSUME IInv,
         \/ \E t \in Topics : Publish(t)
         \/ Trim
         \/ \E r \in Requests, t \in Topics : Revoke(r, t)
  PROVE  IInv'
<1>1. UNCHANGED <<req, hubVars>>
  BY DEF Publish, Trim, Revoke
<1>2. log' \in Seq(Topics) /\ Len(log) <= Len(log') /\ {trimmed', read'} \subseteq Nat
      /\ trimmed' <= read' /\ read' = read
  BY DEF IInv, Types, Publish, Trim, Revoke, logVars
<1>3. Types'
  BY <1>1, <1>2 DEF IInv, Types, hubVars
<1>4. Stages' /\ Mapped' /\ SweepOK' /\ ClosesAddUp' /\ Quiet'
  BY <1>1 DEF IInv, Stages, Mapped, SweepOK, ClosesAddUp, Quiet, At, hubVars
<1> QED
  BY <1>3, <1>4 DEF IInv

LEMMA ArriveIInv ==
  ASSUME IInv, NEW r \in Requests, NEW c \in {NoCursor} \cup 0..Len(log), Arrive(r, c)
  PROVE  IInv'
<1> DEFINE q == [Fresh EXCEPT !.pc = "checking", !.left = Asks[r], !.cursor = c]
<1>1. Fresh \in RequestType /\ Stage(Fresh) /\ Fresh.granted = {} /\ Fresh.pending = <<>>
      /\ Fresh.head = "none"
  BY FreshIsProper DEF Fresh
<1>2. Asks[r] \in Seq(Topics) /\ IsInjective(Asks[r])
  BY HandlerAssumption
<1>3. Len(log) \in Nat
  BY DEF IInv, Types
<1>4. c \in Nat \cup {NoCursor}
  BY <1>3
<1>5. q \in RequestType
  BY <1>1, <1>2, <1>4 DEF RequestType
<1>6. /\ q.pc = "checking" /\ q.left = Asks[r] /\ q.granted = {} /\ q.pending = <<>>
      /\ q.head = "none" /\ q.gone = Fresh.gone
  BY <1>1 DEF RequestType
<1> HIDE DEF q
<1>7. Stage(q)
  BY <1>1, <1>2, <1>6 DEF Stage
<1>8. Step(r, q) /\ At(r, "new") /\ UNCHANGED <<logVars, hubVars>>
  BY DEF Arrive, q
<1> QED
  BY <1>5, <1>6, <1>7, <1>8, RequestStep DEF At

LEMMA AuthorizeIInv ==
  ASSUME IInv, NEW r \in Requests, Authorize(r)
  PROVE  IInv'
<1> DEFINE o == req[r]
           t == Head(o.left)
           q == [o EXCEPT !.left = Tail(@), !.granted = @ \cup ({t} \cap permits[r])]
<1>1. o \in RequestType /\ Stage(o) /\ o.left # <<>> /\ o.pc = "checking"
  BY DEF IInv, Types, Stages, Authorize, At
<1> HIDE DEF o
<1>2. o.left \in Seq(Topics) /\ o.granted \subseteq Topics
  BY <1>1 DEF RequestType
<1>3. /\ t \in Topics /\ t = o.left[1] /\ Tail(o.left) \in Seq(Topics)
      /\ Len(Tail(o.left)) = Len(o.left) - 1
      /\ \A i \in 1..(Len(o.left) - 1) : Tail(o.left)[i] = o.left[i + 1]
  BY <1>1, <1>2
<1>4. q \in RequestType
  BY <1>1, <1>3 DEF RequestType
<1>5. /\ q.pc = o.pc /\ q.left = Tail(o.left) /\ q.granted = o.granted \cup ({t} \cap permits[r])
      /\ q.pending = o.pending /\ q.head = o.head /\ q.gone = o.gone
  BY <1>1 DEF RequestType
<1> HIDE DEF q, t
<1>6. IsInjective(q.left) /\ q.granted \cap ToSet(q.left) = {}
  <2>1. \A i, j \in 1..Len(o.left) : o.left[i] = o.left[j] => i = j
    BY <1>1, <1>2 DEF Stage, IsInjective
  <2>2. \A i \in 1..Len(o.left) : o.left[i] \notin o.granted
    BY <1>1, <1>2 DEF Stage, ToSet
  <2>3. DOMAIN q.left = 1..(Len(o.left) - 1) /\ Len(o.left) \in Nat /\ Len(o.left) # 0
    BY <1>1, <1>2, <1>3, <1>5
  <2>4. \A i \in DOMAIN q.left : q.left[i] = o.left[i + 1] /\ i + 1 \in 1..Len(o.left) /\ i + 1 # 1
    BY <1>3, <1>5, <2>3
  <2>5. \A i, j \in DOMAIN q.left : q.left[i] = q.left[j] => i = j
    <3> SUFFICES ASSUME NEW i \in DOMAIN q.left, NEW j \in DOMAIN q.left, q.left[i] = q.left[j]
                 PROVE  i = j
      OBVIOUS
    <3>1. i + 1 = j + 1
      BY <2>1, <2>4
    <3>2. i \in Nat /\ j \in Nat
      BY <2>3
    <3> QED
      BY <3>1, <3>2
  <2>6. \A i \in DOMAIN q.left : q.left[i] \notin o.granted /\ q.left[i] # t
    BY <1>3, <2>1, <2>2, <2>3, <2>4
  <2>7. \A i \in DOMAIN q.left : q.left[i] \notin q.granted
    BY <2>6, <1>5
  <2> QED
    BY <2>5, <2>7 DEF IsInjective, ToSet
<1>7. Stage(q)
  BY <1>1, <1>5, <1>6 DEF Stage
<1>8. Step(r, q) /\ UNCHANGED <<logVars, hubVars>>
  BY DEF Authorize, q, o, t
<1>9. q.pc = "checking" /\ At(r, "checking")
  BY <1>1, <1>5 DEF o, At
<1> QED
  BY <1>4, <1>7, <1>8, <1>9, RequestStep DEF At

(* Refusing a request that holds no connection. *)
LEMMA RefuseIInv ==
  ASSUME IInv, NEW r \in Requests, Step(r, Done("refused")),
         req[r].pc \in {"checking", "abandoned"}, UNCHANGED <<logVars, hubVars>>
  PROVE  IInv'
  BY DoneIsProper, RequestStep DEF At

(* The backplane's answer, whatever it is. *)
LEMMA AnsweredIInv ==
  ASSUME IInv, NEW r \in Requests, At(r, "replaying"),
         NEW a \in [events : Seq(Nat), truncated : BOOLEAN, here : BOOLEAN],
         Step(r, [req[r] EXCEPT !.answer = a]), UNCHANGED <<logVars, hubVars>>
  PROVE  IInv'
<1> DEFINE o == req[r]
           q == [o EXCEPT !.answer = a]
<1>1. o \in RequestType /\ Stage(o) /\ o.pc = "replaying"
  BY DEF IInv, Types, Stages, At
<1>2. Step(r, q)
  OBVIOUS
<1> HIDE DEF o
<1>3. q \in RequestType
  BY <1>1 DEF RequestType
<1>4. /\ q.pc = o.pc /\ q.left = o.left /\ q.granted = o.granted
      /\ q.pending = o.pending /\ q.head = o.head /\ q.gone = o.gone
  BY <1>1 DEF RequestType
<1> HIDE DEF q
<1>5. Stage(q)
  BY <1>1, <1>4 DEF Stage
<1>6. q.pc = "replaying"
  BY <1>1, <1>4
<1> QED
  BY <1>2, <1>3, <1>5, <1>6, RequestStep DEF At

(* What the log still holds of the topics a request asks for. *)
Wanted(r) ==
  {n \in ((IF req[r].cursor < trimmed THEN trimmed ELSE req[r].cursor) + 1)..Len(log) :
     log[n] \in req[r].granted}

LEMMA WantedIsListed ==
  ASSUME Types, NEW r \in Requests
  PROVE  /\ InOrder(Wanted(r)) \in Seq(Wanted(r))
         /\ Increasing(InOrder(Wanted(r)))
         /\ ToSet(InOrder(Wanted(r))) = Wanted(r)
         /\ Wanted(r) \in SUBSET (1..Len(log))
<1>1. Len(log) \in Nat /\ trimmed \in Nat /\ req[r].cursor \in Nat \cup {-1}
  BY DEF Types, RequestType, NoCursor
<1>2. Wanted(r) \in SUBSET (1..Len(log))
  BY <1>1 DEF Wanted
<1> QED
  BY <1>1, <1>2, InOrderLists

LEMMA AnswerIInv ==
  ASSUME IInv, NEW r \in Requests, Answer(r) \/ AnswerFails(r)
  PROVE  IInv'
<1>1. CASE Answer(r)
  <2> DEFINE a == [events |-> InOrder(Wanted(r)), truncated |-> req[r].cursor < trimmed, here |-> TRUE]
  <2>1. InOrder(Wanted(r)) \in Seq(Wanted(r)) /\ Wanted(r) \in SUBSET (1..Len(log))
    BY WantedIsListed DEF IInv
  <2>2. Wanted(r) \subseteq Nat
    BY <2>1
  <2>3. InOrder(Wanted(r)) \in Seq(Nat)
    BY <2>1, <2>2
  <2>4. a \in [events : Seq(Nat), truncated : BOOLEAN, here : BOOLEAN]
    BY <2>3
  <2>5. /\ At(r, "replaying") /\ Step(r, [req[r] EXCEPT !.answer = a])
        /\ UNCHANGED <<logVars, hubVars>>
    BY <1>1 DEF Answer, Wanted
  <2> HIDE DEF a
  <2> QED
    BY <2>4, <2>5, AnsweredIInv
<1>2. CASE AnswerFails(r)
  <2> DEFINE a == [events |-> <<>>, truncated |-> TRUE, here |-> TRUE]
  <2>1. a \in [events : Seq(Nat), truncated : BOOLEAN, here : BOOLEAN]
    OBVIOUS
  <2>2. /\ At(r, "replaying") /\ Step(r, [req[r] EXCEPT !.answer = a])
        /\ UNCHANGED <<logVars, hubVars>>
    BY <1>2 DEF AnswerFails
  <2> HIDE DEF a
  <2> QED
    BY <2>1, <2>2, AnsweredIInv
<1> QED
  BY <1>1, <1>2

(* A stream that opens. *)
LEMMA OpenedIsProper ==
  ASSUME NEW q \in RequestType, Stage(q), NEW since \in Nat, NEW frames \in Seq(Nat)
  PROVE  /\ Opened(q, since, frames) \in RequestType
         /\ Stage(Opened(q, since, frames))
         /\ Opened(q, since, frames).pc = "open"
         /\ Opened(q, since, frames).since = since
         /\ Opened(q, since, frames).out = frames
         /\ Opened(q, since, frames).granted = q.granted
<1> DEFINE o == Opened(q, since, frames)
<1>1. /\ Fresh \in RequestType /\ Stage(Fresh) /\ Fresh.pending = <<>>
      /\ ToSet(Fresh.left) = {} /\ IsInjective(Fresh.left)
  BY FreshIsProper DEF Fresh, ToSet, IsInjective
<1>2. q.granted \in SUBSET Topics /\ q.gone \in BOOLEAN
  BY DEF RequestType
<1>3. o \in RequestType
  BY <1>1, <1>2 DEF Opened, RequestType
<1>4. /\ o.pc = "open" /\ o.head = "stream" /\ o.left = Fresh.left /\ o.granted = q.granted
      /\ o.pending = <<>> /\ o.gone = q.gone /\ o.since = since /\ o.out = frames
  BY <1>1, <1>2 DEF Opened, RequestType
<1> HIDE DEF o
<1>5. Stage(o)
  BY <1>1, <1>4 DEF Stage
<1> QED
  BY <1>3, <1>4, <1>5 DEF o

(* Registration: the connection is counted, and opens or awaits the replay. *)
Registered(r) ==
  [req[r] EXCEPT !.pc = "replaying",
                 !.since = IF req[r].cursor # NoCursor THEN req[r].cursor ELSE read]

LEMMA RegisteredIsProper ==
  ASSUME IInv, NEW r \in Requests, At(r, "checking")
  PROVE  /\ Registered(r) \in RequestType /\ Stage(Registered(r))
         /\ Registered(r).pc = "replaying" /\ Registered(r).pending = <<>>
         /\ Registered(r).since = IF req[r].cursor # NoCursor THEN req[r].cursor ELSE read
         /\ Registered(r).granted = req[r].granted
         /\ Registered(r).cursor = req[r].cursor
         /\ Registered(r).answer = req[r].answer
<1> DEFINE o == req[r]
           from == IF o.cursor # NoCursor THEN o.cursor ELSE read
           q == [o EXCEPT !.pc = "replaying", !.since = from]
<1>1. o \in RequestType /\ Stage(o) /\ o.pc = "checking" /\ read \in Nat
  BY DEF IInv, Types, Stages, At
<1>2. from \in Nat
  BY <1>1 DEF RequestType
<1>3. q = Registered(r)
  BY DEF Registered
<1> HIDE DEF o, from
<1>4. q \in RequestType
  BY <1>1, <1>2 DEF RequestType
<1>5. /\ q.pc = "replaying" /\ q.left = o.left /\ q.granted = o.granted
      /\ q.pending = o.pending /\ q.head = o.head /\ q.gone = o.gone
      /\ q.since = from /\ q.cursor = o.cursor /\ q.answer = o.answer
  BY <1>1, <1>2 DEF RequestType
<1> HIDE DEF q
<1>6. Stage(q) /\ q.pending = <<>>
  BY <1>1, <1>5 DEF Stage
<1> QED
  BY <1>3, <1>4, <1>5, <1>6 DEF o, from

LEMMA AdmitIInv ==
  ASSUME IInv, NEW r \in Requests, Admit(r)
  PROVE  IInv'
<1>1. At(r, "checking") /\ UNCHANGED logVars
  BY DEF Admit
<1>2. CASE TurnsAway(r)
  BY <1>1, <1>2, RefuseIInv DEF Admit, At
<1>3. CASE ~TurnsAway(r)
  <2> DEFINE resumes == req[r].cursor # NoCursor
             q == IF resumes THEN Registered(r) ELSE Streaming(Registered(r), <<>>, FALSE)
  <2>1. /\ conns' = conns \cup {r} /\ opened' = opened + 1 /\ Step(r, q)
        /\ keepAlive' = (keepAlive \/ ~resumes) /\ UNCHANGED <<sweep, closed, closes>>
    BY <1>3 DEF Admit, Registered
  <2>2. /\ Registered(r) \in RequestType /\ Stage(Registered(r))
        /\ Registered(r).pc = "replaying" /\ Registered(r).pending = <<>>
        /\ Registered(r).since \in Nat
    BY <1>1, RegisteredIsProper DEF RequestType
  <2>3. q \in RequestType /\ Stage(q) /\ q.pc = IF resumes THEN "replaying" ELSE "open"
    <3>1. CASE resumes
      BY <3>1, <2>2
    <3>2. CASE ~resumes
      <4>1. q = Opened(Registered(r), Registered(r).since, <<>>)
        BY <3>2, <2>2 DEF Streaming, OwedFrom
      <4>2. Opened(Registered(r), Registered(r).since, <<>>) \in RequestType
            /\ Stage(Opened(Registered(r), Registered(r).since, <<>>))
            /\ Opened(Registered(r), Registered(r).since, <<>>).pc = "open"
        BY <2>2, <<>> \in Seq(Nat), OpenedIsProper
      <4> QED
        BY <3>2, <4>1, <4>2
    <3> QED
      BY <3>1, <3>2
  <2> HIDE DEF q
  <2>4. req' \in [Requests -> RequestType] /\ \A x \in Requests : req'[x] = IF x = r THEN q ELSE req[x]
    BY <2>1, <2>3 DEF IInv, Types, Step
  <2>5. r \notin conns
    BY <1>1 DEF IInv, Mapped, At
  <2>6. /\ IsFiniteSet(conns) /\ opened \in Nat /\ closes \in Nat
        /\ opened = Cardinality(conns) + closes
    BY DEF IInv, Types, ClosesAddUp
  <2>7. IsFiniteSet(conns') /\ Cardinality(conns') = Cardinality(conns) + 1
    BY <2>1, <2>5, <2>6, FS_AddElement
  <2>8. Cardinality(conns) \in Nat
    BY <2>6, FS_CardinalityType
  <2>9. ClosesAddUp' /\ opened' \in Nat /\ closes' \in Nat
    BY <2>1, <2>6, <2>7, <2>8 DEF ClosesAddUp
  <2>10. keepAlive' \in BOOLEAN /\ closed' \in BOOLEAN
    BY <2>1 DEF IInv, Types
  <2>11. Types'
    BY <1>1, <2>1, <2>4, <2>7, <2>9, <2>10 DEF IInv, Types, logVars
  <2>12. Stages'
    BY <2>3, <2>4 DEF IInv, Stages
  <2>13. Mapped'
    BY <2>1, <2>3, <2>4 DEF IInv, Mapped
  <2>14. SweepOK'
    BY <2>1 DEF IInv, SweepOK
  <2>15. Quiet'
    <3>1. ~closed'
      BY <1>3, <2>1 DEF TurnsAway
    <3>2. conns' # {}
      BY <2>1
    <3>3. ASSUME NEW x \in conns', req'[x].pc = "open" PROVE keepAlive'
      <4>1. CASE x = r
        BY <4>1, <3>3, <2>1, <2>3, <2>4
      <4>2. CASE x # r
        <5>1. x \in conns /\ x \in Requests /\ req'[x] = req[x]
          BY <4>2, <2>1, <2>4 DEF IInv, Types
        <5>2. keepAlive
          BY <5>1, <3>3 DEF IInv, Quiet, At
        <5> QED
          BY <5>2, <2>1
      <4> QED
        BY <4>1, <4>2
    <3> QED
      BY <3>1, <3>2, <3>3 DEF Quiet, At
  <2> QED
    BY <2>9, <2>11, <2>12, <2>13, <2>14, <2>15 DEF IInv
<1> QED
  BY <1>2, <1>3

(* The two halves of a stream that opens after its replay. *)
LEMMA OpenFrames ==
  ASSUME IInv, NEW r \in Requests
  PROVE  /\ req[r].answer.events \o req[r].pending \in Seq(Nat)
         /\ OwedFrom(req[r], req[r].answer.truncated) \in Nat
         /\ req[r] \in RequestType /\ Stage(req[r])
<1>1. req[r] \in RequestType /\ Stage(req[r]) /\ Len(log) \in Nat
  BY DEF IInv, Types, Stages
<1>2. /\ req[r].answer \in [events : Seq(Nat), truncated : BOOLEAN, here : BOOLEAN]
      /\ req[r].pending \in Seq(Nat) /\ req[r].since \in Nat
  BY <1>1 DEF RequestType
<1>3. req[r].answer.events \in Seq(Nat)
  BY <1>2
<1>4. req[r].answer.events \o req[r].pending \in Seq(Nat)
  BY <1>2, <1>3
<1> QED
  BY <1>1, <1>2, <1>4 DEF OwedFrom

LEMMA OpenIInv ==
  ASSUME IInv, NEW r \in Requests, Open(r)
  PROVE  IInv'
<1> DEFINE since == OwedFrom(req[r], req[r].answer.truncated)
           frames == req[r].answer.events \o req[r].pending
           q == Opened(req[r], since, frames)
<1>1. /\ At(r, "replaying") /\ Step(r, q) /\ keepAlive' = TRUE
      /\ UNCHANGED <<logVars, conns, sweep, closed, opened, closes>>
  BY DEF Open, Streaming
<1>2. since \in Nat /\ frames \in Seq(Nat) /\ req[r] \in RequestType /\ Stage(req[r])
  BY OpenFrames
<1>3. q \in RequestType /\ Stage(q) /\ q.pc = "open"
  BY <1>2, OpenedIsProper
<1> HIDE DEF q
<1>4. req' \in [Requests -> RequestType] /\ \A x \in Requests : req'[x] = IF x = r THEN q ELSE req[x]
  BY <1>1, <1>3 DEF IInv, Types, Step
<1>5. r \in conns
  BY <1>1 DEF IInv, Mapped, At
<1>6. Types'
  BY <1>1, <1>4 DEF IInv, Types, logVars
<1>7. Stages'
  BY <1>3, <1>4 DEF IInv, Stages
<1>8. Mapped'
  BY <1>1, <1>3, <1>4, <1>5 DEF IInv, Mapped
<1>9. SweepOK' /\ ClosesAddUp'
  BY <1>1 DEF IInv, SweepOK, ClosesAddUp
<1>10. Quiet'
  BY <1>1, <1>5 DEF IInv, Quiet
<1> QED
  BY <1>6, <1>7, <1>8, <1>9, <1>10 DEF IInv

(* Ending connections, whoever does it. *)
LEMMA DroppedIInv ==
  ASSUME IInv, NEW S \in SUBSET Requests, Drops(S), req' = Dropped(S),
         UNCHANGED <<logVars, opened>>, SweepOK',
         closed' \in BOOLEAN, closed' => closed \/ conns \subseteq S
  PROVE  IInv'
<1>1. /\ conns' = conns \ S
      /\ IsFiniteSet(conns') /\ closes' \in Nat /\ keepAlive' \in BOOLEAN
      /\ ClosesAddUp'
      /\ conns' = {} => ~keepAlive'
      /\ keepAlive /\ conns' # {} => keepAlive'
  BY DropsAddUp
<1>2. \A x \in Requests : /\ Ended(req[x]) \in RequestType /\ Stage(Ended(req[x]))
                          /\ Ended(req[x]).pc \in {"done", "abandoned"}
  BY EndedIsProper DEF IInv, Types, Stages
<1>3. \A x \in Requests : req'[x] = IF x \in S \cap conns THEN Ended(req[x]) ELSE req[x]
  BY DEF Dropped
<1>4. req' \in [Requests -> RequestType]
  BY <1>2, <1>3 DEF Dropped, IInv, Types
<1>5. Types'
  BY <1>1, <1>4 DEF IInv, Types, logVars
<1>6. Stages'
  BY <1>2, <1>3 DEF IInv, Stages
<1>7. Mapped'
  <2> SUFFICES ASSUME NEW x \in Requests
               PROVE  x \in conns' <=> req'[x].pc \in {"replaying", "open"}
    BY DEF Mapped
  <2>1. CASE x \in S \cap conns
    <3>1. req'[x].pc \in {"done", "abandoned"} /\ x \notin conns'
      BY <2>1, <1>1, <1>2, <1>3
    <3> QED
      BY <3>1
  <2>2. CASE x \notin S \cap conns
    BY <2>2, <1>1, <1>3 DEF IInv, Mapped
  <2> QED
    BY <2>1, <2>2
<1>8. Quiet'
  <2>1. closed' => conns' = {}
    BY <1>1 DEF IInv, Quiet
  <2>2. ASSUME NEW x \in conns', req'[x].pc = "open" PROVE keepAlive'
    <3>1. x \in conns /\ x \in Requests /\ req'[x] = req[x]
      BY <1>1, <1>3 DEF IInv, Types
    <3>2. keepAlive
      BY <3>1, <2>2 DEF IInv, Quiet, At
    <3> QED
      BY <3>2, <1>1
  <2> QED
    BY <2>1, <2>2, <1>1 DEF Quiet, At
<1> QED
  BY <1>1, <1>5, <1>6, <1>7, <1>8 DEF IInv

(* A frame for a connection in the map is queued or, its head being out,   *)
(* written.                                                                *)
LEMMA WriteToIsProper ==
  ASSUME NEW q \in RequestType, Stage(q), q.pc \in {"replaying", "open"}, NEW n \in Nat
  PROVE  /\ WriteTo(q, n) \in RequestType /\ Stage(WriteTo(q, n))
         /\ WriteTo(q, n).pc = q.pc
         /\ WriteTo(q, n).granted = q.granted /\ WriteTo(q, n).since = q.since
         /\ WriteTo(q, n).cursor = q.cursor /\ WriteTo(q, n).answer = q.answer
         /\ q.pc = "replaying" => /\ WriteTo(q, n).pending = Append(q.pending, n)
                                  /\ WriteTo(q, n).out = q.out
         /\ q.pc = "open" => /\ WriteTo(q, n).out = Append(q.out, n)
                             /\ WriteTo(q, n).pending = q.pending
<1>1. q.pending \in Seq(Nat) /\ q.out \in Seq(Nat)
  BY DEF RequestType
<1>2. CASE q.pc = "replaying"
  <2> DEFINE a == Append(q.pending, n)
             w == [q EXCEPT !.pending = a]
  <2>0. a \in Seq(Nat)
    BY <1>1
  <2>1. w = WriteTo(q, n)
    BY <1>2 DEF WriteTo
  <2> HIDE DEF a
  <2>2. w \in RequestType
    BY <2>0 DEF RequestType
  <2>3. /\ w.pc = q.pc /\ w.left = q.left /\ w.granted = q.granted /\ w.head = q.head
        /\ w.gone = q.gone /\ w.pending = a /\ w.out = q.out
        /\ w.since = q.since /\ w.cursor = q.cursor /\ w.answer = q.answer
    BY <2>0 DEF RequestType
  <2> HIDE DEF w
  <2>4. Stage(w)
    BY <1>2, <2>3 DEF Stage
  <2> QED
    BY <1>2, <2>1, <2>2, <2>3, <2>4 DEF a
<1>3. CASE q.pc = "open"
  <2> DEFINE a == Append(q.out, n)
             w == [q EXCEPT !.out = a]
  <2>0. a \in Seq(Nat)
    BY <1>1
  <2>1. w = WriteTo(q, n)
    BY <1>3 DEF WriteTo, Written, Stage
  <2> HIDE DEF a
  <2>2. w \in RequestType
    BY <2>0 DEF RequestType
  <2>3. /\ w.pc = q.pc /\ w.left = q.left /\ w.granted = q.granted /\ w.head = q.head
        /\ w.gone = q.gone /\ w.pending = q.pending /\ w.out = a
        /\ w.since = q.since /\ w.cursor = q.cursor /\ w.answer = q.answer
    BY <2>0 DEF RequestType
  <2> HIDE DEF w
  <2>4. Stage(w)
    BY <1>3, <2>3 DEF Stage
  <2> QED
    BY <1>3, <2>1, <2>2, <2>3, <2>4 DEF a
<1> QED
  BY <1>2, <1>3

Targets == {r \in conns : log[read + 1] \in req[r].granted}

LEMMA FanOutSteps ==
  ASSUME IInv, NEW slow \in SUBSET Requests, FanOut(slow)
  PROVE  /\ read < Len(log) /\ read' = read + 1 /\ UNCHANGED <<log, trimmed, sweep, closed, opened>>
         /\ slow \subseteq {r \in Targets : At(r, "open")}
         /\ Drops(slow)
         /\ \A r \in Requests :
              req'[r] = IF r \in slow THEN Ended(WriteTo(req[r], read + 1))
                        ELSE IF r \in Targets THEN WriteTo(req[r], read + 1) ELSE req[r]
         /\ req' \in [Requests -> RequestType]
         /\ Stages'
<1>1. /\ read < Len(log) /\ read' = read + 1 /\ UNCHANGED <<log, trimmed, sweep, closed, opened>>
      /\ slow \subseteq {r \in Targets : At(r, "open")} /\ Drops(slow)
  BY DEF FanOut, Targets
<1>2. \A r \in Requests :
        req'[r] = IF r \in slow THEN Ended(WriteTo(req[r], read + 1))
                  ELSE IF r \in Targets THEN WriteTo(req[r], read + 1) ELSE req[r]
  BY <1>1 DEF FanOut, Targets
<1>3. read + 1 \in Nat
  BY DEF IInv, Types
<1>4. \A r \in Targets : /\ WriteTo(req[r], read + 1) \in RequestType
                         /\ Stage(WriteTo(req[r], read + 1))
  BY <1>3, WriteToIsProper DEF Targets, IInv, Types, Stages, Mapped
<1>5. \A r \in Requests : req'[r] \in RequestType /\ Stage(req'[r])
  <2> SUFFICES ASSUME NEW r \in Requests PROVE req'[r] \in RequestType /\ Stage(req'[r])
    OBVIOUS
  <2>1. CASE r \in slow
    BY <2>1, <1>1, <1>2, <1>4, EndedIsProper
  <2>2. CASE r \notin slow /\ r \in Targets
    BY <2>2, <1>2, <1>4
  <2>3. CASE r \notin slow /\ r \notin Targets
    BY <2>3, <1>2 DEF IInv, Types, Stages
  <2> QED
    BY <2>1, <2>2, <2>3
<1>6. \E f : req' = [r \in Requests |-> f[r]]
  <2>1. req' = [r \in Requests |-> req'[r]]
    BY <1>1 DEF FanOut
  <2> QED
    BY <2>1
<1>7. req' \in [Requests -> RequestType]
  BY <1>5, <1>6
<1> QED
  BY <1>1, <1>2, <1>5, <1>7 DEF Stages

LEMMA FanOutIInv ==
  ASSUME IInv, NEW slow \in SUBSET Requests, FanOut(slow)
  PROVE  IInv'
<1>1. /\ read < Len(log) /\ read' = read + 1 /\ UNCHANGED <<log, trimmed, sweep, closed, opened>>
      /\ slow \subseteq {r \in Targets : At(r, "open")}
      /\ req' \in [Requests -> RequestType] /\ Stages'
  BY FanOutSteps
<1>2. \A r \in Requests :
        req'[r] = IF r \in slow THEN Ended(WriteTo(req[r], read + 1))
                  ELSE IF r \in Targets THEN WriteTo(req[r], read + 1) ELSE req[r]
  BY FanOutSteps
<1>3. /\ conns' = conns \ slow
      /\ IsFiniteSet(conns') /\ closes' \in Nat /\ keepAlive' \in BOOLEAN
      /\ ClosesAddUp'
      /\ conns' = {} => ~keepAlive'
      /\ keepAlive /\ conns' # {} => keepAlive'
  BY <1>1, DropsAddUp, FanOutSteps
<1>4. read + 1 \in Nat /\ read + 1 <= Len(log)
  BY <1>1 DEF IInv, Types
<1>5. Types'
  BY <1>1, <1>3, <1>4 DEF IInv, Types
<1>6. \A r \in Requests : /\ r \in slow => req'[r].pc \in {"done", "abandoned"}
                          /\ r \notin slow => req'[r].pc = req[r].pc
  <2> SUFFICES ASSUME NEW r \in Requests
               PROVE  /\ r \in slow => req'[r].pc \in {"done", "abandoned"}
                      /\ r \notin slow => req'[r].pc = req[r].pc
    OBVIOUS
  <2>1. CASE r \in Targets
    <3>1. /\ WriteTo(req[r], read + 1) \in RequestType /\ Stage(WriteTo(req[r], read + 1))
          /\ WriteTo(req[r], read + 1).pc = req[r].pc
      BY <2>1, <1>4, WriteToIsProper DEF Targets, IInv, Types, Stages, Mapped
    <3> QED
      BY <2>1, <3>1, <1>2, EndedIsProper
  <2>2. CASE r \notin Targets
    BY <2>2, <1>1, <1>2
  <2> QED
    BY <2>1, <2>2
<1>7. Mapped'
  <2> SUFFICES ASSUME NEW r \in Requests
               PROVE  r \in conns' <=> req'[r].pc \in {"replaying", "open"}
    BY DEF Mapped
  <2>1. CASE r \in slow
    <3>1. req'[r].pc \in {"done", "abandoned"} /\ r \notin conns'
      BY <2>1, <1>3, <1>6
    <3> QED
      BY <3>1
  <2>2. CASE r \notin slow
    BY <2>2, <1>3, <1>6 DEF IInv, Mapped
  <2> QED
    BY <2>1, <2>2
<1>8. Quiet'
  <2>1. closed' => conns' = {}
    BY <1>1, <1>3 DEF IInv, Quiet
  <2>2. ASSUME NEW x \in conns', req'[x].pc = "open" PROVE keepAlive'
    <3>1. x \in conns /\ x \in Requests /\ req[x].pc = "open"
      BY <2>2, <1>3, <1>6 DEF IInv, Types
    <3>2. keepAlive
      BY <3>1 DEF IInv, Quiet, At
    <3> QED
      BY <3>2, <1>3
  <2> QED
    BY <2>1, <2>2, <1>3 DEF Quiet, At
<1>9. SweepOK'
  BY <1>1 DEF IInv, SweepOK
<1> QED
  BY <1>1, <1>3, <1>5, <1>7, <1>8, <1>9 DEF IInv

(* The client goes: its listeners hear it from registration on. *)
LEMMA LeaveIInv ==
  ASSUME IInv, NEW r \in Requests, Leave(r)
  PROVE  IInv'
<1>1. UNCHANGED <<logVars, permits, sweep, closed, opened>>
  BY DEF Leave
<1>2. SweepOK' /\ closed' \in BOOLEAN
  BY <1>1 DEF IInv, SweepOK, Types
<1>3. CASE ~At(r, "checking")
  <2>1. req' = Dropped({r}) /\ Drops({r})
    BY <1>3 DEF Leave
  <2> QED
    BY <2>1, <1>1, <1>2, DroppedIInv
<1>4. CASE At(r, "checking")
  <2> DEFINE o == req[r]
             q == [o EXCEPT !.gone = TRUE]
  <2>1. Step(r, q) /\ UNCHANGED <<conns, keepAlive, closes>>
    BY <1>4 DEF Leave
  <2>2. o \in RequestType /\ Stage(o) /\ o.pc = "checking"
    BY <1>4 DEF IInv, Types, Stages, At
  <2> HIDE DEF o
  <2>3. q \in RequestType
    BY <2>2 DEF RequestType
  <2>4. /\ q.pc = o.pc /\ q.left = o.left /\ q.granted = o.granted /\ q.head = o.head
        /\ q.pending = o.pending
    BY <2>2 DEF RequestType
  <2> HIDE DEF q
  <2>5. Stage(q)
    BY <2>2, <2>4 DEF Stage
  <2>6. UNCHANGED <<logVars, hubVars>>
    BY <1>1, <2>1 DEF hubVars
  <2> USE DEF o
  <2> QED
    BY <1>4, <2>1, <2>2, <2>3, <2>4, <2>5, <2>6, RequestStep DEF At
<1> QED
  BY <1>3, <1>4

LEMMA EndingIInv ==
  ASSUME IInv, (\E S \in SUBSET conns \ {{}} : Disconnect(S)) \/ Close
  PROVE  IInv'
<1>1. ASSUME NEW S \in SUBSET conns, Disconnect(S) PROVE IInv'
  <2>1. /\ S \in SUBSET Requests /\ Drops(S) /\ req' = Dropped(S)
        /\ UNCHANGED <<logVars, opened, sweep, closed>>
    BY <1>1 DEF Disconnect, IInv, Types
  <2>2. SweepOK' /\ closed' \in BOOLEAN
    BY <2>1 DEF IInv, SweepOK, Types
  <2> QED
    BY <2>1, <2>2, DroppedIInv
<1>2. CASE Close
  <2>1. /\ conns \in SUBSET Requests /\ Drops(conns) /\ req' = Dropped(conns)
        /\ UNCHANGED <<logVars, opened, sweep>> /\ closed' = TRUE
    BY <1>2 DEF Close, IInv, Types
  <2>2. SweepOK' /\ closed' \in BOOLEAN
    BY <2>1 DEF IInv, SweepOK
  <2> QED
    BY <2>1, <2>2, DroppedIInv
<1> QED
  BY <1>1, <1>2

(* The tick finds nobody without a head, so it leaves them as they are. *)
LEMMA TickIInv ==
  ASSUME IInv, KeepAliveTick
  PROVE  req' = req /\ IInv'
<1>1. /\ req' = [r \in Requests |->
                   IF r \in conns /\ ~At(r, "replaying") THEN Written(req[r]) ELSE req[r]]
      /\ UNCHANGED <<logVars, hubVars>>
  BY DEF KeepAliveTick
<1>2. \A r \in conns : ~At(r, "replaying") => req[r].head = "stream"
  BY DEF IInv, Mapped, Types, Stages, Stage, At
<1>3. \A r \in Requests : req'[r] = req[r]
  BY <1>1, <1>2 DEF Written
<1>4. req' = req
  BY <1>1, <1>3 DEF IInv, Types
<1>5. IInv'
  BY <1>1, <1>4 DEF IInv, Types, Stages, Mapped, SweepOK, ClosesAddUp, Quiet, At, logVars, hubVars
<1> QED
  BY <1>4, <1>5

-----------------------------------------------------------------------------
LEMMA AdvanceIsProper ==
  ASSUME NEW queue \in SUBSET Requests, sweep' \in Advance(queue)
  PROVE  SweepOK'
<1>1. CASE queue = {}
  <2>1. sweep' = NoSweep
    BY <1>1 DEF Advance
  <2> QED
    BY <2>1 DEF SweepOK, SweepType, NoSweep
<1>2. CASE queue # {}
  <2>1. \E r \in queue : \E l : sweep' = [queue |-> queue \ {r}, current |-> r, left |-> l, denied |-> FALSE]
    BY <1>2 DEF Advance
  <2>2. PICK r \in queue : \E l : sweep' = [queue |-> queue \ {r}, current |-> r, left |-> l, denied |-> FALSE]
    BY <2>1
  <2>3. PICK l : sweep' = [queue |-> queue \ {r}, current |-> r, left |-> l, denied |-> FALSE]
    BY <2>2
  <2>4. r \in Requests /\ r # NoRequest /\ queue \ {r} \in SUBSET Requests
    BY HandlerAssumption
  <2>5. sweep'.left = l /\ sweep'.current = r
    BY <2>3
  <2> QED
    BY <2>3, <2>4, <2>5 DEF SweepOK, SweepType
<1> QED
  BY <1>1, <1>2

LEMMA SweepStepIInv ==
  ASSUME IInv, SweepOK', UNCHANGED <<SweepVars, req, conns, keepAlive, closes>>
  PROVE  IInv'
  BY DEF IInv, Types, Stages, Mapped, ClosesAddUp, Quiet, At, SweepVars, logVars

LEMMA SweepStartIInv ==
  ASSUME IInv, SweepStart
  PROVE  IInv'
<1>1. sweep' \in Advance(conns) /\ UNCHANGED <<SweepVars, req, conns, keepAlive, closes>>
  BY DEF SweepStart
<1>2. conns \in SUBSET Requests
  BY DEF IInv, Types
<1>3. SweepOK'
  BY <1>1, <1>2, AdvanceIsProper
<1> QED
  BY <1>1, <1>3, SweepStepIInv

LEMMA SweepAskIInv ==
  ASSUME IInv, SweepAsk
  PROVE  IInv'
<1>1. /\ ~sweep.denied /\ sweep.left # <<>>
      /\ UNCHANGED <<SweepVars, req, conns, keepAlive, closes>>
      /\ \/ sweep' \in Advance(sweep.queue \cap conns)
         \/ sweep' = [sweep EXCEPT !.left = Tail(@)]
         \/ sweep' = [sweep EXCEPT !.denied = TRUE]
  BY DEF SweepAsk
<1>2. /\ sweep \in SweepType(sweep.left)
      /\ sweep.current = NoRequest => sweep = NoSweep
      /\ sweep.queue \cap conns \in SUBSET Requests
  BY DEF IInv, SweepOK, SweepType
<1>3. sweep.current # NoRequest
  BY <1>1, <1>2 DEF NoSweep
<1>4. SweepOK'
  <2>1. CASE sweep' \in Advance(sweep.queue \cap conns)
    BY <2>1, <1>2, AdvanceIsProper
  <2>2. CASE sweep' = [sweep EXCEPT !.left = Tail(@)]
    BY <2>2, <1>2, <1>3 DEF SweepOK, SweepType
  <2>3. CASE sweep' = [sweep EXCEPT !.denied = TRUE]
    BY <2>3, <1>2, <1>3 DEF SweepOK, SweepType
  <2> QED
    BY <1>1, <2>1, <2>2, <2>3
<1> QED
  BY <1>1, <1>4, SweepStepIInv

LEMMA SweepCutIInv ==
  ASSUME IInv, SweepCut
  PROVE  IInv'
<1>1. /\ sweep.denied /\ req' = Dropped({sweep.current}) /\ Drops({sweep.current})
      /\ sweep' \in Advance(sweep.queue \cap conns') /\ UNCHANGED SweepVars
  BY DEF SweepCut
<1>2. /\ sweep \in SweepType(sweep.left)
      /\ sweep.current = NoRequest => sweep = NoSweep
  BY DEF IInv, SweepOK
<1>3. sweep.current \in Requests
  BY <1>1, <1>2 DEF SweepType, NoSweep
<1>4. sweep.queue \cap conns' \in SUBSET Requests
  BY <1>2 DEF SweepType
<1>5. SweepOK'
  BY <1>1, <1>4, AdvanceIsProper
<1>6. UNCHANGED <<logVars, opened, closed>> /\ closed' \in BOOLEAN
  BY <1>1 DEF SweepVars, IInv, Types
<1> QED
  BY <1>1, <1>3, <1>5, <1>6, DroppedIInv

-----------------------------------------------------------------------------
LEMMA InitIInv == Init => IInv
<1> SUFFICES ASSUME Init PROVE IInv
  OBVIOUS
<1>1. Fresh \in RequestType /\ Stage(Fresh) /\ Fresh.pc = "new"
  BY FreshIsProper DEF Fresh
<1>2. IsFiniteSet({}) /\ Cardinality({}) = 0
  BY FS_EmptySet
<1>3. Types
  <2>1. log \in Seq(Topics) /\ Len(log) = 0 /\ {trimmed, read} \subseteq Nat
        /\ trimmed <= read /\ read <= Len(log)
    BY DEF Init
  <2>2. req \in [Requests -> RequestType]
    BY <1>1 DEF Init
  <2>3. conns \subseteq Requests /\ IsFiniteSet(conns)
    BY <1>2 DEF Init
  <2>4. keepAlive \in BOOLEAN /\ closed \in BOOLEAN
    BY Zenon DEF Init
  <2>5. {opened, closes} \subseteq Nat
    BY DEF Init
  <2> QED
    BY <2>1, <2>2, <2>3, <2>4, <2>5 DEF Types
<1>4. Stages /\ Mapped
  BY <1>1 DEF Init, Stages, Mapped
<1>5. SweepOK /\ ClosesAddUp /\ Quiet
  BY <1>2 DEF Init, SweepOK, SweepType, NoSweep, ClosesAddUp, Quiet
<1> QED
  BY <1>3, <1>4, <1>5 DEF IInv

LEMMA ServeIInv ==
  ASSUME IInv, NEW r \in Requests, Serve(r)
  PROVE  IInv'
<1>1. CASE Authorize(r)
  BY <1>1, AuthorizeIInv
<1>2. CASE AuthorizeThrows(r)
  BY <1>2, RefuseIInv DEF AuthorizeThrows, At
<1>3. CASE Admit(r)
  BY <1>3, AdmitIInv
<1>4. CASE Answer(r) \/ AnswerFails(r)
  BY <1>4, AnswerIInv
<1>5. CASE Open(r)
  BY <1>5, OpenIInv
<1>6. CASE GiveUp(r)
  BY <1>6, RefuseIInv DEF GiveUp, At
<1> QED
  BY <1>1, <1>2, <1>3, <1>4, <1>5, <1>6 DEF Serve

LEMMA NextIInv == IInv /\ [Next]_vars => IInv'
<1> SUFFICES ASSUME IInv, [Next]_vars PROVE IInv'
  OBVIOUS
<1>1. CASE (\E t \in Topics : Publish(t)) \/ Trim \/ \E r \in Requests, t \in Topics : Revoke(r, t)
  BY <1>1, OutsideIInv
<1>2. CASE \E slow \in SUBSET Requests : FanOut(slow)
  BY <1>2, FanOutIInv
<1>3. CASE \E r \in Requests, c \in {NoCursor} \cup 0..Len(log) : Arrive(r, c)
  BY <1>3, ArriveIInv
<1>4. CASE \E r \in Requests : Serve(r) \/ Leave(r)
  BY <1>4, ServeIInv, LeaveIInv
<1>5. CASE (\E S \in SUBSET conns \ {{}} : Disconnect(S)) \/ Close
  BY <1>5, EndingIInv
<1>6. CASE KeepAliveTick
  BY <1>6, TickIInv
<1>7. CASE Revalidate
  BY <1>7, SweepStartIInv, SweepAskIInv, SweepCutIInv DEF Revalidate
<1>8. CASE UNCHANGED vars
  BY <1>8 DEF vars, logVars, hubVars, IInv, Types, Stages, Mapped, SweepOK, ClosesAddUp, Quiet, At
<1> QED
  BY <1>1, <1>2, <1>3, <1>4, <1>5, <1>6, <1>7, <1>8 DEF Next

LEMMA AlwaysIInv == Spec => []IInv
<1>1. Init => IInv
  BY InitIInv
<1>2. IInv /\ [Next]_vars => IInv'
  BY NextIInv
<1> QED
  BY <1>1, <1>2, PTL DEF Spec

LEMMA IInvImpliesTypeOK == IInv => TypeOK
<1> SUFFICES ASSUME IInv PROVE TypeOK
  OBVIOUS
<1>1. conns \subseteq {r \in Requests : req[r].pc \in {"replaying", "open"}}
  BY DEF IInv, Types, Mapped
<1>2. \A r \in Requests : /\ req[r].pending # <<>> => At(r, "replaying")
                          /\ req[r].granted \cap ToSet(req[r].left) = {}
  BY DEF IInv, Stages, Stage, At
<1>3. sweep.denied => sweep.current \in Requests
  BY DEF IInv, SweepOK, SweepType, NoSweep
<1> QED
  BY <1>1, <1>2, <1>3 DEF IInv, Types, TypeOK

(* The model's type invariant: what is in the map is opening or open, and  *)
(* only what is opening is queued for.                                     *)
THEOREM TypeCorrect == Spec => []TypeOK
<1>1. IInv => TypeOK
  BY IInvImpliesTypeOK
<1> QED
  BY <1>1, AlwaysIInv, PTL

(* No byte is written to a response ahead of its head: not by the fan-out, *)
(* the keepalive, or anything else that fires across the awaits.           *)
THEOREM HeadsAreFirst == Spec => []HeadsComeFirst
<1>1. IInv => HeadsComeFirst
  BY DEF IInv, Stages, Stage, HeadsComeFirst
<1> QED
  BY <1>1, AlwaysIInv, PTL

(* Every connection ever opened is in the map or has been counted as       *)
(* closed exactly once, though teardown, a slow consumer's end, disconnect,*)
(* the sweep and close may each try to drop it.                            *)
THEOREM CountsAlwaysAddUp == Spec => []ClosesAddUp
<1>1. IInv => ClosesAddUp
  BY DEF IInv
<1> QED
  BY <1>1, AlwaysIInv, PTL

(* A closed hub stays empty, whichever requests were still waiting in it,  *)
(* and the keepalive timer is there for open connections only.             *)
THEOREM ClosedIsQuiet == Spec => []Quiet
<1>1. IInv => Quiet
  BY DEF IInv
<1> QED
  BY <1>1, AlwaysIInv, PTL

(* The counters, the map and the keepalive agree, whoever ends what.       *)
THEOREM BooksAlwaysBalance == Spec => []BooksBalance
<1>1. ClosesAddUp /\ Quiet => BooksBalance
  BY DEF BooksBalance
<1> QED
  BY <1>1, CountsAlwaysAddUp, ClosedIsQuiet, PTL

-----------------------------------------------------------------------------
(* Nothing is lost across the awaited replay.  What follows is about what  *)
(* one request holds, the log l and how far, rd, this process has read it. *)
Gives(s, n) == \E i \in DOMAIN s : s[i] = n /\ \A j \in 1..(i - 1) : s[j] <= n

AllUpTo(s, n) == \A i \in DOMAIN s : s[i] <= n

Covers(s, l, granted, from, upto) ==
  \A n \in (from + 1)..upto : l[n] \in granted => n \in ToSet(s)

(* The replay has everything up to a point at or behind which the queue    *)
(* sets in, because the connection was registered before it asked.         *)
Opening(q, l, rd) ==
  /\ q.since = q.cursor
  /\ AllUpTo(q.pending, rd) /\ Increasing(q.pending)
  /\ AllUpTo(q.answer.events, Len(l)) /\ Increasing(q.answer.events)
  /\ \E from \in 0..rd :
       /\ Covers(q.pending, l, q.granted, from, rd)
       /\ q.answer.here /\ ~q.answer.truncated =>
            \E upto \in from..Len(l) :
              /\ AllUpTo(q.answer.events, upto)
              /\ Covers(q.answer.events, l, q.granted, q.since, upto)

(* Up to some point, which the replay may have put ahead of what was read, *)
(* everything owed has been given, and nothing beyond it was written.      *)
Running(q, l, rd) ==
  \E upto \in rd..Len(l) :
    /\ AllUpTo(q.out, upto)
    /\ \A n \in (q.since + 1)..upto : l[n] \in q.granted => Gives(q.out, n)

Tracked(q, l, rd) ==
  /\ q.cursor <= Len(l)
  /\ q.pc = "checking" => q.answer = Unanswered
  /\ q.pc = "replaying" /\ ~q.answer.here => q.answer = Unanswered
  /\ q.pc = "replaying" => Opening(q, l, rd)
  /\ q.pc = "open" => Running(q, l, rd)

OwedInv == \A r \in Requests : Tracked(req[r], log, read)

-----------------------------------------------------------------------------
LEMMA AppendGives ==
  ASSUME NEW s \in Seq(Nat), NEW x \in Nat, NEW n \in Nat
  PROVE  /\ Gives(s, n) => Gives(Append(s, x), n)
         /\ AllUpTo(s, x) => Gives(Append(s, x), x) /\ AllUpTo(Append(s, x), x)
<1> DEFINE t == Append(s, x)
<1>1. /\ Len(s) \in Nat /\ DOMAIN s = 1..Len(s) /\ DOMAIN t = 1..(Len(s) + 1)
      /\ t[Len(s) + 1] = x /\ \A i \in 1..Len(s) : t[i] = s[i]
  OBVIOUS
<1> HIDE DEF t
<1>2. ASSUME Gives(s, n) PROVE Gives(t, n)
  <2>1. PICK i \in DOMAIN s : s[i] = n /\ \A j \in 1..(i - 1) : s[j] <= n
    BY <1>2 DEF Gives
  <2>2. i \in DOMAIN t /\ t[i] = n
    BY <1>1, <2>1
  <2>3. \A j \in 1..(i - 1) : j \in 1..Len(s)
    BY <1>1
  <2>4. \A j \in 1..(i - 1) : t[j] <= n
    BY <1>1, <2>1, <2>3
  <2> QED
    BY <2>2, <2>4 DEF Gives
<1>3. ASSUME AllUpTo(s, x) PROVE Gives(t, x) /\ AllUpTo(t, x)
  <2>1. \A j \in 1..Len(s) : t[j] <= x
    BY <1>1, <1>3 DEF AllUpTo
  <2>2. \A j \in 1..((Len(s) + 1) - 1) : t[j] <= x
    BY <1>1, <2>1
  <2>3. Len(s) + 1 \in DOMAIN t /\ t[Len(s) + 1] = x
    BY <1>1
  <2>4. Gives(t, x)
    BY <2>2, <2>3 DEF Gives
  <2>5. AllUpTo(t, x)
    BY <1>1, <2>1 DEF AllUpTo
  <2> QED
    BY <2>4, <2>5
<1> QED
  BY <1>2, <1>3 DEF t

LEMMA AppendCovers ==
  ASSUME NEW s \in Seq(Nat), NEW x \in Nat
  PROVE  /\ ToSet(Append(s, x)) = ToSet(s) \cup {x}
         /\ Increasing(s) /\ AllUpTo(s, x - 1) => Increasing(Append(s, x))
<1> DEFINE t == Append(s, x)
<1>1. /\ Len(s) \in Nat /\ DOMAIN s = 1..Len(s) /\ DOMAIN t = 1..(Len(s) + 1)
      /\ t[Len(s) + 1] = x /\ \A i \in 1..Len(s) : t[i] = s[i]
  OBVIOUS
<1>2. \A i \in 1..Len(s) : s[i] \in Nat
  OBVIOUS
<1> HIDE DEF t
<1>3. ToSet(t) = ToSet(s) \cup {x}
  <2>1. \A y \in ToSet(t) : y \in ToSet(s) \cup {x}
    BY <1>1 DEF ToSet
  <2>2. x \in ToSet(t)
    BY <1>1 DEF ToSet
  <2>3. \A y \in ToSet(s) : y \in ToSet(t)
    BY <1>1 DEF ToSet
  <2> QED
    BY <2>1, <2>2, <2>3
<1>4. ASSUME Increasing(s), AllUpTo(s, x - 1) PROVE Increasing(t)
  <2> SUFFICES ASSUME NEW i \in DOMAIN t, NEW j \in DOMAIN t, i < j PROVE t[i] < t[j]
    BY DEF Increasing
  <2>1. i \in 1..Len(s) /\ t[i] = s[i]
    BY <1>1
  <2>2. CASE j = Len(s) + 1
    BY <2>1, <2>2, <1>1, <1>2, <1>4 DEF AllUpTo
  <2>3. CASE j # Len(s) + 1
    <3>1. j \in 1..Len(s) /\ t[j] = s[j]
      BY <2>3, <1>1
    <3> QED
      BY <2>1, <3>1, <1>1, <1>4 DEF Increasing
  <2> QED
    BY <2>2, <2>3
<1> QED
  BY <1>3, <1>4 DEF t

(* An increasing sequence gives whatever is in it, and so does one that    *)
(* starts with smaller elements.                                           *)
LEMMA IncreasingGives ==
  ASSUME NEW s \in Seq(Nat), Increasing(s), NEW n \in ToSet(s)
  PROVE  Gives(s, n)
<1>1. PICK i \in DOMAIN s : s[i] = n
  BY DEF ToSet
<1>2. \A j \in 1..(i - 1) : j \in DOMAIN s /\ j < i /\ s[j] \in Nat
  OBVIOUS
<1>3. n \in Nat
  BY <1>1
<1>4. \A j \in 1..(i - 1) : s[j] <= n
  BY <1>1, <1>2, <1>3 DEF Increasing
<1> QED
  BY <1>1, <1>4 DEF Gives

LEMMA ConcatGives ==
  ASSUME NEW s \in Seq(Nat), NEW t \in Seq(Nat), NEW n \in Nat
  PROVE  /\ Gives(s, n) => Gives(s \o t, n)
         /\ AllUpTo(s, n) /\ Gives(t, n) => Gives(s \o t, n)
         /\ AllUpTo(s, n) /\ AllUpTo(t, n) => AllUpTo(s \o t, n)
<1> DEFINE u == s \o t
           k == Len(s)
<1>1. /\ k \in Nat /\ Len(t) \in Nat /\ DOMAIN s = 1..k /\ DOMAIN t = 1..Len(t)
      /\ DOMAIN u = 1..(k + Len(t))
      /\ \A i \in 1..k : u[i] = s[i]
      /\ \A i \in 1..Len(t) : u[k + i] = t[i]
  OBVIOUS
<1>2. \A i \in DOMAIN u : i > k => i - k \in 1..Len(t) /\ u[i] = t[i - k]
  <2> SUFFICES ASSUME NEW i \in DOMAIN u, i > k PROVE i - k \in 1..Len(t) /\ u[i] = t[i - k]
    OBVIOUS
  <2>1. i - k \in 1..Len(t) /\ k + (i - k) = i
    BY <1>1
  <2>2. u[k + (i - k)] = t[i - k]
    BY <1>1, <2>1
  <2> QED
    BY <2>1, <2>2
<1> HIDE DEF u, k
<1>3. ASSUME Gives(s, n) PROVE Gives(u, n)
  <2>1. PICK i \in DOMAIN s : s[i] = n /\ \A j \in 1..(i - 1) : s[j] <= n
    BY <1>3 DEF Gives
  <2>2. i \in DOMAIN u /\ u[i] = n /\ \A j \in 1..(i - 1) : u[j] = s[j]
    BY <1>1, <2>1
  <2> QED
    BY <2>1, <2>2 DEF Gives
<1>4. ASSUME AllUpTo(s, n), Gives(t, n) PROVE Gives(u, n)
  <2>1. PICK i \in DOMAIN t : t[i] = n /\ \A j \in 1..(i - 1) : t[j] <= n
    BY <1>4 DEF Gives
  <2>2. k + i \in DOMAIN u /\ u[k + i] = n
    BY <1>1, <2>1
  <2>3. ASSUME NEW j \in 1..((k + i) - 1) PROVE u[j] <= n
    <3>1. CASE j <= k
      <4>1. j \in 1..k
        BY <3>1, <1>1
      <4> QED
        BY <4>1, <1>1, <1>4 DEF AllUpTo
    <3>2. CASE j > k
      <4>1. j \in DOMAIN u /\ j - k \in 1..(i - 1)
        BY <3>2, <1>1, <2>2
      <4> QED
        BY <3>2, <4>1, <1>2, <2>1
    <3> QED
      BY <3>1, <3>2, <1>1
  <2> QED
    BY <2>2, <2>3 DEF Gives
<1>5. ASSUME AllUpTo(s, n), AllUpTo(t, n) PROVE AllUpTo(u, n)
  <2> SUFFICES ASSUME NEW i \in DOMAIN u PROVE u[i] <= n
    BY DEF AllUpTo
  <2>1. CASE i <= k
    BY <2>1, <1>1, <1>5 DEF AllUpTo
  <2>2. CASE i > k
    BY <2>2, <1>1, <1>2, <1>5 DEF AllUpTo
  <2> QED
    BY <2>1, <2>2, <1>1
<1> QED
  BY <1>3, <1>4, <1>5 DEF u

-----------------------------------------------------------------------------
(* The log grows: what was true of a request stays true. *)
LEMMA TrackedAsLogGrows ==
  ASSUME NEW l \in Seq(Topics), NEW t \in Topics, NEW rd \in 0..Len(l),
         NEW q \in RequestType, Tracked(q, l, rd)
  PROVE  Tracked(q, Append(l, t), rd)
<1> DEFINE m == Append(l, t)
<1>1. /\ Len(l) \in Nat /\ Len(m) = Len(l) + 1 /\ \A n \in 1..Len(l) : m[n] = l[n]
      /\ rd \in Nat /\ rd <= Len(l)
  OBVIOUS
<1> HIDE DEF m
<1>2. q.cursor <= Len(m)
  BY <1>1 DEF Tracked, RequestType, NoCursor
<1>3. ASSUME Opening(q, l, rd) PROVE Opening(q, m, rd)
  <2>1. AllUpTo(q.answer.events, Len(m))
    <3>1. q.answer.events \in Seq(Nat)
      BY DEF RequestType
    <3> QED
      BY <3>1, <1>1, <1>3 DEF Opening, AllUpTo
  <2>2. PICK from \in 0..rd :
          /\ Covers(q.pending, l, q.granted, from, rd)
          /\ q.answer.here /\ ~q.answer.truncated =>
               \E upto \in from..Len(l) :
                 /\ AllUpTo(q.answer.events, upto)
                 /\ Covers(q.answer.events, l, q.granted, q.since, upto)
    BY <1>3 DEF Opening
  <2>3. Covers(q.pending, m, q.granted, from, rd)
    BY <1>1, <2>2 DEF Covers
  <2>4. ASSUME q.answer.here, ~q.answer.truncated
        PROVE  \E upto \in from..Len(m) :
                 /\ AllUpTo(q.answer.events, upto)
                 /\ Covers(q.answer.events, m, q.granted, q.since, upto)
    <3>1. PICK upto \in from..Len(l) :
            /\ AllUpTo(q.answer.events, upto)
            /\ Covers(q.answer.events, l, q.granted, q.since, upto)
      BY <2>2, <2>4
    <3>2. upto \in from..Len(m) /\ upto <= Len(l)
      BY <1>1
    <3>3. q.since \in Nat
      BY DEF RequestType
    <3>4. Covers(q.answer.events, m, q.granted, q.since, upto)
      BY <1>1, <3>1, <3>2, <3>3 DEF Covers
    <3> QED
      BY <3>1, <3>2, <3>4
  <2> QED
    BY <1>3, <2>1, <2>3, <2>4 DEF Opening
<1>4. ASSUME Running(q, l, rd) PROVE Running(q, m, rd)
  <2>1. PICK upto \in rd..Len(l) :
          /\ AllUpTo(q.out, upto)
          /\ \A n \in (q.since + 1)..upto : l[n] \in q.granted => Gives(q.out, n)
    BY <1>4 DEF Running
  <2>2. upto \in rd..Len(m) /\ upto <= Len(l) /\ q.since \in Nat
    BY <1>1 DEF RequestType
  <2>3. \A n \in (q.since + 1)..upto : m[n] \in q.granted => Gives(q.out, n)
    BY <1>1, <2>1, <2>2
  <2> QED
    BY <2>1, <2>2, <2>3 DEF Running
<1> QED
  BY <1>2, <1>3, <1>4 DEF Tracked, m

(* The next event is read, and either queued or written or not asked for.  *)
LEMMA OpeningAsRead ==
  ASSUME NEW l \in Seq(Topics), NEW rd \in Nat, rd < Len(l),
         NEW q \in RequestType, Stage(q), q.pc = "replaying", Opening(q, l, rd),
         NEW w \in RequestType,
         w = IF l[rd + 1] \in q.granted THEN WriteTo(q, rd + 1) ELSE q
  PROVE  Opening(w, l, rd + 1)
<1>1. /\ w.granted = q.granted /\ w.since = q.since /\ w.cursor = q.cursor
      /\ w.answer = q.answer
      /\ w.pending = IF l[rd + 1] \in q.granted THEN Append(q.pending, rd + 1) ELSE q.pending
  <2> DEFINE n == rd + 1
             v == WriteTo(q, n)
  <2>1. n \in Nat /\ q.pc \in {"replaying", "open"}
    OBVIOUS
  <2> HIDE DEF n, v
  <2>2. /\ v.granted = q.granted /\ v.since = q.since /\ v.cursor = q.cursor
        /\ v.answer = q.answer /\ v.pending = Append(q.pending, n)
    BY <2>1, WriteToIsProper DEF v
  <2> QED
    BY <2>2 DEF v, n
<1>2. q.pending \in Seq(Nat) /\ AllUpTo(q.pending, rd) /\ Increasing(q.pending)
  BY DEF RequestType, Opening
<1>3. AllUpTo(q.pending, rd + 1)
  BY <1>2 DEF AllUpTo
<1>4. (rd + 1) - 1 = rd
  OBVIOUS
<1>5. AllUpTo(w.pending, rd + 1) /\ Increasing(w.pending)
  BY <1>1, <1>2, <1>3, <1>4, AppendGives, AppendCovers
<1>6. ToSet(q.pending) \subseteq ToSet(w.pending)
      /\ (l[rd + 1] \in q.granted => rd + 1 \in ToSet(w.pending))
  BY <1>1, <1>2, AppendCovers
<1>7. PICK from \in 0..rd :
        /\ Covers(q.pending, l, q.granted, from, rd)
        /\ q.answer.here /\ ~q.answer.truncated =>
             \E upto \in from..Len(l) :
               /\ AllUpTo(q.answer.events, upto)
               /\ Covers(q.answer.events, l, q.granted, q.since, upto)
  BY DEF Opening
<1>8. from \in 0..(rd + 1)
  OBVIOUS
<1>9. Covers(w.pending, l, q.granted, from, rd + 1)
  <2> SUFFICES ASSUME NEW n \in (from + 1)..(rd + 1), l[n] \in q.granted
               PROVE  n \in ToSet(w.pending)
    BY DEF Covers
  <2>1. CASE n = rd + 1
    BY <2>1, <1>6
  <2>2. CASE n # rd + 1
    <3>1. n \in (from + 1)..rd
      BY <2>2
    <3> QED
      BY <3>1, <1>6, <1>7 DEF Covers
  <2> QED
    BY <2>1, <2>2
<1> QED
  BY <1>1, <1>5, <1>7, <1>8, <1>9 DEF Opening

LEMMA RunningAsRead ==
  ASSUME NEW l \in Seq(Topics), NEW rd \in Nat, rd < Len(l),
         NEW q \in RequestType, Stage(q), q.pc = "open", Running(q, l, rd),
         NEW w \in RequestType,
         w = IF l[rd + 1] \in q.granted THEN WriteTo(q, rd + 1) ELSE q
  PROVE  Running(w, l, rd + 1)
<1>1. /\ w.granted = q.granted /\ w.since = q.since
      /\ w.out = IF l[rd + 1] \in q.granted THEN Append(q.out, rd + 1) ELSE q.out
  <2> DEFINE n == rd + 1
             v == WriteTo(q, n)
  <2>1. n \in Nat /\ q.pc \in {"replaying", "open"}
    OBVIOUS
  <2> HIDE DEF n, v
  <2>2. /\ v.granted = q.granted /\ v.since = q.since /\ v.cursor = q.cursor
        /\ v.answer = q.answer /\ v.out = Append(q.out, n)
    BY <2>1, WriteToIsProper DEF v
  <2> QED
    BY <2>2 DEF v, n
<1>2. q.out \in Seq(Nat) /\ q.since \in Nat
  BY DEF RequestType
<1>3. PICK upto \in rd..Len(l) :
        /\ AllUpTo(q.out, upto)
        /\ \A n \in (q.since + 1)..upto : l[n] \in q.granted => Gives(q.out, n)
  BY DEF Running
<1> DEFINE to == IF upto = rd THEN rd + 1 ELSE upto
<1>4. to \in (rd + 1)..Len(l) /\ to \in Nat /\ upto \in Nat /\ upto <= to
  OBVIOUS
<1>5. AllUpTo(q.out, to)
  BY <1>2, <1>3, <1>4 DEF AllUpTo
<1>6. AllUpTo(w.out, to)
  <2>1. CASE l[rd + 1] \notin q.granted
    BY <2>1, <1>1, <1>5
  <2>2. CASE l[rd + 1] \in q.granted
    <3>1. /\ DOMAIN w.out = 1..(Len(q.out) + 1) /\ Len(q.out) \in Nat
          /\ w.out[Len(q.out) + 1] = rd + 1
          /\ \A i \in 1..Len(q.out) : w.out[i] = q.out[i]
      <4>1. w.out = Append(q.out, rd + 1)
        BY <2>2, <1>1, Zenon
      <4>2. rd + 1 \in Nat
        OBVIOUS
      <4>3. \A s \in Seq(Nat), x \in Nat :
              /\ DOMAIN Append(s, x) = 1..(Len(s) + 1) /\ Len(s) \in Nat
              /\ Append(s, x)[Len(s) + 1] = x
              /\ \A i \in 1..Len(s) : Append(s, x)[i] = s[i]
        OBVIOUS
      <4> QED
        BY <4>1, <4>2, <4>3, <1>2
    <3>2. \A i \in 1..Len(q.out) : q.out[i] <= to
      BY <1>2, <1>5 DEF AllUpTo
    <3>3. rd + 1 <= to
      BY <1>4
    <3> HIDE DEF to
    <3> SUFFICES ASSUME NEW i \in 1..(Len(q.out) + 1) PROVE w.out[i] <= to
      BY <3>1 DEF AllUpTo
    <3>4. CASE i = Len(q.out) + 1
      BY <3>1, <3>3, <3>4
    <3>5. CASE i # Len(q.out) + 1
      <4>1. i \in 1..Len(q.out)
        BY <3>1, <3>5
      <4> QED
        BY <3>1, <3>2, <4>1
    <3> QED
      BY <3>4, <3>5
  <2> QED
    BY <2>1, <2>2
<1>7. ASSUME NEW n \in (q.since + 1)..to, l[n] \in q.granted
      PROVE  Gives(w.out, n)
  <2>1. CASE n <= upto
    <3>1. Gives(q.out, n)
      BY <2>1, <1>2, <1>3, <1>4, <1>7
    <3> QED
      BY <3>1, <1>1, <1>2, AppendGives
  <2>2. CASE n > upto
    <3>1. upto = rd /\ n = rd + 1
      BY <2>2, <1>2, <1>4
    <3>2. AllUpTo(q.out, rd + 1) /\ rd + 1 \in Nat
      BY <3>1, <1>4, <1>5
    <3>3. Gives(Append(q.out, rd + 1), rd + 1)
      BY <3>2, <1>2, AppendGives
    <3> QED
      BY <3>1, <3>3, <1>1, <1>7
  <2> QED
    BY <2>1, <2>2, <1>2, <1>4
<1> HIDE DEF to
<1> QED
  BY <1>1, <1>4, <1>6, <1>7 DEF Running

(* The stream opens: the replay and then the queue give what is owed, or,  *)
(* after a gap, nothing older than the refetch is owed.                    *)
LEMMA OpensRunning ==
  ASSUME NEW l \in Seq(Topics), NEW rd \in 0..Len(l),
         NEW q \in RequestType, Stage(q), Opening(q, l, rd), q.answer.here,
         NEW since \in Nat, since = IF q.answer.truncated THEN Len(l) ELSE q.since
  PROVE  Running(Opened(q, since, q.answer.events \o q.pending), l, rd)
<1> DEFINE e == q.answer.events
           p == q.pending
           w == Opened(q, since, e \o p)
<1>1. e \in Seq(Nat) /\ p \in Seq(Nat) /\ q.since \in Nat /\ Len(l) \in Nat /\ rd \in Nat
  BY DEF RequestType
<1>2. e \o p \in Seq(Nat)
  BY <1>1
<1>3. w.since = since /\ w.out = e \o p /\ w.granted = q.granted
  BY <1>2, OpenedIsProper
<1>4. /\ AllUpTo(p, rd) /\ Increasing(p) /\ AllUpTo(e, Len(l)) /\ Increasing(e)
      /\ \E from \in 0..rd :
           /\ Covers(p, l, q.granted, from, rd)
           /\ q.answer.here /\ ~q.answer.truncated =>
                \E upto \in from..Len(l) :
                  /\ AllUpTo(e, upto) /\ Covers(e, l, q.granted, q.since, upto)
  BY DEF Opening
<1> HIDE DEF e, p, w
<1>5. AllUpTo(p, Len(l))
  <2>1. \A i \in DOMAIN p : p[i] \in Nat /\ p[i] <= rd
    BY <1>1, <1>4 DEF AllUpTo
  <2> QED
    BY <1>1, <2>1 DEF AllUpTo
<1>6. CASE q.answer.truncated
  <2>1. AllUpTo(w.out, Len(l))
    BY <1>1, <1>3, <1>4, <1>5, ConcatGives
  <2>2. \A n \in (w.since + 1)..Len(l) : FALSE
    BY <1>1, <1>3, <1>6
  <2>3. Len(l) \in rd..Len(l)
    BY <1>1
  <2> QED
    BY <2>1, <2>2, <2>3 DEF Running, w, e, p
<1>7. CASE ~q.answer.truncated
  <2>1. PICK from \in 0..rd :
          /\ Covers(p, l, q.granted, from, rd)
          /\ q.answer.here /\ ~q.answer.truncated =>
               \E upto \in from..Len(l) :
                 /\ AllUpTo(e, upto) /\ Covers(e, l, q.granted, q.since, upto)
    BY <1>4
  <2>2. PICK upto \in from..Len(l) :
          AllUpTo(e, upto) /\ Covers(e, l, q.granted, q.since, upto)
    BY <1>7, <2>1
  <2>3. from \in Nat /\ upto \in Nat /\ upto <= Len(l)
    BY <1>1
  <2> DEFINE to == IF upto < rd THEN rd ELSE upto
  <2>4. to \in rd..Len(l) /\ to \in Nat /\ rd <= to /\ upto <= to
    BY <1>1, <2>3
  <2>5. AllUpTo(e, to) /\ AllUpTo(p, to)
    <3>1. \A i \in DOMAIN e : e[i] \in Nat /\ e[i] <= upto
      BY <1>1, <2>2 DEF AllUpTo
    <3>2. \A i \in DOMAIN p : p[i] \in Nat /\ p[i] <= rd
      BY <1>1, <1>4 DEF AllUpTo
    <3> HIDE DEF to
    <3> QED
      BY <1>1, <2>3, <2>4, <3>1, <3>2 DEF AllUpTo
  <2>6. AllUpTo(w.out, to)
    BY <1>1, <1>3, <2>4, <2>5, ConcatGives
  <2>7. ASSUME NEW n \in (w.since + 1)..to, l[n] \in w.granted
        PROVE  Gives(w.out, n)
    <3>1. n \in Nat /\ n > q.since /\ l[n] \in q.granted
      BY <1>1, <1>3, <1>7, <2>4, <2>7
    <3>2. CASE n <= upto
      <4>1. n \in (q.since + 1)..upto
        BY <1>1, <3>1, <3>2, <2>3
      <4>2. n \in ToSet(e)
        BY <4>1, <3>1, <2>2 DEF Covers
      <4>3. Gives(e, n)
        BY <1>1, <1>4, <4>2, IncreasingGives
      <4> QED
        BY <1>1, <1>3, <3>1, <4>3, ConcatGives
    <3>3. CASE n > upto
      <4>1. n \in (from + 1)..rd
        BY <1>1, <3>1, <3>3, <2>3, <2>4, <2>7
      <4>2. n \in ToSet(p)
        BY <4>1, <3>1, <2>1 DEF Covers
      <4>3. Gives(p, n)
        BY <1>1, <1>4, <4>2, IncreasingGives
      <4>4. AllUpTo(e, n)
        <5>1. \A i \in DOMAIN e : e[i] \in Nat /\ e[i] <= upto
          BY <1>1, <2>2 DEF AllUpTo
        <5> QED
          BY <5>1, <3>1, <3>3, <2>3 DEF AllUpTo
      <4> QED
        BY <1>1, <1>3, <3>1, <4>3, <4>4, ConcatGives
    <3> QED
      BY <3>1, <3>2, <3>3, <2>3
  <2> HIDE DEF to
  <2> QED
    BY <2>4, <2>6, <2>7 DEF Running, w, e, p
<1> QED
  BY <1>6, <1>7

(* The backplane answers: from the cursor to the end of the log, which is  *)
(* at or past where the queue sets in.                                     *)
LEMMA OpeningAsAnswered ==
  ASSUME IInv, NEW r \in Requests, At(r, "replaying"), Opening(req[r], log, read),
         NEW a \in [events : Seq(Nat), truncated : BOOLEAN, here : BOOLEAN], a.here,
         \/ a.events = <<>> /\ a.truncated
         \/ a.events = InOrder(Wanted(r)) /\ (a.truncated <=> req[r].cursor < trimmed)
  PROVE  /\ Opening([req[r] EXCEPT !.answer = a], log, read)
         /\ [req[r] EXCEPT !.answer = a].pc = "replaying"
         /\ [req[r] EXCEPT !.answer = a].answer = a
         /\ [req[r] EXCEPT !.answer = a].cursor = req[r].cursor
<1> DEFINE w == [req[r] EXCEPT !.answer = a]
<1>1. req[r] \in RequestType /\ Len(log) \in Nat /\ read \in Nat /\ read <= Len(log) /\ trimmed \in Nat
  BY DEF IInv, Types
<1>2. /\ w.pc = req[r].pc /\ w.since = req[r].since /\ w.cursor = req[r].cursor
      /\ w.pending = req[r].pending /\ w.granted = req[r].granted /\ w.answer = a
  BY <1>1 DEF RequestType
<1> HIDE DEF w
<1>3. /\ req[r].since = req[r].cursor
      /\ AllUpTo(req[r].pending, read) /\ Increasing(req[r].pending)
  BY DEF Opening
<1>4. PICK from \in 0..read : Covers(req[r].pending, log, req[r].granted, from, read)
  BY DEF Opening
<1>5. /\ ToSet(InOrder(Wanted(r))) = Wanted(r) /\ Increasing(InOrder(Wanted(r)))
      /\ InOrder(Wanted(r)) \in Seq(Wanted(r)) /\ Wanted(r) \in SUBSET (1..Len(log))
  BY WantedIsListed DEF IInv
<1>6. AllUpTo(a.events, Len(log)) /\ Increasing(a.events)
  <2>1. CASE a.events = <<>>
    BY <2>1 DEF AllUpTo, Increasing
  <2>2. CASE a.events = InOrder(Wanted(r))
    <3>1. \A i \in DOMAIN a.events : a.events[i] \in Wanted(r)
      BY <1>5, <2>2
    <3>2. \A i \in DOMAIN a.events : a.events[i] <= Len(log)
      BY <1>1, <1>5, <3>1
    <3> QED
      BY <1>5, <2>2, <3>2 DEF AllUpTo
  <2> QED
    BY <2>1, <2>2
<1>7. ASSUME ~a.truncated
      PROVE  Covers(a.events, log, req[r].granted, req[r].since, Len(log))
  <2>1. a.events = InOrder(Wanted(r)) /\ ~(req[r].cursor < trimmed)
    BY <1>7
  <2>2. Wanted(r) = {n \in (req[r].cursor + 1)..Len(log) : log[n] \in req[r].granted}
    BY <2>1 DEF Wanted
  <2> QED
    BY <1>3, <1>5, <2>1, <2>2 DEF Covers
<1>8. Len(log) \in from..Len(log)
  BY <1>1
<1>9. \E upto \in from..Len(log) :
        ~a.truncated => /\ AllUpTo(a.events, upto)
                        /\ Covers(a.events, log, req[r].granted, req[r].since, upto)
  BY <1>6, <1>7, <1>8
<1> QED
  BY <1>2, <1>3, <1>4, <1>6, <1>9 DEF Opening, At, w

-----------------------------------------------------------------------------
(* A request that has ended, or not begun, holds nothing. *)
LEMMA IdleIsTracked ==
  ASSUME NEW l \in Seq(Topics), NEW rd, NEW q,
         q.cursor = NoCursor, q.pc \in {"new", "done", "abandoned"}
  PROVE  Tracked(q, l, rd)
<1>1. Len(l) \in Nat
  OBVIOUS
<1> QED
  BY <1>1 DEF Tracked, NoCursor

LEMMA EndedIsTracked ==
  ASSUME NEW l \in Seq(Topics), NEW rd, NEW q
  PROVE  Tracked(Ended(q), l, rd)
<1> DEFINE e == [Fresh EXCEPT !.pc = "abandoned"]
           d == Done(q.head)
<1>1. e.cursor = NoCursor /\ e.pc = "abandoned" /\ d.cursor = NoCursor /\ d.pc = "done"
  BY DEF Fresh, Done
<1>2. Tracked(e, l, rd) /\ Tracked(d, l, rd)
  BY <1>1, IdleIsTracked
<1> QED
  BY <1>2 DEF Ended

LEMMA StepIsTracked ==
  ASSUME IInv, OwedInv, NEW r \in Requests, NEW q, Step(r, q), Tracked(q, log, read),
         UNCHANGED logVars
  PROVE  OwedInv'
<1>1. \A x \in Requests : req'[x] = IF x = r THEN q ELSE req[x]
  BY DEF IInv, Types, Step
<1>2. log' = log /\ read' = read
  BY DEF logVars
<1> QED
  BY <1>1, <1>2 DEF OwedInv

LEMMA DroppedIsTracked ==
  ASSUME IInv, OwedInv, NEW S, req' = Dropped(S), UNCHANGED logVars
  PROVE  OwedInv'
<1>1. \A x \in Requests : req'[x] = Ended(req[x]) \/ req'[x] = req[x]
  BY DEF Dropped
<1>2. log' = log /\ read' = read /\ log \in Seq(Topics)
  BY DEF logVars, IInv, Types
<1> QED
  BY <1>1, <1>2, EndedIsTracked DEF OwedInv

LEMMA ServeIsTracked ==
  ASSUME IInv, OwedInv, NEW r \in Requests, Serve(r)
  PROVE  OwedInv'
<1> DEFINE o == req[r]
<1>1. /\ o \in RequestType /\ Stage(o) /\ Tracked(o, log, read) /\ log \in Seq(Topics)
      /\ read \in Nat /\ Len(log) \in Nat /\ read \in 0..Len(log)
  BY DEF IInv, Types, Stages, OwedInv
<1>2. UNCHANGED logVars
  BY DEF Serve, Authorize, AuthorizeThrows, Admit, Answer, AnswerFails, Open, GiveUp
<1>3. CASE Authorize(r)
  <2> DEFINE left == Tail(o.left)
             granted == o.granted \cup ({Head(o.left)} \cap permits[r])
             q == [o EXCEPT !.left = left, !.granted = granted]
  <2>1. Step(r, q) /\ o.pc = "checking"
    BY <1>3 DEF Authorize, At
  <2> HIDE DEF o, left, granted
  <2>2. q.pc = o.pc /\ q.cursor = o.cursor /\ q.answer = o.answer
    BY <1>1 DEF RequestType
  <2>3. Tracked(q, log, read)
    BY <1>1, <2>1, <2>2 DEF Tracked
  <2> QED
    BY <1>2, <2>1, <2>3, StepIsTracked
<1>4. CASE AuthorizeThrows(r) \/ GiveUp(r) \/ (Admit(r) /\ TurnsAway(r))
  <2>1. Step(r, Done("refused"))
    BY <1>4 DEF AuthorizeThrows, GiveUp, Admit
  <2>2. Done("refused").cursor = NoCursor /\ Done("refused").pc = "done"
    BY DEF Done, Fresh
  <2>3. Tracked(Done("refused"), log, read)
    BY <1>1, <2>2, IdleIsTracked
  <2> QED
    BY <1>2, <2>1, <2>3, StepIsTracked
<1>5. CASE Admit(r) /\ ~TurnsAway(r)
  <2> DEFINE g == Registered(r)
  <2>1. At(r, "checking")
    BY <1>5 DEF Admit
  <2>2. /\ g \in RequestType /\ Stage(g) /\ g.pc = "replaying" /\ g.pending = <<>>
        /\ g.since = (IF o.cursor # NoCursor THEN o.cursor ELSE read)
        /\ g.granted = o.granted /\ g.cursor = o.cursor /\ g.answer = Unanswered
    BY <1>1, <2>1, RegisteredIsProper DEF Tracked, At
  <2>3. Step(r, IF o.cursor # NoCursor THEN g ELSE Streaming(g, <<>>, FALSE))
    BY <1>5 DEF Admit, Registered
  <2> HIDE DEF g, o
  <2>4. CASE o.cursor # NoCursor
    <3>1. /\ AllUpTo(g.pending, read) /\ Increasing(g.pending)
          /\ AllUpTo(g.answer.events, Len(log)) /\ Increasing(g.answer.events)
          /\ ~g.answer.here
      BY <2>2 DEF AllUpTo, Increasing, Unanswered
    <3>2. Covers(g.pending, log, g.granted, read, read) /\ read \in 0..read
      BY <1>1 DEF Covers
    <3>3. Opening(g, log, read)
      BY <2>2, <2>4, <3>1, <3>2 DEF Opening
    <3>4. Tracked(g, log, read)
      BY <1>1, <2>2, <3>3 DEF Tracked
    <3> QED
      BY <1>2, <2>3, <2>4, <3>4, StepIsTracked
  <2>5. CASE o.cursor = NoCursor
    <3> DEFINE w == Opened(g, read, <<>>)
    <3>1. Streaming(g, <<>>, FALSE) = w
      BY <2>2, <2>5 DEF Streaming, OwedFrom
    <3>2. <<>> \in Seq(Nat)
      OBVIOUS
    <3>3. w.pc = "open" /\ w.since = read /\ w.out = <<>>
      BY <1>1, <2>2, <3>2, OpenedIsProper
    <3>4. w.cursor = NoCursor
      BY DEF Opened, Fresh
    <3>5. Running(w, log, read)
      <4>1. read \in read..Len(log) /\ AllUpTo(w.out, read)
        BY <1>1, <3>3 DEF AllUpTo
      <4>2. \A n \in (w.since + 1)..read : FALSE
        BY <1>1, <3>3
      <4> QED
        BY <4>1, <4>2 DEF Running
    <3> HIDE DEF w
    <3>6. Tracked(w, log, read)
      BY <1>1, <3>3, <3>4, <3>5 DEF Tracked, NoCursor
    <3> QED
      BY <1>2, <2>3, <2>5, <3>1, <3>6, StepIsTracked
  <2> QED
    BY <2>4, <2>5
<1>6. CASE Answer(r) \/ AnswerFails(r)
  <2>1. At(r, "replaying") /\ Opening(o, log, read)
    BY <1>1, <1>6 DEF Answer, AnswerFails, Tracked, At
  <2>2. PICK a \in [events : Seq(Nat), truncated : BOOLEAN, here : BOOLEAN] :
          /\ a.here
          /\ \/ a.events = <<>> /\ a.truncated
             \/ a.events = InOrder(Wanted(r)) /\ (a.truncated <=> o.cursor < trimmed)
          /\ Step(r, [o EXCEPT !.answer = a])
    <3>1. CASE Answer(r)
      <4> DEFINE a == [events |-> InOrder(Wanted(r)), truncated |-> o.cursor < trimmed, here |-> TRUE]
      <4>1. InOrder(Wanted(r)) \in Seq(Wanted(r)) /\ Wanted(r) \in SUBSET (1..Len(log))
        BY WantedIsListed DEF IInv
      <4>2. InOrder(Wanted(r)) \in Seq(Nat)
        BY <4>1, Wanted(r) \subseteq Nat
      <4>3. a \in [events : Seq(Nat), truncated : BOOLEAN, here : BOOLEAN]
        BY <4>2
      <4>4. Step(r, [o EXCEPT !.answer = a])
        BY <3>1 DEF Answer, Wanted
      <4> QED
        BY <4>3, <4>4
    <3>2. CASE AnswerFails(r)
      <4> DEFINE a == [events |-> <<>>, truncated |-> TRUE, here |-> TRUE]
      <4>1. a \in [events : Seq(Nat), truncated : BOOLEAN, here : BOOLEAN]
        OBVIOUS
      <4>2. Step(r, [o EXCEPT !.answer = a])
        BY <3>2 DEF AnswerFails
      <4> QED
        BY <4>1, <4>2
    <3> QED
      BY <1>6, <3>1, <3>2
  <2> DEFINE w == [o EXCEPT !.answer = a]
  <2>3. Opening(w, log, read) /\ w.pc = "replaying" /\ w.answer = a /\ w.cursor = o.cursor
    <3>1. /\ a.here
          /\ \/ a.events = <<>> /\ a.truncated
             \/ a.events = InOrder(Wanted(r)) /\ (a.truncated <=> req[r].cursor < trimmed)
      BY <2>2
    <3> QED
      BY <2>1, <2>2, <3>1, OpeningAsAnswered
  <2>4. Step(r, w)
    BY <2>2
  <2> HIDE DEF w, o
  <2>5. Tracked(w, log, read)
    BY <1>1, <2>2, <2>3 DEF Tracked
  <2> QED
    BY <1>2, <2>4, <2>5, StepIsTracked
<1>7. CASE Open(r)
  <2> DEFINE since == OwedFrom(o, o.answer.truncated)
             w == Opened(o, since, o.answer.events \o o.pending)
  <2>1. o.pc = "replaying" /\ o.answer.here /\ Step(r, w)
    BY <1>7 DEF Open, Streaming, At
  <2>2. since \in Nat /\ o.answer.events \o o.pending \in Seq(Nat)
    BY OpenFrames
  <2>3. since = IF o.answer.truncated THEN Len(log) ELSE o.since
    BY DEF OwedFrom
  <2>4. Opening(o, log, read)
    BY <1>1, <2>1 DEF Tracked
  <2>5. w.cursor = NoCursor
    BY DEF Opened, Fresh
  <2> HIDE DEF o, since
  <2>6. Running(w, log, read)
    BY <1>1, <2>1, <2>2, <2>3, <2>4, OpensRunning
  <2>7. w.pc = "open"
    BY <1>1, <2>2, OpenedIsProper
  <2> HIDE DEF w
  <2>8. Tracked(w, log, read)
    BY <1>1, <2>5, <2>6, <2>7 DEF Tracked, NoCursor
  <2> QED
    BY <1>2, <2>1, <2>8, StepIsTracked
<1> QED
  BY <1>3, <1>4, <1>5, <1>6, <1>7 DEF Serve

LEMMA FanOutIsTracked ==
  ASSUME IInv, OwedInv, NEW slow \in SUBSET Requests, FanOut(slow)
  PROVE  OwedInv'
<1>1. /\ read < Len(log) /\ read' = read + 1 /\ log' = log
      /\ slow \subseteq {r \in Targets : At(r, "open")}
  BY FanOutSteps
<1>2. \A r \in Requests :
        req'[r] = IF r \in slow THEN Ended(WriteTo(req[r], read + 1))
                  ELSE IF r \in Targets THEN WriteTo(req[r], read + 1) ELSE req[r]
  BY FanOutSteps
<1>3. log \in Seq(Topics) /\ read \in Nat /\ read + 1 \in Nat
  BY DEF IInv, Types
<1> SUFFICES ASSUME NEW r \in Requests PROVE Tracked(req'[r], log, read + 1)
  BY <1>1 DEF OwedInv
<1> DEFINE o == req[r]
           w == IF log[read + 1] \in o.granted THEN WriteTo(o, read + 1) ELSE o
<1>4. o \in RequestType /\ Stage(o) /\ Tracked(o, log, read)
  BY DEF IInv, Types, Stages, OwedInv
<1>5. CASE r \in slow
  BY <1>2, <1>3, <1>5, EndedIsTracked
<1>6. CASE r \notin slow /\ r \in conns
  <2>1. o.pc \in {"replaying", "open"}
    BY <1>6 DEF IInv, Mapped
  <2>2. req'[r] = w
    BY <1>2, <1>6 DEF Targets
  <2> HIDE DEF o
  <2>3. /\ w \in RequestType /\ w.pc = o.pc /\ w.cursor = o.cursor /\ w.answer = o.answer
    BY <1>3, <1>4, <2>1, WriteToIsProper
  <2> HIDE DEF w
  <2>4. ASSUME o.pc = "replaying" PROVE Opening(w, log, read + 1)
    BY <1>1, <1>3, <1>4, <2>3, <2>4, OpeningAsRead DEF Tracked, w
  <2>5. ASSUME o.pc = "open" PROVE Running(w, log, read + 1)
    BY <1>1, <1>3, <1>4, <2>3, <2>5, RunningAsRead DEF Tracked, w
  <2>6. Tracked(w, log, read + 1)
    BY <1>4, <2>1, <2>3, <2>4, <2>5 DEF Tracked
  <2> QED
    BY <2>2, <2>6
<1>7. CASE r \notin slow /\ r \notin conns
  <2>1. o.pc \notin {"replaying", "open"} /\ req'[r] = o
    BY <1>2, <1>7 DEF IInv, Mapped, Targets
  <2> QED
    BY <1>4, <2>1 DEF Tracked
<1> QED
  BY <1>5, <1>6, <1>7

LEMMA InitOwedInv == Init => OwedInv
<1> SUFFICES ASSUME Init PROVE OwedInv
  OBVIOUS
<1>1. Fresh.cursor = NoCursor /\ Fresh.pc = "new"
  BY DEF Fresh
<1>2. log \in Seq(Topics) /\ \A r \in Requests : req[r] = Fresh
  BY DEF Init
<1> QED
  BY <1>1, <1>2, IdleIsTracked DEF OwedInv

LEMMA NextOwedInv == IInv /\ OwedInv /\ [Next]_vars => OwedInv'
<1> SUFFICES ASSUME IInv, OwedInv, [Next]_vars PROVE OwedInv'
  OBVIOUS
<1>1. ASSUME NEW t \in Topics, Publish(t) PROVE OwedInv'
  <2>1. log' = Append(log, t) /\ read' = read /\ req' = req
    BY <1>1 DEF Publish
  <2>2. log \in Seq(Topics) /\ read \in 0..Len(log) /\ req \in [Requests -> RequestType]
    BY DEF IInv, Types
  <2> QED
    BY <2>1, <2>2, TrackedAsLogGrows DEF OwedInv
<1>2. CASE Trim \/ \E r \in Requests, t \in Topics : Revoke(r, t)
  BY <1>2 DEF Trim, Revoke, OwedInv, logVars
<1>3. CASE \E slow \in SUBSET Requests : FanOut(slow)
  BY <1>3, FanOutIsTracked
<1>4. ASSUME NEW r \in Requests, NEW c \in {NoCursor} \cup 0..Len(log), Arrive(r, c)
      PROVE  OwedInv'
  <2> DEFINE q == [Fresh EXCEPT !.pc = "checking", !.left = Asks[r], !.cursor = c]
  <2>1. Step(r, q) /\ UNCHANGED logVars
    BY <1>4 DEF Arrive
  <2>2. q.pc = "checking" /\ q.cursor = c /\ q.answer = Unanswered
    BY DEF Fresh
  <2>3. Len(log) \in Nat
    BY DEF IInv, Types
  <2>4. c <= Len(log)
    BY <2>3 DEF NoCursor
  <2> HIDE DEF q
  <2>5. Tracked(q, log, read)
    BY <2>2, <2>4 DEF Tracked
  <2> QED
    BY <2>1, <2>5, StepIsTracked
<1>5. CASE \E r \in Requests : Serve(r)
  BY <1>5, ServeIsTracked
<1>6. ASSUME NEW r \in Requests, Leave(r) PROVE OwedInv'
  <2>1. UNCHANGED logVars
    BY <1>6 DEF Leave
  <2>2. CASE ~At(r, "checking")
    BY <1>6, <2>1, <2>2, DroppedIsTracked DEF Leave
  <2>3. CASE At(r, "checking")
    <3> DEFINE o == req[r]
               q == [o EXCEPT !.gone = TRUE]
    <3>1. Step(r, q)
      BY <1>6, <2>3 DEF Leave
    <3>2. o \in RequestType /\ Tracked(o, log, read) /\ o.pc = "checking"
      BY <2>3 DEF IInv, Types, OwedInv, At
    <3> HIDE DEF o
    <3>3. q.pc = o.pc /\ q.cursor = o.cursor /\ q.answer = o.answer
      BY <3>2 DEF RequestType
    <3> HIDE DEF q
    <3>4. Tracked(q, log, read)
      BY <3>2, <3>3 DEF Tracked
    <3> QED
      BY <2>1, <3>1, <3>4, StepIsTracked
  <2> QED
    BY <2>2, <2>3
<1>7. CASE (\E S \in SUBSET conns \ {{}} : Disconnect(S)) \/ Close \/ SweepCut
  <2>1. \E S : req' = Dropped(S)
    BY <1>7 DEF Disconnect, Close, SweepCut
  <2>2. UNCHANGED logVars
    BY <1>7 DEF Disconnect, Close, SweepCut, SweepVars
  <2> QED
    BY <2>1, <2>2, DroppedIsTracked
<1>8. CASE KeepAliveTick
  <2>1. req' = req /\ UNCHANGED logVars
    BY <1>8, TickIInv DEF KeepAliveTick
  <2> QED
    BY <2>1 DEF OwedInv, logVars
<1>9. CASE SweepStart \/ SweepAsk \/ UNCHANGED vars
  BY <1>9 DEF SweepStart, SweepAsk, SweepVars, vars, logVars, OwedInv
<1> QED
  BY <1>1, <1>2, <1>3, <1>4, <1>5, <1>6, <1>7, <1>8, <1>9 DEF Next, Revalidate

(* The stream that opens after an awaited replay loses nothing: every      *)
(* event read so far that the client is owed is on it, ahead of anything   *)
(* newer, so the client takes it for news.                                 *)
THEOREM OwedIsAlwaysGiven == Spec => []OwedIsGiven
<1>1. Init => IInv /\ OwedInv
  BY InitIInv, InitOwedInv
<1>2. IInv /\ OwedInv /\ [Next]_vars => (IInv /\ OwedInv)'
  BY NextIInv, NextOwedInv
<1>3. IInv /\ OwedInv => OwedIsGiven
  <2> SUFFICES ASSUME IInv, OwedInv, NEW r \in conns, At(r, "open"), NEW n \in Owed(r)
               PROVE  Taken(r, n)
    BY DEF OwedIsGiven
  <2>1. req[r] \in RequestType /\ Running(req[r], log, read) /\ read \in Nat /\ Len(log) \in Nat
    BY DEF IInv, Types, OwedInv, Tracked, At
  <2>2. PICK upto \in read..Len(log) :
          \A m \in (req[r].since + 1)..upto : log[m] \in req[r].granted => Gives(req[r].out, m)
    BY <2>1 DEF Running
  <2>3. req[r].since \in Nat
    BY <2>1 DEF RequestType
  <2>4. n \in (req[r].since + 1)..upto /\ log[n] \in req[r].granted
    BY <2>1, <2>3 DEF Owed
  <2>5. Gives(req[r].out, n)
    BY <2>2, <2>4
  <2> QED
    BY <2>5 DEF Gives, Taken
<1> QED
  BY <1>1, <1>2, <1>3, PTL DEF Spec
=============================================================================
