------------------------- MODULE SharedClientProofs -------------------------
(***************************************************************************)
(* What SharedClient's runs check of three tabs, for any number of tabs,   *)
(* topics, events and messages: its type invariant, that no tab goes back, *)
(* and what a tab may count on whoever leads.                              *)
(***************************************************************************)
EXTENDS SharedClient, SequenceTheorems, WellFoundedInduction, TLAPS

States == {"idle", "connecting", "open", "closed"}

Message ==
  [t : {"hello", "topics"}, from : Tabs, topics : SUBSET Topics]
    \cup [t : {"bye"}, from : Tabs]
    \cup [t : {"reconnect", "lead"}]
    \cup [t : {"welcome"}, cursor : Int, state : States]
    \cup [t : {"event"}, id : Int]
    \cup [t : {"state"}, state : States]

(* What can have been posted when the hub has accepted n events. *)
Postable(n) ==
  {m \in Message : /\ m.t = "event" => m.id \in 1..n
                   /\ m.t = "welcome" => m.cursor \in NoCursor..n}

(* The lock: whoever holds it is the first of those who want it, and those *)
(* are the tabs that are open.                                             *)
Locked ==
  /\ queue \in Seq(Tabs)
  /\ IsInjective(queue)
  /\ \A t \in Tabs : Open(t) <=> \E i \in 1..Len(queue) : queue[i] = t
  /\ holder \in Tabs \cup {None}
  /\ holder # None => queue # <<>> /\ holder = queue[1]

(* The inner clients there can be when the hub has accepted n events. *)
Clients(n) ==
  [cursor : NoCursor..n, asked : SUBSET Topics, due : BOOLEAN, state : States,
   from : NoCursor..n]

(* Only who is open has anything to read. *)
Boxed ==
  /\ inbox \in [Tabs -> Seq(Postable(Len(log)))]
  /\ \A t \in Tabs : ~Open(t) => inbox[t] = <<>>

Types ==
  /\ log \in Seq(Topics)
  /\ status \in [Tabs -> {"absent", "open", "closed", "dead"}]
  /\ topics \in [Tabs -> SUBSET Topics]
  /\ cursor \in [Tabs -> NoCursor..Len(log)]
  /\ shown \in [Tabs -> States]
  /\ Boxed
  /\ byTab \in [Tabs -> SUBSET Topics]
  /\ inner \in Clients(Len(log))
  /\ heard \in [Tabs -> SUBSET (1..Len(log))]
  /\ owed \in [Tabs -> SUBSET (1..Len(log))]
  /\ skipped \in [Tabs -> SUBSET (1..Len(log))]

(* The leader's own part: it reads what it wants itself, its connection is *)
(* at least as far as it is, and it shows the state of that connection.    *)
Leading ==
  /\ holder = None => inner = NoClient /\ byTab = [x \in Tabs |-> {}]
  /\ holder # None =>
       /\ byTab[holder] = topics[holder]
       /\ cursor[holder] <= inner.cursor
       /\ inner.state # "idle" => shown[holder] = inner.state
       /\ inner.asked # {} => inner.state \in {"connecting", "open"}

NoneIn(s, F) == \A i \in 1..Len(s) : s[i] \notin F

(* The last message of s that is one of F is one of G. *)
LastIn(s, F, G) ==
  \A i \in 1..Len(s) :
    (s[i] \in F /\ \A j \in 1..Len(s) : i < j => s[j] \notin F) => s[i] \in G

(* What tab x says of itself. *)
From(x) == {m \in Message : m.t \in {"hello", "topics", "bye"} /\ m.from = x}
Says(m) == IF m.t = "bye" THEN {} ELSE m.topics
Saying(x, T) == {m \in From(x) : Says(m) = T}
HelloFrom(x) == {m \in From(x) : m.t = "hello"}

(* What tells a tab the state of the connection. *)
Telling == {m \in Message : m.t \in {"welcome", "state"}}
TellingOf(s) == {m \in Telling : m.state = s}

Wants(x) == IF status[x] \in {"open", "dead"} THEN topics[x] ELSE {}

(* What a tab says of itself reaches the first in line alone, and the last *)
(* it said there is what it wants.                                         *)
Heard(x) ==
  (queue # <<>> /\ x # queue[1]) =>
    LastIn(inbox[queue[1]], From(x), Saying(x, Wants(x)))

OnlyFirst ==
  \A l, x \in Tabs :
    (queue = <<>> \/ l # queue[1] \/ x = l) => NoneIn(inbox[l], From(x))

Asked(x) == ~NoneIn(inbox[x], {Lead})

(* With nothing of it unread the leader knows what a tab wants, or it      *)
(* knows nothing of it and has asked.                                      *)
Known(x) ==
  (holder # None /\ x # holder /\ NoneIn(inbox[holder], From(x))) =>
    byTab[x] = Wants(x) \/ (byTab[x] = {} /\ (Open(x) => Asked(x)))

Membership == OnlyFirst /\ \A x \in Tabs : Heard(x) /\ Known(x)

(* A tab knows the state of the connection, or will when it has read what  *)
(* it was posted, or has yet to be answered.                               *)
Informed(x) ==
  (holder # None /\ x # holder /\ Open(x) /\ inner.state # "idle") =>
    \/ ~NoneIn(inbox[holder], HelloFrom(x))
    \/ /\ LastIn(inbox[x], Telling, TellingOf(inner.state))
       /\ NoneIn(inbox[x], Telling) => shown[x] = inner.state

Agreement == \A x \in Tabs : Informed(x)

(* Nothing in s takes a tab as far as event k. *)
Behind(m, k) ==
  /\ m.t = "event" => m.id < k
  /\ m.t = "welcome" => m.cursor < k

(* Event k is in s, and nothing before it is as far. *)
Ready(s, k) ==
  \E i \in 1..Len(s) : s[i] = Event(k) /\ \A j \in 1..(i - 1) : Behind(s[j], k)

(* An event posted to a tab on a topic of its own and not yet heard is     *)
(* after all that tab took, and will still be when it is read; or it is    *)
(* the leader's to read again, on a connection that asks for its topic.    *)
Due(t, k) ==
  /\ status[t] # "absent"
  /\ log[k] \in topics[t]
  /\ (Open(t) /\ k \notin heard[t] /\ k \notin skipped[t]) =>
       /\ k > cursor[t]
       /\ holder # t => Ready(inbox[t], k)
       /\ holder = t =>
            /\ inner.cursor # NoCursor /\ k > inner.cursor
            /\ inner.asked # {} => log[k] \in inner.asked

Forwarded == \A t \in Tabs : \A k \in owed[t] : Due(t, k)

(* With the lock kept by a closed tab's page, a tab has been told that the *)
(* connection is closed, or has only just opened.                          *)
Bereft(x) ==
  /\ LastIn(inbox[x], Telling, TellingOf("closed"))
  /\ NoneIn(inbox[x], Telling) => shown[x] \in {"closed", "connecting"}

(* The page of a closed tab keeps the lock from everyone, and only a tab   *)
(* that has had it has skipped anything.                                   *)
Keeping ==
  /\ kept \in Tabs \cup {None}
  /\ kept # None => holder = None /\ status[kept] = "closed"
  /\ kept # None => \A x \in Tabs : Open(x) => Bereft(x)
  /\ \A x \in Tabs : status[x] = "absent" => shown[x] = "connecting"
  /\ \A x \in Tabs : x # holder /\ status[x] \in {"absent", "open"} => skipped[x] = {}

IInv == Locked /\ Types /\ Leading /\ Membership /\ Agreement /\ Forwarded /\ Keeping

-----------------------------------------------------------------------------
(* Sequences of messages.                                                  *)

LEMMA Joined ==
  ASSUME NEW S, NEW s \in Seq(S), NEW e \in Seq(S)
  PROVE  /\ s \o e \in Seq(S)
         /\ Len(s) \in Nat /\ Len(e) \in Nat /\ Len(s \o e) = Len(s) + Len(e)
         /\ \A i \in 1..Len(s) : (s \o e)[i] = s[i]
         /\ \A j \in 1..Len(e) : (s \o e)[Len(s) + j] = e[j]
         /\ \A i \in 1..Len(s \o e) : i \in 1..Len(s) \/ \E j \in 1..Len(e) : i = Len(s) + j
<1>1. Len(s) \in Nat /\ Len(e) \in Nat
  BY LenProperties
<1>2. /\ s \o e \in Seq(S) /\ Len(s \o e) = Len(s) + Len(e)
      /\ \A i \in 1..(Len(s) + Len(e)) :
           (s \o e)[i] = IF i <= Len(s) THEN s[i] ELSE e[i - Len(s)]
  BY ConcatProperties
<1> DEFINE m == Len(s)
           n == Len(e)
           u == s \o e
<1>3. m \in Nat /\ n \in Nat /\ Len(u) = m + n
  BY <1>1, <1>2
<1>4. \A i \in 1..(m + n) : u[i] = IF i <= m THEN s[i] ELSE e[i - m]
  BY <1>2
<1> HIDE DEF m, n, u
<1>5. \A i \in 1..m : u[i] = s[i]
  BY <1>3, <1>4
<1>6. \A j \in 1..n : u[m + j] = e[j]
  <2> SUFFICES ASSUME NEW j \in 1..n PROVE u[m + j] = e[j]
    OBVIOUS
  <2>1. m + j \in 1..(m + n) /\ ~(m + j <= m) /\ (m + j) - m = j
    BY <1>3
  <2> QED
    BY <1>4, <2>1
<1>7. \A i \in 1..Len(u) : i \in 1..m \/ \E j \in 1..n : i = m + j
  <2> SUFFICES ASSUME NEW i \in 1..Len(u), i \notin 1..m PROVE \E j \in 1..n : i = m + j
    OBVIOUS
  <2>1. i - m \in 1..n /\ i = m + (i - m)
    BY <1>3
  <2> QED
    BY <2>1
<1> QED
  BY <1>2, <1>3, <1>5, <1>6, <1>7 DEF m, n, u

LEMMA NoneInJoined ==
  ASSUME NEW S, NEW s \in Seq(S), NEW e \in Seq(S), NEW F
  PROVE  NoneIn(s \o e, F) <=> NoneIn(s, F) /\ NoneIn(e, F)
<1>1. ASSUME NoneIn(s \o e, F) PROVE NoneIn(s, F)
  <2> SUFFICES ASSUME NEW i \in 1..Len(s) PROVE s[i] \notin F
    BY DEF NoneIn
  <2>1. i \in 1..Len(s \o e) /\ (s \o e)[i] = s[i]
    BY Joined
  <2> QED
    BY <1>1, <2>1 DEF NoneIn
<1>2. ASSUME NoneIn(s \o e, F) PROVE NoneIn(e, F)
  <2> SUFFICES ASSUME NEW j \in 1..Len(e) PROVE e[j] \notin F
    BY DEF NoneIn
  <2>1. Len(s) + j \in 1..Len(s \o e) /\ (s \o e)[Len(s) + j] = e[j]
    BY Joined
  <2> QED
    BY <1>2, <2>1 DEF NoneIn
<1>3. ASSUME NoneIn(s, F), NoneIn(e, F) PROVE NoneIn(s \o e, F)
  <2> SUFFICES ASSUME NEW i \in 1..Len(s \o e) PROVE (s \o e)[i] \notin F
    BY DEF NoneIn
  <2>1. CASE i \in 1..Len(s)
    BY <1>3, <2>1, Joined DEF NoneIn
  <2>2. CASE \E j \in 1..Len(e) : i = Len(s) + j
    BY <1>3, <2>2, Joined DEF NoneIn
  <2> QED
    BY <2>1, <2>2, Joined
<1> QED
  BY <1>1, <1>2, <1>3

LEMMA LastInJoined ==
  ASSUME NEW S, NEW s \in Seq(S), NEW e \in Seq(S), NEW F, NEW G,
         LastIn(e, F, G), NoneIn(e, F) => LastIn(s, F, G)
  PROVE  LastIn(s \o e, F, G)
<1> SUFFICES ASSUME NEW i \in 1..Len(s \o e), (s \o e)[i] \in F,
                    \A j \in 1..Len(s \o e) : i < j => (s \o e)[j] \notin F
             PROVE  (s \o e)[i] \in G
  BY DEF LastIn
<1>1. CASE i \in 1..Len(s)
  <2>1. NoneIn(e, F)
    <3> SUFFICES ASSUME NEW j \in 1..Len(e) PROVE e[j] \notin F
      BY DEF NoneIn
    <3>1. Len(s) + j \in 1..Len(s \o e) /\ (s \o e)[Len(s) + j] = e[j] /\ i < Len(s) + j
      BY <1>1, Joined
    <3> QED
      BY <3>1
  <2>2. (s \o e)[i] = s[i]
    BY <1>1, Joined
  <2>3. \A j \in 1..Len(s) : i < j => s[j] \notin F
    <3> SUFFICES ASSUME NEW j \in 1..Len(s), i < j PROVE s[j] \notin F
      OBVIOUS
    <3>1. j \in 1..Len(s \o e) /\ (s \o e)[j] = s[j]
      BY Joined
    <3> QED
      BY <3>1
  <2> QED
    BY <1>1, <2>1, <2>2, <2>3 DEF LastIn
<1>2. CASE \E k \in 1..Len(e) : i = Len(s) + k
  <2>1. PICK k \in 1..Len(e) : i = Len(s) + k
    BY <1>2
  <2>2. (s \o e)[i] = e[k]
    BY <2>1, Joined
  <2>3. \A j \in 1..Len(e) : k < j => e[j] \notin F
    <3> SUFFICES ASSUME NEW j \in 1..Len(e), k < j PROVE e[j] \notin F
      OBVIOUS
    <3>1. Len(s) + j \in 1..Len(s \o e) /\ (s \o e)[Len(s) + j] = e[j] /\ i < Len(s) + j
      BY <2>1, Joined
    <3> QED
      BY <3>1
  <2> QED
    BY <2>2, <2>3 DEF LastIn
<1> QED
  BY <1>1, <1>2, Joined

LEMMA NoneIsLast ==
  ASSUME NEW s, NEW F, NEW G, NoneIn(s, F)
  PROVE  LastIn(s, F, G)
  BY DEF NoneIn, LastIn

LEMMA Popped ==
  ASSUME NEW S, NEW s \in Seq(S), s # <<>>
  PROVE  /\ Tail(s) \in Seq(S) /\ Head(s) = s[1] /\ s[1] \in S
         /\ Len(s) \in Nat /\ Len(s) >= 1 /\ Len(Tail(s)) = Len(s) - 1
         /\ \A i \in 1..Len(Tail(s)) : i + 1 \in 1..Len(s) /\ Tail(s)[i] = s[i + 1]
         /\ \A i \in 1..Len(s) : i # 1 => i - 1 \in 1..Len(Tail(s)) /\ Tail(s)[i - 1] = s[i]
<1>1. Len(s) \in Nat /\ Len(s) >= 1
  BY EmptySeq, LenProperties
<1>2. /\ Tail(s) \in Seq(S) /\ Len(Tail(s)) = Len(s) - 1
      /\ \A i \in 1..Len(Tail(s)) : Tail(s)[i] = s[i + 1]
  BY HeadTailProperties
<1>3. s[1] \in S
  BY <1>1, ElementOfSeq
<1>4. Head(s) = s[1]
  BY DEF Head
<1> DEFINE n == Len(s)
           r == Tail(s)
<1>5. n \in Nat /\ n >= 1 /\ Len(r) = n - 1 /\ \A i \in 1..Len(r) : r[i] = s[i + 1]
  BY <1>1, <1>2
<1> HIDE DEF n, r
<1>6. \A i \in 1..Len(r) : i + 1 \in 1..n
  BY <1>5
<1>7. \A i \in 1..n : i # 1 => i - 1 \in 1..Len(r) /\ (i - 1) + 1 = i
  BY <1>5
<1>8. \A i \in 1..n : i # 1 => i - 1 \in 1..Len(r) /\ r[i - 1] = s[i]
  BY <1>5, <1>7
<1> QED
  BY <1>1, <1>2, <1>3, <1>4, <1>6, <1>8 DEF n, r

LEMMA LastInPopped ==
  ASSUME NEW S, NEW s \in Seq(S), s # <<>>, NEW F, NEW G
  PROVE  /\ LastIn(s, F, G) => LastIn(Tail(s), F, G)
         /\ (LastIn(s, F, G) /\ NoneIn(Tail(s), F) /\ s[1] \in F) => s[1] \in G
         /\ NoneIn(s, F) <=> s[1] \notin F /\ NoneIn(Tail(s), F)
<1>1. ASSUME LastIn(s, F, G) PROVE LastIn(Tail(s), F, G)
  <2> SUFFICES ASSUME NEW i \in 1..Len(Tail(s)), Tail(s)[i] \in F,
                      \A j \in 1..Len(Tail(s)) : i < j => Tail(s)[j] \notin F
               PROVE  Tail(s)[i] \in G
    BY DEF LastIn
  <2>1. i + 1 \in 1..Len(s) /\ Tail(s)[i] = s[i + 1]
    BY Popped
  <2>2. \A j \in 1..Len(s) : i + 1 < j => s[j] \notin F
    <3> SUFFICES ASSUME NEW j \in 1..Len(s), i + 1 < j PROVE s[j] \notin F
      OBVIOUS
    <3>1. j # 1 /\ i < j - 1
      OBVIOUS
    <3>2. j - 1 \in 1..Len(Tail(s)) /\ Tail(s)[j - 1] = s[j]
      BY <3>1, Popped
    <3> QED
      BY <3>1, <3>2
  <2> QED
    BY <1>1, <2>1, <2>2 DEF LastIn
<1>2. NoneIn(s, F) <=> s[1] \notin F /\ NoneIn(Tail(s), F)
  <2>1. ASSUME NoneIn(s, F) PROVE s[1] \notin F /\ NoneIn(Tail(s), F)
    <3>1. 1 \in 1..Len(s)
      BY Popped
    <3> QED
      BY <2>1, <3>1, Popped DEF NoneIn
  <2>2. ASSUME s[1] \notin F, NoneIn(Tail(s), F) PROVE NoneIn(s, F)
    <3> SUFFICES ASSUME NEW i \in 1..Len(s), i # 1 PROVE s[i] \notin F
      BY <2>2 DEF NoneIn
    <3>1. i - 1 \in 1..Len(Tail(s)) /\ Tail(s)[i - 1] = s[i]
      BY Popped
    <3> QED
      BY <2>2, <3>1 DEF NoneIn
  <2> QED
    BY <2>1, <2>2
<1>3. ASSUME LastIn(s, F, G), NoneIn(Tail(s), F), s[1] \in F PROVE s[1] \in G
  <2>1. 1 \in 1..Len(s)
    BY Popped
  <2>2. \A j \in 1..Len(s) : 1 < j => s[j] \notin F
    <3> SUFFICES ASSUME NEW j \in 1..Len(s), 1 < j PROVE s[j] \notin F
      OBVIOUS
    <3>1. j - 1 \in 1..Len(Tail(s)) /\ Tail(s)[j - 1] = s[j]
      BY Popped
    <3> QED
      BY <1>3, <3>1 DEF NoneIn
  <2> QED
    BY <1>3, <2>1, <2>2 DEF LastIn
<1> QED
  BY <1>1, <1>2, <1>3

LEMMA Few ==
  ASSUME NEW F, NEW G
  PROVE  /\ NoneIn(<<>>, F) /\ LastIn(<<>>, F, G)
         /\ \A a : /\ NoneIn(<<a>>, F) <=> a \notin F
                   /\ LastIn(<<a>>, F, G) <=> (a \in F => a \in G)
         /\ \A a, b : /\ NoneIn(<<a, b>>, F) <=> a \notin F /\ b \notin F
                      /\ (b \in F /\ b \in G) => LastIn(<<a, b>>, F, G)
<1>1. NoneIn(<<>>, F) /\ LastIn(<<>>, F, G)
  BY DEF NoneIn, LastIn
<1>2. ASSUME NEW a
      PROVE  /\ NoneIn(<<a>>, F) <=> a \notin F
             /\ LastIn(<<a>>, F, G) <=> (a \in F => a \in G)
  <2>1. Len(<<a>>) = 1 /\ <<a>>[1] = a /\ 1..1 = {1}
    OBVIOUS
  <2> QED
    BY <2>1 DEF NoneIn, LastIn
<1>3. ASSUME NEW a, NEW b
      PROVE  /\ NoneIn(<<a, b>>, F) <=> a \notin F /\ b \notin F
             /\ (b \in F /\ b \in G) => LastIn(<<a, b>>, F, G)
  <2>1. Len(<<a, b>>) = 2 /\ <<a, b>>[1] = a /\ <<a, b>>[2] = b /\ 1..2 = {1, 2}
    OBVIOUS
  <2> QED
    BY <2>1 DEF NoneIn, LastIn
<1> QED
  BY <1>1, <1>2, <1>3

LEMMA ReadyJoined ==
  ASSUME NEW S, NEW s \in Seq(S), NEW e \in Seq(S), NEW k, Ready(s, k)
  PROVE  Ready(s \o e, k)
<1>1. PICK i \in 1..Len(s) : s[i] = Event(k) /\ \A j \in 1..(i - 1) : Behind(s[j], k)
  BY DEF Ready
<1>2. i \in 1..Len(s \o e) /\ (s \o e)[i] = Event(k)
  BY <1>1, Joined
<1>3. \A j \in 1..(i - 1) : Behind((s \o e)[j], k)
  <2> SUFFICES ASSUME NEW j \in 1..(i - 1) PROVE Behind((s \o e)[j], k)
    OBVIOUS
  <2>1. j \in 1..Len(s)
    BY Joined
  <2>2. (s \o e)[j] = s[j]
    BY <2>1, Joined
  <2> QED
    BY <1>1, <2>2
<1> QED
  BY <1>2, <1>3 DEF Ready

LEMMA ReadyPopped ==
  ASSUME NEW S, NEW s \in Seq(S), s # <<>>, NEW k, Ready(s, k), s[1] # Event(k)
  PROVE  Behind(s[1], k) /\ Ready(Tail(s), k)
<1>1. PICK i \in 1..Len(s) : s[i] = Event(k) /\ \A j \in 1..(i - 1) : Behind(s[j], k)
  BY DEF Ready
<1>2. i # 1
  BY <1>1
<1>3. i - 1 \in 1..Len(Tail(s)) /\ Tail(s)[i - 1] = s[i]
  BY <1>2, Popped
<1>4. Behind(s[1], k)
  <2>1. 1 \in 1..(i - 1)
    BY <1>2
  <2> QED
    BY <1>1, <2>1
<1>5. \A j \in 1..((i - 1) - 1) : Behind(Tail(s)[j], k)
  <2> SUFFICES ASSUME NEW j \in 1..((i - 1) - 1) PROVE Behind(Tail(s)[j], k)
    OBVIOUS
  <2>1. j \in 1..Len(Tail(s)) /\ j + 1 \in 1..(i - 1)
    BY <1>3, Popped
  <2>2. Tail(s)[j] = s[j + 1]
    BY <2>1, Popped
  <2> QED
    BY <1>1, <2>1, <2>2
<1> QED
  BY <1>1, <1>3, <1>4, <1>5 DEF Ready

LEMMA ReadyPosted ==
  ASSUME NEW S, NEW s \in Seq(S), NEW k, Event(k) \in S, \A j \in 1..Len(s) : Behind(s[j], k)
  PROVE  Ready(s \o <<Event(k)>>, k)
<1> DEFINE e == <<Event(k)>>
<1>1. s \o e = Append(s, Event(k))
  BY AppendIsConcat
<1>2. /\ Len(s) \in Nat /\ Len(s \o e) = Len(s) + 1
      /\ \A i \in 1..Len(s) : (s \o e)[i] = s[i]
      /\ (s \o e)[Len(s) + 1] = Event(k)
  BY <1>1, AppendProperties, LenProperties
<1> DEFINE n == Len(s)
           u == s \o e
<1>3. n \in Nat /\ Len(u) = n + 1 /\ u[n + 1] = Event(k) /\ \A j \in 1..n : Behind(u[j], k)
  BY <1>2
<1> HIDE DEF n, u
<1>4. n + 1 \in 1..Len(u) /\ (n + 1) - 1 = n
  BY <1>3
<1>5. Ready(u, k)
  BY <1>3, <1>4 DEF Ready
<1> QED
  BY <1>5 DEF u, e

-----------------------------------------------------------------------------
(* The messages there are, and what they are not.                          *)

LEMMA TheMessages ==
  ASSUME NEW n \in Nat
  PROVE  /\ \A x \in Tabs : \A T \in SUBSET Topics :
              Hello(x, T) \in Postable(n) /\ TopicsOf(x, T) \in Postable(n)
         /\ \A x \in Tabs : Bye(x) \in Postable(n)
         /\ ReconnectPlease \in Postable(n) /\ Lead \in Postable(n)
         /\ \A s \in States : StateIs(s) \in Postable(n)
         /\ \A s \in States : \A c \in NoCursor..n : Welcome(c, s) \in Postable(n)
         /\ \A k \in 1..n : Event(k) \in Postable(n)
<1>1. \A x \in Tabs : \A T \in SUBSET Topics : Hello(x, T) \in Postable(n)
  BY DEF Hello, Postable, Message
<1>2. \A x \in Tabs : \A T \in SUBSET Topics : TopicsOf(x, T) \in Postable(n)
  BY DEF TopicsOf, Postable, Message
<1>3. \A x \in Tabs : Bye(x) \in Postable(n)
  BY DEF Bye, Postable, Message
<1>4. ReconnectPlease \in Postable(n)
  BY DEF ReconnectPlease, Postable, Message
<1>5. Lead \in Postable(n)
  BY DEF Lead, Postable, Message
<1>6. \A s \in States : StateIs(s) \in Postable(n)
  BY DEF StateIs, Postable, Message
<1>7. \A s \in States : \A c \in NoCursor..n : Welcome(c, s) \in Postable(n)
  BY DEF Welcome, Postable, Message, NoCursor
<1>8. \A k \in 1..n : Event(k) \in Postable(n)
  BY DEF Event, Postable, Message
<1> QED
  BY <1>1, <1>2, <1>3, <1>4, <1>5, <1>6, <1>7, <1>8

LEMMA TheirFields ==
  /\ \A x, T : /\ Hello(x, T).t = "hello" /\ Hello(x, T).from = x /\ Hello(x, T).topics = T
               /\ TopicsOf(x, T).t = "topics" /\ TopicsOf(x, T).from = x
               /\ TopicsOf(x, T).topics = T
  /\ \A x : Bye(x).t = "bye" /\ Bye(x).from = x
  /\ ReconnectPlease.t = "reconnect" /\ Lead.t = "lead"
  /\ \A c, s : Welcome(c, s).t = "welcome" /\ Welcome(c, s).cursor = c /\ Welcome(c, s).state = s
  /\ \A k : Event(k).t = "event" /\ Event(k).id = k
  /\ \A s : StateIs(s).t = "state" /\ StateIs(s).state = s
  BY DEF Hello, TopicsOf, Bye, ReconnectPlease, Lead, Welcome, Event, StateIs

LEMMA PostedFields ==
  ASSUME NEW n \in Nat, NEW m \in Postable(n)
  PROVE  /\ m \in Message
         /\ m.t \in {"hello", "topics", "bye", "reconnect", "lead", "welcome", "event", "state"}
         /\ m.t \in {"hello", "topics"} => m.from \in Tabs /\ m.topics \in SUBSET Topics
         /\ m.t = "bye" => m.from \in Tabs
         /\ m.t = "welcome" => m.cursor \in NoCursor..n /\ m.state \in States
         /\ m.t = "event" => m.id \in 1..n /\ m = Event(m.id)
         /\ m.t = "state" => m.state \in States
         /\ m.t = "lead" => m = Lead
<1>1. m \in Message
  BY DEF Postable
<1>2. m.t \in {"hello", "topics", "bye", "reconnect", "lead", "welcome", "event", "state"}
  BY <1>1 DEF Message
<1>3. m.t \in {"hello", "topics"} => m.from \in Tabs /\ m.topics \in SUBSET Topics
  BY <1>1 DEF Message
<1>4. m.t = "bye" => m.from \in Tabs
  BY <1>1 DEF Message
<1>5. m.t = "welcome" => m.cursor \in NoCursor..n /\ m.state \in States
  BY <1>1 DEF Message, Postable
<1>6. m.t = "event" => m.id \in 1..n /\ m = Event(m.id)
  BY <1>1 DEF Message, Postable, Event
<1>7. m.t = "state" => m.state \in States
  BY <1>1 DEF Message
<1>8. m.t = "lead" => m = Lead
  BY <1>1 DEF Message, Lead
<1> QED
  BY <1>1, <1>2, <1>3, <1>4, <1>5, <1>6, <1>7, <1>8

(* Who says something of itself, and who tells the state. *)
LEMMA WhoSays ==
  ASSUME NEW x
  PROVE  /\ \A y, T : y # x => Hello(y, T) \notin From(x) /\ TopicsOf(y, T) \notin From(x)
         /\ \A y : y # x => Bye(y) \notin From(x)
         /\ ReconnectPlease \notin From(x) /\ Lead \notin From(x)
         /\ \A c, s : Welcome(c, s) \notin From(x)
         /\ \A k : Event(k) \notin From(x)
         /\ \A s : StateIs(s) \notin From(x)
  BY TheirFields DEF From

LEMMA WhoTells ==
  /\ \A y, T : Hello(y, T) \notin Telling /\ TopicsOf(y, T) \notin Telling
  /\ \A y : Bye(y) \notin Telling
  /\ ReconnectPlease \notin Telling /\ Lead \notin Telling
  /\ \A k : Event(k) \notin Telling
  BY TheirFields DEF Telling

LEMMA Saids ==
  ASSUME NEW x \in Tabs, NEW T \in SUBSET Topics
  PROVE  /\ Hello(x, T) \in From(x) /\ Hello(x, T) \in Saying(x, T) /\ Hello(x, T) \in HelloFrom(x)
         /\ TopicsOf(x, T) \in From(x) /\ TopicsOf(x, T) \in Saying(x, T)
         /\ Bye(x) \in From(x) /\ Bye(x) \in Saying(x, {})
<1>1. Hello(x, T) \in Message /\ TopicsOf(x, T) \in Message /\ Bye(x) \in Message
  BY DEF Hello, TopicsOf, Bye, Message
<1>2. Hello(x, T) \in From(x) /\ TopicsOf(x, T) \in From(x) /\ Bye(x) \in From(x)
  BY <1>1, TheirFields DEF From
<1>3. Says(Hello(x, T)) = T /\ Says(TopicsOf(x, T)) = T /\ Says(Bye(x)) = {}
  BY TheirFields DEF Says
<1> QED
  BY <1>2, <1>3, TheirFields DEF Saying, HelloFrom

LEMMA Tolds ==
  ASSUME NEW s \in States
  PROVE  /\ StateIs(s) \in Telling /\ StateIs(s) \in TellingOf(s)
         /\ \A c \in Int : Welcome(c, s) \in Telling /\ Welcome(c, s) \in TellingOf(s)
<1>1. StateIs(s) \in Message
  BY DEF StateIs, Message
<1>2. \A c \in Int : Welcome(c, s) \in Message
  BY DEF Welcome, Message
<1> QED
  BY <1>1, <1>2, TheirFields DEF Telling, TellingOf

-----------------------------------------------------------------------------
(* The channel.                                                            *)

ToAll(from, ms) == [x \in Tabs |-> IF Open(x) /\ x # from THEN ms ELSE <<>>]

ToFirst(from, ms) ==
  [x \in Tabs |-> IF queue # <<>> /\ x = queue[1] /\ x # from THEN ms ELSE <<>>]

Plus(boxes, e) == [x \in Tabs |-> boxes[x] \o e[x]]

LEMMA PostedIs ==
  ASSUME NEW S, NEW boxes \in [Tabs -> Seq(S)], NEW from, NEW ms \in Seq(S)
  PROVE  /\ Posted(boxes, from, ms) = Plus(boxes, ToAll(from, ms))
         /\ ToAll(from, ms) \in [Tabs -> Seq(S)]
<1>1. <<>> \in Seq(S)
  BY EmptySeq
<1>2. \A x \in Tabs : boxes[x] \o <<>> = boxes[x]
  BY ConcatEmptySeq
<1>3. ToAll(from, ms) \in [Tabs -> Seq(S)]
  BY <1>1 DEF ToAll
<1>4. ASSUME NEW x \in Tabs
      PROVE  Posted(boxes, from, ms)[x] = boxes[x] \o ToAll(from, ms)[x]
  BY <1>2 DEF Posted, ToAll
<1>5. Posted(boxes, from, ms) = Plus(boxes, ToAll(from, ms))
  BY <1>4 DEF Posted, Plus
<1> QED
  BY <1>3, <1>5

LEMMA ForLeaderIs ==
  ASSUME NEW S, NEW boxes \in [Tabs -> Seq(S)], NEW from, NEW ms \in Seq(S),
         queue \in Seq(Tabs)
  PROVE  /\ ForLeader(boxes, from, ms) = Plus(boxes, ToFirst(from, ms))
         /\ ToFirst(from, ms) \in [Tabs -> Seq(S)]
<1>1. <<>> \in Seq(S)
  BY EmptySeq
<1>2. \A x \in Tabs : boxes[x] \o <<>> = boxes[x]
  BY ConcatEmptySeq
<1>3. ToFirst(from, ms) \in [Tabs -> Seq(S)]
  BY <1>1 DEF ToFirst
<1>4. queue # <<>> => Head(queue) = queue[1]
  BY Popped
<1>5. ASSUME NEW x \in Tabs
      PROVE  ForLeader(boxes, from, ms)[x] = boxes[x] \o ToFirst(from, ms)[x]
  <2>1. CASE queue # <<>> /\ queue[1] # from
    <3>1. ForLeader(boxes, from, ms) = [boxes EXCEPT ![queue[1]] = @ \o ms]
      BY <1>4, <2>1 DEF ForLeader
    <3> QED
      BY <1>2, <2>1, <3>1 DEF ToFirst
  <2>2. CASE ~(queue # <<>> /\ queue[1] # from)
    <3>1. ForLeader(boxes, from, ms) = boxes
      BY <1>4, <2>2 DEF ForLeader
    <3> QED
      BY <1>2, <2>2, <3>1 DEF ToFirst
  <2> QED
    BY <2>1, <2>2
<1>6. DOMAIN ForLeader(boxes, from, ms) = Tabs
  BY DEF ForLeader
<1>7. \E f : ForLeader(boxes, from, ms) = [x \in Tabs |-> f[x]]
  BY DEF ForLeader
<1>8. ForLeader(boxes, from, ms) = Plus(boxes, ToFirst(from, ms))
  BY <1>5, <1>7 DEF Plus
<1> QED
  BY <1>3, <1>8

-----------------------------------------------------------------------------
(* The lock.                                                               *)

LEMMA Removed ==
  ASSUME NEW S, NEW q \in Seq(S), NEW i \in 1..Len(q)
  PROVE  /\ RemoveAt(q, i) \in Seq(S)
         /\ Len(q) \in Nat /\ Len(RemoveAt(q, i)) = Len(q) - 1
         /\ \A j \in 1..(i - 1) : RemoveAt(q, i)[j] = q[j]
         /\ \A j \in i..(Len(q) - 1) : RemoveAt(q, i)[j] = q[j + 1]
<1> DEFINE n == Len(q)
           a == SubSeq(q, 1, i - 1)
           b == SubSeq(q, i + 1, n)
<1>1. n \in Nat /\ i \in 1..n /\ \A j \in 1..n : q[j] \in S
  BY LenProperties, ElementOfSeq
<1> HIDE DEF n
<1>2. /\ 1 \in Int /\ i - 1 \in Int /\ i + 1 \in Int /\ n \in Int
      /\ \A j \in 1..(i - 1) : q[j] \in S
      /\ \A j \in (i + 1)..n : q[j] \in S
  BY <1>1
<1>3. a \in Seq(S) /\ Len(a) = i - 1 /\ \A j \in 1..(i - 1) : a[j] = q[j]
  <2>1. /\ a \in Seq(S)
        /\ Len(a) = IF 1 <= i - 1 THEN (i - 1) - 1 + 1 ELSE 0
        /\ \A j \in 1..((i - 1) - 1 + 1) : a[j] = q[1 + j - 1]
    BY <1>2, SubSeqProperties
  <2>2. (i - 1) - 1 + 1 = i - 1 /\ \A j \in 1..(i - 1) : 1 + j - 1 = j
    BY <1>1
  <2> HIDE DEF a
  <2> QED
    BY <1>1, <2>1, <2>2
<1>4. b \in Seq(S) /\ Len(b) = n - i /\ \A j \in 1..(n - i) : b[j] = q[i + j]
  <2>1. /\ b \in Seq(S)
        /\ Len(b) = IF i + 1 <= n THEN n - (i + 1) + 1 ELSE 0
        /\ \A j \in 1..(n - (i + 1) + 1) : b[j] = q[(i + 1) + j - 1]
    BY <1>2, SubSeqProperties
  <2>2. n - (i + 1) + 1 = n - i /\ \A j \in 1..(n - i) : (i + 1) + j - 1 = i + j
    BY <1>1
  <2> HIDE DEF b
  <2> QED
    BY <1>1, <2>1, <2>2
<1>5. RemoveAt(q, i) = a \o b
  BY DEF RemoveAt, n
<1> HIDE DEF a, b
<1> DEFINE r == RemoveAt(q, i)
<1>6. /\ r \in Seq(S) /\ Len(r) = Len(a) + Len(b)
      /\ \A j \in 1..(Len(a) + Len(b)) :
           r[j] = IF j <= Len(a) THEN a[j] ELSE b[j - Len(a)]
  BY <1>3, <1>4, <1>5, ConcatProperties
<1> HIDE DEF r
<1>7. Len(r) = n - 1
  BY <1>1, <1>3, <1>4, <1>6
<1>8. \A j \in 1..(i - 1) : r[j] = q[j]
  BY <1>1, <1>3, <1>4, <1>6
<1>9. ASSUME NEW j \in i..(n - 1) PROVE r[j] = q[j + 1]
  <2>1. /\ j \in 1..(Len(a) + Len(b)) /\ ~(j <= Len(a)) /\ j - Len(a) = j - (i - 1)
        /\ j - (i - 1) \in 1..(n - i) /\ i + (j - (i - 1)) = j + 1
    BY <1>1, <1>3, <1>4
  <2>2. r[j] = b[j - (i - 1)]
    BY <1>6, <2>1
  <2>3. b[j - (i - 1)] = q[i + (j - (i - 1))]
    BY <1>4, <2>1
  <2> QED
    BY <2>1, <2>2, <2>3
<1> QED
  BY <1>1, <1>6, <1>7, <1>8, <1>9 DEF r, n

LEMMA QueueFacts ==
  ASSUME Locked
  PROVE  /\ queue \in Seq(Tabs) /\ Len(queue) \in Nat /\ DOMAIN queue = 1..Len(queue)
         /\ \A i \in 1..Len(queue) : queue[i] \in Tabs /\ Open(queue[i])
         /\ \A i, j \in 1..Len(queue) : queue[i] = queue[j] => i = j
         /\ queue # <<>> =>
              Len(queue) >= 1 /\ queue[1] \in Tabs /\ Open(queue[1]) /\ Head(queue) = queue[1]
         /\ \A t \in Tabs : Open(t) => queue # <<>>
         /\ holder # None => holder \in Tabs /\ Open(holder) /\ Leads(holder)
         /\ \A t \in Tabs : Leads(t) <=> holder = t
         /\ None \notin Tabs
<1>1. queue \in Seq(Tabs) /\ Len(queue) \in Nat /\ DOMAIN queue = 1..Len(queue)
  BY LenProperties DEF Locked
<1>2. \A i \in 1..Len(queue) : queue[i] \in Tabs /\ Open(queue[i])
  BY <1>1, ElementOfSeq DEF Locked
<1>3. \A i, j \in 1..Len(queue) : queue[i] = queue[j] => i = j
  BY <1>1 DEF Locked, IsInjective
<1>4. queue # <<>> => Len(queue) >= 1 /\ Head(queue) = queue[1]
  BY <1>1, Popped
<1>5. queue # <<>> => queue[1] \in Tabs /\ Open(queue[1])
  <2>1. queue # <<>> => 1 \in 1..Len(queue)
    BY <1>1, <1>4
  <2> QED
    BY <1>2, <2>1
<1>6. ASSUME NEW t \in Tabs, Open(t) PROVE queue # <<>>
  <2>1. PICK i \in 1..Len(queue) : queue[i] = t
    BY <1>6 DEF Locked
  <2>2. Len(queue) # 0
    BY <1>1
  <2> QED
    BY <2>2, EmptySeq
<1>7. None \notin Tabs
  BY SharedAssumption DEF SharedAssumption, None, Tabs
<1>8. holder # None => holder \in Tabs /\ Open(holder)
  BY <1>5 DEF Locked
<1>9. \A t \in Tabs : Leads(t) <=> holder = t
  BY <1>7, <1>8 DEF Leads
<1> QED
  BY <1>1, <1>2, <1>3, <1>4, <1>5, <1>6, <1>7, <1>8, <1>9

LEMMA LockStutter ==
  ASSUME Locked, UNCHANGED <<queue, holder, status>>
  PROVE  Locked'
  BY DEF Locked, Open

LEMMA JoinsQueue ==
  ASSUME Locked, status \in [Tabs -> {"absent", "open", "closed", "dead"}],
         NEW t \in Tabs, ~Open(t), status' = [status EXCEPT ![t] = "open"],
         queue' = Append(queue, t), UNCHANGED holder
  PROVE  /\ Locked'
         /\ queue # <<>> => queue'[1] = queue[1]
         /\ queue = <<>> => queue'[1] = t
         /\ queue' # <<>>
<1> DEFINE n == Len(queue)
<1>1. n \in Nat /\ queue \in Seq(Tabs)
  BY QueueFacts
<1>2. /\ queue' \in Seq(Tabs) /\ queue' # <<>> /\ Len(queue') = n + 1
      /\ \A i \in 1..n : queue'[i] = queue[i]
      /\ queue'[n + 1] = t
  BY <1>1, AppendProperties
<1>3. \A i \in 1..n : queue[i] # t
  BY QueueFacts
<1>4. \A i, j \in 1..n : queue[i] = queue[j] => i = j
  BY QueueFacts
<1>5. \A x \in Tabs : Open(x) <=> \E i \in 1..n : queue[i] = x
  BY DEF Locked
<1>6. queue # <<>> => n >= 1
  BY QueueFacts
<1>7. queue = <<>> => n = 0
  BY EmptySeq
<1> HIDE DEF n
<1>8. DOMAIN queue' = 1..(n + 1)
  BY <1>2, LenProperties
<1>9. IsInjective(queue')
  <2> SUFFICES ASSUME NEW i \in 1..(n + 1), NEW j \in 1..(n + 1), queue'[i] = queue'[j]
               PROVE  i = j
    BY <1>8 DEF IsInjective
  <2>1. CASE i \in 1..n /\ j \in 1..n
    BY <1>2, <1>4, <2>1
  <2>2. CASE i = n + 1 \/ j = n + 1
    BY <1>1, <1>2, <1>3, <2>2
  <2> QED
    BY <1>1, <2>1, <2>2
<1>10. ASSUME NEW x \in Tabs PROVE Open(x)' <=> \E i \in 1..(n + 1) : queue'[i] = x
  <2>1. CASE x = t
    <3>1. n + 1 \in 1..(n + 1)
      BY <1>1
    <3> QED
      BY <1>2, <2>1, <3>1 DEF Open
  <2>2. CASE x # t
    <3>1. Open(x)' <=> Open(x)
      BY <2>2 DEF Open
    <3>2. (\E i \in 1..(n + 1) : queue'[i] = x) <=> \E i \in 1..n : queue[i] = x
      BY <1>1, <1>2, <2>2
    <3> QED
      BY <1>5, <3>1, <3>2
  <2> QED
    BY <2>1, <2>2
<1>11. queue # <<>> => queue'[1] = queue[1]
  BY <1>1, <1>2, <1>6
<1>12. queue = <<>> => queue'[1] = t
  BY <1>2, <1>7
<1>13. Locked'
  BY <1>2, <1>9, <1>10, <1>11 DEF Locked
<1> QED
  BY <1>2, <1>11, <1>12, <1>13

LEMMA LeavesQueue ==
  ASSUME Locked, status \in [Tabs -> {"absent", "open", "closed", "dead"}],
         NEW t \in Tabs, Open(t), LeaveQueue(t),
         NEW s, s # "open", status' = [status EXCEPT ![t] = s]
  PROVE  /\ Locked'
         /\ t # queue[1] => queue' # <<>> /\ queue'[1] = queue[1]
         /\ queue # <<>>
         /\ \A x \in Tabs : x # t => (Open(x)' <=> Open(x))
         /\ ~Open(t)'
<1> DEFINE n == Len(queue)
<1>1. n \in Nat /\ queue \in Seq(Tabs) /\ queue # <<>> /\ n >= 1
  BY QueueFacts
<1>2. PICK i \in 1..n : queue[i] = t /\ queue' = RemoveAt(queue, i)
  BY QueueFacts DEF LeaveQueue, RequestEnds, LeadEnds
<1>3. /\ queue' \in Seq(Tabs) /\ Len(queue') = n - 1
      /\ \A j \in 1..(i - 1) : queue'[j] = queue[j]
      /\ \A j \in i..(n - 1) : queue'[j] = queue[j + 1]
  BY <1>1, <1>2, Removed
<1>4. \A j, k \in 1..n : queue[j] = queue[k] => j = k
  BY QueueFacts
<1>5. \A x \in Tabs : Open(x) <=> \E j \in 1..n : queue[j] = x
  BY DEF Locked
<1> HIDE DEF n
<1>6. DOMAIN queue' = 1..(n - 1)
  BY <1>3, LenProperties
<1>7. \A j \in 1..(n - 1) :
        \/ j < i /\ j \in 1..n /\ queue'[j] = queue[j]
        \/ j >= i /\ j + 1 \in 1..n /\ queue'[j] = queue[j + 1]
  BY <1>1, <1>2, <1>3
<1>8. IsInjective(queue')
  <2> SUFFICES ASSUME NEW j \in 1..(n - 1), NEW k \in 1..(n - 1), queue'[j] = queue'[k]
               PROVE  j = k
    BY <1>6 DEF IsInjective
  <2>1. CASE j < i /\ k < i
    BY <1>4, <1>7, <2>1
  <2>2. CASE j >= i /\ k >= i
    <3>1. j + 1 = k + 1
      BY <1>4, <1>7, <2>2
    <3> QED
      BY <3>1
  <2>3. CASE j < i /\ k >= i
    <3>1. j = k + 1
      BY <1>4, <1>7, <2>3
    <3> QED
      BY <2>3, <3>1
  <2>4. CASE j >= i /\ k < i
    <3>1. j + 1 = k
      BY <1>4, <1>7, <2>4
    <3> QED
      BY <2>4, <3>1
  <2> QED
    BY <2>1, <2>2, <2>3, <2>4
<1>9. ASSUME NEW x \in Tabs, x # t PROVE Open(x)' <=> Open(x)
  BY <1>9 DEF Open
<1>10. ~Open(t)'
  BY DEF Open
<1>11. ASSUME NEW x \in Tabs PROVE Open(x)' <=> \E j \in 1..(n - 1) : queue'[j] = x
  <2>1. ASSUME NEW j \in 1..(n - 1), queue'[j] = x PROVE Open(x)'
    <3>1. x # t
      <4>1. CASE j < i
        BY <1>2, <1>4, <1>7, <2>1, <4>1
      <4>2. CASE j >= i
        <5>1. queue[j + 1] = x /\ j + 1 # i /\ j + 1 \in 1..n
          BY <1>7, <2>1, <4>2
        <5> QED
          BY <1>2, <1>4, <5>1
      <4> QED
        BY <4>1, <4>2
    <3>2. Open(x)
      BY <1>5, <1>7, <2>1
    <3> QED
      BY <1>9, <3>1, <3>2
  <2>2. ASSUME Open(x)' PROVE \E j \in 1..(n - 1) : queue'[j] = x
    <3>1. x # t /\ Open(x)
      BY <1>9, <1>10, <2>2
    <3>2. PICK k \in 1..n : queue[k] = x
      BY <1>5, <3>1
    <3>3. CASE k < i
      <4>1. k \in 1..(i - 1) /\ k \in 1..(n - 1)
        BY <1>1, <1>2, <3>3
      <4> QED
        BY <1>3, <3>2, <4>1
    <3>4. CASE k > i
      <4>1. k - 1 \in i..(n - 1) /\ k - 1 \in 1..(n - 1) /\ (k - 1) + 1 = k
        BY <1>1, <1>2, <3>4
      <4>2. queue'[k - 1] = x
        BY <1>3, <3>2, <4>1
      <4> QED
        BY <4>1, <4>2
    <3>5. k # i
      BY <1>2, <3>1, <3>2
    <3> QED
      BY <3>3, <3>4, <3>5
  <2> QED
    BY <2>1, <2>2
<1>12. ASSUME t # queue[1] PROVE queue' # <<>> /\ queue'[1] = queue[1]
  <2>1. i # 1 /\ 1 \in 1..(i - 1) /\ n - 1 >= 1
    BY <1>1, <1>2, <1>12
  <2>2. queue'[1] = queue[1]
    BY <1>3, <2>1
  <2>3. queue' # <<>>
    <3>1. Len(queue') # 0
      BY <1>1, <1>3, <2>1
    <3> QED
      BY <3>1, EmptySeq
  <2> QED
    BY <2>2, <2>3
<1>13. holder' \in Tabs \cup {None} /\ (holder' # None => queue' # <<>> /\ holder' = queue'[1])
  <2>1. holder' = IF holder = t THEN None ELSE holder
    BY DEF LeaveQueue, RequestEnds, LeadEnds
  <2>2. holder \in Tabs \cup {None} /\ (holder # None => holder = queue[1])
    BY DEF Locked
  <2> QED
    BY <1>12, <2>1, <2>2
<1>14. Locked'
  BY <1>3, <1>8, <1>11, <1>13 DEF Locked
<1> QED
  BY <1>1, <1>9, <1>10, <1>12, <1>14

-----------------------------------------------------------------------------
(* What is posted.                                                         *)

Nothing == [x \in Tabs |-> <<>>]

(* The tabs' inboxes, but gone's, are longer by e. *)
Grows(e, gone) ==
  /\ e \in [Tabs -> Seq(Postable(Len(log)))]
  /\ \A x \in Tabs : ~Open(x) => e[x] = <<>>
  /\ inbox' \in [Tabs -> Seq(Postable(Len(log)))]
  /\ \A x \in Tabs : inbox'[x] = IF x = gone THEN <<>> ELSE inbox[x] \o e[x]

LEMMA TypeFacts ==
  ASSUME Types
  PROVE  /\ Len(log) \in Nat /\ NoCursor \in NoCursor..Len(log)
         /\ inbox \in [Tabs -> Seq(Postable(Len(log)))]
         /\ \A x \in Tabs : inbox[x] \in Seq(Postable(Len(log)))
         /\ \A x \in Tabs : ~Open(x) => inbox[x] = <<>>
         /\ inner.cursor \in NoCursor..Len(log) /\ inner.asked \in SUBSET Topics
         /\ inner.state \in States
         /\ Hung = [inner EXCEPT !.asked = {}, !.due = TRUE]
<1>1. Len(log) \in Nat
  BY LenProperties DEF Types
<1>2. NoCursor \in NoCursor..Len(log)
  BY <1>1 DEF NoCursor
<1>3. inbox \in [Tabs -> Seq(Postable(Len(log)))] /\ \A x \in Tabs : ~Open(x) => inbox[x] = <<>>
  BY DEF Types, Boxed
<1>4. /\ inner.cursor \in NoCursor..Len(log) /\ inner.asked \in SUBSET Topics
      /\ inner.state \in States
  BY DEF Types, Clients
<1> QED
  BY <1>1, <1>2, <1>3, <1>4 DEF Hung

LEMMA NothingGrows ==
  ASSUME Types, UNCHANGED inbox
  PROVE  Grows(Nothing, None)
<1>1. inbox \in [Tabs -> Seq(Postable(Len(log)))]
  BY TypeFacts
<1>2. Nothing \in [Tabs -> Seq(Postable(Len(log)))] /\ \A x \in Tabs : Nothing[x] = <<>>
  BY EmptySeq DEF Nothing
<1>3. \A x \in Tabs : inbox[x] \o Nothing[x] = inbox[x]
  BY <1>1, <1>2, ConcatEmptySeq
<1>4. \A x \in Tabs : x # None
  BY SharedAssumption DEF SharedAssumption, None, Tabs
<1> QED
  BY <1>1, <1>2, <1>3, <1>4 DEF Grows

LEMMA PlusGrows ==
  ASSUME Types, NEW e \in [Tabs -> Seq(Postable(Len(log)))],
         \A x \in Tabs : ~Open(x) => e[x] = <<>>
  PROVE  /\ Plus(inbox, e) \in [Tabs -> Seq(Postable(Len(log)))]
         /\ \A x \in Tabs : Plus(inbox, e)[x] = inbox[x] \o e[x]
         /\ inbox' = Plus(inbox, e) => Grows(e, None)
<1>1. inbox \in [Tabs -> Seq(Postable(Len(log)))]
  BY TypeFacts
<1>2. \A x \in Tabs : inbox[x] \o e[x] \in Seq(Postable(Len(log)))
  BY <1>1, ConcatProperties
<1>3. Plus(inbox, e) \in [Tabs -> Seq(Postable(Len(log)))]
  BY <1>2 DEF Plus
<1>4. \A x \in Tabs : Plus(inbox, e)[x] = inbox[x] \o e[x]
  BY DEF Plus
<1>5. \A x \in Tabs : x # None
  BY SharedAssumption DEF SharedAssumption, None, Tabs
<1> QED
  BY <1>3, <1>4, <1>5 DEF Grows

LEMMA PostGrows ==
  ASSUME Types, NEW from, NEW ms \in Seq(Postable(Len(log)))
  PROVE  /\ ToAll(from, ms) \in [Tabs -> Seq(Postable(Len(log)))]
         /\ \A x \in Tabs : ~Open(x) => ToAll(from, ms)[x] = <<>>
         /\ Posted(inbox, from, ms) = Plus(inbox, ToAll(from, ms))
         /\ Post(from, ms) => Grows(ToAll(from, ms), None)
<1>1. inbox \in [Tabs -> Seq(Postable(Len(log)))]
  BY TypeFacts
<1>2. /\ ToAll(from, ms) \in [Tabs -> Seq(Postable(Len(log)))]
      /\ Posted(inbox, from, ms) = Plus(inbox, ToAll(from, ms))
  BY <1>1, PostedIs
<1>3. \A x \in Tabs : ~Open(x) => ToAll(from, ms)[x] = <<>>
  BY DEF ToAll
<1> QED
  BY <1>2, <1>3, PlusGrows DEF Post

LEMMA AskGrows ==
  ASSUME Types, Locked, NEW from, NEW ms \in Seq(Postable(Len(log)))
  PROVE  /\ ToFirst(from, ms) \in [Tabs -> Seq(Postable(Len(log)))]
         /\ \A x \in Tabs : ~Open(x) => ToFirst(from, ms)[x] = <<>>
         /\ ForLeader(inbox, from, ms) = Plus(inbox, ToFirst(from, ms))
         /\ Ask(from, ms) => Grows(ToFirst(from, ms), None)
<1>1. inbox \in [Tabs -> Seq(Postable(Len(log)))]
  BY TypeFacts
<1>2. /\ ToFirst(from, ms) \in [Tabs -> Seq(Postable(Len(log)))]
      /\ ForLeader(inbox, from, ms) = Plus(inbox, ToFirst(from, ms))
  BY <1>1, ForLeaderIs, QueueFacts
<1>3. \A x \in Tabs : ~Open(x) => ToFirst(from, ms)[x] = <<>>
  BY QueueFacts DEF ToFirst
<1> QED
  BY <1>2, <1>3, PlusGrows DEF Ask

LEMMA GrowsBoxed ==
  ASSUME Types, NEW e, NEW gone, Grows(e, gone), log' = log,
         \A x \in Tabs : x # gone /\ Open(x) => Open(x)'
  PROVE  Boxed'
<1>1. inbox' \in [Tabs -> Seq(Postable(Len(log)))]
  BY DEF Grows
<1>2. ASSUME NEW x \in Tabs, ~Open(x)' PROVE inbox'[x] = <<>>
  <2>1. CASE x = gone
    BY <2>1 DEF Grows
  <2>2. CASE x # gone
    <3>1. ~Open(x)
      BY <1>2, <2>2
    <3>2. inbox[x] = <<>> /\ e[x] = <<>>
      BY <3>1, TypeFacts DEF Grows
    <3>3. <<>> \o <<>> = <<>>
      BY EmptySeq, ConcatEmptySeq
    <3> QED
      BY <2>2, <3>2, <3>3 DEF Grows
  <2> QED
    BY <2>1, <2>2
<1> QED
  BY <1>1, <1>2 DEF Boxed

(* What a change of the connection's state posts. *)
Announced(t, state) ==
  IF inner.state = state THEN Nothing ELSE ToAll(t, <<StateIs(state)>>)

LEMMA InnerStateGrows ==
  ASSUME Types, NEW t \in Tabs, NEW state \in States, InnerState(t, state)
  PROVE  /\ Grows(Announced(t, state), None)
         /\ shown' \in [Tabs -> States]
         /\ \A x \in Tabs : x # t => shown'[x] = shown[x]
         /\ inner.state # state => shown'[t] = state
         /\ inner.state = state => shown' = shown
<1>1. <<StateIs(state)>> \in Seq(Postable(Len(log)))
  BY TypeFacts, TheMessages
<1>2. CASE inner.state = state
  BY <1>2, NothingGrows DEF InnerState, Announced, Types
<1>3. CASE inner.state # state
  <2>1. Grows(Announced(t, state), None)
    BY <1>1, <1>3, PostGrows DEF InnerState, Announced
  <2>2. shown \in [Tabs -> States] /\ shown' = [shown EXCEPT ![t] = state]
    BY <1>3 DEF InnerState, Types
  <2> QED
    BY <1>3, <2>1, <2>2
<1> QED
  BY <1>2, <1>3

LEMMA NoClientIs ==
  ASSUME NEW n \in Nat
  PROVE  /\ NoClient \in Clients(n)
         /\ NoClient.cursor = NoCursor /\ NoClient.asked = {} /\ NoClient.state = "idle"
  BY DEF NoClient, Clients, NoCursor, States

LEMMA UnionIsTopics ==
  ASSUME NEW known \in [Tabs -> SUBSET Topics]
  PROVE  /\ Union(known) \in SUBSET Topics
         /\ \A t \in Tabs : known[t] \subseteq Union(known)
         /\ \A a \in Union(known) : \E t \in Tabs : a \in known[t]
  BY DEF Union

-----------------------------------------------------------------------------
(* Types.                                                                  *)

LEMMA InitTypes == Init => Types /\ Locked
<1> SUFFICES ASSUME Init PROVE Types /\ Locked
  OBVIOUS
<1>1. log = <<>> /\ Len(log) = 0 /\ log \in Seq(Topics) /\ queue = <<>> /\ queue \in Seq(Tabs)
  BY EmptySeq DEF Init
<1>2. Len(queue) = 0 /\ DOMAIN queue = {}
  BY <1>1, LenProperties
<1>3. \A t \in Tabs : ~Open(t)
  BY DEF Init, Open
<1>4. Locked
  BY <1>1, <1>2, <1>3 DEF Init, Locked, IsInjective
<1>5. inbox \in [Tabs -> Seq(Postable(Len(log)))] /\ \A t \in Tabs : inbox[t] = <<>>
  BY EmptySeq DEF Init
<1>6. Boxed
  BY <1>5 DEF Boxed
<1>7. inner \in Clients(Len(log))
  BY <1>1, NoClientIs DEF Init
<1>8. cursor \in [Tabs -> NoCursor..Len(log)]
  BY <1>1 DEF Init, NoCursor
<1>9. /\ status \in [Tabs -> {"absent", "open", "closed", "dead"}]
      /\ topics \in [Tabs -> SUBSET Topics]
      /\ shown \in [Tabs -> States]
      /\ byTab \in [Tabs -> SUBSET Topics]
      /\ heard \in [Tabs -> SUBSET (1..Len(log))]
      /\ owed \in [Tabs -> SUBSET (1..Len(log))]
      /\ skipped \in [Tabs -> SUBSET (1..Len(log))]
  BY DEF Init, States
<1> QED
  BY <1>1, <1>4, <1>6, <1>7, <1>8, <1>9 DEF Types

LEMMA ConstructTypes ==
  ASSUME Types, Locked, NEW t \in Tabs, Construct(t)
  PROVE  /\ Types' /\ Locked'
         /\ Grows(ToFirst(t, <<Hello(t, {}), TopicsOf(t, Mounts[t])>>), None)
<1> DEFINE n == Len(log)
           ms == <<Hello(t, {}), TopicsOf(t, Mounts[t])>>
<1>1. n \in Nat /\ Mounts[t] \in SUBSET Topics /\ {} \in SUBSET Topics
  BY TypeFacts, SharedAssumption DEF SharedAssumption
<1>2. ms \in Seq(Postable(n))
  <2>1. Hello(t, {}) \in Postable(n) /\ TopicsOf(t, Mounts[t]) \in Postable(n)
    BY <1>1, TheMessages
  <2> QED
    BY <2>1
<1>3. Grows(ToFirst(t, ms), None)
  BY <1>2, AskGrows DEF Construct
<1>4. Boxed'
  <2>1. log' = log /\ \A x \in Tabs : Open(x) => Open(x)'
    BY DEF Construct, Open, Types
  <2> QED
    BY <1>3, <2>1, GrowsBoxed
<1>5. Locked'
  <2>1. ~Open(t) /\ status \in [Tabs -> {"absent", "open", "closed", "dead"}]
    BY DEF Construct, Open, Types
  <2> QED
    BY <2>1, JoinsQueue DEF Construct
<1>6. cursor' \in [Tabs -> NoCursor..n]
  <2> DEFINE c == IF Pages[t] = NoCursor THEN NoCursor ELSE Len(log) - Pages[t]
  <2>1. Pages[t] \in Nat \cup {NoCursor} /\ Pages[t] <= n
    BY SharedAssumption DEF SharedAssumption, Construct
  <2>2. c \in NoCursor..n
    BY <1>1, <2>1 DEF NoCursor
  <2>3. cursor' = [cursor EXCEPT ![t] = c] /\ cursor \in [Tabs -> NoCursor..n]
    BY DEF Construct, Types
  <2> HIDE DEF c
  <2> QED
    BY <2>2, <2>3
<1>7. topics' \in [Tabs -> SUBSET Topics]
  BY <1>1 DEF Construct, Types
<1>8. status' \in [Tabs -> {"absent", "open", "closed", "dead"}]
  BY DEF Construct, Types
<1>9. UNCHANGED <<log, shown, byTab, inner, heard, owed, skipped>>
  BY DEF Construct, leadVars
<1> QED
  BY <1>3, <1>4, <1>5, <1>6, <1>7, <1>8, <1>9 DEF Types

LEMMA PublishTypes ==
  ASSUME Types, Locked, NEW t \in Tabs, NEW T \in SUBSET Topics, PublishTopics(t, T), log' = log,
         UNCHANGED <<queue, holder, status>>
  PROVE  /\ Boxed' /\ byTab' \in [Tabs -> SUBSET Topics] /\ Locked'
         /\ holder = t => Grows(Nothing, None) /\ byTab' = [byTab EXCEPT ![t] = T]
         /\ holder # t => Grows(ToFirst(t, <<TopicsOf(t, T)>>), None) /\ byTab' = byTab
<1>1. Locked' /\ \A x \in Tabs : Open(x) => Open(x)'
  BY LockStutter DEF Open
<1>2. <<TopicsOf(t, T)>> \in Seq(Postable(Len(log)))
  <2>1. TopicsOf(t, T) \in Postable(Len(log))
    BY TypeFacts, TheMessages
  <2> QED
    BY <2>1
<1>3. Leads(t) <=> holder = t
  BY QueueFacts
<1>4. CASE holder = t
  <2>1. byTab' = [byTab EXCEPT ![t] = T] /\ UNCHANGED inbox
    BY <1>3, <1>4 DEF PublishTopics
  <2>2. Grows(Nothing, None)
    BY <2>1, NothingGrows
  <2> QED
    BY <1>1, <1>4, <2>1, <2>2, GrowsBoxed DEF Types
<1>5. CASE holder # t
  <2>1. Ask(t, <<TopicsOf(t, T)>>) /\ byTab' = byTab
    BY <1>3, <1>5 DEF PublishTopics
  <2>2. Grows(ToFirst(t, <<TopicsOf(t, T)>>), None)
    BY <1>2, <2>1, AskGrows
  <2> QED
    BY <1>1, <1>5, <2>1, <2>2, GrowsBoxed DEF Types
<1> QED
  BY <1>4, <1>5

LEMMA SubscribeTypes ==
  ASSUME Types, Locked, NEW t \in Tabs, NEW topic \in Topics, Subscribe(t, topic)
  PROVE  Types' /\ Locked' /\ topics'[t] \in SUBSET Topics
<1>1. topics' = [topics EXCEPT ![t] = topics[t] \cup {topic}] /\ topics \in [Tabs -> SUBSET Topics]
  BY DEF Subscribe, Types
<1>2. topics'[t] \in SUBSET Topics /\ topics' \in [Tabs -> SUBSET Topics]
  BY <1>1
<1>3. UNCHANGED <<log, queue, holder, status, cursor, shown, heard, owed, skipped, inner>>
  BY DEF Subscribe
<1>4. Boxed' /\ byTab' \in [Tabs -> SUBSET Topics] /\ Locked'
  BY <1>2, <1>3, PublishTypes DEF Subscribe
<1> QED
  BY <1>2, <1>3, <1>4 DEF Types

LEMMA ReleaseTypes ==
  ASSUME Types, Locked, NEW t \in Tabs, NEW topic \in Topics, Release(t, topic)
  PROVE  Types' /\ Locked' /\ topics'[t] \in SUBSET Topics
<1>1. topics' = [topics EXCEPT ![t] = topics[t] \ {topic}] /\ topics \in [Tabs -> SUBSET Topics]
  BY DEF Release, Types
<1>2. topics'[t] \in SUBSET Topics /\ topics' \in [Tabs -> SUBSET Topics]
  BY <1>1
<1>3. UNCHANGED <<log, queue, holder, status, cursor, shown, heard, skipped, inner>>
  BY DEF Release
<1>4. Boxed' /\ byTab' \in [Tabs -> SUBSET Topics] /\ Locked'
  BY <1>2, <1>3, PublishTypes DEF Release
<1>5. owed' \in [Tabs -> SUBSET (1..Len(log))]
  BY DEF Release, Types
<1> QED
  BY <1>2, <1>3, <1>4, <1>5 DEF Types

LEMMA ReconnectTypes ==
  ASSUME Types, Locked, NEW t \in Tabs, Reconnect(t)
  PROVE  /\ Types' /\ Locked'
         /\ inner'.cursor = inner.cursor /\ inner'.state = inner.state
         /\ inner'.asked \in {inner.asked, {}}
         /\ Grows(IF holder = t THEN Nothing ELSE ToFirst(t, <<ReconnectPlease>>), None)
<1>1. UNCHANGED <<log, queue, holder, status, topics, cursor, shown, heard, owed, skipped, byTab>>
  BY DEF Reconnect, tabVars
<1>2. Locked' /\ \A x \in Tabs : Open(x) => Open(x)'
  BY <1>1, LockStutter DEF Open
<1>3. Leads(t) <=> holder = t
  BY QueueFacts
<1>4. /\ inner' \in Clients(Len(log))
      /\ inner'.cursor = inner.cursor /\ inner'.state = inner.state
      /\ inner'.asked \in {inner.asked, {}}
  <2>1. {} \in SUBSET Topics /\ inner \in Clients(Len(log)) /\ Len(log) \in Nat
    BY TypeFacts DEF Types
  <2>2. inner' = [inner EXCEPT !.asked = {}, !.due = TRUE] \/ inner' = inner
    BY DEF Reconnect, Hung
  <2>3. CASE inner' = [inner EXCEPT !.asked = {}, !.due = TRUE]
    BY <2>1, <2>3 DEF Clients
  <2>4. CASE inner' = inner
    BY <2>1, <2>4
  <2> QED
    BY <2>2, <2>3, <2>4
<1>5. Grows(IF holder = t THEN Nothing ELSE ToFirst(t, <<ReconnectPlease>>), None)
  <2>1. CASE holder = t
    BY <1>3, <2>1, NothingGrows DEF Reconnect
  <2>2. CASE holder # t
    <3>1. <<ReconnectPlease>> \in Seq(Postable(Len(log)))
      BY TypeFacts, TheMessages
    <3> QED
      BY <1>3, <2>2, <3>1, AskGrows DEF Reconnect
  <2> QED
    BY <2>1, <2>2
<1>6. Boxed'
  BY <1>1, <1>2, <1>5, GrowsBoxed
<1> QED
  BY <1>1, <1>2, <1>4, <1>5, <1>6 DEF Types

(* Ends of sets of numbers.                                                *)
LEMMA LessOnNat == OpToRel(<, Nat) = {ss \in Nat \X Nat : ss[1] < ss[2]}
  BY Zenon DEF OpToRel

LEMMA LeastExists ==
  ASSUME NEW S \in SUBSET Nat, S # {}
  PROVE  Min(S) \in S /\ \A y \in S : Min(S) <= y
<1> DEFINE R == {ss \in Nat \X Nat : ss[1] < ss[2]}
<1>1. IsWellFoundedOn(R, Nat)
  BY NatLessThanWellFounded, LessOnNat, Zenon
<1> HIDE DEF R
<1>2. PICK x \in S : \A y \in S : ~(<<y, x>> \in R)
  BY <1>1, WFMin
<1>3. \A y \in Nat : y < x => <<y, x>> \in R
  BY DEF R
<1>4. \A y \in S : ~(y < x)
  BY <1>2, <1>3
<1>5. \A y \in S : x <= y
  BY <1>4
<1> QED
  BY <1>5 DEF Min

LEMMA GreatestExists ==
  ASSUME NEW n \in Nat, NEW S \in SUBSET (NoCursor..n), S # {}
  PROVE  Max(S) \in S /\ \A y \in S : y <= Max(S)
<1> DEFINE D == {n - y : y \in S}
<1>1. D \in SUBSET Nat /\ D # {}
  <2>1. \A y \in NoCursor..n : n - y \in Nat
    BY DEF NoCursor
  <2>2. \A y \in S : n - y \in Nat
    BY <2>1
  <2> QED
    BY <2>2
<1>2. Min(D) \in D /\ \A d \in D : Min(D) <= d
  BY <1>1, LeastExists
<1>3. PICK x \in S : Min(D) = n - x
  BY <1>2
<1>4. \A y \in S : n - x <= n - y
  BY <1>2, <1>3
<1>5. \A y \in S : y <= x /\ x >= y
  BY <1>4 DEF NoCursor
<1>6. Max(S) \in S /\ \A y \in S : Max(S) >= y
  BY <1>5 DEF Max
<1> QED
  BY <1>6 DEF NoCursor

LEMMA CloseTypes ==
  ASSUME Types, Locked, NEW t \in Tabs, Close(t)
  PROVE  /\ Types' /\ Locked'
         /\ Grows(IF holder = t THEN ToAll(t, <<StateIs("closed")>>)
                                ELSE ToFirst(t, <<Bye(t)>>), t)
<1> DEFINE e == IF holder = t THEN ToAll(t, <<StateIs("closed")>>) ELSE ToFirst(t, <<Bye(t)>>)
<1>1. Open(t) /\ UNCHANGED <<log, topics, cursor, heard, owed, skipped>>
  BY DEF Close
<1>2. Leads(t) <=> holder = t
  BY QueueFacts
<1>3. /\ <<StateIs("closed")>> \in Seq(Postable(Len(log)))
      /\ <<Bye(t)>> \in Seq(Postable(Len(log)))
  <2>1. StateIs("closed") \in Postable(Len(log)) /\ Bye(t) \in Postable(Len(log))
    BY TypeFacts, TheMessages DEF States
  <2> QED
    BY <2>1
<1>4. /\ e \in [Tabs -> Seq(Postable(Len(log)))]
      /\ \A x \in Tabs : ~Open(x) => e[x] = <<>>
      /\ (IF Leads(t) THEN Posted(inbox, t, <<StateIs("closed")>>)
                      ELSE ForLeader(inbox, t, <<Bye(t)>>)) = Plus(inbox, e)
  <2>1. CASE holder = t
    BY <1>2, <1>3, <2>1, PostGrows
  <2>2. CASE holder # t
    BY <1>2, <1>3, <2>2, AskGrows
  <2> QED
    BY <2>1, <2>2
<1> HIDE DEF e
<1>5. inbox' = [Plus(inbox, e) EXCEPT ![t] = <<>>]
  BY <1>4 DEF Close, Farewell
<1>6. Grows(e, t)
  <2>1. /\ Plus(inbox, e) \in [Tabs -> Seq(Postable(Len(log)))]
        /\ \A x \in Tabs : Plus(inbox, e)[x] = inbox[x] \o e[x]
    BY <1>4, PlusGrows
  <2>2. <<>> \in Seq(Postable(Len(log)))
    BY EmptySeq
  <2>3. inbox' \in [Tabs -> Seq(Postable(Len(log)))]
    BY <1>5, <2>1, <2>2
  <2>4. \A x \in Tabs : inbox'[x] = IF x = t THEN <<>> ELSE inbox[x] \o e[x]
    BY <1>5, <2>1
  <2> QED
    BY <1>4, <2>3, <2>4 DEF Grows
<1>7. /\ status \in [Tabs -> {"absent", "open", "closed", "dead"}]
      /\ status' = [status EXCEPT ![t] = "closed"]
  BY DEF Close, Types
<1>8. Locked' /\ \A x \in Tabs : x # t => (Open(x)' <=> Open(x))
  <2>1. LeaveQueue(t)
    BY DEF Close, Abort, LeaveQueue
  <2> QED
    BY <1>1, <1>7, <2>1, LeavesQueue
<1>9. Boxed'
  BY <1>1, <1>6, <1>8, GrowsBoxed
<1>10. inner' \in Clients(Len(log)) /\ byTab' \in [Tabs -> SUBSET Topics]
  BY TypeFacts, NoClientIs DEF Close, LeadEnds, Types
<1>11. shown' \in [Tabs -> States]
  BY DEF Close, Types, States
<1>12. status' \in [Tabs -> {"absent", "open", "closed", "dead"}]
  BY <1>7
<1> QED
  BY <1>1, <1>6, <1>8, <1>9, <1>10, <1>11, <1>12 DEF Types, e

LEMMA DieTypes ==
  ASSUME Types, Locked, NEW t \in Tabs, Die(t)
  PROVE  Types' /\ Locked' /\ Grows(Nothing, t)
<1>1. Open(t) /\ UNCHANGED <<log, topics, cursor, shown, heard, owed, skipped>>
  BY DEF Die, tabVars
<1>2. inbox' = [inbox EXCEPT ![t] = <<>>] /\ inbox \in [Tabs -> Seq(Postable(Len(log)))]
  BY TypeFacts DEF Die
<1>3. <<>> \in Seq(Postable(Len(log)))
  BY EmptySeq
<1>4. Nothing \in [Tabs -> Seq(Postable(Len(log)))] /\ \A x \in Tabs : Nothing[x] = <<>>
  BY <1>3 DEF Nothing
<1>5. \A x \in Tabs : inbox[x] \o Nothing[x] = inbox[x]
  BY <1>2, <1>4, ConcatEmptySeq
<1>6. Grows(Nothing, t)
  <2>1. inbox' \in [Tabs -> Seq(Postable(Len(log)))]
    BY <1>2, <1>3
  <2>2. \A x \in Tabs : inbox'[x] = IF x = t THEN <<>> ELSE inbox[x] \o Nothing[x]
    BY <1>2, <1>5
  <2> QED
    BY <1>4, <2>1, <2>2 DEF Grows
<1>7. /\ status \in [Tabs -> {"absent", "open", "closed", "dead"}]
      /\ status' = [status EXCEPT ![t] = "dead"]
  BY DEF Die, Types
<1>8. Locked' /\ \A x \in Tabs : x # t => (Open(x)' <=> Open(x))
  BY <1>1, <1>7, LeavesQueue DEF Die
<1>9. Boxed'
  BY <1>1, <1>6, <1>8, GrowsBoxed
<1>10. inner' \in Clients(Len(log)) /\ byTab' \in [Tabs -> SUBSET Topics]
  BY TypeFacts, NoClientIs DEF Die, LeaveQueue, LeadEnds, Types
<1>11. status' \in [Tabs -> {"absent", "open", "closed", "dead"}]
  BY <1>7
<1> QED
  BY <1>1, <1>6, <1>8, <1>9, <1>10, <1>11 DEF Types

LEMMA BecomeLeaderTypes ==
  ASSUME Types, Locked, NEW t \in Tabs, BecomeLeader(t)
  PROVE  /\ Types' /\ Locked' /\ Grows(ToAll(t, <<Lead>>), None)
         /\ queue # <<>> /\ queue[1] = t /\ holder' = t /\ Open(t)
         /\ inner'.cursor = cursor[t] /\ inner'.asked = {} /\ inner'.state = "idle"
<1>1. UNCHANGED <<log, queue, status, topics, cursor, shown, heard, owed>>
  BY DEF BecomeLeader
<1>2. queue # <<>> /\ queue[1] = t /\ holder' = t /\ Open(t)
  BY QueueFacts DEF BecomeLeader, Granted
<1>3. Locked'
  BY <1>1, <1>2 DEF Locked, Open
<1>4. <<Lead>> \in Seq(Postable(Len(log)))
  <2>1. Lead \in Postable(Len(log))
    BY TypeFacts, TheMessages
  <2> QED
    BY <2>1
<1>5. Grows(ToAll(t, <<Lead>>), None)
  BY <1>4, PostGrows DEF BecomeLeader
<1>6. Boxed'
  <2>1. \A x \in Tabs : Open(x) => Open(x)'
    BY <1>1 DEF Open
  <2> QED
    BY <1>1, <1>5, <2>1, GrowsBoxed
<1>7. /\ inner' \in Clients(Len(log))
      /\ inner'.cursor = cursor[t] /\ inner'.asked = {} /\ inner'.state = "idle"
  <2>1. cursor[t] \in NoCursor..Len(log) /\ Len(log) \in Nat
    BY TypeFacts DEF Types
  <2>2. /\ NoClient \in Clients(Len(log)) /\ NoClient.asked = {} /\ NoClient.state = "idle"
    BY <2>1, NoClientIs
  <2>3. inner' = [NoClient EXCEPT !.cursor = cursor[t]]
    BY DEF BecomeLeader
  <2> QED
    BY <2>1, <2>2, <2>3 DEF Clients
<1>8. byTab' \in [Tabs -> SUBSET Topics]
  BY DEF BecomeLeader, Types
<1>9. skipped' \in [Tabs -> SUBSET (1..Len(log))]
  <2>1. Pending(t) \subseteq 1..Len(log)
    BY LenProperties DEF Pending, Types
  <2>2. skipped \in [Tabs -> SUBSET (1..Len(log))]
    BY DEF Types
  <2> QED
    BY <2>1, <2>2 DEF BecomeLeader, Granted
<1> QED
  BY <1>1, <1>2, <1>3, <1>5, <1>6, <1>7, <1>8, <1>9 DEF Types

LEMMA DialTypes ==
  ASSUME Types, Locked, NEW t \in Tabs, Dial(t)
  PROVE  /\ Types' /\ Locked' /\ holder = t
         /\ inner'.cursor = inner.cursor /\ inner'.asked = Union(byTab)
         /\ inner'.state = IF Union(byTab) = {} THEN "idle" ELSE "connecting"
         /\ InnerState(t, inner'.state) /\ Grows(Announced(t, inner'.state), None)
<1> DEFINE state == IF Union(byTab) = {} THEN "idle" ELSE "connecting"
<1>1. UNCHANGED <<log, queue, holder, status, topics, cursor, heard, owed, skipped, byTab>>
  BY DEF Dial
<1>2. Locked' /\ \A x \in Tabs : Open(x) => Open(x)'
  BY <1>1, LockStutter DEF Open
<1>3. state \in States /\ Union(byTab) \in SUBSET Topics
  BY UnionIsTopics DEF States, Types
<1>4. inner' = [inner EXCEPT !.asked = Union(byTab), !.due = FALSE, !.state = state] /\ InnerState(t, state)
  BY DEF Dial
<1>5. holder = t
  BY QueueFacts DEF Dial
<1> HIDE DEF state
<1>6. inner \in Clients(Len(log))
  BY DEF Types
<1>7. /\ inner' \in Clients(Len(log)) /\ inner'.cursor = inner.cursor
      /\ inner'.asked = Union(byTab) /\ inner'.state = state
  BY <1>3, <1>4, <1>6 DEF Clients
<1>8. Grows(Announced(t, state), None) /\ shown' \in [Tabs -> States]
  BY <1>3, <1>4, InnerStateGrows
<1>9. Boxed'
  BY <1>1, <1>2, <1>8, GrowsBoxed
<1>10. Types'
  BY <1>1, <1>7, <1>8, <1>9 DEF Types
<1> QED
  BY <1>2, <1>4, <1>5, <1>7, <1>8, <1>10 DEF state

LEMMA ConnectTypes ==
  ASSUME Types, Locked, NEW t \in Tabs, Connect(t)
  PROVE  /\ Types' /\ Locked' /\ holder = t
         /\ inner'.cursor = inner.cursor /\ inner'.asked = inner.asked /\ inner'.state = "open"
         /\ InnerState(t, "open") /\ Grows(Announced(t, "open"), None)
<1> DEFINE f == IF inner.cursor = NoCursor THEN Len(log) ELSE inner.cursor
<1>1. UNCHANGED <<log, queue, holder, status, topics, cursor, heard, owed, skipped, byTab>>
  BY DEF Connect
<1>2. Locked' /\ \A x \in Tabs : Open(x) => Open(x)'
  BY <1>1, LockStutter DEF Open
<1>3. "open" \in States /\ f \in NoCursor..Len(log)
  <2>1. Len(log) \in NoCursor..Len(log)
    BY TypeFacts DEF NoCursor
  <2> QED
    BY <2>1, TypeFacts DEF States
<1>4. inner' = [inner EXCEPT !.state = "open", !.from = f] /\ InnerState(t, "open")
  BY DEF Connect
<1>5. holder = t
  BY QueueFacts DEF Connect
<1> HIDE DEF f
<1>6. inner \in Clients(Len(log))
  BY DEF Types
<1>7. /\ inner' \in Clients(Len(log)) /\ inner'.cursor = inner.cursor
      /\ inner'.asked = inner.asked /\ inner'.state = "open"
  BY <1>3, <1>4, <1>6 DEF Clients
<1>8. Grows(Announced(t, "open"), None) /\ shown' \in [Tabs -> States]
  BY <1>3, <1>4, InnerStateGrows
<1>9. Boxed'
  BY <1>1, <1>2, <1>8, GrowsBoxed
<1>10. Types'
  BY <1>1, <1>7, <1>8, <1>9 DEF Types
<1> QED
  BY <1>2, <1>4, <1>5, <1>7, <1>8, <1>10

LEMMA DropTypes ==
  ASSUME Types, Locked, NEW t \in Tabs, Drop(t)
  PROVE  /\ Types' /\ Locked' /\ holder = t
         /\ inner'.cursor = inner.cursor /\ inner'.asked = inner.asked
         /\ inner'.state = "connecting"
         /\ InnerState(t, "connecting") /\ Grows(Announced(t, "connecting"), None)
<1>1. UNCHANGED <<log, queue, holder, status, topics, cursor, heard, owed, skipped, byTab>>
  BY DEF Drop
<1>2. Locked' /\ \A x \in Tabs : Open(x) => Open(x)'
  BY <1>1, LockStutter DEF Open
<1>3. "connecting" \in States
  BY DEF States
<1>4. inner' = [inner EXCEPT !.state = "connecting"] /\ InnerState(t, "connecting")
  BY DEF Drop
<1>5. holder = t
  BY QueueFacts DEF Drop
<1>6. inner \in Clients(Len(log))
  BY DEF Types
<1>7. /\ inner' \in Clients(Len(log)) /\ inner'.cursor = inner.cursor
      /\ inner'.asked = inner.asked /\ inner'.state = "connecting"
  BY <1>3, <1>4, <1>6 DEF Clients
<1>8. Grows(Announced(t, "connecting"), None) /\ shown' \in [Tabs -> States]
  BY <1>3, <1>4, InnerStateGrows
<1>9. Boxed'
  BY <1>1, <1>2, <1>8, GrowsBoxed
<1>10. Types'
  BY <1>1, <1>7, <1>8, <1>9 DEF Types
<1> QED
  BY <1>2, <1>4, <1>5, <1>7, <1>8, <1>10

LEMMA AcceptTypes ==
  ASSUME Types, Locked, NEW topic \in Topics, Accept(topic)
  PROVE  /\ Types' /\ Locked'
         /\ \A k \in 1..Len(log) : log'[k] = log[k]
         /\ UNCHANGED <<queue, holder, status, tabVars, inbox, leadVars>>
<1> DEFINE n == Len(log)
<1>1. UNCHANGED <<queue, holder, status, tabVars, inbox, leadVars>> /\ log' = Append(log, topic)
  BY DEF Accept
<1>2. /\ n \in Nat /\ log' \in Seq(Topics) /\ Len(log') = n + 1
      /\ \A k \in 1..n : log'[k] = log[k]
  BY <1>1, TypeFacts, AppendProperties DEF Types
<1>3. Locked'
  BY <1>1, LockStutter
<1>4. Postable(n) \subseteq Postable(Len(log'))
  <2> SUFFICES ASSUME NEW m \in Postable(n) PROVE m \in Postable(Len(log'))
    OBVIOUS
  <2>1. m \in Message /\ (m.t = "event" => m.id \in 1..n)
                      /\ (m.t = "welcome" => m.cursor \in NoCursor..n)
    BY DEF Postable
  <2> HIDE DEF n
  <2>2. 1..n \subseteq 1..(n + 1) /\ NoCursor..n \subseteq NoCursor..(n + 1)
    BY <1>2 DEF NoCursor
  <2> QED
    BY <1>2, <2>1, <2>2 DEF Postable
<1>5. Boxed'
  <2>1. inbox \in [Tabs -> Seq(Postable(n))] /\ \A x \in Tabs : ~Open(x) => inbox[x] = <<>>
    BY TypeFacts
  <2>2. \A x \in Tabs : inbox[x] \in Seq(Postable(Len(log')))
    BY <1>4, <2>1, SeqMonotonic
  <2>3. inbox \in [Tabs -> Seq(Postable(Len(log')))]
    BY <2>1, <2>2
  <2> QED
    BY <1>1, <2>1, <2>3 DEF Boxed, Open
<1>6. 1..n \subseteq 1..Len(log') /\ NoCursor..n \subseteq NoCursor..Len(log')
  <2> HIDE DEF n
  <2> QED
    BY <1>2 DEF NoCursor
<1>7. inner \in Clients(Len(log'))
  <2>1. inner \in Clients(n)
    BY DEF Types
  <2> QED
    BY <1>6, <2>1 DEF Clients
<1>8. cursor \in [Tabs -> NoCursor..Len(log')]
  <2>1. cursor \in [Tabs -> NoCursor..n]
    BY DEF Types
  <2> QED
    BY <1>6, <2>1
<1>9. /\ heard \in [Tabs -> SUBSET (1..Len(log'))] /\ owed \in [Tabs -> SUBSET (1..Len(log'))]
      /\ skipped \in [Tabs -> SUBSET (1..Len(log'))]
  <2>1. /\ heard \in [Tabs -> SUBSET (1..n)] /\ owed \in [Tabs -> SUBSET (1..n)]
        /\ skipped \in [Tabs -> SUBSET (1..n)]
    BY DEF Types
  <2> QED
    BY <1>6, <2>1
<1> QED
  BY <1>1, <1>2, <1>3, <1>5, <1>7, <1>8, <1>9 DEF Types, tabVars, leadVars

(* The event the leader reads is the first of those its stream has for it. *)
LEMMA NextRead ==
  ASSUME Types, Readable # {}
  PROVE  /\ Min(Readable) \in 1..Len(log)
         /\ Min(Readable) > Position /\ log[Min(Readable)] \in inner.asked
         /\ \A j \in 1..Len(log) : j > Position /\ log[j] \in inner.asked => Min(Readable) <= j
<1>1. DOMAIN log = 1..Len(log)
  BY LenProperties DEF Types
<1>2. Readable \in SUBSET Nat
  BY <1>1 DEF Readable
<1>3. Min(Readable) \in Readable /\ \A j \in Readable : Min(Readable) <= j
  BY <1>2, LeastExists
<1>4. /\ \A j \in Readable : j \in 1..Len(log) /\ j > Position /\ log[j] \in inner.asked
      /\ \A j \in 1..Len(log) : j > Position /\ log[j] \in inner.asked => j \in Readable
  BY <1>1 DEF Readable
<1> QED
  BY <1>3, <1>4

LEMMA FanOutTypes ==
  ASSUME Types, Locked, NEW t \in Tabs, FanOut(t), NEW k, k = Min(Readable)
  PROVE  /\ Types' /\ Locked' /\ holder = t
         /\ Readable # {} /\ k \in 1..Len(log)
         /\ inner'.cursor = k /\ inner'.asked = inner.asked /\ inner'.state = inner.state
         /\ Grows(IF log[k] \in Union(byTab) THEN ToAll(t, <<Event(k)>>) ELSE Nothing, None)
<1>1. UNCHANGED <<log, queue, holder, status, topics, shown, skipped, byTab>>
  BY DEF FanOut
<1>2. Locked' /\ \A x \in Tabs : Open(x) => Open(x)'
  BY <1>1, LockStutter DEF Open
<1>3. holder = t
  BY QueueFacts DEF FanOut
<1>4. k \in 1..Len(log) /\ Readable # {}
  BY NextRead DEF FanOut
<1>5. k \in NoCursor..Len(log)
  BY <1>4, TypeFacts DEF NoCursor
<1>6. inner' = [inner EXCEPT !.cursor = k] /\ inner \in Clients(Len(log))
  BY DEF FanOut, Types
<1>7. /\ inner' \in Clients(Len(log)) /\ inner'.cursor = k
      /\ inner'.asked = inner.asked /\ inner'.state = inner.state
  BY <1>5, <1>6 DEF Clients
<1>8. CASE log[k] \in Union(byTab)
  <2>1. <<Event(k)>> \in Seq(Postable(Len(log)))
    <3>1. Event(k) \in Postable(Len(log))
      BY <1>4, TypeFacts, TheMessages
    <3> QED
      BY <3>1
  <2>2. Grows(ToAll(t, <<Event(k)>>), None)
    BY <1>8, <2>1, PostGrows DEF FanOut
  <2>3. Boxed'
    BY <1>1, <1>2, <2>2, GrowsBoxed
  <2>4. Deliver(t, k) /\ owed' = [x \in Tabs |->
          IF Open(x) /\ log[k] \in topics[x] /\ k > Horizon(x)
          THEN owed[x] \cup {k} ELSE owed[x]]
    BY <1>8 DEF FanOut
  <2> DEFINE P == SUBSET (1..Len(log))
  <2>5. heard \in [Tabs -> P] /\ owed \in [Tabs -> P] /\ \A S \in P : S \cup {k} \in P
    BY <1>4 DEF Types
  <2> HIDE DEF P
  <2>6. owed' \in [Tabs -> P]
    BY <2>4, <2>5
  <2>7. cursor' \in [Tabs -> NoCursor..Len(log)]
    BY <1>5, <2>4 DEF Deliver, Types
  <2>8. heard' \in [Tabs -> P]
    BY <2>4, <2>5 DEF Deliver
  <2> USE DEF P
  <2> QED
    BY <1>1, <1>2, <1>3, <1>4, <1>7, <1>8, <2>2, <2>3, <2>6, <2>7, <2>8 DEF Types
<1>9. CASE log[k] \notin Union(byTab)
  <2>1. UNCHANGED <<inbox, owed, cursor, heard>>
    BY <1>9 DEF FanOut
  <2>2. Grows(Nothing, None)
    BY <2>1, NothingGrows
  <2>3. Boxed'
    BY <1>1, <1>2, <2>2, GrowsBoxed
  <2> QED
    BY <1>1, <1>2, <1>3, <1>4, <1>7, <1>9, <2>1, <2>2, <2>3 DEF Types
<1> QED
  BY <1>8, <1>9

-----------------------------------------------------------------------------
(* What a tab reads.                                                       *)

(* Tab t has handled a message, and the inboxes are longer by e. *)
Pops(t, e) ==
  /\ e \in [Tabs -> Seq(Postable(Len(log)))]
  /\ \A x \in Tabs : ~Open(x) => e[x] = <<>>
  /\ inbox' \in [Tabs -> Seq(Postable(Len(log)))]
  /\ inbox'[t] = Tail(inbox[t]) \o e[t]
  /\ \A x \in Tabs : x # t => inbox'[x] = inbox[x] \o e[x]

LEMMA PopsBoxed ==
  ASSUME Types, NEW t \in Tabs, Open(t), NEW e, Pops(t, e), log' = log, UNCHANGED status
  PROVE  Boxed'
<1>1. inbox' \in [Tabs -> Seq(Postable(Len(log)))]
  BY DEF Pops
<1>2. ASSUME NEW x \in Tabs, ~Open(x)' PROVE inbox'[x] = <<>>
  <2>1. ~Open(x) /\ x # t
    BY <1>2 DEF Open
  <2>2. inbox[x] = <<>> /\ e[x] = <<>>
    BY <2>1, TypeFacts DEF Pops
  <2>3. <<>> \o <<>> = <<>>
    BY EmptySeq, ConcatEmptySeq
  <2> QED
    BY <2>1, <2>2, <2>3 DEF Pops
<1> QED
  BY <1>1, <1>2 DEF Boxed

LEMMA HandledIs ==
  ASSUME Types, NEW t \in Tabs, inbox[t] # <<>>
  PROVE  /\ Handled(t) \in [Tabs -> Seq(Postable(Len(log)))]
         /\ Handled(t)[t] = Tail(inbox[t])
         /\ \A x \in Tabs : x # t => Handled(t)[x] = inbox[x]
         /\ Head(inbox[t]) = inbox[t][1] /\ inbox[t][1] \in Postable(Len(log))
<1>1. inbox \in [Tabs -> Seq(Postable(Len(log)))]
  BY TypeFacts
<1>2. /\ Tail(inbox[t]) \in Seq(Postable(Len(log)))
      /\ Head(inbox[t]) = inbox[t][1] /\ inbox[t][1] \in Postable(Len(log))
  BY <1>1, Popped
<1> QED
  BY <1>1, <1>2 DEF Handled

LEMMA HandledPops ==
  ASSUME Types, NEW t \in Tabs, inbox[t] # <<>>,
         NEW e \in [Tabs -> Seq(Postable(Len(log)))], \A x \in Tabs : ~Open(x) => e[x] = <<>>,
         inbox' = Plus(Handled(t), e)
  PROVE  Pops(t, e)
<1>1. /\ Handled(t) \in [Tabs -> Seq(Postable(Len(log)))]
      /\ Handled(t)[t] = Tail(inbox[t])
      /\ \A x \in Tabs : x # t => Handled(t)[x] = inbox[x]
  BY HandledIs
<1>2. \A x \in Tabs : inbox'[x] = Handled(t)[x] \o e[x]
  BY DEF Plus
<1>3. \A x \in Tabs : inbox'[x] \in Seq(Postable(Len(log)))
  BY <1>1, <1>2, ConcatProperties
<1>4. inbox' \in [Tabs -> Seq(Postable(Len(log)))]
  BY <1>3 DEF Plus
<1> QED
  BY <1>1, <1>2, <1>4 DEF Pops

LEMMA NothingPlus ==
  ASSUME NEW S, NEW boxes \in [Tabs -> Seq(S)]
  PROVE  /\ Plus(boxes, Nothing) = boxes
         /\ Nothing \in [Tabs -> Seq(S)] /\ \A x \in Tabs : Nothing[x] = <<>>
<1>1. Nothing \in [Tabs -> Seq(S)] /\ \A x \in Tabs : Nothing[x] = <<>>
  BY EmptySeq DEF Nothing
<1>2. \A x \in Tabs : boxes[x] \o Nothing[x] = boxes[x]
  BY <1>1, ConcatEmptySeq
<1>3. Plus(boxes, Nothing) = [x \in Tabs |-> boxes[x]]
  BY <1>2 DEF Plus
<1> QED
  BY <1>1, <1>3

(* The leader's answer. *)
Answered(m) ==
  [x \in Tabs |-> IF m.t = "hello" /\ Open(x) /\ x = m.from
                  THEN <<Welcome(inner.cursor, inner.state)>> ELSE <<>>]

LEMMA LeaderReceivesTypes ==
  ASSUME Types, Locked, NEW t \in Tabs, Open(t), inbox[t] # <<>>,
         NEW m, m = inbox[t][1], LeaderReceives(t, m),
         UNCHANGED <<log, queue, holder, status, topics, owed, skipped>>
  PROVE  /\ Types' /\ Locked' /\ Pops(t, Answered(m)) /\ m \in Postable(Len(log))
         /\ inner'.cursor = inner.cursor /\ inner'.state = inner.state
         /\ inner'.asked \in {inner.asked, {}}
         /\ UNCHANGED <<cursor, heard, shown>>
<1>1. /\ Handled(t) \in [Tabs -> Seq(Postable(Len(log)))]
      /\ m \in Postable(Len(log))
  BY HandledIs
<1>2. m.t \in {"hello", "topics"} => m.from \in Tabs /\ m.topics \in SUBSET Topics
  BY <1>1, TypeFacts, PostedFields
<1>3. m.t = "bye" => m.from \in Tabs
  BY <1>1, TypeFacts, PostedFields
<1> DEFINE w == Welcome(inner.cursor, inner.state)
<1>4. w \in Postable(Len(log)) /\ <<w>> \in Seq(Postable(Len(log)))
  <2>1. w \in Postable(Len(log))
    BY TypeFacts, TheMessages
  <2> QED
    BY <2>1
<1> HIDE DEF w
<1>5. Answered(m) = [x \in Tabs |-> IF m.t = "hello" /\ Open(x) /\ x = m.from THEN <<w>> ELSE <<>>]
  BY DEF Answered, w
<1>6. /\ Answered(m) \in [Tabs -> Seq(Postable(Len(log)))]
      /\ \A x \in Tabs : ~Open(x) => Answered(m)[x] = <<>>
  BY <1>4, <1>5, EmptySeq
<1>7. inbox' = Plus(Handled(t), Answered(m))
  <2>1. CASE m.t = "hello" /\ Open(m.from)
    <3>1. inbox' = [Handled(t) EXCEPT ![m.from] = Append(Handled(t)[m.from], w)]
      BY <2>1 DEF LeaderReceives, w
    <3>2. Append(Handled(t)[m.from], w) = Handled(t)[m.from] \o <<w>>
      BY <1>1, <1>2, <1>4, <2>1, AppendIsConcat
    <3>3. \A x \in Tabs : Handled(t)[x] \o <<>> = Handled(t)[x]
      BY <1>1, ConcatEmptySeq
    <3>4. \A x \in Tabs : inbox'[x] = Handled(t)[x] \o Answered(m)[x]
      BY <1>1, <1>2, <1>5, <2>1, <3>1, <3>2, <3>3
    <3>5. Append(Handled(t)[m.from], w) \in Seq(Postable(Len(log)))
      BY <1>1, <1>2, <1>4, <2>1, AppendProperties
    <3>6. inbox' \in [Tabs -> Seq(Postable(Len(log)))]
      BY <1>1, <3>1, <3>5
    <3>7. inbox' = [x \in Tabs |-> inbox'[x]]
      BY <3>6
    <3> QED
      BY <3>4, <3>7 DEF Plus
  <2>2. CASE ~(m.t = "hello" /\ Open(m.from))
    <3>1. inbox' = Handled(t)
      BY <2>2 DEF LeaderReceives
    <3>2. Answered(m) = Nothing
      BY <1>5, <2>2 DEF Nothing
    <3> QED
      BY <1>1, <3>1, <3>2, NothingPlus
  <2> QED
    BY <2>1, <2>2
<1>8. Pops(t, Answered(m))
  BY <1>6, <1>7, HandledPops
<1>9. Boxed' /\ Locked'
  BY <1>8, PopsBoxed, LockStutter
<1>10. byTab' \in [Tabs -> SUBSET Topics]
  <2>1. CASE m.t \in {"hello", "topics"}
    BY <1>2, <2>1 DEF LeaderReceives, Types
  <2>2. CASE m.t = "bye"
    <3>1. byTab' = [byTab EXCEPT ![m.from] = {}] /\ {} \in SUBSET Topics
      BY <2>2 DEF LeaderReceives
    <3> QED
      BY <3>1 DEF Types
  <2>3. CASE m.t \notin {"hello", "topics"} /\ m.t # "bye"
    BY <2>3 DEF LeaderReceives, Types
  <2> QED
    BY <2>1, <2>2, <2>3
<1>11. /\ inner' \in Clients(Len(log))
       /\ inner'.cursor = inner.cursor /\ inner'.state = inner.state
       /\ inner'.asked \in {inner.asked, {}}
  <2>1. {} \in SUBSET Topics /\ inner \in Clients(Len(log))
    BY DEF Types
  <2>2. CASE inner' = [inner EXCEPT !.asked = {}, !.due = TRUE]
    BY <2>1, <2>2 DEF Clients
  <2>3. CASE inner' = inner
    BY <2>1, <2>3
  <2> QED
    BY <2>2, <2>3 DEF LeaderReceives, Hung
<1>12. UNCHANGED <<cursor, heard, shown>>
  BY DEF LeaderReceives
<1> QED
  BY <1>1, <1>8, <1>9, <1>10, <1>11, <1>12 DEF Types

(* What a follower says on reading a message. *)
Answers(t, m) ==
  IF m.t = "lead" THEN ToFirst(t, <<Hello(t, topics[t])>>)
  ELSE IF m.t = "welcome" THEN ToFirst(t, <<TopicsOf(t, topics[t])>>)
  ELSE Nothing

LEMMA FollowerReceivesTypes ==
  ASSUME Types, Locked, NEW t \in Tabs, Open(t), inbox[t] # <<>>,
         NEW m, m = inbox[t][1], FollowerReceives(t, m),
         UNCHANGED <<log, queue, holder, status, topics, owed, skipped>>
  PROVE  /\ Types' /\ Locked' /\ Pops(t, Answers(t, m)) /\ m \in Postable(Len(log))
         /\ UNCHANGED <<byTab, inner>>
         /\ \A x \in Tabs : x # t => cursor'[x] = cursor[x] /\ heard'[x] = heard[x]
                                                          /\ shown'[x] = shown[x]
         /\ (m.t = "event" /\ m.id > cursor[t]) =>
              cursor'[t] = m.id /\ heard'[t] = heard[t] \cup {m.id}
         /\ (m.t = "welcome" /\ m.cursor > cursor[t]) =>
              cursor'[t] = m.cursor /\ heard'[t] = heard[t]
         /\ ~(m.t = "event" /\ m.id > cursor[t]) /\ ~(m.t = "welcome" /\ m.cursor > cursor[t]) =>
              cursor'[t] = cursor[t] /\ heard'[t] = heard[t]
         /\ shown'[t] = IF m.t \in {"welcome", "state"} THEN m.state ELSE shown[t]
<1> DEFINE n == Len(log)
<1>1. /\ Handled(t) \in [Tabs -> Seq(Postable(n))]
      /\ m \in Postable(n) /\ n \in Nat
  BY HandledIs, TypeFacts
<1>2. /\ m.t = "event" => m.id \in 1..n
      /\ m.t = "welcome" => m.cursor \in NoCursor..n /\ m.state \in States
      /\ m.t = "state" => m.state \in States
  BY <1>1, PostedFields
<1>3. /\ <<Hello(t, topics[t])>> \in Seq(Postable(n))
      /\ <<TopicsOf(t, topics[t])>> \in Seq(Postable(n))
  <2>1. topics[t] \in SUBSET Topics
    BY DEF Types
  <2>2. Hello(t, topics[t]) \in Postable(n) /\ TopicsOf(t, topics[t]) \in Postable(n)
    BY <1>1, <2>1, TheMessages
  <2> QED
    BY <2>2
<1>12. ASSUME NEW ms \in Seq(Postable(n))
       PROVE  /\ ForLeader(Handled(t), t, ms) = Plus(Handled(t), ToFirst(t, ms))
              /\ ToFirst(t, ms) \in [Tabs -> Seq(Postable(n))]
              /\ \A x \in Tabs : ~Open(x) => ToFirst(t, ms)[x] = <<>>
  <2>1. queue \in Seq(Tabs)
    BY QueueFacts
  <2>2. /\ ForLeader(Handled(t), t, ms) = Plus(Handled(t), ToFirst(t, ms))
        /\ ToFirst(t, ms) \in [Tabs -> Seq(Postable(n))]
    BY <1>1, <2>1, ForLeaderIs
  <2>3. \A x \in Tabs : ~Open(x) => ToFirst(t, ms)[x] = <<>>
    BY AskGrows
  <2> QED
    BY <2>2, <2>3
<1> DEFINE e == Answers(t, m)
<1>4. /\ e \in [Tabs -> Seq(Postable(n))] /\ \A x \in Tabs : ~Open(x) => e[x] = <<>>
      /\ inbox' = Plus(Handled(t), e)
  <2>1. CASE m.t = "lead"
    <3>1. inbox' = ForLeader(Handled(t), t, <<Hello(t, topics[t])>>)
      BY <2>1 DEF FollowerReceives
    <3> QED
      BY <1>3, <1>12, <2>1, <3>1 DEF Answers
  <2>2. CASE m.t = "welcome"
    <3>1. inbox' = ForLeader(Handled(t), t, <<TopicsOf(t, topics[t])>>)
      BY <2>2 DEF FollowerReceives
    <3> QED
      BY <1>3, <1>12, <2>2, <3>1 DEF Answers
  <2>3. CASE m.t # "lead" /\ m.t # "welcome"
    <3>1. inbox' = Handled(t) /\ e = Nothing
      BY <2>3 DEF FollowerReceives, Answers
    <3> HIDE DEF e
    <3> QED
      BY <1>1, <3>1, NothingPlus
  <2> QED
    BY <2>1, <2>2, <2>3
<1> HIDE DEF e
<1>5. Pops(t, e)
  BY <1>4, HandledPops
<1>6. Boxed' /\ Locked'
  BY <1>5, PopsBoxed, LockStutter
<1>7. /\ cursor \in [Tabs -> NoCursor..n] /\ shown \in [Tabs -> States]
      /\ heard \in [Tabs -> SUBSET (1..n)] /\ n \in NoCursor..n
  BY <1>1 DEF Types, NoCursor
<1>8. UNCHANGED <<byTab, inner>>
  BY DEF FollowerReceives, leadVars
<1>9. CASE m.t = "event" /\ m.id > cursor[t]
  <2>1. /\ cursor' = [cursor EXCEPT ![t] = m.id]
        /\ heard' = [heard EXCEPT ![t] = heard[t] \cup {m.id}]
        /\ shown' = shown
    BY <1>9 DEF FollowerReceives, Deliver, Ahead
  <2>2. m.id \in NoCursor..n /\ m.id \in 1..n /\ heard[t] \cup {m.id} \in SUBSET (1..n)
    BY <1>1, <1>2, <1>7, <1>9 DEF NoCursor
  <2>3. cursor' \in [Tabs -> NoCursor..n] /\ heard' \in [Tabs -> SUBSET (1..n)]
    BY <1>7, <2>1, <2>2
  <2>4. Types'
    BY <1>6, <1>7, <1>8, <2>1, <2>3 DEF Types
  <2> QED
    BY <1>1, <1>5, <1>6, <1>7, <1>8, <1>9, <2>1, <2>4 DEF e
<1>10. CASE m.t = "welcome"
  <2>1. /\ cursor' = IF m.cursor > cursor[t] THEN [cursor EXCEPT ![t] = m.cursor] ELSE cursor
        /\ heard' = heard /\ shown' = [shown EXCEPT ![t] = m.state]
    BY <1>10 DEF FollowerReceives, Ahead
  <2>2. cursor' \in [Tabs -> NoCursor..n] /\ shown' \in [Tabs -> States]
    BY <1>2, <1>7, <1>10, <2>1
  <2>3. Types'
    BY <1>6, <1>7, <1>8, <2>1, <2>2 DEF Types
  <2> QED
    BY <1>1, <1>5, <1>6, <1>7, <1>8, <1>10, <2>1, <2>3 DEF e
<1>11. CASE m.t # "welcome" /\ ~(m.t = "event" /\ m.id > cursor[t])
  <2>1. cursor' = cursor /\ heard' = heard
    BY <1>11 DEF FollowerReceives, Deliver, Ahead
  <2>2. shown' = IF m.t = "state" THEN [shown EXCEPT ![t] = m.state] ELSE shown
    BY <1>11 DEF FollowerReceives
  <2>3. shown' \in [Tabs -> States]
    BY <1>2, <1>7, <2>2
  <2>4. Types'
    BY <1>6, <1>7, <1>8, <2>1, <2>3 DEF Types
  <2> QED
    BY <1>1, <1>5, <1>6, <1>7, <1>8, <1>11, <2>1, <2>2, <2>4 DEF e
<1> QED
  BY <1>9, <1>10, <1>11

LEMMA ReceiveCases ==
  ASSUME Types, Locked, NEW t \in Tabs, Receive(t)
  PROVE  /\ Open(t) /\ inbox[t] # <<>>
         /\ UNCHANGED <<log, queue, holder, status, topics, owed, skipped>>
         /\ holder = t => LeaderReceives(t, inbox[t][1])
         /\ holder # t => FollowerReceives(t, inbox[t][1])
<1>1. Open(t) /\ inbox[t] # <<>> /\ UNCHANGED <<log, queue, holder, status, topics, owed, skipped>>
  BY DEF Receive
<1>2. Head(inbox[t]) = inbox[t][1] /\ (Leads(t) <=> holder = t)
  BY <1>1, HandledIs, QueueFacts
<1> QED
  BY <1>1, <1>2 DEF Receive

LEMMA ReceiveTypes ==
  ASSUME Types, Locked, NEW t \in Tabs, Receive(t)
  PROVE  Types' /\ Locked'
<1>1. CASE holder = t
  BY <1>1, ReceiveCases, LeaderReceivesTypes
<1>2. CASE holder # t
  BY <1>2, ReceiveCases, FollowerReceivesTypes
<1> QED
  BY <1>1, <1>2

LEMMA NextTypes ==
  ASSUME Types, Locked, [Next]_vars
  PROVE  Types' /\ Locked'
<1>1. ASSUME NEW topic \in Topics, Accept(topic) PROVE Types' /\ Locked'
  BY <1>1, AcceptTypes
<1>2. ASSUME NEW t \in Tabs, Construct(t) PROVE Types' /\ Locked'
  BY <1>2, ConstructTypes
<1>3. ASSUME NEW t \in Tabs, NEW topic \in Topics, Subscribe(t, topic) \/ Release(t, topic)
      PROVE  Types' /\ Locked'
  BY <1>3, SubscribeTypes, ReleaseTypes
<1>4. ASSUME NEW t \in Tabs, Reconnect(t) \/ Drop(t) PROVE Types' /\ Locked'
  BY <1>4, ReconnectTypes, DropTypes
<1>5. ASSUME NEW t \in Tabs, Close(t) \/ Die(t) PROVE Types' /\ Locked'
  BY <1>5, CloseTypes, DieTypes
<1>6. ASSUME NEW t \in Tabs, Works(t) PROVE Types' /\ Locked'
  BY <1>6, ReceiveTypes, BecomeLeaderTypes, DialTypes, ConnectTypes, FanOutTypes DEF Works
<1>7. CASE Unload \/ UNCHANGED vars
  <2>1. UNCHANGED <<log, queue, holder, status, topics, cursor, shown, heard, owed, skipped, inbox, byTab, inner>>
    BY <1>7 DEF Unload, vars, tabVars, leadVars
  <2>2. Boxed'
    BY <2>1 DEF Types, Boxed, Open
  <2> QED
    BY <2>1, <2>2, LockStutter DEF Types
<1> QED
  BY <1>1, <1>2, <1>3, <1>4, <1>5, <1>6, <1>7 DEF Next

-----------------------------------------------------------------------------
(* The leader's own part.                                                  *)

LEMMA LeadingKept ==
  ASSUME Types, Locked, Leading, holder' = holder,
         holder # None => /\ byTab'[holder] = topics'[holder]
                          /\ cursor'[holder] = cursor[holder]
                          /\ shown'[holder] = shown[holder]
                          /\ inner'.cursor = inner.cursor /\ inner'.state = inner.state
                          /\ inner'.asked \in {inner.asked, {}},
         holder = None => inner' = inner /\ byTab' = byTab
  PROVE  Leading'
  BY DEF Leading

LEMMA ConstructLeading ==
  ASSUME Types, Locked, Leading, NEW t \in Tabs, Construct(t)
  PROVE  Leading'
<1>1. /\ UNCHANGED <<byTab, inner, holder, shown>> /\ ~Open(t)
      /\ cursor' = [cursor EXCEPT ![t] = IF Pages[t] = NoCursor THEN NoCursor ELSE Len(log) - Pages[t]]
      /\ topics' = [topics EXCEPT ![t] = Mounts[t]]
  BY DEF Construct, leadVars, Open
<1>2. holder # None => holder # t /\ byTab[holder] = topics[holder]
  BY <1>1, QueueFacts DEF Leading
<1>3. holder # None => cursor'[holder] = cursor[holder] /\ topics'[holder] = topics[holder]
  BY <1>1, <1>2, QueueFacts DEF Types
<1> QED
  BY <1>1, <1>2, <1>3, LeadingKept

LEMMA PublishLeading ==
  ASSUME Types, Locked, Leading, NEW t \in Tabs, NEW T \in SUBSET Topics,
         topics' = [topics EXCEPT ![t] = T], PublishTopics(t, topics'[t]),
         UNCHANGED <<log, queue, holder, status, cursor, shown, inner>>
  PROVE  Leading'
<1>1. topics'[t] = T /\ topics \in [Tabs -> SUBSET Topics] /\ byTab \in [Tabs -> SUBSET Topics]
  BY DEF Types
<1>2. CASE holder = t
  <2>1. byTab' = [byTab EXCEPT ![t] = T] /\ holder # None
    BY <1>1, <1>2, PublishTypes, QueueFacts
  <2>2. byTab'[t] = topics'[t]
    BY <1>1, <2>1
  <2> QED
    BY <1>2, <2>1, <2>2, LeadingKept
<1>3. CASE holder # t
  <2>1. byTab' = byTab
    BY <1>1, <1>3, PublishTypes
  <2>2. holder # None => byTab[holder] = topics[holder] /\ holder \in Tabs
    BY QueueFacts DEF Leading
  <2>3. holder # None => topics'[holder] = topics[holder]
    BY <1>1, <1>3, <2>2
  <2> QED
    BY <2>1, <2>2, <2>3, LeadingKept
<1> QED
  BY <1>2, <1>3

LEMMA LeaveLeading ==
  ASSUME Types, Locked, Leading, NEW t \in Tabs, LeaveQueue(t),
         UNCHANGED <<topics, cursor>>, \A x \in Tabs : x # t => shown'[x] = shown[x]
  PROVE  Leading'
<1>1. CASE holder = t
  <2>1. holder' = None /\ inner' = NoClient /\ byTab' = [x \in Tabs |-> {}]
    BY <1>1 DEF LeaveQueue, RequestEnds, LeadEnds
  <2> QED
    BY <2>1 DEF Leading
<1>2. CASE holder # t
  <2>1. holder' = holder /\ inner' = inner /\ byTab' = byTab
    BY <1>2 DEF LeaveQueue, RequestEnds, LeadEnds
  <2>2. holder # None => byTab[holder] = topics[holder] /\ shown'[holder] = shown[holder]
    BY <1>2, QueueFacts DEF Leading
  <2> QED
    BY <2>1, <2>2, LeadingKept
<1> QED
  BY <1>1, <1>2

LEMMA BecomeLeaderLeading ==
  ASSUME Types, Locked, Leading, NEW t \in Tabs, BecomeLeader(t)
  PROVE  Leading'
<1>1. /\ holder' = t /\ UNCHANGED <<topics, cursor>>
      /\ byTab' = [byTab EXCEPT ![t] = topics[t]] /\ byTab \in [Tabs -> SUBSET Topics]
  BY DEF BecomeLeader, Granted, Types
<1>2. /\ inner'.cursor = cursor[t] /\ inner'.asked = {} /\ inner'.state = "idle"
      /\ cursor[t] \in NoCursor..Len(log)
  BY BecomeLeaderTypes DEF Types
<1>3. t # None /\ byTab'[t] = topics'[t] /\ cursor'[t] <= inner'.cursor
  BY <1>1, <1>2, QueueFacts DEF NoCursor
<1> QED
  BY <1>1, <1>2, <1>3 DEF Leading

(* The connection changes its state, and its leader shows it. *)
LEMMA StateLeading ==
  ASSUME Types, Locked, Leading, NEW t \in Tabs, holder = t, NEW state \in States,
         InnerState(t, state), inner'.state = state, inner'.cursor = inner.cursor,
         inner'.asked # {} => state \in {"connecting", "open"},
         UNCHANGED <<holder, topics, cursor, byTab>>
  PROVE  Leading'
<1>1. holder # None
  BY QueueFacts
<1>2. inner.state # state => shown'[t] = state
  BY InnerStateGrows
<1>3. inner.state = state => shown' = shown
  BY InnerStateGrows
<1>4. inner.state # "idle" => shown[t] = inner.state
  BY <1>1 DEF Leading
<1>5. inner'.state # "idle" => shown'[t] = inner'.state
  BY <1>2, <1>3, <1>4
<1> QED
  BY <1>1, <1>5 DEF Leading

LEMMA DialLeading ==
  ASSUME Types, Locked, Leading, NEW t \in Tabs, Dial(t)
  PROVE  Leading'
<1>1. UNCHANGED <<holder, topics, cursor, byTab>> /\ holder = t
  BY DialTypes DEF Dial
<1>2. /\ inner'.cursor = inner.cursor /\ inner'.asked = Union(byTab)
      /\ inner'.state = IF Union(byTab) = {} THEN "idle" ELSE "connecting"
      /\ InnerState(t, inner'.state)
  BY DialTypes
<1>3. inner'.state \in States /\ (inner'.asked # {} => inner'.state \in {"connecting", "open"})
  BY <1>2 DEF States
<1> QED
  BY <1>1, <1>2, <1>3, StateLeading

LEMMA ConnectLeading ==
  ASSUME Types, Locked, Leading, NEW t \in Tabs, Connect(t)
  PROVE  Leading'
<1>1. UNCHANGED <<holder, topics, cursor, byTab>> /\ holder = t
  BY ConnectTypes DEF Connect
<1>2. inner'.cursor = inner.cursor /\ inner'.state = "open" /\ InnerState(t, "open")
  BY ConnectTypes
<1>3. "open" \in States
  BY DEF States
<1> QED
  BY <1>1, <1>2, <1>3, StateLeading

LEMMA DropLeading ==
  ASSUME Types, Locked, Leading, NEW t \in Tabs, Drop(t)
  PROVE  Leading'
<1>1. UNCHANGED <<holder, topics, cursor, byTab>> /\ holder = t
  BY DropTypes DEF Drop
<1>2. inner'.cursor = inner.cursor /\ inner'.state = "connecting" /\ InnerState(t, "connecting")
  BY DropTypes
<1>3. "connecting" \in States
  BY DEF States
<1> QED
  BY <1>1, <1>2, <1>3, StateLeading

(* What the leader reads is after all it has. *)
LEMMA ReadsAhead ==
  ASSUME Types, Locked, Leading, holder # None, Readable # {}
  PROVE  /\ Min(Readable) > inner.cursor
         /\ Min(Readable) > cursor[holder]
<1>1. Min(Readable) \in 1..Len(log) /\ Min(Readable) > Position
  BY NextRead
<1>2. inner.cursor \in NoCursor..Len(log) /\ cursor[holder] \in NoCursor..Len(log) /\ Len(log) \in Nat
  BY TypeFacts, QueueFacts DEF Types
<1>3. cursor[holder] <= inner.cursor
  BY DEF Leading
<1>4. Min(Readable) > inner.cursor
  BY <1>1, <1>2 DEF Position, NoCursor
<1> QED
  BY <1>1, <1>2, <1>3, <1>4 DEF NoCursor

LEMMA FanOutLeading ==
  ASSUME Types, Locked, Leading, NEW t \in Tabs, FanOut(t), NEW k, k = Min(Readable)
  PROVE  /\ Leading'
         /\ k > inner.cursor /\ k > cursor[t]
         /\ log[k] \in Union(byTab) =>
              cursor' = [cursor EXCEPT ![t] = k] /\ heard' = [heard EXCEPT ![t] = @ \cup {k}]
         /\ log[k] \notin Union(byTab) => UNCHANGED <<cursor, heard>>
<1>1. /\ holder = t /\ Readable # {} /\ inner'.cursor = k /\ inner'.asked = inner.asked
      /\ inner'.state = inner.state
  BY FanOutTypes
<1>2. UNCHANGED <<holder, topics, shown, byTab>>
  BY DEF FanOut
<1>3. holder # None
  BY <1>1, QueueFacts
<1>4. k > inner.cursor /\ k > cursor[t]
  BY <1>1, <1>3, ReadsAhead
<1>5. log[k] \in Union(byTab) =>
        cursor' = [cursor EXCEPT ![t] = k] /\ heard' = [heard EXCEPT ![t] = @ \cup {k}]
  BY <1>4 DEF FanOut, Deliver, Ahead
<1>6. log[k] \notin Union(byTab) => UNCHANGED <<cursor, heard>>
  BY DEF FanOut
<1>7. cursor'[t] <= k
  <2>1. cursor \in [Tabs -> NoCursor..Len(log)] /\ k \in 1..Len(log) /\ Len(log) \in Nat
    BY FanOutTypes, TypeFacts DEF Types
  <2>2. cursor'[t] = k \/ cursor'[t] = cursor[t]
    BY <1>5, <1>6, <2>1
  <2> QED
    BY <1>4, <2>1, <2>2 DEF NoCursor
<1>8. Leading'
  BY <1>1, <1>2, <1>3, <1>7 DEF Leading
<1> QED
  BY <1>4, <1>5, <1>6, <1>8

LEMMA LeaderHasNoOwn ==
  ASSUME Types, Locked, OnlyFirst, NEW t \in Tabs, inbox[t] # <<>>, NEW m, m = inbox[t][1],
         m.t \in {"hello", "topics", "bye"}
  PROVE  m.from \in Tabs /\ m.from # t
<1>1. /\ m \in Postable(Len(log)) /\ Len(log) \in Nat /\ inbox[t] \in Seq(Postable(Len(log)))
  BY HandledIs, TypeFacts
<1>2. m \in Message /\ m.from \in Tabs
  BY <1>1, PostedFields
<1>3. m \in From(m.from)
  BY <1>2 DEF From
<1>4. 1 \in 1..Len(inbox[t])
  BY <1>1, Popped
<1>5. NoneIn(inbox[t], From(t))
  BY DEF OnlyFirst
<1>6. m \notin From(t)
  BY <1>4, <1>5 DEF NoneIn
<1> QED
  BY <1>2, <1>3, <1>6

LEMMA ReceiveLeading ==
  ASSUME Types, Locked, Leading, OnlyFirst, NEW t \in Tabs, Receive(t)
  PROVE  Leading'
<1> DEFINE m == inbox[t][1]
<1>1. Open(t) /\ inbox[t] # <<>> /\ UNCHANGED <<log, queue, holder, status, topics, owed, skipped>>
  BY ReceiveCases
<1>2. CASE holder = t
  <2>1. LeaderReceives(t, m)
    BY <1>2, ReceiveCases
  <2>2. /\ inner'.cursor = inner.cursor /\ inner'.state = inner.state
        /\ inner'.asked \in {inner.asked, {}} /\ UNCHANGED <<cursor, heard, shown>>
    BY <1>1, <2>1, LeaderReceivesTypes
  <2>3. byTab'[t] = byTab[t]
    <3>1. m.t \in {"hello", "topics", "bye"} => m.from \in Tabs /\ m.from # t
      BY <1>1, LeaderHasNoOwn
    <3>2. byTab \in [Tabs -> SUBSET Topics]
      BY DEF Types
    <3>3. \/ m.t \in {"hello", "topics"} /\ byTab' = [byTab EXCEPT ![m.from] = m.topics]
          \/ m.t = "bye" /\ byTab' = [byTab EXCEPT ![m.from] = {}]
          \/ byTab' = byTab
      BY <2>1 DEF LeaderReceives
    <3> HIDE DEF m
    <3> QED
      BY <3>1, <3>2, <3>3
  <2>4. holder # None /\ byTab[t] = topics[t]
    BY <1>2, QueueFacts DEF Leading
  <2> QED
    BY <1>1, <1>2, <2>2, <2>3, <2>4, LeadingKept
<1>3. CASE holder # t
  <2>1. FollowerReceives(t, m)
    BY <1>3, ReceiveCases
  <2>2. /\ UNCHANGED <<byTab, inner>>
        /\ \A x \in Tabs : x # t => cursor'[x] = cursor[x] /\ shown'[x] = shown[x]
    BY <1>1, <2>1, FollowerReceivesTypes
  <2>3. holder # None => holder \in Tabs /\ byTab[holder] = topics[holder]
    BY QueueFacts DEF Leading
  <2> QED
    BY <1>1, <1>3, <2>2, <2>3, LeadingKept
<1> QED
  BY <1>2, <1>3

LEMMA NextLeading ==
  ASSUME Types, Locked, Leading, OnlyFirst, [Next]_vars
  PROVE  Leading'
<1>1. ASSUME NEW topic \in Topics, Accept(topic) PROVE Leading'
  BY <1>1, LeadingKept DEF Accept, tabVars, leadVars, Leading
<1>2. ASSUME NEW t \in Tabs, Construct(t) PROVE Leading'
  BY <1>2, ConstructLeading
<1>3. ASSUME NEW t \in Tabs, NEW topic \in Topics, Subscribe(t, topic) PROVE Leading'
  <2>1. topics[t] \cup {topic} \in SUBSET Topics
    BY DEF Types
  <2> QED
    BY <1>3, <2>1, PublishLeading DEF Subscribe
<1>4. ASSUME NEW t \in Tabs, NEW topic \in Topics, Release(t, topic) PROVE Leading'
  <2>1. topics[t] \ {topic} \in SUBSET Topics
    BY DEF Types
  <2> QED
    BY <1>4, <2>1, PublishLeading DEF Release
<1>5. ASSUME NEW t \in Tabs, Reconnect(t) PROVE Leading'
  <2>1. UNCHANGED <<holder, topics, cursor, shown, byTab>>
    BY <1>5 DEF Reconnect, tabVars
  <2>2. /\ inner'.cursor = inner.cursor /\ inner'.state = inner.state
        /\ inner'.asked \in {inner.asked, {}}
    BY <1>5, ReconnectTypes
  <2>3. holder = None => inner' = inner
    BY <1>5 DEF Reconnect, Leads, None, Tabs
  <2> QED
    BY <2>1, <2>2, <2>3, LeadingKept DEF Leading
<1>6. ASSUME NEW t \in Tabs, Close(t) PROVE Leading'
  <2>1. \A x \in Tabs : x # t => shown'[x] = shown[x]
    BY <1>6 DEF Close, Types
  <2>2. LeaveQueue(t)
    BY <1>6 DEF Close, Abort, LeaveQueue
  <2> QED
    BY <1>6, <2>1, <2>2, LeaveLeading DEF Close
<1>7. ASSUME NEW t \in Tabs, Die(t) PROVE Leading'
  BY <1>7, LeaveLeading DEF Die, tabVars
<1>8. ASSUME NEW t \in Tabs, Works(t) \/ Drop(t) PROVE Leading'
  BY <1>8, ReceiveLeading, BecomeLeaderLeading, DialLeading, ConnectLeading, FanOutLeading,
     DropLeading DEF Works
<1>9. CASE Unload \/ UNCHANGED vars
  BY <1>9 DEF Unload, vars, tabVars, leadVars, Leading
<1> QED
  BY <1>1, <1>2, <1>3, <1>4, <1>5, <1>6, <1>7, <1>8, <1>9 DEF Next

-----------------------------------------------------------------------------
(* Who wants what.                                                         *)

LEMMA AskedJoined ==
  ASSUME Types, NEW e, NEW gone, Grows(e, gone), NEW x \in Tabs, x # gone, Asked(x)
  PROVE  Asked(x)'
<1>1. /\ inbox[x] \in Seq(Postable(Len(log))) /\ e[x] \in Seq(Postable(Len(log)))
      /\ inbox'[x] = inbox[x] \o e[x]
  BY TypeFacts DEF Grows
<1>2. ~NoneIn(inbox[x] \o e[x], {Lead})
  BY <1>1, NoneInJoined DEF Asked
<1> QED
  BY <1>1, <1>2 DEF Asked

(* Only a tab's own words, at the first in line, are news about it. *)
LEMMA WordsGrow ==
  ASSUME Types, Locked, Membership, NEW e, NEW gone, Grows(e, gone),
         queue # <<>>, queue' # <<>>, queue'[1] = queue[1], gone # queue[1],
         \A l, x \in Tabs : (l # queue[1] \/ x = l) => NoneIn(e[l], From(x)),
         \A x \in Tabs : x # queue[1] =>
           /\ LastIn(e[queue[1]], From(x), Saying(x, Wants(x)'))
           /\ NoneIn(e[queue[1]], From(x)) => Wants(x)' = Wants(x)
  PROVE  OnlyFirst' /\ \A x \in Tabs : Heard(x)'
<1> DEFINE h == queue[1]
<1>1. h \in Tabs
  BY QueueFacts
<1>2. \A l \in Tabs : inbox[l] \in Seq(Postable(Len(log))) /\ e[l] \in Seq(Postable(Len(log)))
  BY TypeFacts DEF Grows
<1>3. \A l \in Tabs : inbox'[l] = IF l = gone THEN <<>> ELSE inbox[l] \o e[l]
  BY DEF Grows
<1>4. OnlyFirst'
  <2> SUFFICES ASSUME NEW l \in Tabs, NEW x \in Tabs, l # h \/ x = l
               PROVE  NoneIn(inbox'[l], From(x))
    BY DEF OnlyFirst
  <2>1. NoneIn(inbox[l], From(x)) /\ NoneIn(e[l], From(x))
    BY DEF Membership, OnlyFirst
  <2>2. NoneIn(<<>>, From(x))
    BY Few
  <2> QED
    BY <1>2, <1>3, <2>1, <2>2, NoneInJoined
<1>5. inbox'[h] = inbox[h] \o e[h]
  BY <1>1, <1>3
<1>6. ASSUME NEW x \in Tabs, x # h PROVE Heard(x)'
  <2>1. NoneIn(e[h], From(x)) => LastIn(inbox[h], From(x), Saying(x, Wants(x)'))
    BY <1>6 DEF Membership, Heard
  <2>2. LastIn(e[h], From(x), Saying(x, Wants(x)'))
    BY <1>6
  <2>3. LastIn(inbox'[h], From(x), Saying(x, Wants(x)'))
    BY <1>1, <1>2, <1>5, <2>1, <2>2, LastInJoined
  <2> QED
    BY <2>3 DEF Heard
<1>7. \A x \in Tabs : Heard(x)'
  BY <1>6 DEF Heard
<1> QED
  BY <1>4, <1>7

LEMMA MembershipGrows ==
  ASSUME Types, Locked, Membership, NEW e, NEW gone, Grows(e, gone),
         queue # <<>>, queue' # <<>>, queue'[1] = queue[1], gone # queue[1], holder' = holder,
         \A l, x \in Tabs : (l # queue[1] \/ x = l) => NoneIn(e[l], From(x)),
         \A x \in Tabs : x # queue[1] =>
           /\ LastIn(e[queue[1]], From(x), Saying(x, Wants(x)'))
           /\ NoneIn(e[queue[1]], From(x)) =>
                Wants(x)' = Wants(x) /\ (Open(x)' => Open(x) /\ x # gone),
         \A x \in Tabs : x # holder => byTab'[x] = byTab[x]
  PROVE  Membership'
<1> DEFINE h == queue[1]
<1>1. h \in Tabs /\ (holder # None => holder = h)
  BY QueueFacts DEF Locked
<1>2. \A l \in Tabs : inbox[l] \in Seq(Postable(Len(log))) /\ e[l] \in Seq(Postable(Len(log)))
  BY TypeFacts DEF Grows
<1>3. inbox'[h] = inbox[h] \o e[h]
  BY <1>1 DEF Grows
<1>4. OnlyFirst' /\ \A x \in Tabs : Heard(x)'
  BY WordsGrow
<1>5. ASSUME NEW x \in Tabs PROVE Known(x)'
  <2> SUFFICES ASSUME holder # None, x # holder, NoneIn(inbox'[holder], From(x))
               PROVE  byTab'[x] = Wants(x)' \/ (byTab'[x] = {} /\ (Open(x)' => Asked(x)'))
    BY DEF Known
  <2>1. NoneIn(inbox[h], From(x)) /\ NoneIn(e[h], From(x))
    <3>1. NoneIn(inbox[h] \o e[h], From(x))
      BY <1>1, <1>3
    <3>2. inbox[h] \in Seq(Postable(Len(log))) /\ e[h] \in Seq(Postable(Len(log)))
      BY <1>1, <1>2
    <3> QED
      BY <3>1, <3>2, NoneInJoined
  <2>2. Wants(x)' = Wants(x) /\ (Open(x)' => Open(x) /\ x # gone) /\ byTab'[x] = byTab[x]
    BY <1>1, <2>1
  <2>3. byTab[x] = Wants(x) \/ (byTab[x] = {} /\ (Open(x) => Asked(x)))
    BY <1>1, <2>1 DEF Membership, Known
  <2>4. ASSUME Open(x)', Asked(x) PROVE Asked(x)'
    <3>1. x # gone
      BY <2>2, <2>4
    <3> QED
      BY <2>4, <3>1, AskedJoined
  <2>5. CASE byTab[x] = Wants(x)
    BY <2>2, <2>5
  <2>6. CASE byTab[x] = {} /\ (Open(x) => Asked(x))
    <3>1. Open(x)' => Asked(x)'
      BY <2>2, <2>4, <2>6
    <3> QED
      BY <2>2, <2>6, <3>1
  <2> QED
    BY <2>3, <2>5, <2>6
<1> QED
  BY <1>4, <1>5 DEF Membership

LEMMA MembershipInit == Init => Membership
<1> SUFFICES ASSUME Init PROVE Membership
  OBVIOUS
<1>1. \A l, x \in Tabs : NoneIn(inbox[l], From(x))
  BY Few DEF Init
<1> QED
  BY <1>1 DEF Init, Membership, OnlyFirst, Heard, Known

LEMMA NothingSays ==
  ASSUME NEW x \in Tabs
  PROVE  \A l \in Tabs : \A F, G : NoneIn(Nothing[l], F) /\ LastIn(Nothing[l], F, G)
  BY Few DEF Nothing

(* What is said to all is nothing about a tab. *)
LEMMA AllSay ==
  ASSUME NEW t, NEW m, NEW F, m \notin F, NEW l \in Tabs
  PROVE  NoneIn(ToAll(t, <<m>>)[l], F)
  BY Few DEF ToAll

LEMMA FirstSays ==
  ASSUME NEW t, NEW ms, NEW F, NEW l \in Tabs, NoneIn(ms, F) \/ l = t \/ l # queue[1]
  PROVE  NoneIn(ToFirst(t, ms)[l], F)
  BY Few DEF ToFirst

(* A step after which all want what they wanted, and nothing was said. *)
LEMMA MembershipStill ==
  ASSUME Types, Locked, Membership, NEW e, NEW gone, Grows(e, gone),
         queue # <<>>, queue' # <<>>, queue'[1] = queue[1], gone # queue[1],
         holder' = holder, \A x \in Tabs : x # holder => byTab'[x] = byTab[x],
         \A l, x \in Tabs : NoneIn(e[l], From(x)),
         \A x \in Tabs : x # queue[1] =>
           Wants(x)' = Wants(x) /\ (Open(x)' => Open(x) /\ x # gone)
  PROVE  Membership'
<1>1. queue[1] \in Tabs
  BY QueueFacts
<1>2. \A x \in Tabs : LastIn(e[queue[1]], From(x), Saying(x, Wants(x)'))
  BY <1>1, NoneIsLast
<1> QED
  BY <1>2, MembershipGrows

LEMMA ConstructMembership ==
  ASSUME Types, Locked, Leading, Membership, NEW t \in Tabs, Construct(t)
  PROVE  Membership'
<1> DEFINE ms == <<Hello(t, {}), TopicsOf(t, Mounts[t])>>
           e == ToFirst(t, ms)
<1>1. /\ ~Open(t) /\ status[t] = "absent" /\ Mounts[t] \in SUBSET Topics /\ {} \in SUBSET Topics
      /\ status' = [status EXCEPT ![t] = "open"] /\ topics' = [topics EXCEPT ![t] = Mounts[t]]
      /\ queue' = Append(queue, t) /\ UNCHANGED <<holder, byTab>>
  BY SharedAssumption DEF SharedAssumption, Construct, Open, leadVars
<1>2. Grows(e, None)
  BY ConstructTypes
<1>3. /\ queue # <<>> => queue'[1] = queue[1]
      /\ queue = <<>> => queue'[1] = t
      /\ queue' # <<>>
  BY <1>1, JoinsQueue DEF Types
<1>4. Hello(t, {}) \in From(t) /\ TopicsOf(t, Mounts[t]) \in From(t) \cap Saying(t, Mounts[t])
  BY <1>1, Saids
<1>5. \A x \in Tabs : x # t => NoneIn(ms, From(x))
  BY WhoSays, Few
<1>6. /\ Wants(t)' = Mounts[t]
      /\ \A x \in Tabs : x # t => Wants(x)' = Wants(x) /\ (Open(x)' <=> Open(x))
  BY <1>1 DEF Wants, Open, Types
<1>7. CASE queue # <<>>
  <2> DEFINE h == queue[1]
  <2>1. h \in Tabs /\ h # t /\ h # None
    BY <1>1, <1>7, QueueFacts
  <2>2. e[h] = ms
    BY <1>7, <2>1 DEF ToFirst
  <2> HIDE DEF e, ms
  <2>3. \A l, x \in Tabs : (l # h \/ x = l) => NoneIn(e[l], From(x))
    <3> SUFFICES ASSUME NEW l \in Tabs, NEW x \in Tabs, l # h \/ x = l
                 PROVE  NoneIn(e[l], From(x))
      OBVIOUS
    <3>1. l # h => NoneIn(e[l], From(x))
      BY FirstSays DEF e
    <3>2. l = h => NoneIn(e[l], From(x))
      BY <1>5, <2>1, <2>2
    <3> QED
      BY <3>1, <3>2
  <2>4. ASSUME NEW x \in Tabs, x # h
        PROVE  /\ LastIn(e[h], From(x), Saying(x, Wants(x)'))
               /\ NoneIn(e[h], From(x)) =>
                    Wants(x)' = Wants(x) /\ (Open(x)' => Open(x) /\ x # None)
    <3>1. CASE x = t
      <4>1. LastIn(ms, From(t), Saying(t, Mounts[t])) /\ ~NoneIn(ms, From(t))
        BY <1>4, Few DEF ms
      <4> QED
        BY <1>6, <2>2, <3>1, <4>1
    <3>2. CASE x # t
      <4>1. NoneIn(e[h], From(x))
        BY <1>5, <2>2, <3>2
      <4>2. x # None
        BY QueueFacts
      <4> QED
        BY <1>6, <3>2, <4>1, <4>2, NoneIsLast
    <3> QED
      BY <3>1, <3>2
  <2> QED
    BY <1>1, <1>2, <1>3, <1>7, <2>1, <2>3, <2>4, MembershipGrows
<1>8. CASE queue = <<>>
  <2>1. holder = None
    BY <1>8 DEF Locked
  <2>2. \A l \in Tabs : ~Open(l) /\ inbox[l] = <<>> /\ e[l] = <<>>
    BY <1>8, QueueFacts, TypeFacts DEF ToFirst
  <2>3. <<>> \o <<>> = <<>>
    BY EmptySeq, ConcatEmptySeq
  <2>4. \A l \in Tabs : inbox'[l] = <<>>
    BY <1>2, <2>2, <2>3 DEF Grows
  <2>5. \A l, x \in Tabs : NoneIn(inbox'[l], From(x))
    BY <2>4, Few
  <2>6. queue'[1] = t
    BY <1>3, <1>8
  <2>7. \A x \in Tabs : LastIn(inbox'[t], From(x), Saying(x, Wants(x)'))
    BY <2>5, NoneIsLast
  <2> QED
    BY <1>1, <2>1, <2>5, <2>6, <2>7 DEF Membership, OnlyFirst, Heard, Known
<1> QED
  BY <1>7, <1>8

LEMMA PublishMembership ==
  ASSUME Types, Locked, Leading, Membership, NEW t \in Tabs, Open(t), NEW T \in SUBSET Topics,
         topics' = [topics EXCEPT ![t] = T], PublishTopics(t, topics'[t]),
         UNCHANGED <<log, queue, holder, status, cursor, shown, inner>>
  PROVE  Membership'
<1>1. topics'[t] = T /\ topics \in [Tabs -> SUBSET Topics]
  BY DEF Types
<1>2. queue # <<>> /\ queue' # <<>> /\ queue'[1] = queue[1] /\ None # queue[1]
  BY QueueFacts
<1>3. \A x \in Tabs : x # t => Wants(x)' = Wants(x)
  BY <1>1 DEF Wants
<1>4. \A x \in Tabs : Open(x)' <=> Open(x)
  BY DEF Open
<1>5. Wants(t)' = T
  BY <1>1 DEF Wants, Open
<1>6. \A x \in Tabs : x # None
  BY QueueFacts
<1>7. CASE holder = t
  <2>1. Grows(Nothing, None) /\ byTab' = [byTab EXCEPT ![t] = T]
    BY <1>1, <1>7, PublishTypes
  <2>2. \A x \in Tabs : x # t => byTab'[x] = byTab[x]
    BY <2>1 DEF Types
  <2>3. queue[1] = t
    BY <1>6, <1>7 DEF Locked
  <2>4. \A l, x \in Tabs : NoneIn(Nothing[l], From(x))
    BY NothingSays
  <2>5. \A x \in Tabs : x # queue[1] =>
          Wants(x)' = Wants(x) /\ (Open(x)' => Open(x) /\ x # None)
    BY <1>3, <1>4, <1>6, <2>3
  <2>6. holder' = holder /\ \A x \in Tabs : x # holder => byTab'[x] = byTab[x]
    BY <1>7, <2>2
  <2> QED
    BY <1>2, <2>1, <2>4, <2>5, <2>6, MembershipStill
<1>8. CASE holder # t
  <2> DEFINE ms == <<TopicsOf(t, T)>>
             e == ToFirst(t, ms)
             h == queue[1]
  <2>1. Grows(e, None) /\ byTab' = byTab
    BY <1>1, <1>8, PublishTypes
  <2>2. h \in Tabs
    BY <1>2, QueueFacts
  <2>3. t # h => e[h] = ms
    BY <1>2, <2>2 DEF ToFirst
  <2>4. \A x \in Tabs : x # t => NoneIn(ms, From(x))
    BY WhoSays, Few
  <2>5. LastIn(ms, From(t), Saying(t, T)) /\ ~NoneIn(ms, From(t))
    <3>1. TopicsOf(t, T) \in From(t) /\ TopicsOf(t, T) \in Saying(t, T)
      BY Saids
    <3>2. Len(ms) = 1 /\ ms[1] = TopicsOf(t, T)
      OBVIOUS
    <3> HIDE DEF ms
    <3> QED
      BY <3>1, <3>2 DEF NoneIn, LastIn
  <2> HIDE DEF ms, h
  <2>6. \A l, x \in Tabs : (l # h \/ x = l) => NoneIn(e[l], From(x))
    <3> SUFFICES ASSUME NEW l \in Tabs, NEW x \in Tabs, l # h \/ x = l
                 PROVE  NoneIn(e[l], From(x))
      OBVIOUS
    <3>1. NoneIn(ms, From(x)) \/ l = t \/ l # queue[1]
      BY <2>4 DEF h
    <3> QED
      BY <3>1, FirstSays
  <2> HIDE DEF e
  <2>7. ASSUME NEW x \in Tabs, x # h
        PROVE  /\ LastIn(e[h], From(x), Saying(x, Wants(x)'))
               /\ NoneIn(e[h], From(x)) =>
                    Wants(x)' = Wants(x) /\ (Open(x)' => Open(x) /\ x # None)
    <3>1. CASE x = t
      BY <1>5, <2>3, <2>5, <2>7, <3>1
    <3>2. CASE x # t
      <4>1. NoneIn(e[h], From(x))
        <5>1. NoneIn(ms, From(x))
          BY <2>4, <3>2
        <5> QED
          BY <2>2, <5>1, FirstSays DEF e
      <4> QED
        BY <1>3, <1>4, <1>6, <3>2, <4>1, NoneIsLast
    <3> QED
      BY <3>1, <3>2
  <2> QED
    BY <1>2, <2>1, <2>6, <2>7, MembershipGrows DEF h
<1> QED
  BY <1>7, <1>8

LEMMA Silent ==
  ASSUME NEW t, NEW m, \A x \in Tabs : m \notin From(x)
  PROVE  /\ \A l, x \in Tabs : NoneIn(ToAll(t, <<m>>)[l], From(x))
         /\ \A l, x \in Tabs : NoneIn(ToFirst(t, <<m>>)[l], From(x))
<1> SUFFICES ASSUME NEW l \in Tabs, NEW x \in Tabs
             PROVE  NoneIn(ToAll(t, <<m>>)[l], From(x)) /\ NoneIn(ToFirst(t, <<m>>)[l], From(x))
  OBVIOUS
<1>1. NoneIn(<<m>>, From(x)) /\ NoneIn(<<>>, From(x))
  BY Few
<1> QED
  BY <1>1 DEF ToAll, ToFirst

(* A step that says nothing of any tab, and changes nothing it wants. *)
LEMMA QuietMembership ==
  ASSUME Types, Locked, Membership, NEW e, Grows(e, None), queue # <<>>,
         UNCHANGED <<queue, holder, status, topics, byTab>>,
         \A l, x \in Tabs : NoneIn(e[l], From(x))
  PROVE  Membership'
<1>1. None # queue[1] /\ \A x \in Tabs : x # None
  BY QueueFacts
<1>2. \A x \in Tabs : Wants(x)' = Wants(x) /\ (Open(x)' => Open(x) /\ x # None)
  BY <1>1 DEF Wants, Open
<1> QED
  BY <1>1, <1>2, MembershipStill

LEMMA ReconnectMembership ==
  ASSUME Types, Locked, Membership, NEW t \in Tabs, Reconnect(t)
  PROVE  Membership'
<1> DEFINE e == IF holder = t THEN Nothing ELSE ToFirst(t, <<ReconnectPlease>>)
<1>1. Grows(e, None)
  BY ReconnectTypes
<1>2. queue # <<>> /\ UNCHANGED <<queue, holder, status, topics, byTab>>
  BY QueueFacts DEF Reconnect, tabVars
<1>3. \A l, x \in Tabs : NoneIn(ToFirst(t, <<ReconnectPlease>>)[l], From(x))
  BY WhoSays, Silent
<1>4. \A l, x \in Tabs : NoneIn(Nothing[l], From(x))
  BY NothingSays
<1>5. \A l, x \in Tabs : NoneIn(e[l], From(x))
  BY <1>3, <1>4
<1> HIDE DEF e
<1> QED
  BY <1>1, <1>2, <1>5, QuietMembership

LEMMA StateMembership ==
  ASSUME Types, Locked, Membership, NEW t \in Tabs, holder = t, NEW state,
         Grows(Announced(t, state), None), UNCHANGED <<queue, holder, status, topics, byTab>>
  PROVE  Membership'
<1>1. queue # <<>>
  BY QueueFacts
<1>2. \A l, x \in Tabs : NoneIn(ToAll(t, <<StateIs(state)>>)[l], From(x))
  BY WhoSays, Silent
<1>3. \A l, x \in Tabs : NoneIn(Nothing[l], From(x))
  BY NothingSays
<1>4. \A l, x \in Tabs : NoneIn(Announced(t, state)[l], From(x))
  BY <1>2, <1>3 DEF Announced
<1> QED
  BY <1>1, <1>4, QuietMembership

LEMMA ConnectionMembership ==
  ASSUME Types, Locked, Membership, NEW t \in Tabs, Dial(t) \/ Connect(t) \/ Drop(t)
  PROVE  Membership'
<1>1. UNCHANGED <<queue, holder, status, topics, byTab>>
  BY DEF Dial, Connect, Drop
<1>2. holder = t /\ \E state : Grows(Announced(t, state), None)
  BY DialTypes, ConnectTypes, DropTypes
<1> QED
  BY <1>1, <1>2, StateMembership

LEMMA FanOutMembership ==
  ASSUME Types, Locked, Membership, NEW t \in Tabs, FanOut(t)
  PROVE  Membership'
<1> DEFINE k == Min(Readable)
           e == IF log[k] \in Union(byTab) THEN ToAll(t, <<Event(k)>>) ELSE Nothing
<1>1. holder = t /\ Grows(e, None)
  BY FanOutTypes
<1>2. queue # <<>> /\ UNCHANGED <<queue, holder, status, topics, byTab>>
  BY <1>1, QueueFacts DEF FanOut
<1> HIDE DEF k
<1>3. \A l, x \in Tabs : NoneIn(ToAll(t, <<Event(k)>>)[l], From(x))
  BY WhoSays, Silent
<1>4. \A l, x \in Tabs : NoneIn(Nothing[l], From(x))
  BY NothingSays
<1>5. \A l, x \in Tabs : NoneIn(e[l], From(x))
  BY <1>3, <1>4
<1> HIDE DEF e
<1> QED
  BY <1>1, <1>2, <1>5, QuietMembership

(* The first in line goes: nothing was said to the others. *)
LEMMA FirstLeavesMembership ==
  ASSUME Types, Locked, Membership, NEW e, queue # <<>>, Grows(e, queue[1]),
         \A l, x \in Tabs : l # queue[1] => NoneIn(e[l], From(x)),
         holder' = None, Locked'
  PROVE  Membership'
<1>1. ASSUME NEW l \in Tabs, NEW x \in Tabs PROVE NoneIn(inbox'[l], From(x))
  <2>1. CASE l = queue[1]
    <3>1. inbox'[l] = <<>>
      BY <2>1 DEF Grows
    <3> QED
      BY <3>1, Few
  <2>2. CASE l # queue[1]
    <3>1. NoneIn(inbox[l], From(x)) /\ NoneIn(e[l], From(x))
      BY <2>2 DEF Membership, OnlyFirst
    <3>2. inbox[l] \in Seq(Postable(Len(log))) /\ e[l] \in Seq(Postable(Len(log)))
      BY TypeFacts DEF Grows
    <3>3. inbox'[l] = inbox[l] \o e[l]
      BY <2>2 DEF Grows
    <3> QED
      BY <3>1, <3>2, <3>3, NoneInJoined
  <2> QED
    BY <2>1, <2>2
<1>2. OnlyFirst'
  BY <1>1 DEF OnlyFirst
<1>3. \A x \in Tabs : Heard(x)'
  <2> SUFFICES ASSUME NEW x \in Tabs, queue' # <<>>, x # queue'[1]
               PROVE  LastIn(inbox'[queue'[1]], From(x), Saying(x, Wants(x)'))
    BY DEF Heard
  <2>1. queue'[1] \in Tabs
    <3>1. queue' \in Seq(Tabs)
      BY DEF Locked
    <3> QED
      BY <3>1, Popped
  <2> QED
    BY <1>1, <2>1, NoneIsLast
<1>4. \A x \in Tabs : Known(x)'
  BY DEF Known
<1> QED
  BY <1>2, <1>3, <1>4 DEF Membership

LEMMA CloseMembership ==
  ASSUME Types, Locked, Leading, Membership, NEW t \in Tabs, Close(t)
  PROVE  Membership'
<1> DEFINE h == queue[1]
           ms == <<Bye(t)>>
           e == IF holder = t THEN ToAll(t, <<StateIs("closed")>>) ELSE ToFirst(t, ms)
<1>1. /\ Open(t) /\ LeaveQueue(t) /\ status' = [status EXCEPT ![t] = "closed"]
      /\ UNCHANGED <<log, topics>>
      /\ status \in [Tabs -> {"absent", "open", "closed", "dead"}]
  BY DEF Close, Abort, LeaveQueue, Types
<1>2. Grows(e, t) /\ Locked'
  BY CloseTypes
<1>3. /\ t # h => queue' # <<>> /\ queue'[1] = h
      /\ queue # <<>>
      /\ \A x \in Tabs : x # t => (Open(x)' <=> Open(x))
  BY <1>1, LeavesQueue
<1>4. h \in Tabs /\ (holder # None => holder = h) /\ holder \in Tabs \cup {None} /\ t # None
  BY <1>3, QueueFacts DEF Locked
<1>5. CASE t = h
  <2>1. holder' = None
    BY <1>1, <1>4, <1>5 DEF LeaveQueue, RequestEnds, LeadEnds
  <2>2. \A l, x \in Tabs : NoneIn(ToAll(t, <<StateIs("closed")>>)[l], From(x))
    BY WhoSays, Silent
  <2>3. \A l, x \in Tabs : NoneIn(ToFirst(t, ms)[l], From(x))
    BY <1>5, FirstSays
  <2>4. \A l, x \in Tabs : NoneIn(e[l], From(x))
    BY <2>2, <2>3
  <2> HIDE DEF e
  <2> QED
    BY <1>2, <1>3, <1>5, <2>1, <2>4, FirstLeavesMembership
<1>6. CASE t # h
  <2>1. holder # t /\ holder' = holder /\ byTab' = byTab
    BY <1>1, <1>4, <1>6 DEF LeaveQueue, RequestEnds, LeadEnds
  <2>2. e[h] = ms
    BY <1>3, <1>4, <1>6, <2>1 DEF ToFirst
  <2>3. LastIn(ms, From(t), Saying(t, {})) /\ ~NoneIn(ms, From(t))
    <3>1. Bye(t) \in From(t) /\ Bye(t) \in Saying(t, {})
      <4>1. {} \in SUBSET Topics
        OBVIOUS
      <4> QED
        BY <4>1, Saids
    <3>2. Len(ms) = 1 /\ ms[1] = Bye(t)
      OBVIOUS
    <3> HIDE DEF ms
    <3> QED
      BY <3>1, <3>2 DEF NoneIn, LastIn
  <2>4. \A x \in Tabs : x # t => NoneIn(ms, From(x))
    BY WhoSays, Few
  <2>5. /\ Wants(t)' = {}
        /\ \A x \in Tabs : x # t => Wants(x)' = Wants(x)
    BY <1>1 DEF Wants
  <2> HIDE DEF ms
  <2>6. \A l, x \in Tabs : l # h => NoneIn(e[l], From(x))
    BY <2>1, FirstSays
  <2>7. NoneIn(ms, From(h))
    BY <1>4, <1>6, <2>4
  <2> HIDE DEF e
  <2>8. ASSUME NEW x \in Tabs, x # h
        PROVE  /\ LastIn(e[h], From(x), Saying(x, Wants(x)'))
               /\ NoneIn(e[h], From(x)) =>
                    Wants(x)' = Wants(x) /\ (Open(x)' => Open(x) /\ x # t)
    <3>1. CASE x = t
      BY <2>2, <2>3, <2>5, <3>1
    <3>2. CASE x # t
      <4>1. NoneIn(e[h], From(x))
        BY <2>2, <2>4, <3>2
      <4> QED
        BY <1>3, <2>5, <3>2, <4>1, NoneIsLast
    <3> QED
      BY <3>1, <3>2
  <2>9. \A l, x \in Tabs : (l # h \/ x = l) => NoneIn(e[l], From(x))
    BY <2>2, <2>6, <2>7
  <2> QED
    BY <1>2, <1>3, <1>6, <2>1, <2>8, <2>9, MembershipGrows
<1> QED
  BY <1>5, <1>6

LEMMA DieMembership ==
  ASSUME Types, Locked, Leading, Membership, NEW t \in Tabs, Die(t)
  PROVE  Membership'
<1> DEFINE h == queue[1]
<1>1. /\ Open(t) /\ LeaveQueue(t) /\ status' = [status EXCEPT ![t] = "dead"]
      /\ UNCHANGED <<log, topics>>
      /\ status \in [Tabs -> {"absent", "open", "closed", "dead"}]
  BY DEF Die, tabVars, Types
<1>2. Grows(Nothing, t) /\ Locked'
  BY DieTypes
<1>3. /\ t # h => queue' # <<>> /\ queue'[1] = h
      /\ queue # <<>>
      /\ \A x \in Tabs : x # t => (Open(x)' <=> Open(x))
      /\ ~Open(t)'
  BY <1>1, LeavesQueue
<1>4. h \in Tabs /\ (holder # None => holder = h) /\ holder \in Tabs \cup {None} /\ t # None
  BY <1>3, QueueFacts DEF Locked
<1>5. \A l, x \in Tabs : NoneIn(Nothing[l], From(x))
  BY NothingSays
<1>6. CASE t = h
  <2>1. holder' = None
    BY <1>1, <1>4, <1>6 DEF LeaveQueue, RequestEnds, LeadEnds
  <2> QED
    BY <1>2, <1>3, <1>5, <1>6, <2>1, FirstLeavesMembership
<1>7. CASE t # h
  <2>1. holder # t /\ holder' = holder /\ byTab' = byTab
    BY <1>1, <1>4, <1>7 DEF LeaveQueue, RequestEnds, LeadEnds
  <2>2. \A x \in Tabs : Wants(x)' = Wants(x)
    BY <1>1 DEF Wants, Open
  <2>3. \A x \in Tabs : Open(x)' => Open(x) /\ x # t
    BY <1>3
  <2> QED
    BY <1>2, <1>3, <1>5, <1>7, <2>1, <2>2, <2>3, MembershipStill
<1> QED
  BY <1>6, <1>7

LEMMA BecomeLeaderMembership ==
  ASSUME Types, Locked, Leading, Membership, NEW t \in Tabs, BecomeLeader(t)
  PROVE  Membership'
<1> DEFINE e == ToAll(t, <<Lead>>)
<1>1. /\ holder = None /\ UNCHANGED <<queue, status, topics>>
      /\ byTab' = [byTab EXCEPT ![t] = topics[t]]
  BY DEF BecomeLeader, Granted
<1>2. Grows(e, None) /\ queue # <<>> /\ queue[1] = t /\ holder' = t
  BY BecomeLeaderTypes
<1>3. byTab = [x \in Tabs |-> {}]
  BY <1>1 DEF Leading
<1>4. \A l, x \in Tabs : NoneIn(e[l], From(x))
  BY WhoSays, Silent
<1>5. ASSUME NEW x \in Tabs, x # t, Open(x) PROVE Asked(x)'
  <2>1. e[x] = <<Lead>>
    BY <1>5 DEF ToAll
  <2>2. ~NoneIn(<<Lead>>, {Lead})
    BY Few
  <2>3. inbox[x] \in Seq(Postable(Len(log))) /\ e[x] \in Seq(Postable(Len(log)))
    BY <1>2, TypeFacts DEF Grows
  <2>4. inbox'[x] = inbox[x] \o e[x]
    BY <1>2, QueueFacts DEF Grows
  <2> HIDE DEF e
  <2>5. ~NoneIn(inbox[x] \o e[x], {Lead})
    BY <2>1, <2>2, <2>3, NoneInJoined
  <2> QED
    BY <2>4, <2>5 DEF Asked
<1> HIDE DEF e
<1>6. None # queue[1] /\ \A x \in Tabs : Wants(x)' = Wants(x) /\ (Open(x)' <=> Open(x))
  BY <1>1, <1>2, QueueFacts DEF Wants, Open
<1>7. \A x \in Tabs : LastIn(e[queue[1]], From(x), Saying(x, Wants(x)'))
  BY <1>2, <1>4, NoneIsLast
<1>8. OnlyFirst' /\ \A x \in Tabs : Heard(x)'
  BY <1>1, <1>2, <1>4, <1>6, <1>7, WordsGrow
<1>9. ASSUME NEW x \in Tabs PROVE Known(x)'
  <2> SUFFICES ASSUME x # t PROVE byTab'[x] = {} /\ (Open(x)' => Asked(x)')
    BY <1>2 DEF Known
  <2>1. byTab'[x] = {}
    BY <1>1, <1>3
  <2> QED
    BY <1>5, <1>6, <2>1
<1> QED
  BY <1>8, <1>9 DEF Membership

(* What a step that reads a message leaves in the inboxes. *)
LEMMA PopsNone ==
  ASSUME Types, NEW t \in Tabs, inbox[t] # <<>>, NEW e, Pops(t, e), NEW l \in Tabs, NEW F
  PROVE  /\ (NoneIn(inbox[l], F) /\ NoneIn(e[l], F)) => NoneIn(inbox'[l], F)
         /\ NoneIn(inbox'[l], F) =>
              /\ NoneIn(e[l], F)
              /\ NoneIn(inbox[l], F) \/ (l = t /\ inbox[t][1] \in F)
<1>1. /\ inbox[l] \in Seq(Postable(Len(log))) /\ e[l] \in Seq(Postable(Len(log)))
      /\ inbox[t] \in Seq(Postable(Len(log)))
  BY TypeFacts DEF Pops
<1>2. CASE l = t
  <2>1. Tail(inbox[t]) \in Seq(Postable(Len(log)))
    BY <1>1, Popped
  <2>2. NoneIn(inbox[t], F) <=> inbox[t][1] \notin F /\ NoneIn(Tail(inbox[t]), F)
    BY <1>1, LastInPopped
  <2>3. NoneIn(Tail(inbox[t]) \o e[t], F) <=> NoneIn(Tail(inbox[t]), F) /\ NoneIn(e[t], F)
    BY <1>1, <1>2, <2>1, NoneInJoined
  <2>4. inbox'[t] = Tail(inbox[t]) \o e[t]
    BY DEF Pops
  <2> QED
    BY <1>2, <2>2, <2>3, <2>4
<1>3. CASE l # t
  <2>1. NoneIn(inbox[l] \o e[l], F) <=> NoneIn(inbox[l], F) /\ NoneIn(e[l], F)
    BY <1>1, NoneInJoined
  <2>2. inbox'[l] = inbox[l] \o e[l]
    BY <1>3 DEF Pops
  <2> QED
    BY <2>1, <2>2
<1> QED
  BY <1>2, <1>3

LEMMA PopsLast ==
  ASSUME Types, NEW t \in Tabs, inbox[t] # <<>>, NEW e, Pops(t, e), NEW l \in Tabs,
         NEW F, NEW G, LastIn(e[l], F, G), NoneIn(e[l], F) => LastIn(inbox[l], F, G)
  PROVE  LastIn(inbox'[l], F, G)
<1>1. /\ inbox[l] \in Seq(Postable(Len(log))) /\ e[l] \in Seq(Postable(Len(log)))
      /\ inbox[t] \in Seq(Postable(Len(log)))
  BY TypeFacts DEF Pops
<1>2. CASE l = t
  <2>1. Tail(inbox[t]) \in Seq(Postable(Len(log)))
    BY <1>1, Popped
  <2>2. NoneIn(e[t], F) => LastIn(Tail(inbox[t]), F, G)
    BY <1>1, <1>2, LastInPopped
  <2>3. LastIn(Tail(inbox[t]) \o e[t], F, G)
    BY <1>1, <1>2, <2>1, <2>2, LastInJoined
  <2>4. inbox'[t] = Tail(inbox[t]) \o e[t]
    BY DEF Pops
  <2> QED
    BY <1>2, <2>3, <2>4
<1>3. CASE l # t
  <2>1. LastIn(inbox[l] \o e[l], F, G)
    BY <1>1, LastInJoined
  <2>2. inbox'[l] = inbox[l] \o e[l]
    BY <1>3 DEF Pops
  <2> QED
    BY <2>1, <2>2
<1> QED
  BY <1>2, <1>3

LEMMA WordsPop ==
  ASSUME Types, Locked, Membership, NEW t \in Tabs, Open(t), inbox[t] # <<>>,
         NEW e, Pops(t, e), UNCHANGED <<queue, status, topics>>,
         \A l, x \in Tabs : (l # queue[1] \/ x = l) => NoneIn(e[l], From(x)),
         \A x \in Tabs : x # queue[1] => LastIn(e[queue[1]], From(x), Saying(x, Wants(x)))
  PROVE  OnlyFirst' /\ \A x \in Tabs : Heard(x)'
<1>1. queue # <<>> /\ queue[1] \in Tabs
  BY QueueFacts
<1>2. OnlyFirst'
  <2> SUFFICES ASSUME NEW l \in Tabs, NEW x \in Tabs, l # queue[1] \/ x = l
               PROVE  NoneIn(inbox'[l], From(x))
    BY <1>1 DEF OnlyFirst
  <2>1. NoneIn(inbox[l], From(x)) /\ NoneIn(e[l], From(x))
    BY DEF Membership, OnlyFirst
  <2> QED
    BY <2>1, PopsNone
<1>3. ASSUME NEW x \in Tabs, x # queue[1] PROVE Heard(x)'
  <2>1. LastIn(inbox[queue[1]], From(x), Saying(x, Wants(x)))
    BY <1>1, <1>3 DEF Membership, Heard
  <2>2. LastIn(inbox'[queue[1]], From(x), Saying(x, Wants(x)))
    BY <1>1, <1>3, <2>1, PopsLast
  <2>3. Wants(x)' = Wants(x)
    BY DEF Wants
  <2> QED
    BY <2>2, <2>3 DEF Heard
<1>4. \A x \in Tabs : Heard(x)'
  BY <1>3 DEF Heard
<1> QED
  BY <1>2, <1>4

LEMMA LeaderReceivesMembership ==
  ASSUME Types, Locked, Leading, Membership, NEW t \in Tabs, Receive(t), holder = t
  PROVE  Membership'
<1> DEFINE m == inbox[t][1]
           e == Answered(m)
<1>1. /\ Open(t) /\ inbox[t] # <<>> /\ UNCHANGED <<log, queue, holder, status, topics, owed, skipped>>
      /\ LeaderReceives(t, m)
  BY ReceiveCases
<1>2. Pops(t, e) /\ m \in Postable(Len(log)) /\ Len(log) \in Nat
  BY <1>1, LeaderReceivesTypes, TypeFacts
<1>3. queue # <<>> /\ queue[1] = t /\ t # None
  BY QueueFacts DEF Locked
<1>4. \A l, x \in Tabs : NoneIn(e[l], From(x))
  <2> SUFFICES ASSUME NEW l \in Tabs, NEW x \in Tabs PROVE NoneIn(e[l], From(x))
    OBVIOUS
  <2>1. NoneIn(<<>>, From(x))
    BY Few
  <2>2. NoneIn(<<Welcome(inner.cursor, inner.state)>>, From(x))
    BY WhoSays, Few
  <2> HIDE DEF m
  <2> QED
    BY <2>1, <2>2 DEF Answered
<1> HIDE DEF e
<1>5. \A x \in Tabs : LastIn(e[queue[1]], From(x), Saying(x, Wants(x)))
  BY <1>3, <1>4, NoneIsLast
<1>6. OnlyFirst' /\ \A x \in Tabs : Heard(x)'
  BY <1>1, <1>2, <1>4, <1>5, WordsPop
<1>7. byTab' = CASE m.t \in {"hello", "topics"} -> [byTab EXCEPT ![m.from] = m.topics]
                 [] m.t = "bye" -> [byTab EXCEPT ![m.from] = {}]
                 [] OTHER -> byTab
  BY <1>1 DEF LeaderReceives
<1>8. /\ m \in Message
      /\ m.t \in {"hello", "topics", "bye"} => m.from \in Tabs /\ m.from # t
  BY <1>1, <1>2, PostedFields, LeaderHasNoOwn DEF Membership
<1>9. ASSUME NEW x \in Tabs PROVE Known(x)'
  <2> SUFFICES ASSUME x # t, NoneIn(inbox'[t], From(x))
               PROVE  byTab'[x] = Wants(x) \/ (byTab'[x] = {} /\ (Open(x) => Asked(x)'))
    BY <1>1 DEF Known, Wants, Open
  <2>1. NoneIn(inbox[t], From(x)) \/ m \in From(x)
    BY <1>1, <1>2, PopsNone
  <2>2. CASE m \in From(x)
    <3>1. LastIn(inbox[t], From(x), Saying(x, Wants(x)))
      BY <1>3 DEF Membership, Heard
    <3>2. NoneIn(Tail(inbox[t]), From(x))
      <4>1. /\ Tail(inbox[t]) \in Seq(Postable(Len(log))) /\ e[t] \in Seq(Postable(Len(log)))
            /\ inbox'[t] = Tail(inbox[t]) \o e[t]
        BY <1>1, <1>2, TypeFacts, Popped DEF Pops
      <4> QED
        BY <4>1, NoneInJoined
    <3>3. m \in Saying(x, Wants(x))
      BY <1>1, <2>2, <3>1, <3>2, TypeFacts, LastInPopped
    <3> HIDE DEF m
    <3>4. Says(m) = Wants(x) /\ m.from = x /\ m.t \in {"hello", "topics", "bye"}
      BY <3>3 DEF Saying, From
    <3>5. byTab'[x] = Says(m)
      BY <1>7, <3>4 DEF Says, Types
    <3> QED
      BY <3>4, <3>5
  <2>3. CASE m \notin From(x) /\ NoneIn(inbox[t], From(x))
    <3>1. byTab[x] = Wants(x) \/ (byTab[x] = {} /\ (Open(x) => Asked(x)))
      BY <1>3, <2>3 DEF Membership, Known
    <3>2. Asked(x) => Asked(x)'
      BY <1>1, <1>2, PopsNone DEF Asked
    <3> HIDE DEF m
    <3>3. m.t \in {"hello", "topics", "bye"} => m.from # x
      BY <1>8, <2>3 DEF From
    <3>4. byTab'[x] = byTab[x]
      BY <1>7, <3>3 DEF Types
    <3> QED
      BY <3>1, <3>2, <3>4
  <2> QED
    BY <2>1, <2>2, <2>3
<1> QED
  BY <1>6, <1>9 DEF Membership

(* A follower says what it wants, when it says anything. *)
LEMMA AnswersSay ==
  ASSUME Types, NEW t \in Tabs, NEW m, NEW l \in Tabs
  PROVE  /\ \A x \in Tabs : x # t => NoneIn(Answers(t, m)[l], From(x))
         /\ (l # queue[1] \/ l = t) => NoneIn(Answers(t, m)[l], From(t))
         /\ LastIn(Answers(t, m)[l], From(t), Saying(t, topics[t]))
         /\ (queue # <<>> /\ l = queue[1] /\ l # t /\ m.t = "lead") =>
              /\ ~NoneIn(Answers(t, m)[l], From(t))
              /\ ~NoneIn(Answers(t, m)[l], HelloFrom(t))
         /\ NoneIn(Answers(t, m)[l], Telling)
<1> DEFINE T == topics[t]
           a == Answers(t, m)[l]
<1>1. T \in SUBSET Topics
  BY DEF Types
<1>2. Len(a) = 0 \/ (Len(a) = 1 /\ a[1] \in {Hello(t, T), TopicsOf(t, T)})
  BY DEF Answers, Nothing, ToFirst
<1>3. (l # queue[1] \/ l = t) => Len(a) = 0
  BY DEF Answers, Nothing, ToFirst
<1>4. (queue # <<>> /\ l = queue[1] /\ l # t /\ m.t = "lead") =>
        Len(a) = 1 /\ a[1] = Hello(t, T)
  BY DEF Answers, ToFirst
<1> HIDE DEF a
<1>5. /\ Hello(t, T) \in From(t) /\ Hello(t, T) \in Saying(t, T) /\ Hello(t, T) \in HelloFrom(t)
      /\ TopicsOf(t, T) \in From(t) /\ TopicsOf(t, T) \in Saying(t, T)
  BY <1>1, Saids
<1> HIDE DEF T
<1>6. ASSUME NEW x \in Tabs, x # t PROVE NoneIn(a, From(x))
  <2>1. Hello(t, T) \notin From(x) /\ TopicsOf(t, T) \notin From(x)
    BY <1>6, WhoSays
  <2> QED
    BY <1>2, <2>1 DEF NoneIn
<1>7. LastIn(a, From(t), Saying(t, T))
  BY <1>2, <1>5 DEF LastIn
<1>8. NoneIn(a, Telling)
  BY <1>2, WhoTells DEF NoneIn
<1>9. (l # queue[1] \/ l = t) => NoneIn(a, From(t))
  BY <1>3 DEF NoneIn
<1>10. (queue # <<>> /\ l = queue[1] /\ l # t /\ m.t = "lead") =>
         ~NoneIn(a, From(t)) /\ ~NoneIn(a, HelloFrom(t))
  BY <1>4, <1>5 DEF NoneIn
<1> QED
  BY <1>6, <1>7, <1>8, <1>9, <1>10 DEF a, T

LEMMA FollowerReceivesMembership ==
  ASSUME Types, Locked, Leading, Membership, NEW t \in Tabs, Receive(t), holder # t
  PROVE  Membership'
<1> DEFINE m == inbox[t][1]
           e == Answers(t, m)
<1>1. /\ Open(t) /\ inbox[t] # <<>> /\ UNCHANGED <<log, queue, holder, status, topics, owed, skipped>>
      /\ FollowerReceives(t, m)
  BY ReceiveCases
<1>2. Pops(t, e) /\ m \in Postable(Len(log)) /\ Len(log) \in Nat /\ byTab' = byTab
  BY <1>1, FollowerReceivesTypes, TypeFacts
<1>3. queue # <<>> /\ queue[1] \in Tabs /\ (holder # None => holder = queue[1])
  BY <1>1, QueueFacts DEF Locked
<1>4. Wants(t) = topics[t] /\ \A x \in Tabs : Wants(x)' = Wants(x) /\ (Open(x)' <=> Open(x))
  BY <1>1 DEF Wants, Open
<1>5. \A l, x \in Tabs : (l # queue[1] \/ x = l) => NoneIn(e[l], From(x))
  <2> SUFFICES ASSUME NEW l \in Tabs, NEW x \in Tabs, l # queue[1] \/ x = l
               PROVE  NoneIn(e[l], From(x))
    OBVIOUS
  <2>1. CASE x = t
    BY <2>1, AnswersSay
  <2>2. CASE x # t
    BY <2>2, AnswersSay
  <2> QED
    BY <2>1, <2>2
<1>6. \A x \in Tabs : LastIn(e[queue[1]], From(x), Saying(x, Wants(x)))
  <2> SUFFICES ASSUME NEW x \in Tabs PROVE LastIn(e[queue[1]], From(x), Saying(x, Wants(x)))
    OBVIOUS
  <2>1. CASE x = t
    BY <1>3, <1>4, <2>1, AnswersSay
  <2>2. CASE x # t
    BY <1>3, <2>2, AnswersSay, NoneIsLast
  <2> QED
    BY <2>1, <2>2
<1>7. (holder # None /\ NoneIn(e[holder], From(t))) => m # Lead
  BY <1>3, AnswersSay, TheirFields
<1> HIDE DEF e
<1>8. OnlyFirst' /\ \A x \in Tabs : Heard(x)'
  BY <1>1, <1>2, <1>5, <1>6, WordsPop
<1>9. ASSUME NEW x \in Tabs PROVE Known(x)'
  <2> SUFFICES ASSUME holder # None, x # holder, NoneIn(inbox'[holder], From(x))
               PROVE  byTab[x] = Wants(x) \/ (byTab[x] = {} /\ (Open(x) => Asked(x)'))
    BY <1>1, <1>2, <1>4 DEF Known
  <2>1. holder \in Tabs
    BY <1>3
  <2>2. NoneIn(inbox[holder], From(x)) /\ NoneIn(e[holder], From(x))
    BY <1>1, <1>2, <2>1, PopsNone
  <2>3. byTab[x] = Wants(x) \/ (byTab[x] = {} /\ (Open(x) => Asked(x)))
    BY <2>2 DEF Membership, Known
  <2>4. x = t => m # Lead
    BY <1>7, <2>2
  <2> HIDE DEF m
  <2>5. Asked(x) => Asked(x)'
    BY <1>1, <1>2, <2>4, PopsNone DEF Asked, m
  <2> QED
    BY <2>3, <2>5
<1> QED
  BY <1>8, <1>9 DEF Membership

LEMMA NextMembership ==
  ASSUME Types, Locked, Leading, Membership, [Next]_vars
  PROVE  Membership'
<1>1. ASSUME NEW topic \in Topics, Accept(topic) PROVE Membership'
  <2>1. UNCHANGED <<queue, holder, status, topics, inbox, byTab>>
    BY <1>1 DEF Accept, tabVars, leadVars
  <2> QED
    BY <2>1 DEF Membership, OnlyFirst, Heard, Known, Wants, Open, Asked
<1>2. ASSUME NEW t \in Tabs, Construct(t) PROVE Membership'
  BY <1>2, ConstructMembership
<1>3. ASSUME NEW t \in Tabs, NEW topic \in Topics, Subscribe(t, topic) PROVE Membership'
  <2>1. topics[t] \cup {topic} \in SUBSET Topics
    BY DEF Types
  <2> QED
    BY <1>3, <2>1, PublishMembership DEF Subscribe
<1>4. ASSUME NEW t \in Tabs, NEW topic \in Topics, Release(t, topic) PROVE Membership'
  <2>1. topics[t] \ {topic} \in SUBSET Topics
    BY DEF Types
  <2> QED
    BY <1>4, <2>1, PublishMembership DEF Release
<1>5. ASSUME NEW t \in Tabs, Reconnect(t) \/ Close(t) \/ Die(t) \/ Drop(t) PROVE Membership'
  BY <1>5, ReconnectMembership, CloseMembership, DieMembership, ConnectionMembership
<1>6. ASSUME NEW t \in Tabs, Works(t) PROVE Membership'
  BY <1>6, LeaderReceivesMembership, FollowerReceivesMembership, BecomeLeaderMembership,
     ConnectionMembership, FanOutMembership DEF Works
<1>7. CASE Unload \/ UNCHANGED vars
  <2>1. UNCHANGED <<queue, holder, status, topics, inbox, byTab>>
    BY <1>7 DEF Unload, vars, tabVars, leadVars
  <2> QED
    BY <2>1 DEF Membership, OnlyFirst, Heard, Known, Wants, Open, Asked
<1> QED
  BY <1>1, <1>2, <1>3, <1>4, <1>5, <1>6, <1>7 DEF Next

-----------------------------------------------------------------------------
(* What state is shown.                                                    *)

(* A step that tells nobody the state, and leaves it as it is. *)
LEMMA AgreementGrows ==
  ASSUME Types, Locked, Agreement, NEW e, NEW gone, Grows(e, gone),
         holder' = holder, gone # holder, inner'.state = inner.state,
         \A x \in Tabs : NoneIn(e[x], Telling),
         \A x \in Tabs : x # gone => shown'[x] = shown[x],
         \A x \in Tabs : Open(x)' =>
           (Open(x) /\ x # gone) \/ (holder # None => ~NoneIn(e[holder], HelloFrom(x)))
  PROVE  Agreement'
<1> SUFFICES ASSUME NEW x \in Tabs, holder # None, x # holder, Open(x)', inner'.state # "idle"
             PROVE  \/ ~NoneIn(inbox'[holder], HelloFrom(x))
                    \/ /\ LastIn(inbox'[x], Telling, TellingOf(inner'.state))
                       /\ NoneIn(inbox'[x], Telling) => shown'[x] = inner'.state
  BY DEF Agreement, Informed
<1>1. \A l \in Tabs : inbox[l] \in Seq(Postable(Len(log))) /\ e[l] \in Seq(Postable(Len(log)))
  BY TypeFacts DEF Grows
<1>2. holder \in Tabs /\ inbox'[holder] = inbox[holder] \o e[holder]
  BY QueueFacts DEF Grows
<1>3. ~NoneIn(e[holder], HelloFrom(x)) \/ ~NoneIn(inbox[holder], HelloFrom(x)) =>
        ~NoneIn(inbox'[holder], HelloFrom(x))
  BY <1>1, <1>2, NoneInJoined
<1>4. CASE NoneIn(e[holder], HelloFrom(x)) /\ NoneIn(inbox[holder], HelloFrom(x))
  <2>1. Open(x) /\ x # gone
    BY <1>4
  <2>2. /\ LastIn(inbox[x], Telling, TellingOf(inner.state))
        /\ NoneIn(inbox[x], Telling) => shown[x] = inner.state
    BY <1>4, <2>1 DEF Agreement, Informed
  <2>3. inbox'[x] = inbox[x] \o e[x]
    BY <2>1 DEF Grows
  <2>4. LastIn(e[x], Telling, TellingOf(inner.state))
    BY NoneIsLast
  <2>5. LastIn(inbox'[x], Telling, TellingOf(inner.state))
    BY <1>1, <2>2, <2>3, <2>4, LastInJoined
  <2>6. NoneIn(inbox'[x], Telling) => NoneIn(inbox[x], Telling)
    BY <1>1, <2>3, NoneInJoined
  <2> QED
    BY <2>1, <2>2, <2>5, <2>6
<1> QED
  BY <1>3, <1>4

LEMMA AgreementInit == Init => Agreement
  BY DEF Init, Agreement, Informed

(* Whom nobody leads has nothing to agree with, nor does who is led by a   *)
(* leader without a connection.                                            *)
LEMMA NothingToAgree ==
  ASSUME holder' = None \/ inner'.state = "idle"
  PROVE  Agreement'
  BY DEF Agreement, Informed

LEMMA Untold ==
  ASSUME NEW t, NEW ms, Len(ms) = 1, ms[1] \notin Telling
  PROVE  \A l \in Tabs : NoneIn(ToAll(t, ms)[l], Telling) /\ NoneIn(ToFirst(t, ms)[l], Telling)
<1>1. NoneIn(ms, Telling)
  BY DEF NoneIn
<1>2. NoneIn(<<>>, Telling)
  BY Few
<1> QED
  BY <1>1, <1>2 DEF ToAll, ToFirst

LEMMA ConstructAgreement ==
  ASSUME Types, Locked, Agreement, NEW t \in Tabs, Construct(t)
  PROVE  Agreement'
<1> DEFINE ms == <<Hello(t, {}), TopicsOf(t, Mounts[t])>>
           e == ToFirst(t, ms)
<1>1. /\ ~Open(t) /\ UNCHANGED <<holder, inner, shown>>
      /\ status' = [status EXCEPT ![t] = "open"]
  BY DEF Construct, Open, leadVars
<1>2. Grows(e, None)
  BY ConstructTypes
<1>3. Len(ms) = 2 /\ ms[1] = Hello(t, {}) /\ ms[2] = TopicsOf(t, Mounts[t])
  OBVIOUS
<1>4. Hello(t, {}) \in HelloFrom(t)
  <2>1. {} \in SUBSET Topics
    OBVIOUS
  <2> QED
    BY <2>1, Saids
<1> HIDE DEF ms
<1>5. NoneIn(ms, Telling) /\ ~NoneIn(ms, HelloFrom(t))
  BY <1>3, <1>4, WhoTells DEF NoneIn
<1>6. \A x \in Tabs : NoneIn(e[x], Telling)
  <2>1. NoneIn(<<>>, Telling)
    BY Few
  <2> QED
    BY <1>5, <2>1 DEF ToFirst
<1>7. holder # None => ~NoneIn(e[holder], HelloFrom(t))
  <2>1. holder # None => queue # <<>> /\ holder = queue[1] /\ holder # t /\ holder \in Tabs
    BY <1>1, QueueFacts DEF Locked
  <2>2. holder # None => e[holder] = ms
    BY <2>1 DEF ToFirst
  <2> HIDE DEF e
  <2> QED
    BY <1>5, <2>2
<1> HIDE DEF e
<1>8. \A x \in Tabs : x # t => (Open(x)' <=> Open(x))
  BY <1>1 DEF Open
<1>9. CASE holder # None
  <2>1. None # holder /\ \A x \in Tabs : x # None
    BY <1>9, QueueFacts
  <2> QED
    BY <1>1, <1>2, <1>6, <1>7, <1>8, <2>1, AgreementGrows
<1>10. CASE holder = None
  BY <1>1, <1>10, NothingToAgree
<1> QED
  BY <1>9, <1>10

(* A step that leaves the connection's state and the open tabs as they are *)
LEMMA QuietAgreement ==
  ASSUME Types, Locked, Agreement, NEW e, Grows(e, None), UNCHANGED <<holder, status, shown>>,
         inner'.state = inner.state, \A x \in Tabs : NoneIn(e[x], Telling)
  PROVE  Agreement'
<1>1. \A x \in Tabs : x # None /\ (Open(x)' => Open(x))
  BY QueueFacts DEF Open
<1>2. CASE holder # None
  BY <1>1, <1>2, AgreementGrows
<1>3. CASE holder = None
  BY <1>3, NothingToAgree
<1> QED
  BY <1>2, <1>3

LEMMA PublishAgreement ==
  ASSUME Types, Locked, Agreement, NEW t \in Tabs, NEW T \in SUBSET Topics,
         PublishTopics(t, T), UNCHANGED <<log, queue, holder, status, shown, inner>>
  PROVE  Agreement'
<1>1. CASE holder = t
  <2>1. Grows(Nothing, None)
    BY <1>1, PublishTypes
  <2>2. \A x \in Tabs : NoneIn(Nothing[x], Telling)
    BY Few DEF Nothing
  <2> QED
    BY <2>1, <2>2, QuietAgreement
<1>2. CASE holder # t
  <2> DEFINE ms == <<TopicsOf(t, T)>>
  <2>1. Grows(ToFirst(t, ms), None)
    BY <1>2, PublishTypes
  <2>2. Len(ms) = 1 /\ ms[1] = TopicsOf(t, T)
    OBVIOUS
  <2> HIDE DEF ms
  <2>3. \A x \in Tabs : NoneIn(ToFirst(t, ms)[x], Telling)
    BY <2>2, WhoTells, Untold
  <2> QED
    BY <2>1, <2>3, QuietAgreement
<1> QED
  BY <1>1, <1>2

LEMMA ReconnectAgreement ==
  ASSUME Types, Locked, Agreement, NEW t \in Tabs, Reconnect(t)
  PROVE  Agreement'
<1> DEFINE ms == <<ReconnectPlease>>
           e == IF holder = t THEN Nothing ELSE ToFirst(t, ms)
<1>1. Grows(e, None) /\ inner'.state = inner.state
  BY ReconnectTypes
<1>2. UNCHANGED <<holder, status, shown>>
  BY DEF Reconnect, tabVars
<1>3. Len(ms) = 1 /\ ms[1] = ReconnectPlease
  OBVIOUS
<1> HIDE DEF ms
<1>4. \A x \in Tabs : NoneIn(ToFirst(t, ms)[x], Telling)
  BY <1>3, WhoTells, Untold
<1>5. \A x \in Tabs : NoneIn(Nothing[x], Telling)
  BY Few DEF Nothing
<1>6. \A x \in Tabs : NoneIn(e[x], Telling)
  BY <1>4, <1>5
<1> HIDE DEF e
<1> QED
  BY <1>1, <1>2, <1>6, QuietAgreement

LEMMA FanOutAgreement ==
  ASSUME Types, Locked, Agreement, NEW t \in Tabs, FanOut(t)
  PROVE  Agreement'
<1> DEFINE k == Min(Readable)
           ms == <<Event(k)>>
           e == IF log[k] \in Union(byTab) THEN ToAll(t, ms) ELSE Nothing
<1>1. Grows(e, None) /\ inner'.state = inner.state
  BY FanOutTypes
<1>2. UNCHANGED <<holder, status, shown>>
  BY DEF FanOut
<1> HIDE DEF k
<1>3. Len(ms) = 1 /\ ms[1] = Event(k)
  OBVIOUS
<1> HIDE DEF ms
<1>4. \A x \in Tabs : NoneIn(ToAll(t, ms)[x], Telling)
  BY <1>3, WhoTells, Untold
<1>5. \A x \in Tabs : NoneIn(Nothing[x], Telling)
  BY Few DEF Nothing
<1>6. \A x \in Tabs : NoneIn(e[x], Telling)
  BY <1>4, <1>5
<1> HIDE DEF e
<1> QED
  BY <1>1, <1>2, <1>6, QuietAgreement

LEMMA CloseAgreement ==
  ASSUME Types, Locked, Agreement, NEW t \in Tabs, Close(t)
  PROVE  Agreement'
<1> DEFINE ms == <<Bye(t)>>
<1>1. /\ Open(t) /\ LeaveQueue(t)
      /\ status' = [status EXCEPT ![t] = "closed"] /\ shown' = [shown EXCEPT ![t] = "closed"]
      /\ status \in [Tabs -> {"absent", "open", "closed", "dead"}]
  BY DEF Close, Abort, LeaveQueue, Types
<1>2. CASE holder = t \/ holder = None
  BY <1>1, <1>2, NothingToAgree DEF LeaveQueue, RequestEnds, LeadEnds
<1>3. CASE holder # t /\ holder # None
  <2>1. holder' = holder /\ inner' = inner
    BY <1>1, <1>3 DEF LeaveQueue, RequestEnds, LeadEnds
  <2>2. Grows(ToFirst(t, ms), t)
    BY <1>3, CloseTypes
  <2>3. Len(ms) = 1 /\ ms[1] = Bye(t)
    OBVIOUS
  <2> HIDE DEF ms
  <2>4. \A x \in Tabs : NoneIn(ToFirst(t, ms)[x], Telling)
    BY <2>3, WhoTells, Untold
  <2>5. \A x \in Tabs : x # t => shown'[x] = shown[x]
    BY <1>1 DEF Types
  <2>6. \A x \in Tabs : Open(x)' => Open(x) /\ x # t
    BY <1>1 DEF Open
  <2> QED
    BY <1>3, <2>1, <2>2, <2>4, <2>5, <2>6, AgreementGrows
<1> QED
  BY <1>2, <1>3

LEMMA DieAgreement ==
  ASSUME Types, Locked, Agreement, NEW t \in Tabs, Die(t)
  PROVE  Agreement'
<1>1. /\ Open(t) /\ LeaveQueue(t) /\ status' = [status EXCEPT ![t] = "dead"]
      /\ status \in [Tabs -> {"absent", "open", "closed", "dead"}] /\ UNCHANGED shown
  BY DEF Die, tabVars, Types
<1>2. CASE holder = t \/ holder = None
  BY <1>1, <1>2, NothingToAgree DEF LeaveQueue, RequestEnds, LeadEnds
<1>3. CASE holder # t /\ holder # None
  <2>1. holder' = holder /\ inner' = inner
    BY <1>1, <1>3 DEF LeaveQueue, RequestEnds, LeadEnds
  <2>2. Grows(Nothing, t)
    BY DieTypes
  <2>3. \A x \in Tabs : NoneIn(Nothing[x], Telling)
    BY Few DEF Nothing
  <2>4. \A x \in Tabs : Open(x)' => Open(x) /\ x # t
    BY <1>1 DEF Open
  <2> QED
    BY <1>1, <1>3, <2>1, <2>2, <2>3, <2>4, AgreementGrows
<1> QED
  BY <1>2, <1>3

(* The connection's state changes, and all are told. *)
LEMMA StateAgreement ==
  ASSUME Types, Locked, Agreement, NEW t \in Tabs, holder = t, UNCHANGED <<holder, status>>,
         NEW state \in States, inner'.state = state, InnerState(t, state),
         Grows(Announced(t, state), None)
  PROVE  Agreement'
<1>1. CASE inner.state = state
  <2>1. Announced(t, state) = Nothing /\ shown' = shown
    BY <1>1 DEF Announced, InnerState
  <2>2. \A x \in Tabs : NoneIn(Nothing[x], Telling)
    BY Few DEF Nothing
  <2> QED
    BY <1>1, <2>1, <2>2, QuietAgreement
<1>2. CASE inner.state # state
  <2> DEFINE ms == <<StateIs(state)>>
  <2> SUFFICES ASSUME NEW x \in Tabs, x # t, Open(x)
               PROVE  /\ LastIn(inbox'[x], Telling, TellingOf(state))
                      /\ ~NoneIn(inbox'[x], Telling)
    BY DEF Agreement, Informed, Open
  <2>1. Announced(t, state)[x] = ms
    BY <1>2 DEF Announced, ToAll
  <2>2. Len(ms) = 1 /\ ms[1] = StateIs(state)
    OBVIOUS
  <2> HIDE DEF ms
  <2>3. ms[1] \in Telling /\ ms[1] \in TellingOf(state)
    BY <2>2, Tolds
  <2>4. LastIn(ms, Telling, TellingOf(state)) /\ ~NoneIn(ms, Telling)
    BY <2>2, <2>3 DEF NoneIn, LastIn
  <2>5. inbox[x] \in Seq(Postable(Len(log))) /\ ms \in Seq(Postable(Len(log)))
    BY <2>1, TypeFacts DEF Grows
  <2>6. inbox'[x] = inbox[x] \o ms
    BY <2>1, QueueFacts DEF Grows
  <2>7. LastIn(inbox[x] \o ms, Telling, TellingOf(state))
    BY <2>4, <2>5, LastInJoined
  <2>8. ~NoneIn(inbox[x] \o ms, Telling)
    BY <2>4, <2>5, NoneInJoined
  <2> QED
    BY <2>6, <2>7, <2>8
<1> QED
  BY <1>1, <1>2

LEMMA ConnectionAgreement ==
  ASSUME Types, Locked, Agreement, NEW t \in Tabs, Dial(t) \/ Connect(t) \/ Drop(t)
  PROVE  Agreement'
<1>1. UNCHANGED <<holder, status>>
  BY DEF Dial, Connect, Drop
<1>2. /\ holder = t /\ InnerState(t, inner'.state) /\ Grows(Announced(t, inner'.state), None)
      /\ Types'
  BY DialTypes, ConnectTypes, DropTypes
<1>3. inner'.state \in States
  BY <1>2 DEF Types, Clients
<1> QED
  BY <1>1, <1>2, <1>3, StateAgreement

LEMMA LeaderReceivesAgreement ==
  ASSUME Types, Locked, Agreement, NEW t \in Tabs, Receive(t), holder = t
  PROVE  Agreement'
<1> DEFINE m == inbox[t][1]
           e == Answered(m)
           w == Welcome(inner.cursor, inner.state)
<1>1. /\ Open(t) /\ inbox[t] # <<>> /\ UNCHANGED <<log, queue, holder, status, topics, owed, skipped>>
      /\ LeaderReceives(t, m)
  BY ReceiveCases
<1>2. /\ Pops(t, e) /\ inner'.state = inner.state /\ shown' = shown
      /\ inner.cursor \in NoCursor..Len(log) /\ inner.state \in States /\ Len(log) \in Nat
  BY <1>1, LeaderReceivesTypes, TypeFacts
<1>3. w \in Telling /\ w \in TellingOf(inner.state)
  <2>1. inner.cursor \in Int
    BY <1>2 DEF NoCursor
  <2> QED
    BY <1>2, <2>1, Tolds
<1> SUFFICES ASSUME NEW x \in Tabs, x # t, Open(x), inner.state # "idle"
             PROVE  \/ ~NoneIn(inbox'[t], HelloFrom(x))
                    \/ /\ LastIn(inbox'[x], Telling, TellingOf(inner.state))
                       /\ NoneIn(inbox'[x], Telling) => shown[x] = inner.state
  BY <1>1, <1>2 DEF Agreement, Informed, Open
<1>4. Len(e[x]) = 0 \/ (Len(e[x]) = 1 /\ e[x][1] = w)
  BY DEF Answered
<1>5. m \in HelloFrom(x) => Len(e[x]) = 1
  BY DEF Answered, HelloFrom, From
<1>6. ~NoneIn(inbox[t], HelloFrom(x)) /\ m \notin HelloFrom(x) => ~NoneIn(inbox'[t], HelloFrom(x))
  BY <1>1, <1>2, PopsNone
<1> HIDE DEF e, w
<1>7. LastIn(e[x], Telling, TellingOf(inner.state))
  BY <1>3, <1>4 DEF LastIn
<1>8. NoneIn(e[x], Telling) => Len(e[x]) = 0
  BY <1>3, <1>4 DEF NoneIn
<1>9. CASE m \in HelloFrom(x)
  <2>1. ~NoneIn(e[x], Telling)
    <3>1. Len(e[x]) = 1
      BY <1>5, <1>9
    <3> QED
      BY <1>8, <3>1
  <2>2. LastIn(inbox'[x], Telling, TellingOf(inner.state))
    BY <1>1, <1>2, <1>7, <2>1, PopsLast
  <2>3. ~NoneIn(inbox'[x], Telling)
    BY <1>1, <1>2, <2>1, PopsNone
  <2> QED
    BY <2>2, <2>3
<1>10. CASE NoneIn(inbox[t], HelloFrom(x))
  <2>1. /\ LastIn(inbox[x], Telling, TellingOf(inner.state))
        /\ NoneIn(inbox[x], Telling) => shown[x] = inner.state
    BY <1>10, QueueFacts DEF Agreement, Informed
  <2>2. LastIn(inbox'[x], Telling, TellingOf(inner.state))
    BY <1>1, <1>2, <1>7, <2>1, PopsLast
  <2>3. NoneIn(inbox'[x], Telling) => NoneIn(inbox[x], Telling)
    BY <1>1, <1>2, PopsNone
  <2> QED
    BY <2>1, <2>2, <2>3
<1> QED
  BY <1>6, <1>9, <1>10

LEMMA FollowerReceivesAgreement ==
  ASSUME Types, Locked, Agreement, NEW t \in Tabs, Receive(t), holder # t
  PROVE  Agreement'
<1> DEFINE m == inbox[t][1]
           e == Answers(t, m)
<1>1. /\ Open(t) /\ inbox[t] # <<>> /\ UNCHANGED <<log, queue, holder, status, topics, owed, skipped>>
      /\ FollowerReceives(t, m)
  BY ReceiveCases
<1>2. /\ Pops(t, e) /\ m \in Postable(Len(log)) /\ Len(log) \in Nat /\ inner' = inner
      /\ \A x \in Tabs : x # t => shown'[x] = shown[x]
      /\ shown'[t] = IF m.t \in {"welcome", "state"} THEN m.state ELSE shown[t]
  BY <1>1, FollowerReceivesTypes, TypeFacts
<1>3. m \in Telling <=> m.t \in {"welcome", "state"}
  <2>1. m \in Message
    BY <1>2, PostedFields
  <2> HIDE DEF m
  <2> QED
    BY <2>1 DEF Telling
<1> HIDE DEF e
<1> SUFFICES ASSUME NEW x \in Tabs, holder # None, x # holder, Open(x), inner.state # "idle"
             PROVE  \/ ~NoneIn(inbox'[holder], HelloFrom(x))
                    \/ /\ LastIn(inbox'[x], Telling, TellingOf(inner.state))
                       /\ NoneIn(inbox'[x], Telling) => shown'[x] = inner.state
  BY <1>1, <1>2 DEF Agreement, Informed, Open
<1>4. holder \in Tabs
  BY QueueFacts
<1>5. ~NoneIn(inbox[holder], HelloFrom(x)) => ~NoneIn(inbox'[holder], HelloFrom(x))
  BY <1>1, <1>2, <1>4, PopsNone
<1>6. CASE NoneIn(inbox[holder], HelloFrom(x))
  <2>1. /\ LastIn(inbox[x], Telling, TellingOf(inner.state))
        /\ NoneIn(inbox[x], Telling) => shown[x] = inner.state
    BY <1>6 DEF Agreement, Informed
  <2>2. NoneIn(e[x], Telling)
    BY AnswersSay DEF e
  <2>3. LastIn(inbox'[x], Telling, TellingOf(inner.state))
    BY <1>1, <1>2, <2>1, <2>2, NoneIsLast, PopsLast
  <2>4. NoneIn(inbox'[x], Telling) => NoneIn(inbox[x], Telling) \/ (x = t /\ m \in Telling)
    BY <1>1, <1>2, PopsNone
  <2>5. ASSUME NoneIn(inbox'[x], Telling) PROVE shown'[x] = inner.state
    <3>1. CASE x # t
      BY <1>2, <2>1, <2>4, <2>5, <3>1
    <3>2. CASE x = t /\ m \in Telling
      <4>1. NoneIn(Tail(inbox[t]), Telling)
        <5>1. /\ Tail(inbox[t]) \in Seq(Postable(Len(log))) /\ e[t] \in Seq(Postable(Len(log)))
              /\ inbox'[t] = Tail(inbox[t]) \o e[t]
          BY <1>1, <1>2, TypeFacts, Popped DEF Pops
        <5> QED
          BY <2>5, <3>2, <5>1, NoneInJoined
      <4>2. m \in TellingOf(inner.state)
        BY <1>1, <2>1, <3>2, <4>1, TypeFacts, LastInPopped
      <4> HIDE DEF m
      <4> QED
        BY <1>2, <1>3, <3>2, <4>2 DEF TellingOf
    <3>3. CASE x = t /\ m \notin Telling
      <4> HIDE DEF m
      <4> QED
        BY <1>2, <1>3, <2>1, <2>4, <2>5, <3>3
    <3> QED
      BY <3>1, <3>2, <3>3
  <2> QED
    BY <2>3, <2>5
<1> QED
  BY <1>5, <1>6

LEMMA NextAgreement ==
  ASSUME Types, Locked, Agreement, [Next]_vars
  PROVE  Agreement'
<1>1. ASSUME NEW topic \in Topics, Accept(topic) PROVE Agreement'
  <2>1. UNCHANGED <<holder, status, shown, inbox, inner>>
    BY <1>1 DEF Accept, tabVars, leadVars
  <2> QED
    BY <2>1 DEF Agreement, Informed, Open
<1>2. ASSUME NEW t \in Tabs, Construct(t) PROVE Agreement'
  BY <1>2, ConstructAgreement
<1>3. ASSUME NEW t \in Tabs, NEW topic \in Topics, Subscribe(t, topic) \/ Release(t, topic)
      PROVE  Agreement'
  <2>1. topics'[t] \in SUBSET Topics
    BY <1>3, SubscribeTypes, ReleaseTypes
  <2> QED
    BY <1>3, <2>1, PublishAgreement DEF Subscribe, Release
<1>4. ASSUME NEW t \in Tabs, Reconnect(t) \/ Close(t) \/ Die(t) \/ Drop(t) PROVE Agreement'
  BY <1>4, ReconnectAgreement, CloseAgreement, DieAgreement, ConnectionAgreement
<1>5. ASSUME NEW t \in Tabs, BecomeLeader(t) PROVE Agreement'
  BY <1>5, BecomeLeaderTypes, NothingToAgree
<1>6. ASSUME NEW t \in Tabs, Works(t) PROVE Agreement'
  BY <1>5, <1>6, LeaderReceivesAgreement, FollowerReceivesAgreement, ConnectionAgreement,
     FanOutAgreement DEF Works
<1>7. CASE Unload \/ UNCHANGED vars
  <2>1. UNCHANGED <<holder, status, shown, inbox, inner>>
    BY <1>7 DEF Unload, vars, tabVars, leadVars
  <2> QED
    BY <2>1 DEF Agreement, Informed, Open
<1> QED
  BY <1>1, <1>2, <1>3, <1>4, <1>6, <1>7 DEF Next

-----------------------------------------------------------------------------
(* What was forwarded.                                                     *)

LEMMA ForwardedInit == Init => Forwarded
  BY DEF Init, Forwarded

(* What is still due to a tab after a step that lets it hear nothing. *)
LEMMA DueStays ==
  ASSUME Types, Forwarded, NEW e, NEW gone, Grows(e, gone), NEW x \in Tabs, NEW k \in owed[x],
         UNCHANGED log, cursor'[x] = cursor[x], heard'[x] = heard[x],
         status'[x] # "absent", log[k] \in topics'[x],
         skipped[x] \subseteq skipped'[x],
         Open(x)' => Open(x) /\ x # gone /\ (holder = x => holder' = x),
         Open(x)' /\ holder' = x =>
           \/ /\ holder = x /\ inner'.cursor = inner.cursor
              /\ inner'.asked \in {inner.asked, {}} \/ topics'[x] \subseteq inner'.asked
           \/ /\ inner'.cursor = cursor[x] /\ inner'.asked = {}
              /\ cursor[x] # NoCursor \/ k \in heard[x] \cup skipped'[x]
  PROVE  Due(x, k)'
<1>1. Due(x, k)
  BY DEF Forwarded
<1>2. ASSUME Open(x)', k \notin heard[x], k \notin skipped'[x]
      PROVE  k > cursor[x] /\ Open(x) /\ k \notin skipped[x]
  BY <1>1, <1>2 DEF Due
<1>3. ASSUME Open(x)', k \notin heard[x], k \notin skipped'[x], holder' # x
      PROVE  Ready(inbox'[x], k)
  <2>1. Ready(inbox[x], k)
    BY <1>1, <1>2, <1>3 DEF Due
  <2>2. inbox'[x] = inbox[x] \o e[x]
    BY <1>3 DEF Grows
  <2>3. inbox[x] \in Seq(Postable(Len(log))) /\ e[x] \in Seq(Postable(Len(log)))
    BY TypeFacts DEF Grows
  <2> QED
    BY <2>1, <2>2, <2>3, ReadyJoined
<1>4. ASSUME Open(x)', k \notin heard[x], k \notin skipped'[x], holder' = x
      PROVE  /\ inner'.cursor # NoCursor /\ k > inner'.cursor
             /\ inner'.asked # {} => log[k] \in inner'.asked
  <2>1. CASE holder = x /\ inner'.cursor = inner.cursor /\
             (inner'.asked \in {inner.asked, {}} \/ topics'[x] \subseteq inner'.asked)
    <3>1. /\ inner.cursor # NoCursor /\ k > inner.cursor
          /\ inner.asked # {} => log[k] \in inner.asked
      BY <1>1, <1>2, <1>4, <2>1 DEF Due
    <3> QED
      BY <2>1, <3>1
  <2>2. CASE /\ inner'.cursor = cursor[x] /\ inner'.asked = {}
             /\ cursor[x] # NoCursor \/ k \in heard[x] \cup skipped'[x]
    BY <1>2, <1>4, <2>2
  <2> QED
    BY <1>4, <2>1, <2>2
<1> QED
  BY <1>2, <1>3, <1>4 DEF Due

LEMMA ConstructForwarded ==
  ASSUME Types, Locked, Forwarded, NEW t \in Tabs, Construct(t)
  PROVE  Forwarded'
<1>1. /\ ~Open(t) /\ status[t] = "absent" /\ UNCHANGED <<log, holder, heard, owed, skipped, inner>>
      /\ status' = [status EXCEPT ![t] = "open"]
      /\ topics' = [topics EXCEPT ![t] = Mounts[t]]
      /\ cursor' = [cursor EXCEPT ![t] = IF Pages[t] = NoCursor THEN NoCursor ELSE Len(log) - Pages[t]]
  BY DEF Construct, Open, leadVars
<1>2. \E e : Grows(e, None)
  BY ConstructTypes
<1> SUFFICES ASSUME NEW x \in Tabs, NEW k \in owed[x] PROVE Due(x, k)'
  BY <1>1 DEF Forwarded
<1>3. x # t /\ status[x] # "absent" /\ log[k] \in topics[x]
  BY <1>1 DEF Forwarded, Due
<1>4. /\ status'[x] = status[x] /\ topics'[x] = topics[x] /\ cursor'[x] = cursor[x]
      /\ (Open(x)' <=> Open(x)) /\ x # None
  BY <1>1, <1>3, QueueFacts DEF Types, Open
<1> QED
  BY <1>1, <1>2, <1>3, <1>4, DueStays

(* A tab's own choice of topics: what it no longer wants is not owed it. *)
LEMMA PublishForwarded ==
  ASSUME Types, Locked, Forwarded, NEW t \in Tabs, NEW T \in SUBSET Topics,
         topics' = [topics EXCEPT ![t] = T], PublishTopics(t, topics'[t]),
         UNCHANGED <<log, queue, holder, status, cursor, heard, skipped, inner>>,
         \A x \in Tabs : owed'[x] \subseteq owed[x],
         \A k \in owed'[t] : log[k] \in T
  PROVE  Forwarded'
<1>1. topics'[t] = T /\ topics \in [Tabs -> SUBSET Topics]
  BY DEF Types
<1>2. \E e : Grows(e, None)
  BY <1>1, PublishTypes
<1> SUFFICES ASSUME NEW x \in Tabs, NEW k \in owed'[x] PROVE Due(x, k)'
  BY DEF Forwarded
<1>3. k \in owed[x] /\ status[x] # "absent" /\ log[k] \in topics[x]
  BY DEF Forwarded, Due
<1>4. log[k] \in topics'[x]
  BY <1>1, <1>3
<1>5. (Open(x)' <=> Open(x)) /\ x # None
  BY QueueFacts DEF Open
<1> QED
  BY <1>2, <1>3, <1>4, <1>5, DueStays

LEMMA ReconnectForwarded ==
  ASSUME Types, Locked, Forwarded, NEW t \in Tabs, Reconnect(t)
  PROVE  Forwarded'
<1>1. UNCHANGED <<log, queue, holder, status, topics, cursor, heard, owed, skipped>>
  BY DEF Reconnect, tabVars
<1>2. \E e : Grows(e, None)
  BY ReconnectTypes
<1>3. inner'.cursor = inner.cursor /\ inner'.asked \in {inner.asked, {}}
  BY ReconnectTypes
<1> SUFFICES ASSUME NEW x \in Tabs, NEW k \in owed[x] PROVE Due(x, k)'
  BY <1>1 DEF Forwarded
<1>4. status[x] # "absent" /\ log[k] \in topics[x]
  BY DEF Forwarded, Due
<1>5. (Open(x)' <=> Open(x)) /\ x # None
  BY <1>1, QueueFacts DEF Open
<1> QED
  BY <1>1, <1>2, <1>3, <1>4, <1>5, DueStays

LEMMA LeaveForwarded ==
  ASSUME Types, Locked, Forwarded, NEW t \in Tabs, Close(t) \/ Die(t)
  PROVE  Forwarded'
<1>1. UNCHANGED <<log, topics, cursor, heard, owed, skipped>> /\ LeaveQueue(t)
  BY DEF Close, Abort, LeaveQueue, Die, tabVars
<1>2. PICK s \in {"closed", "dead"} : status' = [status EXCEPT ![t] = s]
  BY DEF Close, Die
<1>3. \E e : Grows(e, t)
  BY CloseTypes, DieTypes
<1> SUFFICES ASSUME NEW x \in Tabs, NEW k \in owed[x] PROVE Due(x, k)'
  BY <1>1 DEF Forwarded
<1>4. status[x] # "absent" /\ log[k] \in topics[x]
  BY DEF Forwarded, Due
<1>5. status'[x] # "absent" /\ (Open(x)' => Open(x) /\ x # t)
  BY <1>2, <1>4 DEF Open, Types
<1>6. x # None
  BY QueueFacts
<1>7. Open(x)' => (holder = x => holder' = x) /\ (holder' = x => holder = x /\ inner' = inner)
  BY <1>1, <1>5, <1>6 DEF LeaveQueue, RequestEnds, LeadEnds
<1> QED
  BY <1>1, <1>3, <1>4, <1>5, <1>7, DueStays

LEMMA BecomeLeaderForwarded ==
  ASSUME Types, Locked, Forwarded, Keeping, NEW t \in Tabs, BecomeLeader(t)
  PROVE  Forwarded'
<1>1. /\ holder = None /\ holder' = t
      /\ UNCHANGED <<log, queue, status, topics, cursor, heard, owed>>
      /\ skipped' = [skipped EXCEPT ![t] = IF cursor[t] = NoCursor THEN Pending(t) ELSE {}]
      /\ skipped \in [Tabs -> SUBSET (1..Len(log))]
  BY DEF BecomeLeader, Granted, Types
<1>2. /\ inner'.cursor = cursor[t] /\ inner'.asked = {} /\ Open(t)
      /\ \E e : Grows(e, None)
  BY BecomeLeaderTypes
<1> SUFFICES ASSUME NEW x \in Tabs, NEW k \in owed[x] PROVE Due(x, k)'
  BY <1>1 DEF Forwarded
<1>3. status[x] # "absent" /\ log[k] \in topics[x]
  BY DEF Forwarded, Due
<1>4. (Open(x)' <=> Open(x)) /\ x # None
  BY <1>1, QueueFacts DEF Open
<1>5. skipped[x] \subseteq skipped'[x]
  <2>1. skipped[t] = {}
    BY <1>1, <1>2, QueueFacts DEF Keeping, Open
  <2> QED
    BY <1>1, <2>1
<1>6. x = t => cursor[x] # NoCursor \/ k \in heard[x] \cup skipped'[x]
  <2> SUFFICES ASSUME x = t, cursor[t] = NoCursor, k \notin heard[t] PROVE k \in skipped'[t]
    OBVIOUS
  <2>1. CASE k \in skipped[t]
    BY <1>5, <2>1
  <2>2. CASE k \notin skipped[t]
    <3>1. Due(t, k) /\ k \in 1..Len(log) /\ t # None
      BY QueueFacts DEF Forwarded, Types
    <3>2. PICK i \in 1..Len(inbox[t]) : inbox[t][i] = Event(k)
      BY <1>1, <1>2, <2>2, <3>1 DEF Due, Ready
    <3>3. DOMAIN inbox[t] = 1..Len(inbox[t]) /\ DOMAIN log = 1..Len(log)
      BY TypeFacts, LenProperties DEF Types
    <3>4. k \in Pending(t)
      BY <3>1, <3>2, <3>3 DEF Pending
    <3> QED
      BY <1>1, <3>4
  <2> QED
    BY <2>1, <2>2
<1> QED
  BY <1>1, <1>2, <1>3, <1>4, <1>5, <1>6, DueStays

LEMMA ConnectionForwarded ==
  ASSUME Types, Locked, Leading, Forwarded, NEW t \in Tabs, Dial(t) \/ Connect(t) \/ Drop(t)
  PROVE  Forwarded'
<1>1. UNCHANGED <<log, queue, holder, status, topics, cursor, heard, owed, skipped>>
  BY DEF Dial, Connect, Drop
<1>2. holder = t /\ \E e : Grows(e, None)
  BY DialTypes, ConnectTypes, DropTypes
<1>3. inner'.cursor = inner.cursor /\ (inner'.asked = inner.asked \/ inner'.asked = Union(byTab))
  BY DialTypes, ConnectTypes, DropTypes
<1>4. topics[t] \subseteq Union(byTab)
  <2>1. byTab[t] = topics[t]
    BY <1>2, QueueFacts DEF Leading
  <2> QED
    BY <2>1, UnionIsTopics DEF Types
<1> SUFFICES ASSUME NEW x \in Tabs, NEW k \in owed[x] PROVE Due(x, k)'
  BY <1>1 DEF Forwarded
<1>5. status[x] # "absent" /\ log[k] \in topics[x]
  BY DEF Forwarded, Due
<1>6. (Open(x)' <=> Open(x)) /\ x # None
  BY <1>1, QueueFacts DEF Open
<1>7. holder = x => inner'.asked \in {inner.asked, {}} \/ topics[x] \subseteq inner'.asked
  BY <1>2, <1>3, <1>4
<1> QED
  BY <1>1, <1>2, <1>3, <1>5, <1>6, <1>7, DueStays

LEMMA AcceptForwarded ==
  ASSUME Types, Locked, Forwarded, NEW topic \in Topics, Accept(topic)
  PROVE  Forwarded'
<1>1. /\ \A k \in 1..Len(log) : log'[k] = log[k]
      /\ UNCHANGED <<holder, status, topics, cursor, heard, owed, skipped, inbox, inner>>
  BY AcceptTypes DEF tabVars, leadVars
<1> SUFFICES ASSUME NEW x \in Tabs, NEW k \in owed[x] PROVE Due(x, k)'
  BY <1>1 DEF Forwarded
<1>2. k \in 1..Len(log) /\ Due(x, k)
  BY DEF Types, Forwarded
<1> QED
  BY <1>1, <1>2 DEF Due, Open

(* How far a tab will be is at least as far as all it was posted. *)
LEMMA HorizonBehind ==
  ASSUME Types, NEW x \in Tabs, NEW k \in 1..Len(log), k > Horizon(x)
  PROVE  k > cursor[x] /\ \A j \in 1..Len(inbox[x]) : Behind(inbox[x][j], k)
<1> DEFINE n == Len(log)
           s == inbox[x]
           E == {s[i].id : i \in {j \in DOMAIN s : s[j].t = "event"}}
           W == {s[i].cursor : i \in {j \in DOMAIN s : s[j].t = "welcome"}}
           P == (E \cup W) \cup {cursor[x]}
<1>1. n \in Nat /\ s \in Seq(Postable(n)) /\ cursor[x] \in NoCursor..n
  BY TypeFacts DEF Types
<1>2. DOMAIN s = 1..Len(s) /\ \A i \in 1..Len(s) : s[i] \in Postable(n)
  BY <1>1, LenProperties, ElementOfSeq
<1>3. Horizon(x) = Max(P)
  BY DEF Horizon
<1> HIDE DEF n, s
<1>4. \A i \in 1..Len(s) : /\ s[i].t = "event" => s[i].id \in 1..n
                           /\ s[i].t = "welcome" => s[i].cursor \in NoCursor..n
  BY <1>1, <1>2, PostedFields
<1>5. 1..n \subseteq NoCursor..n
  BY <1>1 DEF NoCursor
<1>6. P \in SUBSET (NoCursor..n) /\ P # {}
  <2>1. E \subseteq NoCursor..n /\ W \subseteq NoCursor..n
    BY <1>2, <1>4, <1>5
  <2> QED
    BY <1>1, <2>1
<1>7. /\ cursor[x] \in P
      /\ \A j \in 1..Len(s) : /\ s[j].t = "event" => s[j].id \in P
                              /\ s[j].t = "welcome" => s[j].cursor \in P
  BY <1>2
<1> HIDE DEF E, W, P
<1>8. Max(P) \in P /\ \A y \in P : y <= Max(P)
  BY <1>1, <1>6, GreatestExists
<1>9. \A y \in P : y < k
  <2>1. k \in 1..n /\ k > Max(P)
    BY <1>3 DEF n
  <2>2. Max(P) \in NoCursor..n /\ \A y \in P : y \in NoCursor..n
    BY <1>6, <1>8
  <2> QED
    BY <1>1, <1>8, <2>1, <2>2 DEF NoCursor
<1>10. k > cursor[x]
  BY <1>1, <1>7, <1>9 DEF NoCursor, n
<1>11. \A j \in 1..Len(s) : Behind(s[j], k)
  BY <1>7, <1>9 DEF Behind
<1> QED
  BY <1>10, <1>11 DEF s

(* The leader's own: what it is still owed is after what it reads. *)
LEMMA OwnIsAhead ==
  ASSUME Types, Locked, Leading, Forwarded, holder # None, NEW j \in owed[holder],
         j \notin heard[holder], j \notin skipped[holder]
  PROVE  /\ Position = inner.cursor /\ j > Position
         /\ Readable # {} => Min(Readable) <= j /\ log[j] \in inner.asked
<1>1. holder \in Tabs /\ Open(holder) /\ cursor[holder] <= inner.cursor
  BY QueueFacts DEF Leading
<1>2. Due(holder, j) /\ j \in 1..Len(log)
  BY <1>1 DEF Forwarded, Types
<1>3. /\ inner.cursor # NoCursor /\ j > inner.cursor
      /\ inner.asked # {} => log[j] \in inner.asked
  BY <1>1, <1>2 DEF Due
<1>5. Position = inner.cursor
  BY <1>3 DEF Position
<1>6. ASSUME Readable # {} PROVE Min(Readable) <= j /\ log[j] \in inner.asked
  <2>1. inner.asked # {}
    BY <1>6, NextRead
  <2> QED
    BY <1>2, <1>3, <1>5, <1>6, <2>1, NextRead
<1> QED
  BY <1>3, <1>5, <1>6

LEMMA FanOutForwarded ==
  ASSUME Types, Locked, Leading, Forwarded, NEW t \in Tabs, FanOut(t)
  PROVE  Forwarded'
<1> DEFINE k == Min(Readable)
           wanted == log[k] \in Union(byTab)
           e == IF wanted THEN ToAll(t, <<Event(k)>>) ELSE Nothing
<1>1. UNCHANGED <<log, queue, holder, status, topics, skipped, byTab>>
  BY DEF FanOut
<1>2. /\ holder = t /\ Readable # {} /\ k \in 1..Len(log) /\ t # None /\ Open(t)
      /\ inner'.cursor = k /\ inner'.asked = inner.asked /\ Grows(e, None)
  BY FanOutTypes, QueueFacts
<1>3. /\ k > cursor[t]
      /\ wanted => cursor' = [cursor EXCEPT ![t] = k] /\ heard' = [heard EXCEPT ![t] = @ \cup {k}]
      /\ ~wanted => UNCHANGED <<cursor, heard>>
  BY FanOutLeading
<1>4. /\ wanted => owed' = [x \in Tabs |->
           IF Open(x) /\ log[k] \in topics[x] /\ k > Horizon(x)
           THEN owed[x] \cup {k} ELSE owed[x]]
      /\ ~wanted => owed' = owed
  BY DEF FanOut
<1>5. topics[t] \subseteq Union(byTab)
  <2>1. byTab[t] = topics[t]
    BY <1>2 DEF Leading
  <2> QED
    BY <2>1, UnionIsTopics DEF Types
<1>6. wanted => \A x \in Tabs : x # t /\ Open(x) => e[x] = <<Event(k)>>
  BY DEF ToAll
<1>7. Len(log) \in Nat /\ k # NoCursor
  BY <1>2, TypeFacts DEF NoCursor
<1>8. /\ cursor \in [Tabs -> NoCursor..Len(log)] /\ heard \in [Tabs -> SUBSET (1..Len(log))]
      /\ \A x \in Tabs : owed[x] \subseteq 1..Len(log)
  BY DEF Types
<1> HIDE DEF k, wanted, e
<1>9. \A x \in Tabs : (Open(x)' <=> Open(x)) /\ x # None
  BY <1>1, QueueFacts DEF Open
<1> SUFFICES ASSUME NEW x \in Tabs, NEW j \in owed'[x] PROVE Due(x, j)'
  BY DEF Forwarded
<1>10. CASE x # t /\ j \in owed[x]
  <2>1. cursor'[x] = cursor[x] /\ heard'[x] = heard[x]
    BY <1>3, <1>8, <1>10
  <2>2. status[x] # "absent" /\ log[j] \in topics[x]
    BY <1>10 DEF Forwarded, Due
  <2> QED
    BY <1>1, <1>2, <1>9, <1>10, <2>1, <2>2, DueStays
<1>11. CASE x # t /\ j \notin owed[x]
  <2>1. wanted /\ j = k /\ Open(x) /\ log[k] \in topics[x] /\ k > Horizon(x)
    BY <1>4, <1>11
  <2>2. k > cursor[x] /\ \A i \in 1..Len(inbox[x]) : Behind(inbox[x][i], k)
    BY <1>2, <2>1, HorizonBehind
  <2>3. Event(k) \in Postable(Len(log))
    BY <1>2, <1>7, TheMessages
  <2>4. inbox'[x] = inbox[x] \o <<Event(k)>>
    BY <1>2, <1>6, <1>9, <1>11, <2>1 DEF Grows
  <2>5. Ready(inbox'[x], k)
    BY <2>2, <2>3, <2>4, TypeFacts, ReadyPosted
  <2>6. cursor'[x] = cursor[x]
    BY <1>3, <1>8, <1>11
  <2> QED
    BY <1>1, <1>2, <1>11, <2>1, <2>2, <2>5, <2>6 DEF Due, Open
<1>12. CASE x = t
  <2>1. status[t] # "absent" /\ log[j] \in topics[t]
    <3>1. status[t] # "absent"
      BY <1>2 DEF Open
    <3>2. CASE j \in owed[t]
      BY <3>1, <3>2 DEF Forwarded, Due
    <3>3. CASE j \notin owed[t]
      BY <1>4, <1>12, <3>1, <3>3
    <3> QED
      BY <3>2, <3>3
  <2>2. ASSUME j \notin heard'[t], j \notin skipped[t]
        PROVE  j > cursor'[t] /\ j > k /\ (inner.asked # {} => log[j] \in inner.asked)
    <3>1. wanted => heard'[t] = heard[t] \cup {k}
      BY <1>3, <1>8
    <3>2. ~wanted => heard'[t] = heard[t]
      BY <1>3
    <3>3. j \in owed[t] /\ j \notin heard[t]
      BY <1>4, <1>12, <2>2, <3>1, <3>2
    <3>4. k <= j /\ log[j] \in inner.asked
      BY <1>2, <2>2, <3>3, OwnIsAhead DEF k
    <3>5. j # k
      <4>1. CASE wanted
        BY <2>2, <3>1, <4>1
      <4>2. CASE ~wanted
        BY <1>5, <2>1, <4>2 DEF wanted
      <4> QED
        BY <4>1, <4>2
    <3>6. j \in 1..Len(log)
      BY <1>8, <3>3
    <3>7. j > k
      BY <1>2, <1>7, <3>4, <3>5, <3>6
    <3>8. cursor'[t] = k \/ cursor'[t] = cursor[t]
      BY <1>3, <1>8
    <3>9. cursor[t] \in NoCursor..Len(log)
      BY <1>8
    <3>10. j > cursor'[t]
      BY <1>2, <1>3, <1>7, <3>6, <3>7, <3>8, <3>9 DEF NoCursor
    <3> QED
      BY <3>4, <3>7, <3>10
  <2> QED
    BY <1>1, <1>2, <1>7, <1>12, <2>1, <2>2 DEF Due
<1> QED
  BY <1>10, <1>11, <1>12

LEMMA LeaderReceivesForwarded ==
  ASSUME Types, Locked, Forwarded, NEW t \in Tabs, Receive(t), holder = t
  PROVE  Forwarded'
<1> DEFINE m == inbox[t][1]
           e == Answered(m)
<1>1. /\ Open(t) /\ inbox[t] # <<>> /\ UNCHANGED <<log, queue, holder, status, topics, owed, skipped>>
      /\ LeaderReceives(t, m)
  BY ReceiveCases
<1>2. /\ Pops(t, e) /\ UNCHANGED <<cursor, heard>>
      /\ inner'.cursor = inner.cursor /\ inner'.asked \in {inner.asked, {}}
  BY <1>1, LeaderReceivesTypes
<1> HIDE DEF e
<1> SUFFICES ASSUME NEW x \in Tabs, NEW k \in owed[x] PROVE Due(x, k)'
  BY <1>1 DEF Forwarded
<1>3. Due(x, k)
  BY DEF Forwarded
<1>4. CASE x = t
  BY <1>1, <1>2, <1>3, <1>4 DEF Due, Open
<1>5. CASE x # t
  <2>1. Ready(inbox[x], k) => Ready(inbox'[x], k)
    <3>1. inbox[x] \in Seq(Postable(Len(log))) /\ e[x] \in Seq(Postable(Len(log)))
      BY <1>2, TypeFacts DEF Pops
    <3>2. inbox'[x] = inbox[x] \o e[x]
      BY <1>2, <1>5 DEF Pops
    <3> QED
      BY <3>1, <3>2, ReadyJoined
  <2> QED
    BY <1>1, <1>2, <1>3, <1>5, <2>1 DEF Due, Open
<1> QED
  BY <1>4, <1>5

LEMMA FollowerReceivesForwarded ==
  ASSUME Types, Locked, Forwarded, NEW t \in Tabs, Receive(t), holder # t
  PROVE  Forwarded'
<1> DEFINE m == inbox[t][1]
           e == Answers(t, m)
           n == Len(log)
<1>1. /\ Open(t) /\ inbox[t] # <<>> /\ UNCHANGED <<log, queue, holder, status, topics, owed, skipped>>
      /\ FollowerReceives(t, m)
  BY ReceiveCases
<1>2. /\ Pops(t, e) /\ m \in Postable(n) /\ n \in Nat /\ inner' = inner
      /\ \A x \in Tabs : x # t => cursor'[x] = cursor[x] /\ heard'[x] = heard[x]
      /\ (m.t = "event" /\ m.id > cursor[t]) =>
           cursor'[t] = m.id /\ heard'[t] = heard[t] \cup {m.id}
      /\ (m.t = "welcome" /\ m.cursor > cursor[t]) =>
           cursor'[t] = m.cursor /\ heard'[t] = heard[t]
      /\ ~(m.t = "event" /\ m.id > cursor[t]) /\ ~(m.t = "welcome" /\ m.cursor > cursor[t]) =>
           cursor'[t] = cursor[t] /\ heard'[t] = heard[t]
  BY <1>1, FollowerReceivesTypes, TypeFacts
<1> HIDE DEF e
<1> SUFFICES ASSUME NEW x \in Tabs, NEW k \in owed[x] PROVE Due(x, k)'
  BY <1>1 DEF Forwarded
<1>3. Due(x, k) /\ k \in 1..n
  BY DEF Forwarded, Types
<1>4. \A y \in Tabs : inbox[y] \in Seq(Postable(n)) /\ e[y] \in Seq(Postable(n))
  BY <1>2, TypeFacts DEF Pops
<1>5. CASE x # t
  <2>1. Ready(inbox[x], k) => Ready(inbox'[x], k)
    <3>1. inbox'[x] = inbox[x] \o e[x]
      BY <1>2, <1>5 DEF Pops
    <3> QED
      BY <1>4, <3>1, ReadyJoined
  <2> QED
    BY <1>1, <1>2, <1>3, <1>5, <2>1 DEF Due, Open
<1>6. CASE x = t
  <2>1. /\ cursor[t] \in NoCursor..n /\ log[k] \in topics[t]
        /\ (k \notin heard[t] /\ k \notin skipped[t]) => k > cursor[t] /\ Ready(inbox[t], k)
    BY <1>1, <1>3, <1>6 DEF Due, Types
  <2>2. /\ m.t = "event" => m.id \in 1..n /\ m = Event(m.id)
        /\ m.t = "welcome" => m.cursor \in NoCursor..n
    BY <1>2, PostedFields
  <2>3. inbox'[t] = Tail(inbox[t]) \o e[t] /\ Tail(inbox[t]) \in Seq(Postable(n))
    BY <1>1, <1>2, <1>4, Popped DEF Pops
  <2>4. ASSUME k \notin heard'[t], k \notin skipped[t] PROVE k \notin heard[t] /\ m # Event(k)
    <3>1. k \notin heard[t]
      BY <1>2, <2>4
    <3>2. ASSUME m = Event(k) PROVE FALSE
      <4>1. m.t = "event" /\ m.id = k
        BY <3>2, TheirFields
      <4> QED
        BY <1>2, <2>1, <2>4, <3>1, <4>1
    <3> QED
      BY <3>1, <3>2
  <2>5. ASSUME k \notin heard'[t], k \notin skipped[t]
        PROVE  Behind(m, k) /\ Ready(inbox'[t], k) /\ k > cursor[t]
    <3>1. Behind(m, k) /\ Ready(Tail(inbox[t]), k)
      BY <1>1, <1>4, <2>1, <2>4, <2>5, ReadyPopped
    <3>2. Ready(Tail(inbox[t]) \o e[t], k)
      BY <1>4, <2>3, <3>1, ReadyJoined
    <3> QED
      BY <2>1, <2>3, <2>4, <2>5, <3>1, <3>2
  <2> HIDE DEF m, n
  <2>7. ASSUME k \notin heard'[t], k \notin skipped[t] PROVE k > cursor'[t]
    BY <1>2, <1>3, <2>1, <2>2, <2>5, <2>7 DEF Behind, NoCursor
  <2> QED
    BY <1>1, <1>3, <1>6, <2>1, <2>5, <2>7 DEF Due, Open
<1> QED
  BY <1>5, <1>6

LEMMA NextForwarded ==
  ASSUME Types, Locked, Leading, Forwarded, Keeping, [Next]_vars
  PROVE  Forwarded'
<1>1. ASSUME NEW topic \in Topics, Accept(topic) PROVE Forwarded'
  BY <1>1, AcceptForwarded
<1>2. ASSUME NEW t \in Tabs, Construct(t) PROVE Forwarded'
  BY <1>2, ConstructForwarded
<1>3. ASSUME NEW t \in Tabs, NEW topic \in Topics, Subscribe(t, topic) PROVE Forwarded'
  <2>1. topics[t] \cup {topic} \in SUBSET Topics /\ topics' = [topics EXCEPT ![t] = topics[t] \cup {topic}]
    BY <1>3 DEF Types, Subscribe
  <2>2. \A k \in owed'[t] : log[k] \in topics[t] \cup {topic}
    BY <1>3 DEF Subscribe, Forwarded, Due
  <2>3. \A x \in Tabs : owed'[x] \subseteq owed[x]
    BY <1>3 DEF Subscribe
  <2> QED
    BY <1>3, <2>1, <2>2, <2>3, PublishForwarded DEF Subscribe
<1>4. ASSUME NEW t \in Tabs, NEW topic \in Topics, Release(t, topic) PROVE Forwarded'
  <2>1. topics[t] \ {topic} \in SUBSET Topics /\ topics' = [topics EXCEPT ![t] = topics[t] \ {topic}]
    BY <1>4 DEF Types, Release
  <2>2. owed' = [owed EXCEPT ![t] = {k \in owed[t] : log[k] # topic}]
    BY <1>4 DEF Release
  <2>3. \A k \in owed'[t] : log[k] \in topics[t] \ {topic}
    BY <2>2 DEF Forwarded, Due, Types
  <2>4. \A x \in Tabs : owed'[x] \subseteq owed[x]
    BY <2>2 DEF Types
  <2> QED
    BY <1>4, <2>1, <2>3, <2>4, PublishForwarded DEF Release
<1>5. ASSUME NEW t \in Tabs, Reconnect(t) \/ Close(t) \/ Die(t) \/ Drop(t) PROVE Forwarded'
  BY <1>5, ReconnectForwarded, LeaveForwarded, ConnectionForwarded
<1>6. ASSUME NEW t \in Tabs, Works(t) PROVE Forwarded'
  BY <1>6, LeaderReceivesForwarded, FollowerReceivesForwarded, BecomeLeaderForwarded,
     ConnectionForwarded, FanOutForwarded DEF Works
<1>7. CASE Unload \/ UNCHANGED vars
  <2>1. UNCHANGED <<log, holder, status, topics, cursor, heard, owed, skipped, inbox, inner>>
    BY <1>7 DEF Unload, vars, tabVars, leadVars
  <2> QED
    BY <2>1 DEF Forwarded, Due, Open
<1> QED
  BY <1>1, <1>2, <1>3, <1>4, <1>5, <1>6, <1>7 DEF Next

-----------------------------------------------------------------------------
(* The lock that a closed tab's page keeps.                                *)

LEMMA KeepingInit == Init => Keeping
  BY DEF Init, Keeping

LEMMA KeepingStays ==
  ASSUME Keeping, UNCHANGED <<kept, skipped>>,
         kept # None => /\ holder' = None /\ status'[kept] = "closed"
                        /\ \A x \in Tabs : Open(x)' => Bereft(x)',
         \A x \in Tabs : status'[x] = "absent" => status[x] = "absent" /\ shown'[x] = shown[x],
         \A x \in Tabs : x # holder' /\ status'[x] \in {"absent", "open"} =>
           x # holder /\ status[x] \in {"absent", "open"}
  PROVE  Keeping'
  BY DEF Keeping

(* Nobody is told anything of a connection. *)
LEMMA BereftGrows ==
  ASSUME Types, NEW e, NEW gone, Grows(e, gone), NEW x \in Tabs, x # gone,
         NoneIn(e[x], Telling), shown'[x] = shown[x], Bereft(x)
  PROVE  Bereft(x)'
<1>1. inbox[x] \in Seq(Postable(Len(log))) /\ e[x] \in Seq(Postable(Len(log)))
  BY TypeFacts DEF Grows
<1>2. inbox'[x] = inbox[x] \o e[x]
  BY DEF Grows
<1>3. LastIn(e[x], Telling, TellingOf("closed"))
  BY NoneIsLast
<1>4. LastIn(inbox'[x], Telling, TellingOf("closed"))
  BY <1>1, <1>2, <1>3, LastInJoined DEF Bereft
<1>5. NoneIn(inbox'[x], Telling) => NoneIn(inbox[x], Telling)
  BY <1>1, <1>2, NoneInJoined
<1> QED
  BY <1>4, <1>5 DEF Bereft

LEMMA QuietKeeping ==
  ASSUME Types, Locked, Keeping, NEW e, Grows(e, None), \A x \in Tabs : NoneIn(e[x], Telling),
         UNCHANGED <<holder, kept, status, shown, skipped>>
  PROVE  Keeping'
<1>1. ASSUME kept # None, NEW x \in Tabs, Open(x)' PROVE Bereft(x)'
  <2>1. Bereft(x) /\ x # None
    BY <1>1, QueueFacts DEF Keeping, Open
  <2> QED
    BY <2>1, BereftGrows
<1>2. kept # None => holder = None /\ status[kept] = "closed"
  BY DEF Keeping
<1> QED
  BY <1>1, <1>2, KeepingStays

(* While a tab leads, no closed one's page has the lock. *)
LEMMA LedKeeping ==
  ASSUME Types, Locked, Keeping, holder # None, UNCHANGED <<holder, kept, status, skipped>>,
         \A x \in Tabs : x # holder => shown'[x] = shown[x]
  PROVE  Keeping'
<1>1. kept = None
  BY DEF Keeping
<1>2. \A x \in Tabs : status[x] = "absent" => x # holder
  BY QueueFacts DEF Open
<1> QED
  BY <1>1, <1>2, KeepingStays

LEMMA ConstructKeeping ==
  ASSUME Types, Locked, Keeping, NEW t \in Tabs, Construct(t)
  PROVE  Keeping'
<1> DEFINE ms == <<Hello(t, {}), TopicsOf(t, Mounts[t])>>
           e == ToFirst(t, ms)
<1>1. /\ ~Open(t) /\ status[t] = "absent" /\ UNCHANGED <<holder, kept, shown, skipped>>
      /\ status' = [status EXCEPT ![t] = "open"]
      /\ status \in [Tabs -> {"absent", "open", "closed", "dead"}]
  BY DEF Construct, Open, Types
<1>2. Grows(e, None)
  BY ConstructTypes
<1>3. Len(ms) = 2 /\ ms[1] = Hello(t, {}) /\ ms[2] = TopicsOf(t, Mounts[t])
  OBVIOUS
<1> HIDE DEF ms
<1>4. NoneIn(ms, Telling) /\ NoneIn(<<>>, Telling)
  BY <1>3, Few, WhoTells DEF NoneIn
<1>5. \A x \in Tabs : NoneIn(e[x], Telling)
  BY <1>4 DEF ToFirst
<1> HIDE DEF e
<1>6. ASSUME kept # None, NEW x \in Tabs, Open(x)' PROVE Bereft(x)'
  <2>1. x # None
    BY QueueFacts
  <2>2. Bereft(x)
    <3>1. CASE x = t
      <4>1. inbox[t] = <<>> /\ shown[t] = "connecting"
        BY <1>1, TypeFacts DEF Keeping
      <4> QED
        BY <1>4, <3>1, <4>1, NoneIsLast DEF Bereft
    <3>2. CASE x # t
      BY <1>1, <1>6, <3>2 DEF Keeping, Open
    <3> QED
      BY <3>1, <3>2
  <2> QED
    BY <1>1, <1>2, <1>5, <2>1, <2>2, BereftGrows
<1>7. kept # None => holder' = None /\ status'[kept] = "closed"
  BY <1>1 DEF Keeping
<1>8. ASSUME NEW x \in Tabs
      PROVE  /\ status'[x] = "absent" => status[x] = "absent"
             /\ x # holder' /\ status'[x] \in {"absent", "open"} =>
                  x # holder /\ status[x] \in {"absent", "open"}
  BY <1>1, QueueFacts
<1> QED
  BY <1>1, <1>6, <1>7, <1>8, KeepingStays

LEMMA PublishKeeping ==
  ASSUME Types, Locked, Keeping, NEW t \in Tabs, NEW T \in SUBSET Topics, PublishTopics(t, T),
         UNCHANGED <<log, queue, holder, kept, status, shown, skipped>>
  PROVE  Keeping'
<1>1. CASE holder = t
  <2>1. holder # None
    BY <1>1, QueueFacts
  <2> QED
    BY <2>1, LedKeeping
<1>2. CASE holder # t
  <2> DEFINE ms == <<TopicsOf(t, T)>>
  <2>1. Grows(ToFirst(t, ms), None)
    BY <1>2, PublishTypes
  <2>2. Len(ms) = 1 /\ ms[1] = TopicsOf(t, T)
    OBVIOUS
  <2> HIDE DEF ms
  <2>3. \A x \in Tabs : NoneIn(ToFirst(t, ms)[x], Telling)
    BY <2>2, WhoTells, Untold
  <2> QED
    BY <2>1, <2>3, QuietKeeping
<1> QED
  BY <1>1, <1>2

LEMMA ReconnectKeeping ==
  ASSUME Types, Locked, Keeping, NEW t \in Tabs, Reconnect(t)
  PROVE  Keeping'
<1>1. UNCHANGED <<holder, kept, status, shown, skipped>>
  BY DEF Reconnect, tabVars
<1>2. CASE holder = t
  <2>1. holder # None
    BY <1>2, QueueFacts
  <2> QED
    BY <1>1, <2>1, LedKeeping
<1>3. CASE holder # t
  <2> DEFINE ms == <<ReconnectPlease>>
  <2>1. Grows(ToFirst(t, ms), None)
    BY <1>3, ReconnectTypes
  <2>2. Len(ms) = 1 /\ ms[1] = ReconnectPlease
    OBVIOUS
  <2> HIDE DEF ms
  <2>3. \A x \in Tabs : NoneIn(ToFirst(t, ms)[x], Telling)
    BY <2>2, WhoTells, Untold
  <2> QED
    BY <1>1, <2>1, <2>3, QuietKeeping
<1> QED
  BY <1>2, <1>3

(* A leader that closes tells every open tab, and its page keeps the lock. *)
LEMMA CloseKeeping ==
  ASSUME Types, Locked, Keeping, NEW t \in Tabs, Close(t)
  PROVE  Keeping'
<1>1. /\ Open(t) /\ status' = [status EXCEPT ![t] = "closed"]
      /\ shown' = [shown EXCEPT ![t] = "closed"] /\ UNCHANGED skipped
      /\ kept' = IF holder = t THEN t ELSE kept
      /\ holder' = IF holder = t THEN None ELSE holder
      /\ status \in [Tabs -> {"absent", "open", "closed", "dead"}]
      /\ shown \in [Tabs -> States] /\ t # None
  BY QueueFacts DEF Close, Abort, LeadEnds, Types
<1>2. /\ status'[t] = "closed" /\ ~Open(t)'
      /\ \A x \in Tabs : x # t => /\ status'[x] = status[x] /\ shown'[x] = shown[x]
                                  /\ (Open(x)' <=> Open(x))
  BY <1>1 DEF Open
<1>3. CASE holder = t
  <2> DEFINE ms == <<StateIs("closed")>>
             e == ToAll(t, ms)
  <2>1. Grows(e, t)
    BY <1>3, CloseTypes
  <2>2. LastIn(ms, Telling, TellingOf("closed")) /\ ~NoneIn(ms, Telling)
    <3>1. StateIs("closed") \in Telling /\ StateIs("closed") \in TellingOf("closed")
      BY Tolds DEF States
    <3>2. Len(ms) = 1 /\ ms[1] = StateIs("closed")
      OBVIOUS
    <3> HIDE DEF ms
    <3> QED
      BY <3>1, <3>2 DEF LastIn, NoneIn
  <2> HIDE DEF ms
  <2>3. ASSUME NEW x \in Tabs, Open(x)' PROVE Bereft(x)'
    <3>1. x # t /\ Open(x)
      BY <1>2, <2>3
    <3>2. e[x] = ms
      BY <3>1 DEF ToAll
    <3>3. /\ inbox[x] \in Seq(Postable(Len(log))) /\ ms \in Seq(Postable(Len(log)))
          /\ inbox'[x] = inbox[x] \o ms
      BY <2>1, <3>1, <3>2, TypeFacts DEF Grows
    <3>4. LastIn(inbox'[x], Telling, TellingOf("closed"))
      BY <2>2, <3>3, LastInJoined
    <3>5. ~NoneIn(inbox'[x], Telling)
      BY <2>2, <3>3, NoneInJoined
    <3> QED
      BY <3>4, <3>5 DEF Bereft
  <2> QED
    BY <1>1, <1>2, <1>3, <2>3 DEF Keeping
<1>4. CASE holder # t
  <2> DEFINE ms == <<Bye(t)>>
  <2>1. Grows(ToFirst(t, ms), t)
    BY <1>4, CloseTypes
  <2>2. Len(ms) = 1 /\ ms[1] = Bye(t)
    OBVIOUS
  <2> HIDE DEF ms
  <2>3. \A x \in Tabs : NoneIn(ToFirst(t, ms)[x], Telling)
    BY <2>2, WhoTells, Untold
  <2>4. ASSUME kept # None, NEW x \in Tabs, Open(x)' PROVE Bereft(x)'
    <3>1. x # t /\ Bereft(x)
      BY <1>2, <2>4 DEF Keeping
    <3> QED
      BY <1>2, <2>1, <2>3, <3>1, BereftGrows
  <2>5. kept # None => holder' = None /\ status'[kept] = "closed"
    BY <1>1, <1>4 DEF Keeping
  <2> QED
    BY <1>1, <1>2, <1>4, <2>4, <2>5, KeepingStays
<1> QED
  BY <1>3, <1>4

LEMMA DieKeeping ==
  ASSUME Types, Locked, Keeping, NEW t \in Tabs, Die(t)
  PROVE  Keeping'
<1>1. /\ Open(t) /\ status' = [status EXCEPT ![t] = "dead"] /\ UNCHANGED <<kept, shown, skipped>>
      /\ holder' = IF holder = t THEN None ELSE holder
      /\ status \in [Tabs -> {"absent", "open", "closed", "dead"}]
  BY DEF Die, LeaveQueue, LeadEnds, tabVars, Types
<1>2. status'[t] = "dead" /\ \A x \in Tabs : x # t => status'[x] = status[x]
  BY <1>1
<1>3. Grows(Nothing, t) /\ \A x \in Tabs : NoneIn(Nothing[x], Telling)
  BY DieTypes, Few DEF Nothing
<1>4. ASSUME kept # None, NEW x \in Tabs, Open(x)' PROVE Bereft(x)'
  <2>1. x # t /\ Bereft(x)
    BY <1>2, <1>4 DEF Keeping, Open
  <2> QED
    BY <1>1, <1>3, <2>1, BereftGrows
<1>5. kept # None => holder' = None /\ status'[kept] = "closed"
  BY <1>1 DEF Keeping, Open
<1> QED
  BY <1>1, <1>2, <1>4, <1>5, KeepingStays

LEMMA BecomeLeaderKeeping ==
  ASSUME Types, Locked, Keeping, NEW t \in Tabs, BecomeLeader(t)
  PROVE  Keeping'
<1>1. /\ kept = None /\ holder = None /\ holder' = t /\ UNCHANGED <<kept, status, shown>>
      /\ skipped' = [skipped EXCEPT ![t] = IF cursor[t] = NoCursor THEN Pending(t) ELSE {}]
      /\ skipped \in [Tabs -> SUBSET (1..Len(log))]
  BY DEF BecomeLeader, Granted, Types
<1>2. \A x \in Tabs : x # t => skipped'[x] = skipped[x]
  BY <1>1
<1>3. None \notin Tabs
  BY QueueFacts
<1> QED
  BY <1>1, <1>2, <1>3 DEF Keeping

LEMMA FollowerReceivesKeeping ==
  ASSUME Types, Locked, Keeping, NEW t \in Tabs, Receive(t), holder # t
  PROVE  Keeping'
<1> DEFINE m == inbox[t][1]
           e == Answers(t, m)
<1>1. /\ Open(t) /\ inbox[t] # <<>> /\ UNCHANGED <<log, queue, holder, status, topics, owed, skipped>>
      /\ FollowerReceives(t, m) /\ UNCHANGED kept
  BY ReceiveCases DEF Receive
<1>2. /\ Pops(t, e) /\ m \in Postable(Len(log)) /\ Len(log) \in Nat
      /\ \A x \in Tabs : x # t => shown'[x] = shown[x]
      /\ shown'[t] = IF m.t \in {"welcome", "state"} THEN m.state ELSE shown[t]
  BY <1>1, FollowerReceivesTypes, TypeFacts
<1>3. m \in Telling <=> m.t \in {"welcome", "state"}
  <2>1. m \in Message
    BY <1>2, PostedFields
  <2> HIDE DEF m
  <2> QED
    BY <2>1 DEF Telling
<1> HIDE DEF e
<1>4. ASSUME kept # None, NEW x \in Tabs, Open(x)' PROVE Bereft(x)'
  <2>1. /\ LastIn(inbox[x], Telling, TellingOf("closed"))
        /\ NoneIn(inbox[x], Telling) => shown[x] \in {"closed", "connecting"}
    BY <1>1, <1>4 DEF Keeping, Bereft, Open
  <2>2. NoneIn(e[x], Telling)
    BY AnswersSay DEF e
  <2>3. LastIn(inbox'[x], Telling, TellingOf("closed"))
    BY <1>1, <1>2, <2>1, <2>2, NoneIsLast, PopsLast
  <2>4. NoneIn(inbox'[x], Telling) => NoneIn(inbox[x], Telling) \/ (x = t /\ m \in Telling)
    BY <1>1, <1>2, PopsNone
  <2>5. ASSUME NoneIn(inbox'[x], Telling) PROVE shown'[x] \in {"closed", "connecting"}
    <3>1. CASE x # t
      BY <1>2, <2>1, <2>4, <2>5, <3>1
    <3>2. CASE x = t /\ m \in Telling
      <4>1. NoneIn(Tail(inbox[t]), Telling)
        <5>1. /\ Tail(inbox[t]) \in Seq(Postable(Len(log))) /\ e[t] \in Seq(Postable(Len(log)))
              /\ inbox'[t] = Tail(inbox[t]) \o e[t]
          BY <1>1, <1>2, TypeFacts, Popped DEF Pops
        <5> QED
          BY <2>5, <3>2, <5>1, NoneInJoined
      <4>2. m \in TellingOf("closed")
        BY <1>1, <2>1, <3>2, <4>1, TypeFacts, LastInPopped
      <4> HIDE DEF m
      <4> QED
        BY <1>2, <1>3, <3>2, <4>2 DEF TellingOf
    <3>3. CASE x = t /\ m \notin Telling
      <4> HIDE DEF m
      <4> QED
        BY <1>2, <1>3, <2>1, <2>4, <2>5, <3>3
    <3> QED
      BY <3>1, <3>2, <3>3
  <2> QED
    BY <2>3, <2>5 DEF Bereft
<1>5. kept # None => holder = None /\ status[kept] = "closed"
  BY DEF Keeping
<1>6. \A x \in Tabs : status[x] = "absent" => shown'[x] = shown[x]
  BY <1>1, <1>2 DEF Open
<1> QED
  BY <1>1, <1>4, <1>5, <1>6, KeepingStays

LEMMA NextKeeping ==
  ASSUME Types, Locked, Keeping, [Next]_vars
  PROVE  Keeping'
<1>1. ASSUME NEW topic \in Topics, Accept(topic) PROVE Keeping'
  BY <1>1 DEF Accept, tabVars, Keeping, Bereft, Open
<1>2. ASSUME Unload PROVE Keeping'
  BY <1>2 DEF Unload, tabVars, Keeping
<1>3. ASSUME NEW t \in Tabs, NEW topic \in Topics, Subscribe(t, topic) \/ Release(t, topic)
      PROVE  Keeping'
  <2>1. topics'[t] \in SUBSET Topics
    BY <1>3, SubscribeTypes, ReleaseTypes
  <2> QED
    BY <1>3, <2>1, PublishKeeping DEF Subscribe, Release
<1>4. ASSUME NEW t \in Tabs, Dial(t) \/ Connect(t) \/ Drop(t) PROVE Keeping'
  <2>1. PICK state \in States : InnerState(t, state)
    BY <1>4, DialTypes DEF Dial, Connect, Drop, States
  <2>2. \A x \in Tabs : x # t => shown'[x] = shown[x]
    BY <2>1, InnerStateGrows
  <2>3. holder = t /\ holder # None
    BY <1>4, QueueFacts DEF Dial, Connect, Drop
  <2> QED
    BY <1>4, <2>2, <2>3, LedKeeping DEF Dial, Connect, Drop
<1>5. ASSUME NEW t \in Tabs, FanOut(t) PROVE Keeping'
  <2>1. holder # None
    BY <1>5, QueueFacts DEF FanOut
  <2> QED
    BY <1>5, <2>1, LedKeeping DEF FanOut
<1>6. ASSUME NEW t \in Tabs, Receive(t), holder = t PROVE Keeping'
  <2>1. holder # None /\ UNCHANGED <<holder, kept, status, skipped, shown>>
    BY <1>6, QueueFacts, ReceiveCases DEF Receive, LeaderReceives
  <2> QED
    BY <2>1, LedKeeping
<1>7. CASE UNCHANGED vars
  BY <1>7 DEF vars, tabVars, Keeping, Bereft, Open
<1> QED
  BY <1>1, <1>2, <1>3, <1>4, <1>5, <1>6, <1>7, ConstructKeeping, ReconnectKeeping, CloseKeeping,
     DieKeeping, BecomeLeaderKeeping, FollowerReceivesKeeping DEF Next, Works

-----------------------------------------------------------------------------
(* The theorems.                                                           *)

LEMMA Inductive == Spec => []IInv
<1>1. Init => IInv
  <2> SUFFICES ASSUME Init PROVE IInv
    OBVIOUS
  <2>1. Leading
    BY DEF Init, Leading
  <2> QED
    BY <2>1, InitTypes, MembershipInit, AgreementInit, ForwardedInit, KeepingInit DEF IInv
<1>2. IInv /\ [Next]_vars => IInv'
  <2> SUFFICES ASSUME IInv, [Next]_vars PROVE IInv'
    OBVIOUS
  <2>1. OnlyFirst
    BY DEF IInv, Membership
  <2> QED
    BY <2>1, NextTypes, NextLeading, NextMembership, NextAgreement, NextForwarded, NextKeeping
       DEF IInv
<1> QED
  BY <1>1, <1>2, PTL DEF Spec

(* The shared client's type invariant, whatever its tabs do and whenever   *)
(* they are closed or lost: the lock's queue has each open tab once, the   *)
(* tab that leads first, nobody leads while a closed tab's page keeps the  *)
(* lock, and only open tabs have anything to read.                         *)
THEOREM TypeCorrect == Spec => []TypeOK
<1>1. IInv => TypeOK
  <2> SUFFICES ASSUME IInv PROVE TypeOK
    OBVIOUS
  <2>1. Types /\ Locked /\ Leading /\ Keeping
    BY DEF IInv
  <2>2. ToSet(queue) = {t \in Tabs : Open(t)}
    <3>1. ToSet(queue) = {queue[i] : i \in 1..Len(queue)}
      BY <2>1, QueueFacts DEF ToSet
    <3> QED
      BY <2>1, <3>1, QueueFacts DEF Locked
  <2>3. holder # None => queue # <<>> /\ holder = Head(queue)
    BY <2>1, QueueFacts DEF Locked
  <2>4. DOMAIN log = 1..Len(log)
    BY <2>1, LenProperties DEF Types
  <2>5. \A t \in Tabs : heard[t] \cup owed[t] \cup skipped[t] \subseteq DOMAIN log
    BY <2>1, <2>4 DEF Types
  <2> QED
    BY <2>1, <2>2, <2>3, <2>5 DEF TypeOK, Types, Locked, Leading, Boxed, States, Keeping
<1> QED
  BY <1>1, Inductive, PTL

(* createSharedClient takes no event twice and none out of order in any    *)
(* tab, through every hand-over of the lead: a follower's #deliver and its *)
(* welcome compare with the cursor, and a leader's connection is never     *)
(* behind the tab that has it.                                             *)
THEOREM NoTabGoesBack == Spec => NeverBack
<1> DEFINE Forward == \A t \in Tabs : status[t] # "absent" =>
             /\ cursor'[t] >= cursor[t]
             /\ \A k \in heard'[t] \ heard[t] : k > cursor[t]
<1>1. IInv /\ [Next]_vars => [Forward]_vars
  <2> SUFFICES ASSUME IInv, Next, NEW x \in Tabs, status[x] # "absent"
               PROVE  /\ cursor'[x] >= cursor[x]
                      /\ \A k \in heard'[x] \ heard[x] : k > cursor[x]
    OBVIOUS
  <2>1. Types /\ Locked /\ Leading
    BY DEF IInv
  <2>2. cursor[x] \in NoCursor..Len(log) /\ Len(log) \in Nat
    BY <2>1, TypeFacts DEF Types
  <2>3. cursor[x] >= cursor[x]
    BY <2>2 DEF NoCursor
  <2>4. CASE cursor'[x] = cursor[x] /\ heard'[x] = heard[x]
    BY <2>3, <2>4
  <2>5. ASSUME NEW topic \in Topics, Accept(topic) PROVE UNCHANGED <<cursor, heard>>
    BY <2>5 DEF Accept, tabVars
  <2>12. ASSUME Unload PROVE UNCHANGED <<cursor, heard>>
    BY <2>12 DEF Unload, tabVars
  <2>6. ASSUME NEW t \in Tabs, Construct(t) PROVE cursor'[x] = cursor[x] /\ heard'[x] = heard[x]
    <3>1. x # t
      BY <2>6 DEF Construct
    <3> QED
      BY <2>1, <2>6, <3>1 DEF Construct, Types
  <2>7. ASSUME NEW t \in Tabs, NEW topic \in Topics, Subscribe(t, topic) \/ Release(t, topic)
        PROVE  UNCHANGED <<cursor, heard>>
    BY <2>7 DEF Subscribe, Release
  <2>8. ASSUME NEW t \in Tabs, Reconnect(t) \/ Close(t) \/ Die(t) \/ Drop(t)
        PROVE  UNCHANGED <<cursor, heard>>
    BY <2>8 DEF Reconnect, Close, Die, Drop, tabVars
  <2>9. ASSUME NEW t \in Tabs, BecomeLeader(t) \/ Dial(t) \/ Connect(t)
        PROVE  UNCHANGED <<cursor, heard>>
    BY <2>9 DEF BecomeLeader, Dial, Connect
  <2>10. ASSUME NEW t \in Tabs, FanOut(t)
         PROVE  /\ cursor'[x] >= cursor[x]
                /\ \A k \in heard'[x] \ heard[x] : k > cursor[x]
    <3> DEFINE k == Min(Readable)
    <3>1. /\ k > cursor[t] /\ k \in 1..Len(log)
          /\ \/ cursor' = [cursor EXCEPT ![t] = k] /\ heard' = [heard EXCEPT ![t] = @ \cup {k}]
             \/ UNCHANGED <<cursor, heard>>
      BY <2>1, <2>10, FanOutLeading, FanOutTypes
    <3> HIDE DEF k
    <3>2. CASE x # t
      BY <2>1, <2>3, <3>1, <3>2 DEF Types
    <3>3. CASE x = t
      <4>1. \/ cursor'[x] = k /\ heard'[x] = heard[x] \cup {k}
            \/ cursor'[x] = cursor[x] /\ heard'[x] = heard[x]
        BY <2>1, <3>1, <3>3 DEF Types
      <4> QED
        BY <2>2, <2>3, <3>1, <3>3, <4>1 DEF NoCursor
    <3> QED
      BY <3>2, <3>3
  <2>11. ASSUME NEW t \in Tabs, Receive(t)
         PROVE  /\ cursor'[x] >= cursor[x]
                /\ \A k \in heard'[x] \ heard[x] : k > cursor[x]
    <3>1. CASE holder = t
      <4>1. UNCHANGED <<cursor, heard>>
        BY <2>1, <2>11, <3>1, ReceiveCases, LeaderReceivesTypes
      <4> QED
        BY <2>3, <4>1
    <3>2. CASE holder # t
      <4> DEFINE m == inbox[t][1]
      <4>1. /\ m \in Postable(Len(log))
            /\ x # t => cursor'[x] = cursor[x] /\ heard'[x] = heard[x]
            /\ \/ m.t = "event" /\ m.id > cursor[t] /\ cursor'[t] = m.id /\ heard'[t] = heard[t] \cup {m.id}
               \/ m.t = "welcome" /\ m.cursor > cursor[t] /\ cursor'[t] = m.cursor /\ heard'[t] = heard[t]
               \/ cursor'[t] = cursor[t] /\ heard'[t] = heard[t]
        BY <2>1, <2>11, <3>2, ReceiveCases, FollowerReceivesTypes
      <4>2. /\ m.t = "event" => m.id \in 1..Len(log)
            /\ m.t = "welcome" => m.cursor \in NoCursor..Len(log)
        BY <2>2, <4>1, PostedFields
      <4> HIDE DEF m
      <4> QED
        BY <2>2, <2>3, <4>1, <4>2 DEF NoCursor
    <3> QED
      BY <3>1, <3>2
  <2> QED
    BY <2>4, <2>5, <2>6, <2>7, <2>8, <2>9, <2>10, <2>11, <2>12 DEF Next, Works
<1>2. [][Forward]_vars => NeverBack
  BY DEF NeverBack
<1> QED
  BY <1>1, <1>2, Inductive, PTL DEF Spec

(* What a leader fans out on a topic of a tab's own is not lost to that    *)
(* tab by a hand-over: the event is still to be read, in an inbox where    *)
(* nothing before it makes it a duplicate, or the tab leads and has a      *)
(* connection that will replay it from the tab's own cursor.  Only a tab   *)
(* that takes the lead without a cursor loses what it had not read.        *)
THEOREM WhatIsForwardedIsHeard == Spec => []ForwardedIsHeard
<1>1. IInv => ForwardedIsHeard
  <2> SUFFICES ASSUME IInv, NEW t \in Tabs, Open(t), NEW k \in owed[t], k \notin heard[t]
               PROVE  IF Leads(t) THEN k > Position \/ k \in skipped[t] ELSE k \in Pending(t)
    BY DEF ForwardedIsHeard
  <2>1. /\ Types /\ Locked /\ Leading /\ Forwarded /\ Due(t, k)
        /\ holder # t => skipped[t] = {}
    BY DEF IInv, Forwarded, Keeping, Open
  <2>2. (Leads(t) <=> holder = t) /\ t # None
    BY <2>1, QueueFacts
  <2>3. CASE holder = t
    BY <2>1, <2>2, <2>3, OwnIsAhead
  <2>4. CASE holder # t
    <3>1. PICK i \in 1..Len(inbox[t]) : inbox[t][i] = Event(k)
      BY <2>1, <2>4 DEF Due, Ready
    <3>2. DOMAIN inbox[t] = 1..Len(inbox[t]) /\ DOMAIN log = 1..Len(log)
      BY <2>1, TypeFacts, LenProperties DEF Types
    <3>3. k \in 1..Len(log)
      BY <2>1 DEF Types
    <3> QED
      BY <2>2, <2>4, <3>1, <3>2, <3>3 DEF Pending
  <2> QED
    BY <2>3, <2>4
<1> QED
  BY <1>1, Inductive, PTL

(* Whoever leads, and however it came to: with nothing left to do, the     *)
(* union it dials for is what the open tabs want, and of the others only   *)
(* what a tab that died without a word had wanted.                         *)
THEOREM NobodyIsForgotten == Spec => []EveryoneIsServed
<1>1. IInv => EveryoneIsServed
  <2> SUFFICES ASSUME IInv, Settled
               PROVE  /\ UNION {topics[t] : t \in Living} \subseteq inner.asked
                      /\ inner.asked \subseteq UNION {topics[t] : t \in Living \cup Crashed}
    BY DEF EveryoneIsServed
  <2>1. Types /\ Locked /\ Leading /\ Membership
    BY DEF IInv
  <2>2. /\ Living # {} => holder # None
        /\ \A t \in Tabs : inbox[t] = <<>>
        /\ inner.asked = Union(byTab)
    BY DEF Settled
  <2>3. ASSUME holder # None, NEW x \in Tabs, x # holder
        PROVE  byTab[x] = Wants(x) \/ (byTab[x] = {} /\ ~Open(x))
    <3>1. holder \in Tabs /\ inbox[holder] = <<>> /\ inbox[x] = <<>>
      BY <2>1, <2>2, <2>3, QueueFacts
    <3>2. NoneIn(<<>>, From(x)) /\ NoneIn(<<>>, {Lead})
      BY Few
    <3>3. NoneIn(inbox[holder], From(x)) /\ ~Asked(x)
      BY <3>1, <3>2 DEF Asked
    <3> QED
      BY <2>1, <2>3, <3>3 DEF Membership, Known
  <2>4. holder # None => holder \in Living /\ byTab[holder] = topics[holder]
    BY <2>1, QueueFacts DEF Leading, Living
  <2>5. ASSUME NEW t \in Living PROVE topics[t] \subseteq inner.asked
    <3>1. holder # None /\ t \in Tabs /\ Open(t)
      BY <2>2, <2>5 DEF Living
    <3>2. byTab[t] = topics[t]
      BY <2>3, <2>4, <3>1 DEF Wants, Open
    <3> QED
      BY <2>1, <2>2, <3>1, <3>2, UnionIsTopics DEF Types
  <2>6. ASSUME NEW x \in Tabs, NEW topic \in byTab[x]
        PROVE  \E t \in Living \cup Crashed : topic \in topics[t]
    <3>1. holder # None
      BY <2>1, <2>6 DEF Leading
    <3>2. CASE x = holder
      BY <2>4, <2>6, <3>1, <3>2
    <3>3. CASE x # holder
      <4>1. topic \in Wants(x)
        BY <2>3, <2>6, <3>1, <3>3
      <4> QED
        BY <4>1 DEF Wants, Living, Crashed, Open
    <3> QED
      BY <3>2, <3>3
  <2>7. inner.asked \subseteq UNION {topics[t] : t \in Living \cup Crashed}
    BY <2>2, <2>6 DEF Union
  <2> QED
    BY <2>5, <2>7
<1> QED
  BY <1>1, Inductive, PTL

(* With nothing left to do every open tab shows the state of the leader's  *)
(* connection, whether it was told of a change or answered on joining.     *)
THEOREM EveryoneShowsTheSame == Spec => []StatesAgree
<1>1. IInv => StatesAgree
  <2> SUFFICES ASSUME IInv, Settled, inner.asked # {}, NEW t \in Living
               PROVE  shown[t] = inner.state
    BY DEF StatesAgree
  <2>1. Types /\ Locked /\ Leading /\ Agreement
    BY DEF IInv
  <2>2. /\ holder # None /\ t \in Tabs /\ Open(t)
        /\ \A x \in Tabs : inbox[x] = <<>>
    BY DEF Settled, Living
  <2>3. inner.state # "idle"
    BY <2>1, <2>2 DEF Leading
  <2>4. CASE t = holder
    BY <2>1, <2>2, <2>3, <2>4 DEF Leading
  <2>5. CASE t # holder
    <3>1. NoneIn(<<>>, HelloFrom(t)) /\ NoneIn(<<>>, Telling)
      BY Few
    <3>2. holder \in Tabs
      BY <2>1, <2>2, QueueFacts
    <3>3. NoneIn(inbox[holder], HelloFrom(t)) /\ NoneIn(inbox[t], Telling)
      BY <2>2, <3>1, <3>2
    <3> QED
      BY <2>1, <2>2, <2>3, <2>5, <3>3 DEF Agreement, Informed
  <2> QED
    BY <2>4, <2>5
<1> QED
  BY <1>1, Inductive, PTL

(* While a closed tab's page keeps the lock, its farewell is the last an   *)
(* open tab was told: none that has read it goes on showing a connection.  *)
THEOREM AllAreTold == Spec => []NobodyIsMisled
<1>1. IInv => NobodyIsMisled
  <2> SUFFICES ASSUME IInv, kept # None, \A x \in Tabs : inbox[x] = <<>>, NEW t \in Living
               PROVE  shown[t] \in {"closed", "connecting"}
    BY DEF NobodyIsMisled
  <2>1. t \in Tabs /\ Bereft(t)
    BY DEF IInv, Keeping, Living
  <2>2. NoneIn(<<>>, Telling)
    BY Few
  <2>3. NoneIn(inbox[t], Telling)
    BY <2>1, <2>2
  <2> QED
    BY <2>1, <2>3 DEF Bereft
<1> QED
  BY <1>1, Inductive, PTL

(* What is left when nothing is under way is one connection, for the       *)
(* topics of the open tabs, whose state they all show; or a closed tab's   *)
(* page that keeps the lock, and no tab that shows a connection.           *)
THEOREM AllSettlesRight == Spec => []SettlesRight
<1>1. EveryoneIsServed /\ StatesAgree /\ NobodyIsMisled => SettlesRight
  BY DEF SettlesRight
<1> QED
  BY <1>1, NobodyIsForgotten, EveryoneShowsTheSame, AllAreTold, PTL
=============================================================================
