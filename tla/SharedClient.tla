---------------------------- MODULE SharedClient ----------------------------
(***************************************************************************)
(* SharedClient: the tabs of one origin sharing one connection.  The tab   *)
(* that holds the lock leads: it owns the inner Client, keeps who wants    *)
(* what, and forwards everything over a channel.  Each message a tab       *)
(* receives is handled in one step of that tab; in between the others go   *)
(* on, are closed, or die.                                                 *)
(*                                                                         *)
(* The inner Client is what Delivery promises of it: it reads what the hub *)
(* accepted after its cursor on the topics it last asked for.  Nothing is  *)
(* trimmed here and no origin is skipped: gaps and echoes pass through the *)
(* channel unchanged.  An event is its position in the hub's log.          *)
(***************************************************************************)
EXTENDS Integers, SequencesExt

CONSTANTS
  TabCount,    \* tabs there may be, in the order they are opened
  Topics,
  Mounts,      \* per tab: the topics its components follow from the start
  Pages,       \* per tab: how many events were newer than its page's cursor
               \* when it opened, or NoCursor for a page without one
  MaxEvents,   \* bound: events the hub accepts
  MaxMoves,    \* bound: topic changes, reconnects, exits and lost connections
  MaxBacklog   \* bound: messages unread when something new happens

Tabs == 1..TabCount

None == 0

VARIABLES
  log,      \* the hub: the topic of each event it accepted, in order
  queue,    \* the lock: the open tabs in the order they asked for it
  holder,   \* the open tab that was granted it, or None
  kept,     \* the closed tab whose page still has it, or None
  status,   \* per tab: absent, open, closed or dead
  topics,   \* per tab: the topics with a handler
  cursor,   \* per tab: #cursor
  shown,    \* per tab: #state
  inbox,    \* per tab: what was posted and not yet handled, in order
  byTab,    \* the leader's #byTab; no topics for a tab it does not know
  inner,    \* the leader's Client
  heard,    \* per tab: the events it took, for its handlers or as passed
  owed,     \* per tab: the events a leader posted to it, on its topics
  skipped,  \* per tab: what it had not read when it led without a cursor
  moves

tabVars == <<topics, cursor, shown, heard, owed, skipped>>
leadVars == <<byTab, inner>>
vars == <<log, queue, holder, kept, status, tabVars, inbox, leadVars, moves>>

\* Stands for undefined; every id is greater.
NoCursor == -1

ASSUME SharedAssumption ==
  /\ {TabCount, MaxEvents, MaxMoves, MaxBacklog} \subseteq Nat
  /\ Mounts \in [Tabs -> SUBSET Topics]
  /\ Pages \in [Tabs -> Nat \cup {NoCursor}]

NoClient == [cursor |-> NoCursor, asked |-> {}, due |-> FALSE, state |-> "idle",
             from |-> NoCursor]

Init ==
  /\ log = <<>>
  /\ queue = <<>>
  /\ holder = None
  /\ kept = None
  /\ status = [t \in Tabs |-> "absent"]
  /\ topics = [t \in Tabs |-> {}]
  /\ cursor = [t \in Tabs |-> NoCursor]
  /\ shown = [t \in Tabs |-> "connecting"]
  /\ inbox = [t \in Tabs |-> <<>>]
  /\ byTab = [t \in Tabs |-> {}]
  /\ inner = NoClient
  /\ heard = [t \in Tabs |-> {}]
  /\ owed = [t \in Tabs |-> {}]
  /\ skipped = [t \in Tabs |-> {}]
  /\ moves = 0

Open(t) == status[t] = "open"
Leads(t) == holder = t /\ Open(t)
Calm ==
  LET unread[t \in 0..TabCount] == IF t = 0 THEN 0 ELSE unread[t - 1] + Len(inbox[t])
  IN unread[TabCount] <= MaxBacklog
Move == Calm /\ moves < MaxMoves /\ moves' = moves + 1

Living == {t \in Tabs : Open(t)}
Crashed == {t \in Tabs : status[t] = "dead"}

Union(known) == UNION {known[t] : t \in Tabs}

-----------------------------------------------------------------------------
(* The channel: everyone who has it open but the sender, in one order.     *)
(* What a reader would ignore is not posted to it: a welcome goes to its   *)
(* addressee, and what only a leader acts on to the leader or, while there *)
(* is none, to the tab that is next in line and may lead by the time it    *)
(* reads it.  Any other tab that came to lead would ask again.             *)
Hello(t, T) == [t |-> "hello", from |-> t, topics |-> T]
TopicsOf(t, T) == [t |-> "topics", from |-> t, topics |-> T]
Bye(t) == [t |-> "bye", from |-> t]
ReconnectPlease == [t |-> "reconnect"]
Lead == [t |-> "lead"]
Welcome(c, s) == [t |-> "welcome", cursor |-> c, state |-> s]
Event(k) == [t |-> "event", id |-> k]
StateIs(s) == [t |-> "state", state |-> s]

Posted(boxes, from, ms) ==
  [t \in Tabs |-> IF Open(t) /\ t # from THEN boxes[t] \o ms ELSE boxes[t]]

Post(from, ms) == inbox' = Posted(inbox, from, ms)

ForLeader(boxes, from, ms) ==
  IF queue # <<>> /\ Head(queue) # from
  THEN [boxes EXCEPT ![Head(queue)] = @ \o ms]
  ELSE boxes

Ask(from, ms) == inbox' = ForLeader(inbox, from, ms)

Handled(t) == [inbox EXCEPT ![t] = Tail(@)]

-----------------------------------------------------------------------------
(* The constructor: an initial cursor read with the page or none, a lock   *)
(* requested, and an announcement whoever leads may answer.  Components    *)
(* mount before anything can be answered.                                  *)
Construct(t) ==
  /\ status[t] = "absent"
  /\ Calm
  /\ \A x \in 1..(t - 1) : status[x] # "absent"
  /\ status' = [status EXCEPT ![t] = "open"]
  /\ Pages[t] <= Len(log)
  /\ cursor' = [cursor EXCEPT ![t] = IF Pages[t] = NoCursor THEN NoCursor ELSE Len(log) - Pages[t]]
  /\ queue' = Append(queue, t)
  /\ topics' = [topics EXCEPT ![t] = Mounts[t]]
  /\ Ask(t, <<Hello(t, {}), TopicsOf(t, Mounts[t])>>)
  /\ UNCHANGED <<log, holder, kept, shown, heard, owed, skipped, leadVars, moves>>

(* #publishTopics, with a leader's #syncUnion: its union follows byTab. *)
PublishTopics(t, T) ==
  IF Leads(t)
  THEN byTab' = [byTab EXCEPT ![t] = T] /\ UNCHANGED inbox
  ELSE Ask(t, <<TopicsOf(t, T)>>) /\ UNCHANGED byTab

Subscribe(t, topic) ==
  /\ Open(t)
  /\ topic \notin topics[t]
  /\ Move
  /\ topics' = [topics EXCEPT ![t] = @ \cup {topic}]
  /\ PublishTopics(t, topics'[t])
  /\ UNCHANGED <<log, queue, holder, kept, status, cursor, shown, heard, owed, skipped, inner>>

(* The release of a topic's last handler. *)
Release(t, topic) ==
  /\ Open(t)
  /\ topic \in topics[t]
  /\ Move
  /\ topics' = [topics EXCEPT ![t] = @ \ {topic}]
  /\ owed' = [owed EXCEPT ![t] = {k \in @ : log[k] # topic}]
  /\ PublishTopics(t, topics'[t])
  /\ UNCHANGED <<log, queue, holder, kept, status, cursor, shown, heard, skipped, inner>>

(* The inner client's onStateChange: told to every tab and shown here. *)
InnerState(t, state) ==
  IF inner.state = state
  THEN UNCHANGED <<inbox, shown>>
  ELSE /\ Post(t, <<StateIs(state)>>)
       /\ shown' = [shown EXCEPT ![t] = state]

(* The inner client's reconnect(): the connection is gone and a #sync due. *)
Hung == [inner EXCEPT !.asked = {}, !.due = TRUE]

Reconnect(t) ==
  /\ Open(t)
  /\ Move
  /\ IF Leads(t)
     THEN inner' = Hung /\ UNCHANGED inbox
     ELSE Ask(t, <<ReconnectPlease>>) /\ UNCHANGED inner
  /\ UNCHANGED <<log, queue, holder, kept, status, tabVars, byTab>>

RequestEnds(t) == \E i \in DOMAIN queue : queue[i] = t /\ queue' = RemoveAt(queue, i)

LeadEnds(t) ==
  /\ holder' = IF holder = t THEN None ELSE holder
  /\ inner' = IF holder = t THEN NoClient ELSE inner
  /\ byTab' = IF holder = t THEN [x \in Tabs |-> {}] ELSE byTab

LeaveQueue(t) == RequestEnds(t) /\ LeadEnds(t)

(* The signal is never given: the request stays in line. *)
AbortNothing(t) == UNCHANGED <<queue, kept>>

(* close's signal withdraws a request that is still pending.  A lock that  *)
(* was granted stays with the page: the callback's promise never resolves. *)
Abort(t) == RequestEnds(t) /\ kept' = IF holder = t THEN t ELSE kept

(* A leader that goes without its inner client reporting. *)
FarewellUnreported(t) ==
  IF Leads(t) THEN inbox ELSE ForLeader(inbox, t, <<Bye(t)>>)

(* What the others hear of it: a leader's inner client reports itself      *)
(* closed on the way.                                                      *)
Farewell(t) ==
  IF Leads(t) THEN Posted(inbox, t, <<StateIs("closed")>>) ELSE ForLeader(inbox, t, <<Bye(t)>>)

Close(t) ==
  /\ Open(t)
  /\ Move
  /\ status' = [status EXCEPT ![t] = "closed"]
  /\ inbox' = [Farewell(t) EXCEPT ![t] = <<>>]
  /\ shown' = [shown EXCEPT ![t] = "closed"]
  /\ Abort(t)
  /\ LeadEnds(t)
  /\ UNCHANGED <<log, topics, cursor, heard, owed, skipped>>

(* The page of a closed leader goes, and the lock with it. *)
Unload ==
  /\ kept # None
  /\ kept' = None
  /\ UNCHANGED <<log, queue, holder, status, tabVars, inbox, leadVars, moves>>

(* The tab crashes or is killed: nothing is said, and the lock is free. *)
Die(t) ==
  /\ Open(t)
  /\ Move
  /\ status' = [status EXCEPT ![t] = "dead"]
  /\ inbox' = [inbox EXCEPT ![t] = <<>>]
  /\ LeaveQueue(t)
  /\ UNCHANGED <<log, kept, tabVars>>

-----------------------------------------------------------------------------
Pending(t) == {k \in DOMAIN log : \E i \in DOMAIN inbox[t] : inbox[t][i] = Event(k)}

(* The lock is free, and goes to the first in line.  What a tab that never *)
(* had a cursor has not read by then is lost to it: a leader ignores what  *)
(* leaders say, and its own connection starts from now.                    *)
Granted(t) ==
  /\ holder = None /\ kept = None
  /\ queue # <<>> /\ t = Head(queue)
  /\ holder' = t
  /\ skipped' = [skipped EXCEPT ![t] = IF cursor[t] = NoCursor THEN Pending(t) ELSE {}]

(* The new leader does not ask who else is there. *)
BecomeLeaderSilently(t) ==
  /\ Granted(t)
  /\ byTab' = [byTab EXCEPT ![t] = topics[t]]
  /\ inner' = [NoClient EXCEPT !.cursor = cursor[t]]
  /\ UNCHANGED inbox
  /\ UNCHANGED <<log, queue, kept, status, topics, cursor, shown, heard, owed, moves>>

(* The new leader's connection starts from now. *)
BecomeLeaderAfresh(t) ==
  /\ Granted(t)
  /\ byTab' = [byTab EXCEPT ![t] = topics[t]]
  /\ inner' = NoClient
  /\ Post(t, <<Lead>>)
  /\ UNCHANGED <<log, queue, kept, status, topics, cursor, shown, heard, owed, moves>>

(* The lock's callback runs: a connection that resumes from this tab's own *)
(* cursor, and a question to the others.                                   *)
BecomeLeader(t) ==
  /\ Granted(t)
  /\ byTab' = [byTab EXCEPT ![t] = topics[t]]
  /\ inner' = [NoClient EXCEPT !.cursor = cursor[t]]
  /\ Post(t, <<Lead>>)
  /\ UNCHANGED <<log, queue, kept, status, topics, cursor, shown, heard, owed, moves>>

(* The inner client's #sync, after its debounce: a stream for the union,   *)
(* or none.                                                                *)
Dial(t) ==
  /\ Leads(t)
  /\ inner.due \/ inner.asked # Union(byTab)
  /\ LET state == IF Union(byTab) = {} THEN "idle" ELSE "connecting"
     IN /\ inner' = [inner EXCEPT !.asked = Union(byTab), !.due = FALSE, !.state = state]
        /\ InnerState(t, state)
  /\ UNCHANGED <<log, queue, holder, kept, status, topics, cursor, heard, owed, skipped, byTab, moves>>

(* The response's head.  Without a cursor the stream starts from now. *)
Connect(t) ==
  /\ Leads(t)
  /\ inner.state = "connecting"
  /\ inner.asked # {}
  /\ inner' = [inner EXCEPT !.state = "open",
                 !.from = IF inner.cursor = NoCursor THEN Len(log) ELSE inner.cursor]
  /\ InnerState(t, "open")
  /\ UNCHANGED <<log, queue, holder, kept, status, topics, cursor, heard, owed, skipped, byTab, moves>>

(* The connection is lost and dialled again with what it asked for. *)
Drop(t) ==
  /\ Leads(t)
  /\ inner.state = "open"
  /\ Move
  /\ inner' = [inner EXCEPT !.state = "connecting"]
  /\ InnerState(t, "connecting")
  /\ UNCHANGED <<log, queue, holder, kept, status, topics, cursor, heard, owed, skipped, byTab>>

-----------------------------------------------------------------------------
Ahead(t, k) == k > cursor[t]

(* #deliver: what is not ahead of the cursor is a duplicate. *)
Deliver(t, k) ==
  IF Ahead(t, k)
  THEN /\ cursor' = [cursor EXCEPT ![t] = k]
       /\ heard' = [heard EXCEPT ![t] = @ \cup {k}]
  ELSE UNCHANGED <<cursor, heard>>

(* How far a tab will be once it has handled its inbox. *)
Horizon(t) ==
  LET Coming == {inbox[t][i].id : i \in {j \in DOMAIN inbox[t] : inbox[t][j].t = "event"}}
        \cup {inbox[t][i].cursor : i \in {j \in DOMAIN inbox[t] : inbox[t][j].t = "welcome"}}
  IN Max(Coming \cup {cursor[t]})

Position == IF inner.cursor = NoCursor THEN inner.from ELSE inner.cursor

(* Events the stream has for the leader, after what it already read. *)
Readable == {k \in DOMAIN log : k > Position /\ log[k] \in inner.asked}

(* The inner client reads an event.  If a tab still wants its topic it is  *)
(* fanned out: posted to every tab, and delivered here.                    *)
FanOut(t) ==
  /\ Leads(t)
  /\ inner.state = "open"
  /\ Readable # {}
  /\ LET k == Min(Readable)
     IN /\ inner' = [inner EXCEPT !.cursor = k]
        /\ IF log[k] \in Union(byTab)
           THEN /\ Post(t, <<Event(k)>>)
                /\ owed' = [x \in Tabs |->
                     IF Open(x) /\ log[k] \in topics[x] /\ k > Horizon(x)
                     THEN owed[x] \cup {k} ELSE owed[x]]
                /\ Deliver(t, k)
           ELSE UNCHANGED <<inbox, owed, cursor, heard>>
  /\ UNCHANGED <<log, queue, holder, kept, status, topics, shown, skipped, byTab, moves>>

(* Another writer somewhere: the hub accepts an event. *)
Accept(topic) ==
  /\ Len(log) < MaxEvents
  /\ Calm
  /\ log' = Append(log, topic)
  /\ UNCHANGED <<queue, holder, kept, status, tabVars, inbox, leadVars, moves>>

-----------------------------------------------------------------------------
(* #receive, on a leader: what leaders say is not for it. *)
LeaderReceives(t, m) ==
  /\ byTab' = CASE m.t \in {"hello", "topics"} -> [byTab EXCEPT ![m.from] = m.topics]
                [] m.t = "bye" -> [byTab EXCEPT ![m.from] = {}]
                [] OTHER -> byTab
  /\ inner' = IF m.t = "reconnect" THEN Hung ELSE inner
  /\ inbox' = IF m.t = "hello" /\ Open(m.from)
              THEN [Handled(t) EXCEPT ![m.from] = Append(@, Welcome(inner.cursor, inner.state))]
              ELSE Handled(t)
  /\ UNCHANGED <<cursor, heard, shown>>

(* A welcome's cursor is taken whether it is ahead or not. *)
FollowerTakesAnyCursor(t, m) ==
  /\ IF m.t = "event" THEN Deliver(t, m.id)
     ELSE /\ cursor' = IF m.t = "welcome"
                       THEN [cursor EXCEPT ![t] = m.cursor] ELSE cursor
          /\ UNCHANGED heard
  /\ shown' = IF m.t \in {"welcome", "state"} THEN [shown EXCEPT ![t] = m.state] ELSE shown
  /\ inbox' = CASE m.t = "lead" -> ForLeader(Handled(t), t, <<Hello(t, topics[t])>>)
                [] m.t = "welcome" -> ForLeader(Handled(t), t, <<TopicsOf(t, topics[t])>>)
                [] OTHER -> Handled(t)
  /\ UNCHANGED leadVars

(* A welcome's state is not shown. *)
FollowerForgetsState(t, m) ==
  /\ IF m.t = "event" THEN Deliver(t, m.id)
     ELSE /\ cursor' = IF m.t = "welcome" /\ Ahead(t, m.cursor)
                       THEN [cursor EXCEPT ![t] = m.cursor] ELSE cursor
          /\ UNCHANGED heard
  /\ shown' = IF m.t = "state" THEN [shown EXCEPT ![t] = m.state] ELSE shown
  /\ inbox' = CASE m.t = "lead" -> ForLeader(Handled(t), t, <<Hello(t, topics[t])>>)
                [] m.t = "welcome" -> ForLeader(Handled(t), t, <<TopicsOf(t, topics[t])>>)
                [] OTHER -> Handled(t)
  /\ UNCHANGED leadVars

(* On a follower: what followers say is not for it. *)
FollowerReceives(t, m) ==
  /\ IF m.t = "event" THEN Deliver(t, m.id)
     ELSE /\ cursor' = IF m.t = "welcome" /\ Ahead(t, m.cursor)
                       THEN [cursor EXCEPT ![t] = m.cursor] ELSE cursor
          /\ UNCHANGED heard
  /\ shown' = IF m.t \in {"welcome", "state"} THEN [shown EXCEPT ![t] = m.state] ELSE shown
  /\ inbox' = CASE m.t = "lead" -> ForLeader(Handled(t), t, <<Hello(t, topics[t])>>)
                [] m.t = "welcome" -> ForLeader(Handled(t), t, <<TopicsOf(t, topics[t])>>)
                [] OTHER -> Handled(t)
  /\ UNCHANGED leadVars

Receive(t) ==
  /\ Open(t)
  /\ inbox[t] # <<>>
  /\ IF Leads(t) THEN LeaderReceives(t, Head(inbox[t])) ELSE FollowerReceives(t, Head(inbox[t]))
  /\ UNCHANGED <<log, queue, holder, kept, status, topics, owed, skipped, moves>>

-----------------------------------------------------------------------------
Works(t) == Receive(t) \/ BecomeLeader(t) \/ Dial(t) \/ Connect(t) \/ FanOut(t)

Next ==
  \/ \E topic \in Topics : Accept(topic)
  \/ Unload
  \/ \E t \in Tabs :
       \/ Construct(t)
       \/ \E topic \in Topics : Subscribe(t, topic) \/ Release(t, topic)
       \/ Reconnect(t)
       \/ Close(t)
       \/ Die(t)
       \/ Drop(t)
       \/ Works(t)

Spec == Init /\ [][Next]_vars

(* Nothing is left to do until somebody moves: an open tab has the lock,   *)
(* all messages were handled, and the stream is up and was read to the     *)
(* end.  While a closed tab's page keeps the lock, nothing settles.        *)
Settled ==
  /\ Living # {} => holder # None
  /\ \A t \in Tabs : inbox[t] = <<>>
  /\ inner.asked = Union(byTab) /\ ~inner.due
  /\ inner.state # "connecting"
  /\ inner.state = "open" => Readable = {}

-----------------------------------------------------------------------------
(* Every variable has its type, one tab at most has the lock, the leader   *)
(* at the head of its queue or a closed one, and only tabs that are open   *)
(* are in line for it or have anything to read.                            *)
TypeOK ==
  /\ log \in Seq(Topics)
  /\ IsInjective(queue) /\ ToSet(queue) = {t \in Tabs : Open(t)}
  /\ holder # None => queue # <<>> /\ holder = Head(queue)
  /\ holder = None => inner = NoClient
  /\ kept # None => holder = None /\ status[kept] = "closed"
  /\ status \in [Tabs -> {"absent", "open", "closed", "dead"}]
  /\ topics \in [Tabs -> SUBSET Topics]
  /\ cursor \in [Tabs -> NoCursor..Len(log)]
  /\ shown \in [Tabs -> {"idle", "connecting", "open", "closed"}]
  /\ \A t \in Tabs : ~Open(t) => inbox[t] = <<>>
  /\ \A t \in Tabs : heard[t] \cup owed[t] \cup skipped[t] \subseteq DOMAIN log

(* No tab goes back: whoever leads, and whatever a new leader has replayed *)
(* or an older one had posted, a tab takes an event only if it is after    *)
(* all it took before, hence never twice.                                  *)
NeverBack ==
  [][\A t \in Tabs : status[t] # "absent" =>
       /\ cursor'[t] >= cursor[t]
       /\ \A k \in heard'[t] \ heard[t] : k > cursor[t]]_vars

(* What a leader forwarded on a topic of a tab's own is not lost to that   *)
(* tab, though the tab take the lead before it has read it, the leader     *)
(* die, or another take over that never saw it: it is heard, still to be   *)
(* read, or after the cursor its own connection resumes from.  Excepted is *)
(* what a tab that takes the lead without any cursor had not read by then. *)
ForwardedIsHeard ==
  \A t \in Tabs : Open(t) =>
    \A k \in owed[t] \ heard[t] :
      IF Leads(t) THEN k > Position \/ k \in skipped[t] ELSE k \in Pending(t)

(* Once all has settled, the stream asks for every topic an open tab wants *)
(* though that tab was not the one that moved, and for nothing only a      *)
(* closed tab wanted.  A tab that died without a word may linger.          *)
EveryoneIsServed ==
  Settled => /\ UNION {topics[t] : t \in Living} \subseteq inner.asked
             /\ inner.asked \subseteq UNION {topics[t] : t \in Living \cup Crashed}

(* Once all has settled, every open tab shows the state of the one         *)
(* connection there is, if there is one.                                   *)
StatesAgree ==
  Settled /\ inner.asked # {} => \A t \in Living : shown[t] = inner.state

(* While a closed tab's page keeps the lock nobody serves the open tabs;   *)
(* but none that has read what it was sent goes on showing a connection.   *)
NobodyIsMisled ==
  (kept # None /\ \A t \in Tabs : inbox[t] = <<>>) =>
    \A t \in Living : shown[t] \in {"closed", "connecting"}

(* Whichever tabs led, closed or crashed, and whatever they still had in   *)
(* their inboxes then: what is left when nothing is under way is one       *)
(* connection, for the topics of the open tabs, whose state they all show, *)
(* or a closed tab's page that keeps the lock, and no tab that shows a     *)
(* connection.                                                             *)
SettlesRight == EveryoneIsServed /\ StatesAgree /\ NobodyIsMisled
=============================================================================
