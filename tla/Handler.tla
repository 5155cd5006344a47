------------------------------ MODULE Handler ------------------------------
(***************************************************************************)
(* The stream handler of one process (createHub) from request to closed    *)
(* connection, with a backplane: the awaits of authorize and of the shared *)
(* replay, and everything that may happen across them.                     *)
(*                                                                         *)
(* The shared log is the backplane's.  An event is its position in it and  *)
(* positions stand for ids; any process may publish, the oldest events may *)
(* be trimmed, and this process reads the log in order and fans it out.    *)
(* What it has not read is not trimmed: the reader keeps up that far.      *)
(*                                                                         *)
(* A connection is in the hub's map exactly while the core has it as a     *)
(* subscriber, so one set stands for both.  Parsing and its 400s change    *)
(* nothing and are left out.                                               *)
(***************************************************************************)
EXTENDS Integers, Sequences, FiniteSets, SequencesExt

CONSTANTS
  Requests,        \* requests for the stream, each made at most once
  NoRequest,
  Topics,
  Asks,            \* per request: the topics it names, in order
  Resuming,        \* bound: the requests that may carry a cursor
  MaxConnections,
  MaxRevokes,      \* bound: permissions withdrawn
  MaxOutside       \* bound: events published and permissions withdrawn

ASSUME HandlerAssumption ==
  /\ NoRequest \notin Requests
  /\ \A r \in Requests : Asks[r] \in Seq(Topics) \ {<<>>} /\ IsInjective(Asks[r])
  /\ Resuming \subseteq Requests
  /\ {MaxConnections, MaxRevokes, MaxOutside} \subseteq Nat

VARIABLES
  log,         \* the topics of the events published, in the log's order
  trimmed,     \* how many of the oldest the log no longer holds
  read,        \* how many this process has read and fanned out
  permits,     \* per request: the topics authorize allows it at this moment
  req,         \* per request: how far it has come
  conns,       \* connections, and the core's subscribers
  sweep,       \* the revalidation in progress
  keepAlive,   \* the shared keepalive timer runs
  closed,
  opened,      \* counters.opened
  closes       \* counters.closed, its reasons added up

logVars == <<log, trimmed, read>>

hubVars == <<conns, sweep, keepAlive, closed, opened, closes>>

vars == <<logVars, permits, req, hubVars>>

NoCursor == -1

Unanswered == [events |-> <<>>, truncated |-> FALSE, here |-> FALSE]

Fresh ==
  [pc |-> "new",          \* new, checking, replaying, abandoned, open, done
   left |-> <<>>,         \* topics authorize has not answered for
   granted |-> {},        \* topics it allowed
   cursor |-> NoCursor,   \* what the request resumes from
   answer |-> Unanswered, \* what the shared replay brought
   pending |-> <<>>,      \* live frames held back while opening
   since |-> 0,           \* the client holds, or has been told to fetch, what
                          \* is up to here: the rest it must be given
   out |-> <<>>,          \* the events written to the response
   head |-> "none",       \* none, stream, refused, or implicit: Node's own
   gone |-> FALSE]        \* whether the client left and nobody heard

NoSweep == [queue |-> {}, current |-> NoRequest, left |-> <<>>, denied |-> FALSE]

Init ==
  /\ log = <<>>
  /\ trimmed = 0
  /\ read = 0
  /\ permits = [r \in Requests |-> ToSet(Asks[r])]
  /\ req = [r \in Requests |-> Fresh]
  /\ conns = {}
  /\ sweep = NoSweep
  /\ keepAlive = FALSE
  /\ closed = FALSE
  /\ opened = 0
  /\ closes = 0

At(r, place) == req[r].pc = place

-----------------------------------------------------------------------------
(* A close event that finds nothing is counted all the same. *)
DropsCountingTwice(S) ==
  /\ conns' = conns \ S
  /\ closes' = closes + Cardinality(S)
  /\ keepAlive' = (keepAlive /\ conns' # {})

(* drop, of each of S: only a connection still in the map is counted, and  *)
(* the last one to go stops the keepalive.                                 *)
Drops(S) ==
  /\ conns' = conns \ S
  /\ closes' = closes + Cardinality(S \cap conns)
  /\ keepAlive' = (keepAlive /\ conns' # {})

Done(head) == [Fresh EXCEPT !.pc = "done", !.head = head]

(* An opened response ends with its connection.  One still opening is left *)
(* to its own handler, which will find the connection gone.                *)
Ended(q) == IF q.pc = "open" THEN Done(q.head) ELSE [Fresh EXCEPT !.pc = "abandoned"]

Dropped(S) == [r \in Requests |-> IF r \in S \cap conns THEN Ended(req[r]) ELSE req[r]]

-----------------------------------------------------------------------------
Withdrawn == {x \in Requests \X Topics : x[2] \in ToSet(Asks[x[1]]) \ permits[x[1]]}

Outside == Len(log) + Cardinality(Withdrawn) < MaxOutside

(* The shared log, as every process sees it. *)
Publish(t) ==
  /\ Outside
  /\ log' = Append(log, t)
  /\ UNCHANGED <<trimmed, read, permits, req, hubVars>>

Trim ==
  /\ trimmed < read
  /\ trimmed' = trimmed + 1
  /\ UNCHANGED <<log, read, permits, req, hubVars>>

(* A write to a response without a head makes Node send one of its own. *)
Written(q) == IF q.head = "none" THEN [q EXCEPT !.head = "implicit"] ELSE q

(* The frame goes out at once, also to a response without a head. *)
WriteToAtOnce(q, n) == [Written(q) EXCEPT !.out = Append(@, n)]

(* Frames are held back for good: opening does not end it. *)
WriteToHeldBack(q, n) == [q EXCEPT !.pending = Append(@, n)]

(* writeTo: a connection still opening gets its frames later. *)
WriteTo(q, n) ==
  IF q.pc = "replaying" THEN [q EXCEPT !.pending = Append(@, n)]
  ELSE [Written(q) EXCEPT !.out = Append(@, n)]

(* The backplane's sink: the next event is appended to the core and fanned *)
(* out, and those who turn out to be too slow are ended.  How far behind   *)
(* they must be is Stream's and Registry's subject: here any may be.       *)
FanOut(slow) ==
  LET targets == {r \in conns : log[read + 1] \in req[r].granted}
      written == [r \in Requests |->
                    IF r \in targets THEN WriteTo(req[r], read + 1) ELSE req[r]]
  IN /\ read < Len(log)
     /\ ~closed
     /\ slow \subseteq {r \in targets : At(r, "open") /\ ~req[r].gone}
     /\ read' = read + 1
     /\ req' = [r \in Requests |-> IF r \in slow THEN Ended(written[r]) ELSE written[r]]
     /\ Drops(slow)
     /\ UNCHANGED <<log, trimmed, permits, sweep, closed, opened>>

-----------------------------------------------------------------------------
Step(r, q) == req' = [req EXCEPT ![r] = q]

Arrive(r, cursor) ==
  /\ At(r, "new")
  /\ cursor = NoCursor \/ r \in Resuming
  /\ Step(r, [Fresh EXCEPT !.pc = "checking", !.left = Asks[r], !.cursor = cursor])
  /\ UNCHANGED <<logVars, permits, hubVars>>

(* One topic at a time; what authorize says holds for this moment only. *)
Authorize(r) ==
  /\ At(r, "checking")
  /\ req[r].left # <<>>
  /\ Step(r, [req[r] EXCEPT !.left = Tail(@),
                            !.granted = @ \cup ({Head(req[r].left)} \cap permits[r])])
  /\ UNCHANGED <<logVars, permits, hubVars>>

(* authorize throws: a 500. *)
AuthorizeThrows(r) ==
  /\ At(r, "checking")
  /\ req[r].left # <<>>
  /\ Step(r, Done("refused"))
  /\ UNCHANGED <<logVars, permits, hubVars>>

(* Whether the hub closed meanwhile is not looked at again. *)
TurnsAwayUnlessFull(r) ==
  req[r].granted = {} \/ Cardinality(conns) >= MaxConnections

(* 403, 503 and 429. *)
TurnsAway(r) ==
  req[r].granted = {} \/ closed \/ Cardinality(conns) >= MaxConnections

Opened(q, since, frames) ==
  [Fresh EXCEPT !.pc = "open", !.granted = q.granted, !.since = since,
                !.out = frames, !.head = "stream", !.gone = q.gone]

(* What a client must be given of an opening stream: what is after its     *)
(* cursor, or, told of a gap, what is published after it refetches.        *)
OwedFrom(q, truncated) == IF truncated THEN Len(log) ELSE q.since

(* The queued frames first, and then the replay that is older than they.   *)
StreamingQueueFirst(q, replay, truncated) ==
  Opened(q, OwedFrom(q, truncated), q.pending \o replay)

(* From the head on: the gap, the replay, what was held back, in order. *)
Streaming(q, replay, truncated) ==
  Opened(q, OwedFrom(q, truncated), replay \o q.pending)

(* Everything after the last authorize: the refusals, or registration and  *)
(* the listeners; without a cursor nothing is awaited and the stream opens.*)
Admit(r) ==
  LET resumes == req[r].cursor # NoCursor
      registered == [req[r] EXCEPT !.pc = "replaying",
                                   !.since = IF resumes THEN req[r].cursor ELSE read]
  IN /\ At(r, "checking")
     /\ req[r].left = <<>>
     /\ IF TurnsAway(r)
        THEN /\ Step(r, Done("refused"))
             /\ UNCHANGED hubVars
        ELSE /\ conns' = conns \cup {r}
             /\ opened' = opened + 1
             /\ Step(r, IF resumes THEN registered ELSE Streaming(registered, <<>>, FALSE))
             /\ keepAlive' = (keepAlive \/ ~resumes)
             /\ UNCHANGED <<sweep, closed, closes>>
     /\ UNCHANGED <<logVars, permits>>

InOrder(S) ==
  CHOOSE s \in [1..Cardinality(S) -> S] :
    (\A i, j \in DOMAIN s : i < j => s[i] < s[j]) /\ ToSet(s) = S

(* The backplane answers: everything it holds after the cursor on these    *)
(* topics, oldest first, and whether something after it is gone.           *)
Answer(r) ==
  LET from == IF req[r].cursor < trimmed THEN trimmed ELSE req[r].cursor
      wanted == {n \in (from + 1)..Len(log) : log[n] \in req[r].granted}
  IN /\ At(r, "replaying")
     /\ ~req[r].answer.here
     /\ Step(r, [req[r] EXCEPT !.answer = [events |-> InOrder(wanted),
                                          truncated |-> req[r].cursor < trimmed,
                                          here |-> TRUE]])
     /\ UNCHANGED <<logVars, permits, hubVars>>

(* It cannot answer, which must not read as nothing missed. *)
AnswerFails(r) ==
  /\ At(r, "replaying")
  /\ ~req[r].answer.here
  /\ Step(r, [req[r] EXCEPT !.answer = [events |-> <<>>, truncated |-> TRUE, here |-> TRUE]])
  /\ UNCHANGED <<logVars, permits, hubVars>>

(* The handler goes on after the replay: its connection is still there. *)
Open(r) ==
  LET a == req[r].answer
  IN /\ At(r, "replaying")
     /\ a.here
     /\ Step(r, Streaming(req[r], a.events, a.truncated))
     /\ keepAlive' = TRUE
     /\ UNCHANGED <<logVars, permits, conns, sweep, closed, opened, closes>>

(* The handler returns and leaves the response as it is. *)
GiveUpSilently(r) ==
  /\ At(r, "abandoned")
  /\ Step(r, [Fresh EXCEPT !.pc = "done"])
  /\ UNCHANGED <<logVars, permits, hubVars>>

(* Its connection was dropped meanwhile: a 503, whatever the replay said. *)
GiveUp(r) ==
  /\ At(r, "abandoned")
  /\ Step(r, Done("refused"))
  /\ UNCHANGED <<logVars, permits, hubVars>>

-----------------------------------------------------------------------------
(* The client goes away and Node emits close.  The listeners are attached  *)
(* on registration, ahead of the awaited replay: before that nobody hears. *)
Leave(r) ==
  /\ req[r].pc \in {"checking", "replaying", "open"}
  /\ ~req[r].gone
  /\ IF At(r, "checking")
     THEN Step(r, [req[r] EXCEPT !.gone = TRUE]) /\ UNCHANGED <<conns, keepAlive, closes>>
     ELSE req' = Dropped({r}) /\ Drops({r})
  /\ UNCHANGED <<logVars, permits, sweep, closed, opened>>

(* disconnect, with a predicate that matches the connections in S. *)
Disconnect(S) ==
  /\ S \subseteq conns
  /\ req' = Dropped(S)
  /\ Drops(S)
  /\ UNCHANGED <<logVars, permits, sweep, closed, opened>>

Close ==
  /\ ~closed
  /\ closed' = TRUE
  /\ req' = Dropped(conns)
  /\ Drops(conns)
  /\ UNCHANGED <<logVars, permits, sweep, opened>>

(* The keepalive's tick, which writes to opened responses only. *)
KeepAliveTick ==
  /\ keepAlive
  /\ req' = [r \in Requests |->
               IF r \in conns /\ ~At(r, "replaying") THEN Written(req[r]) ELSE req[r]]
  /\ UNCHANGED <<logVars, permits, hubVars>>

-----------------------------------------------------------------------------
Revoke(r, t) ==
  /\ t \in permits[r]
  /\ Cardinality(Withdrawn) < MaxRevokes
  /\ Outside
  /\ permits' = [permits EXCEPT ![r] = @ \ {t}]
  /\ UNCHANGED <<logVars, req, hubVars>>

SweepVars == <<logVars, permits, closed, opened>>

(* On to a connection of the snapshot that is still there, or to the end.  *)
Advance(queue) ==
  LET Topical(r) == LET Granted(t) == t \in req[r].granted IN SelectSeq(Asks[r], Granted)
  IN IF queue = {} THEN {NoSweep}
     ELSE {[queue |-> queue \ {r}, current |-> r, left |-> Topical(r), denied |-> FALSE] : r \in queue}

(* revalidate, every revalidateMs until the hub closes.  A run that is     *)
(* still busy when the next is due overlaps with it in the code; they      *)
(* share nothing but the map, so one at a time is followed here.           *)
SweepStart ==
  /\ ~closed
  /\ sweep = NoSweep
  /\ conns # {}
  /\ sweep' \in Advance(conns)
  /\ UNCHANGED <<SweepVars, req, conns, keepAlive, closes>>

(* Only the first topic is asked about. *)
SweepAskFirst ==
  /\ ~sweep.denied /\ sweep.left # <<>>
  /\ \/ /\ Head(sweep.left) \in permits[sweep.current]
        /\ sweep' \in Advance(sweep.queue \cap conns)
     \/ sweep' = [sweep EXCEPT !.denied = TRUE]
  /\ UNCHANGED <<SweepVars, req, conns, keepAlive, closes>>

(* authorize once more, for one topic: it allows it, denies it or throws.  *)
(* With the last topic allowed the loop goes on to the next connection.    *)
SweepAsk ==
  /\ ~sweep.denied /\ sweep.left # <<>>
  /\ \/ /\ Head(sweep.left) \in permits[sweep.current]
        /\ IF Len(sweep.left) = 1 THEN sweep' \in Advance(sweep.queue \cap conns)
           ELSE sweep' = [sweep EXCEPT !.left = Tail(@)]
     \/ sweep' = [sweep EXCEPT !.denied = TRUE]
  /\ UNCHANGED <<SweepVars, req, conns, keepAlive, closes>>

(* The refusal is acted on when its await is over, if the connection is    *)
(* still in the map by then.                                               *)
SweepCut ==
  /\ sweep.denied
  /\ req' = Dropped({sweep.current})
  /\ Drops({sweep.current})
  /\ sweep' \in Advance(sweep.queue \cap conns')
  /\ UNCHANGED SweepVars

-----------------------------------------------------------------------------
Serve(r) == Authorize(r) \/ AuthorizeThrows(r) \/ Admit(r) \/ Answer(r) \/ AnswerFails(r) \/ Open(r) \/ GiveUp(r)

Revalidate == SweepStart \/ SweepAsk \/ SweepCut

Next ==
  \/ \E t \in Topics : Publish(t)
  \/ Trim
  \/ \E slow \in SUBSET Requests : FanOut(slow)
  \/ \E r \in Requests, c \in {NoCursor} \cup 0..Len(log) : Arrive(r, c)
  \/ \E r \in Requests : Serve(r) \/ Leave(r)
  \/ \E S \in SUBSET conns \ {{}} : Disconnect(S)
  \/ Close
  \/ KeepAliveTick
  \/ \E r \in Requests, t \in Topics : Revoke(r, t)
  \/ Revalidate

(* authorize and the shared replay settle, and their continuations run: a  *)
(* request takes finitely many of these steps, so one condition serves all *)
(* of them.  The revalidation timer keeps ticking.                         *)
Fairness == WF_vars(Revalidate) /\ WF_vars(\E r \in Requests : Serve(r))

Spec == Init /\ [][Next]_vars /\ Fairness

-----------------------------------------------------------------------------
(* Trimmed is behind read and read behind the log; only a connection that  *)
(* is opening holds frames back, and one in the map is opening or open.    *)
TypeOK ==
  /\ trimmed <= read /\ read <= Len(log)
  /\ conns \subseteq {r \in Requests : req[r].pc \in {"replaying", "open"}}
  /\ \A r \in Requests : req[r].pending # <<>> => At(r, "replaying")
  /\ \A r \in Requests : req[r].granted \cap ToSet(req[r].left) = {}
  /\ sweep.denied => sweep.current \in Requests

(* What an open connection must have been given of what was read so far. *)
Owed(r) == {n \in 1..read : n > req[r].since /\ log[n] \in req[r].granted}

(* A client that keeps the newest id it has seen takes event n from the    *)
(* stream: it is there, and nothing newer comes before it.                 *)
Taken(r, n) ==
  \E i \in DOMAIN req[r].out :
    req[r].out[i] = n /\ \A j \in 1..(i - 1) : req[r].out[j] <= n

(* Nothing is lost across the awaited replay, neither for want of being    *)
(* sent nor because it comes after a newer event and is taken for a        *)
(* duplicate; what is held back while opening counts as soon as it is out. *)
OwedIsGiven == \A r \in conns : At(r, "open") => \A n \in Owed(r) : Taken(r, n)

(* No frame precedes its response's head, whatever fires while the replay  *)
(* is awaited: Node would send a head of its own, without the checkpoint.  *)
HeadsComeFirst == \A r \in Requests : req[r].head # "implicit"

(* Every connection opened is either still there or counted as closed, for *)
(* one reason, though several may try to close it.                         *)
ClosesAddUp ==
  opened = Cardinality(conns) + closes

(* A closed hub has no connections, however late a request gets through    *)
(* its awaits, and the keepalive runs for open connections and no others.  *)
Quiet ==
  /\ closed => conns = {}
  /\ conns = {} => ~keepAlive
  /\ (\E r \in conns : At(r, "open")) => keepAlive

(* However connections come to an end, by whom, how often and how late,    *)
(* the counters, the map and the keepalive tell the same story.            *)
BooksBalance == ClosesAddUp /\ Quiet

(* Every request is answered: it becomes a stream or is refused, also when *)
(* its connection was dropped or the hub closed while it waited.           *)
Answered ==
  \A r \in Requests : req[r].pc \in {"checking", "replaying", "abandoned"} ~> req[r].head # "none"

(* A connection that lost one of its topics is cut, also when it lost it   *)
(* between its authorization and its registration.                         *)
RevokedIsCut ==
  \A r \in Requests : (r \in conns /\ ~(req[r].granted \subseteq permits[r])) ~> r \notin conns

(* Nobody who has left is kept in the map. *)
NoGhosts == \A r \in conns : ~req[r].gone
=============================================================================
