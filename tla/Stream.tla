------------------------------- MODULE Stream -------------------------------
(***************************************************************************)
(* One hub, one client and the connection between them, end to end: the    *)
(* ring is HubRing's, the server side is createHub's handler without a     *)
(* backplane, the client side is the read loop and its reconnections.      *)
(*                                                                         *)
(* `wire` is everything the server wrote that the client has not read: the *)
(* response's head and then its frames.  A connection that breaks loses    *)
(* whatever is still on it.  Which attempt is current, and when the client *)
(* starts one, is ClientManager's subject: here there is one at a time.    *)
(***************************************************************************)
EXTENDS HubRing, Listing

CONSTANTS
  MaxUnread,    \* maxBufferBytes, counted in frames
  MaxEvents,    \* bound: events ever accepted
  MaxMishaps,   \* bound: refusals, broken connections and topic changes
  MaxRestarts   \* bound: times the hub process is replaced

ASSUME StreamAssumption == {MaxUnread, MaxEvents, MaxMishaps, MaxRestarts} \subseteq Nat

VARIABLES
  registered,  \* the hub has the client's connection in its map
  wire,
  pc,          \* the client: absent, idle, connecting, open or sleeping
  asked,       \* the topics of the current attempt
  cursor,      \* #cursor
  gapFired,    \* gapFired, of the current attempt
  reflected,   \* events the snapshot the application last read reflects
  published,   \* every event accepted in any life of the hub
  mishaps,
  restarts

connVars == <<registered, wire, pc, asked, cursor, gapFired, reflected>>

vars == <<ringVars, connVars, published, mishaps, restarts>>

HeadFrame(truncated) == [kind |-> "head", truncated |-> truncated]
EventFrame(e) == [kind |-> "event", event |-> e]
GapFrame == [kind |-> "gap"]
EndFrame == [kind |-> "end"]

Init ==
  /\ RingInit
  /\ registered = FALSE
  /\ wire = <<>>
  /\ pc = "absent"
  /\ asked = {}
  /\ cursor = NoId
  /\ gapFired = FALSE
  /\ reflected = {}
  /\ published = {}
  /\ mishaps = 0
  /\ restarts = 0

Mishap == mishaps < MaxMishaps /\ mishaps' = mishaps + 1

-----------------------------------------------------------------------------
(* A slow subscriber's frame is skipped and its connection kept. *)
FanOutSkipsSlow(e) ==
  IF registered /\ e.topic \in asked
  THEN \/ wire' = Append(wire, EventFrame(e)) /\ UNCHANGED registered
       \/ Len(wire) >= MaxUnread /\ UNCHANGED <<wire, registered>>
  ELSE UNCHANGED <<wire, registered>>

(* The slow subscriber is forgotten, but its response is never ended. *)
FanOutNeverEnds(e) ==
  IF registered /\ e.topic \in asked
  THEN \/ wire' = Append(wire, EventFrame(e)) /\ UNCHANGED registered
       \/ /\ Len(wire) >= MaxUnread
          /\ wire' = wire \o <<EventFrame(e), GapFrame>>
          /\ registered' = FALSE
  ELSE UNCHANGED <<wire, registered>>

(* The slow subscriber is ended but stays in the map. *)
FanOutKeepsEnded(e) ==
  IF registered /\ e.topic \in asked
  THEN /\ \/ wire' = Append(wire, EventFrame(e))
          \/ /\ Len(wire) >= MaxUnread
             /\ wire' = wire \o <<EventFrame(e), GapFrame, EndFrame>>
       /\ UNCHANGED registered
  ELSE UNCHANGED <<wire, registered>>

(* fanOut, writeTo and drop: the frame goes out first, and if more than    *)
(* the limit is then unread the subscriber may be ended, with a gap.  May, *)
(* because what the kernel took no longer counts as the socket's own.      *)
FanOut(e) ==
  IF registered /\ e.topic \in asked
  THEN \/ wire' = Append(wire, EventFrame(e)) /\ UNCHANGED registered
       \/ /\ Len(wire) >= MaxUnread
          /\ wire' = wire \o <<EventFrame(e), GapFrame, EndFrame>>
          /\ registered' = FALSE
  ELSE UNCHANGED <<wire, registered>>

Publish(now, topic, size, origin) ==
  LET e == Minted(now, topic, size, origin)
  IN /\ e.id.seq <= MaxSeq
     /\ Cardinality(published \cup {e}) <= MaxEvents
     /\ AppendEvent(e)
     /\ published' = published \cup {e}
     /\ FanOut(e)
     /\ UNCHANGED <<pc, asked, cursor, gapFired, reflected, mishaps, restarts>>

(* The ring's retained frames after the cursor, oldest first. *)
ReplayFrames ==
  {[i \in DOMAIN at |-> EventFrame(history[at[i]])] : at \in OldestFirst(Replay(cursor, asked))}

(* Registration, the checkpoint and the replay snapshot, atomically. *)
Serve ==
  LET truncated == Checkpoint(cursor) = "earliest"
      gap == IF truncated THEN <<GapFrame>> ELSE <<>>
  IN /\ pc = "connecting"
     /\ registered' = TRUE
     /\ \E frames \in ReplayFrames : wire' = <<HeadFrame(truncated)>> \o gap \o frames
     /\ pc' = "open"
     /\ UNCHANGED <<ringVars, asked, cursor, gapFired, reflected, published, mishaps, restarts>>

(* 429 at a limit, 503 while closing, 500 when authorize throws. *)
Refuse ==
  /\ pc = "connecting"
  /\ Mishap
  /\ pc' = "sleeping"
  /\ UNCHANGED <<ringVars, registered, wire, asked, cursor, gapFired, reflected, published, restarts>>

(* The process is replaced: an empty ring, and every connection ends. *)
Restart ==
  /\ restarts < MaxRestarts
  /\ restarts' = restarts + 1
  /\ lastId' = ZeroId
  /\ history' = <<>>
  /\ bytes' = 0
  /\ lastTrimmed' = NoId
  /\ accepted' = {}
  /\ evicted' = {}
  /\ registered' = FALSE
  /\ wire' = IF registered THEN Append(wire, EndFrame) ELSE wire
  /\ UNCHANGED <<pc, asked, cursor, gapFired, reflected, published, mishaps>>

-----------------------------------------------------------------------------
(* The page is built, with or without the cursor its data was read at, and *)
(* its first subscriptions are made.                                       *)
Start(topics) ==
  /\ pc = "absent"
  /\ pc' = "connecting"
  /\ asked' = topics
  /\ \/ UNCHANGED <<cursor, reflected>>
     \/ cursor' = lastId /\ reflected' = published
  /\ UNCHANGED <<ringVars, registered, wire, gapFired, published, mishaps, restarts>>

(* The current attempt is over for the client; the next starts afresh,     *)
(* from the same cursor.                                                   *)
HangUp(next) ==
  /\ registered' = FALSE
  /\ wire' = <<>>
  /\ gapFired' = FALSE
  /\ pc' = next
  /\ UNCHANGED cursor

(* #sync after the topics changed, or reconnect(): the live attempt is     *)
(* aborted and, unless nothing is subscribed, a new one made at once.      *)
Sync(topics) ==
  /\ pc # "absent"
  /\ Mishap
  /\ asked' = topics
  /\ HangUp(IF topics = {} THEN "idle" ELSE "connecting")
  /\ UNCHANGED <<ringVars, reflected, published, restarts>>

(* The connection fails: fetch or read throws and the loop backs off. *)
Break ==
  /\ pc \in {"connecting", "open"}
  /\ Mishap
  /\ HangUp("sleeping")
  /\ UNCHANGED <<ringVars, asked, reflected, published, restarts>>

Wake ==
  /\ pc = "sleeping"
  /\ pc' = "connecting"
  /\ UNCHANGED <<ringVars, registered, wire, asked, cursor, gapFired, reflected, published, mishaps, restarts>>

(* reportGap: the application hears of it once per attempt, and refetches. *)
ReportGap ==
  /\ gapFired' = TRUE
  /\ reflected' = IF gapFired THEN reflected ELSE published

Reading(kind) == pc = "open" /\ wire # <<>> /\ wire[1].kind = kind

ReadHead ==
  /\ Reading("head")
  /\ IF wire[1].truncated THEN ReportGap ELSE UNCHANGED <<gapFired, reflected>>
  /\ wire' = Tail(wire)
  /\ UNCHANGED <<ringVars, registered, pc, asked, cursor, published, mishaps, restarts>>

ReadGap ==
  /\ Reading("gap")
  /\ ReportGap
  /\ wire' = Tail(wire)
  /\ UNCHANGED <<ringVars, registered, pc, asked, cursor, published, mishaps, restarts>>

(* What is not after the cursor was received before and is dropped. *)
ReadEvent ==
  /\ Reading("event")
  /\ cursor' = Later(cursor, wire[1].event.id)
  /\ wire' = Tail(wire)
  /\ UNCHANGED <<ringVars, registered, pc, asked, gapFired, reflected, published, mishaps, restarts>>

ReadEnd ==
  /\ Reading("end")
  /\ HangUp("sleeping")
  /\ UNCHANGED <<ringVars, asked, reflected, published, mishaps, restarts>>

-----------------------------------------------------------------------------
Client == Serve \/ Wake \/ ReadHead \/ ReadGap \/ ReadEvent \/ ReadEnd

Next ==
  \/ \E now \in 0..MaxMs, t \in Topics, n \in Sizes, o \in Origins : Publish(now, t, n, o)
  \/ \E T \in SUBSET Topics \ {{}} : Start(T)
  \/ \E T \in SUBSET Topics : Sync(T)
  \/ Refuse
  \/ Restart
  \/ Break
  \/ Client

(* The hub answers requests and a client's loop runs: both are scheduled   *)
(* by an event loop that never starves a ready callback.  A refusal and a  *)
(* broken connection are mishaps, of which there are finitely many.        *)
Spec == Init /\ [][Next]_vars /\ WF_vars(Client)

-----------------------------------------------------------------------------
(* Only an open response has anything on the wire, only a registered one   *)
(* can grow, and a registered one has not been ended.                      *)
TypeOK ==
  /\ cursor \in EventId \cup {NoId}
  /\ asked \subseteq Topics
  /\ pc \in {"absent", "idle", "connecting", "open", "sleeping"}
  /\ pc # "open" => wire = <<>> /\ ~registered /\ ~gapFired
  /\ registered => \A i \in DOMAIN wire : wire[i].kind # "end"
  /\ reflected \subseteq published

Promise == INSTANCE Delivery WITH log <- published, followed <- asked

(* The promise of Delivery, kept through evictions, slow-consumer          *)
(* disconnects, lost connections, refusals and topic changes for as long   *)
(* as the hub lives: the cursor passes no followed event the client was    *)
(* neither given nor told of.                                              *)
NoSilentSkip ==
  Promise!Init /\ [][restarts' = 0 => Promise!Next]_(Promise!deliveryVars)

Reached(e) == cursor # NoId /\ AtOrBefore(e.id, cursor)

(* A client that has a cursor and goes on following a topic ends up past   *)
(* every event on it, or is told of a gap that covers the event, unless    *)
(* the hub that accepted the event is replaced first.                      *)
CatchesUp ==
  \A id \in ModelIds :
    LET Accepted == \E e \in accepted : e.id = id /\ e.topic \in asked
        Settled == \E e \in published : e.id = id /\ (Reached(e) \/ e \in reflected)
    IN (Accepted /\ cursor # NoId) ~> (Settled \/ ~Accepted)

(* An event that went down with an earlier life of the hub, that the       *)
(* client follows and has neither received nor seen reflected, is made     *)
(* good by a gap, unless the new life publishes up to the client's cursor  *)
(* before the client is back, after which nothing shows the ring is new.   *)
LossIsNoticed ==
  \A id \in ModelIds :
    LET Lost == \E e \in published \ (accepted \cup reflected) :
                  e.id = id /\ e.topic \in asked /\ ~Reached(e)
    IN (Lost /\ cursor # NoId /\ Beyond(cursor)) ~> (~Lost \/ ~Beyond(cursor))
=============================================================================
