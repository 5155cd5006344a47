------------------------------ MODULE RustHub ------------------------------
(***************************************************************************)
(* The Rust core: the Hub that the native binding and the C ABI drive,     *)
(* with its sequence, history and registry, as operators on its state.     *)
(* Each call maps one hub to the next; what it answers is read off the hub *)
(* it was made on.  A frame is its id, topic, size and origin.             *)
(***************************************************************************)
EXTENDS EventIds, Sequences, FiniteSets

CONSTANTS MaxBytes, MaxBuffer, MaxConnections, MaxPerKey, MaxTopics, MaxUsize, NoKey

RustHubNew ==
  [last |-> ZeroId,
   history |-> [entries |-> <<>>, bytes |-> 0, trimmed |-> NoId],
   registry |-> [next |-> 1, subs |-> <<>>, byTopic |-> <<>>, byKey |-> <<>>]]

-----------------------------------------------------------------------------
(* Sequence. *)
SequenceNext(last, now) ==
  IF now > last.ms THEN Id(now, 0) ELSE [last EXCEPT !.seq = @ + 1]

SequenceObserve(last, id) == IF Before(last, id) THEN id ELSE last

-----------------------------------------------------------------------------
(* History. *)
\* The mark is overwritten, as if entries always left in id order.
PopFrontForgetting(h) ==
  [entries |-> Tail(h.entries),
   bytes |-> h.bytes - Head(h.entries).size,
   trimmed |-> Head(h.entries).id]

\* What the loop does with the entry in front: the mark only moves forward.
PopFront(h) ==
  [entries |-> Tail(h.entries),
   bytes |-> h.bytes - Head(h.entries).size,
   trimmed |-> IF Before(h.trimmed, Head(h.entries).id) THEN Head(h.entries).id ELSE h.trimmed]

\* One turn of the loop; once the rest fits, or is empty, no turn changes anything.
Turn(h) == IF h.bytes <= MaxBytes \/ h.entries = <<>> THEN h ELSE PopFront(h)

PushedBack(h, e) ==
  [entries |-> Append(h.entries, e), bytes |-> h.bytes + e.size, trimmed |-> h.trimmed]

HistoryPush(h, e) ==
  LET enough == Len(h.entries) + 1
      after[turns \in 0..enough] ==
        IF turns = 0 THEN PushedBack(h, e) ELSE Turn(after[turns - 1])
  IN after[enough]

Since(entries, cursor, topics) ==
  LET kept[i \in 0..Len(entries)] ==
        IF i = 0 THEN <<>>
        ELSE IF Before(cursor, entries[i].id) /\ entries[i].topic \in topics
             THEN Append(kept[i - 1], entries[i]) ELSE kept[i - 1]
  IN kept[Len(entries)]

-----------------------------------------------------------------------------
(* Registry. *)
At(map, key, default) == IF key \in DOMAIN map THEN map[key] ELSE default

Put(map, key, value) ==
  [k \in DOMAIN map \cup {key} |-> IF k = key THEN value ELSE map[k]]

Without(map, keys) == [k \in DOMAIN map \ keys |-> map[k]]

\* Duplicate topics go; ids only ever move forward.
RegistryAdd(reg, topics, key) ==
  LET id == reg.next
      unique == {topics[i] : i \in DOMAIN topics}
  IN [next |-> id + 1,
      subs |-> Put(reg.subs, id, [topics |-> unique, key |-> key, queued |-> 0]),
      byTopic |-> [t \in DOMAIN reg.byTopic \cup unique |->
                     IF t \in unique THEN At(reg.byTopic, t, {}) \cup {id} ELSE reg.byTopic[t]],
      byKey |-> IF key = NoKey THEN reg.byKey
                ELSE Put(reg.byKey, key, At(reg.byKey, key, 0) + 1)]

RegistryRemove(reg, id) ==
  IF id \notin DOMAIN reg.subs THEN reg
  ELSE LET sub == reg.subs[id]
           rest == [t \in DOMAIN reg.byTopic |->
                      IF t \in sub.topics THEN reg.byTopic[t] \ {id} ELSE reg.byTopic[t]]
       IN [next |-> reg.next,
           subs |-> Without(reg.subs, {id}),
           byTopic |-> Without(rest, {t \in sub.topics : At(rest, t, {}) = {}}),
           byKey |-> IF sub.key = NoKey THEN reg.byKey
                     ELSE IF At(reg.byKey, sub.key, 0) > 1
                          THEN Put(reg.byKey, sub.key, reg.byKey[sub.key] - 1)
                     ELSE Without(reg.byKey, {sub.key})]

Matching(reg, topic) == At(reg.byTopic, topic, {})

\* The three notes, of a subscriber there is.
SetQueued(reg, id, n) == [reg EXCEPT !.subs[id].queued = n]

AddQueued(reg, id, n) ==
  [reg EXCEPT !.subs[id].queued = IF @ + n > MaxUsize THEN MaxUsize ELSE @ + n]

SubQueued(reg, id, n) == [reg EXCEPT !.subs[id].queued = IF @ < n THEN 0 ELSE @ - n]

-----------------------------------------------------------------------------
(* Hub.record, the shared tail of publish and append. *)
Record(hub, e) == [hub EXCEPT !.history = HistoryPush(@, e)]

RustPublish(hub, now, topic, size, origin) ==
  LET id == SequenceNext(hub.last, now)
  IN Record([hub EXCEPT !.last = id],
            [id |-> id, topic |-> topic, size |-> size, origin |-> origin])

RustAppend(hub, id, topic, size, origin) ==
  Record([hub EXCEPT !.last = SequenceObserve(@, id)],
         [id |-> id, topic |-> topic, size |-> size, origin |-> origin])

(* Hub.subscribe: the refusals in the order they are looked for; faultOf   *)
(* is validate_topic.                                                      *)
RustRefusal(reg, topics, key, faultOf) ==
  LET faults == {faultOf[topics[i]] : i \in DOMAIN topics} \ {"none"}
  IN IF Len(topics) \notin 1..MaxTopics THEN <<"TopicCount">>
     ELSE IF faults # {} THEN <<"Topic", CHOOSE f \in faults : TRUE>>
     ELSE IF Cardinality(DOMAIN reg.subs) >= MaxConnections THEN <<"MaxConnections">>
     ELSE IF key # NoKey /\ At(reg.byKey, key, 0) >= MaxPerKey THEN <<"MaxConnectionsPerKey">>
     ELSE <<"none">>

RustSubscribe(hub, topics, key, faultOf) ==
  IF RustRefusal(hub.registry, topics, key, faultOf) = <<"none">>
  THEN [hub EXCEPT !.registry = RegistryAdd(@, topics, key)] ELSE hub

RustRemove(hub, id) == [hub EXCEPT !.registry = RegistryRemove(@, id)]

RustNoteBuffer(hub, id, n) == [hub EXCEPT !.registry = SetQueued(@, id, n)]
RustNoteSent(hub, id, n) == [hub EXCEPT !.registry = AddQueued(@, id, n)]
RustNoteFlushed(hub, id, n) == [hub EXCEPT !.registry = SubQueued(@, id, n)]

RustCheckpoint(hub, cursor) ==
  LET trimmed == hub.history.trimmed
      evicted == trimmed # NoId /\ Before(cursor, trimmed)
      beyond == Before(hub.last, cursor)
  IN IF cursor = NoId THEN "absent"
     ELSE IF evicted \/ beyond THEN "earliest" ELSE "echo"

RustReplay(hub, cursor, topics) ==
  IF cursor = NoId THEN <<>> ELSE Since(hub.history.entries, cursor, topics)

(* The topics that a gap frame for a subscriber names. *)
RustTopicsOf(reg, id) == IF id \in DOMAIN reg.subs THEN reg.subs[id].topics ELSE {}

(* The one threshold behind the three notes. *)
RustVerdict(reg, id) ==
  IF id \notin DOMAIN reg.subs THEN "unknown"
  ELSE IF reg.subs[id].queued > MaxBuffer THEN "slow-consumer" ELSE "ok"
=============================================================================
