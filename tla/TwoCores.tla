------------------------------ MODULE TwoCores ------------------------------
(***************************************************************************)
(* The two protocol cores side by side: HubCore, the TypeScript one, and   *)
(* the Rust one, driven by the same calls.  A host may be given either     *)
(* and is told they are one contract, so nothing it could see may differ:  *)
(* neither what a call that is accepted does, nor what one that is refused *)
(* is told.                                                                *)
(***************************************************************************)
EXTENDS HubCore, FrontEnds

CONSTANTS
  BadTopics,  \* texts that are no topics
  RawCursors, \* cursors as a request carries them; an empty one is none
  MaxText,    \* bound: code units of a text that is looked at
  MaxWritten, \* bound: code units of a topic or an origin that is written
  MaxIdText,  \* bound: characters of an id that is looked at
  MaxUsize    \* where the Rust core's count saturates: usize::MAX

VARIABLES
  rust,   \* the Rust hub
  capped  \* the live subscribers of which TypeScript's count has been clamped
          \* since the two last stood at one number

ASSUME TextsAssumption ==
  /\ \A t \in BadTopics : t \in Seq(Units) /\ WellFormed(t)
  /\ RawCursors \subseteq Seq(IdUnits)
  /\ {MaxText, MaxWritten, MaxIdText} \subseteq Nat

(* A 64-bit host: usize is wider than the integers a double can count.     *)
ASSUME WidthAssumption == MaxUsize \in Nat /\ MaxQueued <= MaxUsize

bothVars == <<vars, rust, capped>>

Rust == INSTANCE RustHub

(* Of every topic a request may name: what Rust finds wrong with it, and   *)
(* whether TypeScript takes it for one.                                    *)
Faults == [t \in Topics \cup BadTopics |-> IF t \in Topics THEN "none" ELSE TopicFault(t)]
Valid == [t \in Topics \cup BadTopics |-> t \in Topics \/ TsValidTopic(t)]

BothInit ==
  /\ Init
  /\ rust = Rust!RustHubNew
  /\ capped = {}

BothPublish(now, t, n, o) ==
  /\ Publish(now, t, n, o)
  /\ rust' = Rust!RustPublish(rust, now, t, n, o)
  /\ UNCHANGED capped

BothAppend(id, t, n, o) ==
  /\ AppendAssigned(id, t, n, o)
  /\ rust' = Rust!RustAppend(rust, id, t, n, o)
  /\ UNCHANGED capped

BothSubscribe(asked, k, c) ==
  /\ Subscribe(asked, k, c)
  /\ rust' = Rust!RustSubscribe(rust, asked, k, Faults)
  /\ UNCHANGED capped

BothRemove(id) ==
  /\ Remove(id)
  /\ rust' = Rust!RustRemove(rust, id)
  /\ capped' = capped \ {id}

(* The counts of the two cores part where the smaller one stops, and meet  *)
(* again at an absolute depth, or when everything sent has drained.        *)
BothNote(id, n) ==
  /\ \/ /\ NoteBuffer(id, n)
        /\ rust' = Rust!RustNoteBuffer(rust, id, n)
        /\ capped' = capped \ {id}
     \/ /\ NoteSent(id, n)
        /\ rust' = Rust!RustNoteSent(rust, id, n)
        /\ capped' = IF subs[id].queued + n > MaxQueued THEN capped \cup {id} ELSE capped
     \/ /\ NoteFlushed(id, n)
        /\ rust' = Rust!RustNoteFlushed(rust, id, n)
        /\ capped' = IF rust.registry.subs[id].queued <= n THEN capped \ {id} ELSE capped
  /\ UNCHANGED <<ringVars, coreVars>>

BothNext ==
  \/ \E now \in 0..MaxMs, t \in Topics, n \in Sizes, o \in Origins : BothPublish(now, t, n, o)
  \/ \E id \in ModelIds, t \in Topics, n \in Sizes, o \in Origins : BothAppend(id, t, n, o)
  \/ \E asked \in Requests, k \in Keys \cup {NoKey}, c \in Cursors : BothSubscribe(asked, k, c)
  \/ \E id \in Live : BothRemove(id)
  \/ \E id \in Noted, n \in 0..MaxQueued : BothNote(id, n)

BothSpec == BothInit /\ [][BothNext]_bothVars

-----------------------------------------------------------------------------
(* The topics that a gap frame for a subscriber names. *)
TopicsOf(id) == IF id \in Live THEN subs[id].topics ELSE {}

TsParsed == [c \in RawCursors \ { <<>> } |-> TsParseId(c)]
RustParsed == [c \in RawCursors \ { <<>> } |-> RustParseId(c)]

(* createTsCore's subscribe: what it throws, in the order it looks. *)
TsAnswer(asked, key, cursor) ==
  IF cursor # <<>> /\ TsParsed[cursor] = Malformed THEN "malformed-cursor"
  ELSE IF \E i \in DOMAIN asked : ~Valid[asked[i]] THEN "invalid-topic"
  ELSE IF Len(asked) \notin 1..MaxTopics THEN "too-many-topics"
  ELSE IF Cardinality(Live) >= MaxConnections THEN "max-connections"
  ELSE IF key # NoKey /\ CountForKey(key) >= MaxPerKey THEN "max-connections-per-key"
  ELSE "none"

(* The Node binding's subscribe and createNativeCore's. *)
NativeRefusal(asked, key, cursor) ==
  IF cursor # <<>> /\ RustParsed[cursor] = Malformed THEN <<"Id">>
  ELSE Rust!RustRefusal(rust.registry, asked, key, Faults)

NativeAnswer(asked, key, cursor) ==
  LET refusal == NativeRefusal(asked, key, cursor)
  IN IF refusal = <<"none">> THEN "none" ELSE AsCoreError(NativeToken(refusal))

(* The C ABI's, of a cursor that its caller parsed. *)
AbiAnswer(asked, key) == AbiCode(Rust!RustRefusal(rust.registry, asked, key, Faults))

(* The handler, up to its answer: topics are judged before authorization,  *)
(* and what is left of them after.                                         *)
Status(asked, allowed, answer) ==
  IF asked = <<>> \/ \E i \in DOMAIN asked : ~Valid[asked[i]] THEN 400
  ELSE IF allowed = <<>> THEN 403 ELSE StatusFor(answer)

(* The calls that write a frame: their refusals in the order they are      *)
(* looked for, on the three ways in.  Only publish draws its own id.  The  *)
(* refusals of TypeScript's publish and append are TypeErrors.             *)
Writes == {"publish", "append", "encode"}

TsWriteAnswer(call, raw, topic, origin) ==
  IF call # "publish" /\ TsParseId(raw) = Malformed THEN "malformed-cursor"
  ELSE IF ~TsWriteRefused(topic, origin) THEN "none"
  ELSE IF call # "encode" THEN "not-a-rejection"
  ELSE IF TsValidTopic(topic) THEN "invalid-origin" ELSE "invalid-topic"

NativeWriteRefusal(call, raw, topic, origin) ==
  IF call # "publish" /\ RustParseId(raw) = Malformed THEN <<"Id">>
  ELSE WriteRefusal(topic, origin)

NativeWriteAnswer(call, raw, topic, origin) ==
  LET refusal == NativeWriteRefusal(call, raw, topic, origin)
  IN IF refusal = <<"none">> THEN "none" ELSE AsCoreError(NativeToken(refusal))

AbiWriteAnswer(call, raw, topic, origin) ==
  IF call # "publish" /\ RustParseId(raw) = Malformed THEN "AG_ERR_MALFORMED_ID"
  ELSE AbiCode(WriteRefusal(topic, origin))

RawRequests == UNION {[1..n -> Topics \cup BadTopics] : n \in 0..MaxAsked}

(* Every request, well-formed or not, is answered alike by the two cores,  *)
(* and by the status it deserves; their reasons differ only where a call   *)
(* that bypasses the handler lists too many topics, one of them invalid.   *)
AnswersAgree ==
  \A asked \in RawRequests, k \in Keys \cup {NoKey}, c \in RawCursors :
    LET ts == TsAnswer(asked, k, c)
        native == NativeAnswer(asked, k, c)
    IN /\ (ts = "none") <=> (native = "none")
       /\ (c = <<>> \/ native # "malformed-cursor") =>
            ((AbiAnswer(asked, k) = "AG_OK") <=> (native = "none"))
       /\ ts # native => /\ Len(asked) > MaxTopics
                         /\ \E i \in DOMAIN asked : asked[i] \in BadTopics
       /\ Status(asked, asked, ts) = Status(asked, asked, native)
       /\ Status(asked, asked, native) # 500

TextsUpTo(n, units) == UNION {[1..k -> units] : k \in 0..n}

(* A text is a topic, an origin or an id for both languages or for         *)
(* neither, and the client reads every id the way the cores do.            *)
ValidatorsAgree ==
  /\ \A s \in TextsUpTo(MaxText, Units) : WellFormed(s) =>
       /\ TsValidTopic(s) <=> TopicFault(s) = "none"
       /\ TsWriteRefused(<<"one">>, s) <=> WriteRefusal(<<"one">>, s) # <<"none">>
  /\ \A raw \in TextsUpTo(MaxIdText, IdUnits) :
       /\ TsParseId(raw) = RustParseId(raw)
       /\ TsParseId(raw) # Malformed => ClientSplitId(raw) = TsParseId(raw)

(* A write is accepted on all three ways in or on none, and where both     *)
(* cores name a reason it is the same.  An empty origin is no fault.       *)
WritesAgree ==
  \A call \in Writes, raw \in RawCursors,
     topic \in TextsUpTo(MaxWritten, Units), origin \in TextsUpTo(MaxWritten, Units) :
    WellFormed(topic) /\ WellFormed(origin) =>
      LET ts == TsWriteAnswer(call, raw, topic, origin)
          native == NativeWriteAnswer(call, raw, topic, origin)
          abi == AbiWriteAnswer(call, raw, topic, origin)
      IN /\ (ts = "none") <=> (native = "none")
         /\ (abi = "AG_OK") <=> (native = "none")
         /\ native # "not-a-rejection"
         /\ ts \in {native, "not-a-rejection"}
         /\ abi # "AG_ERR_ORIGIN_EMPTY"

(* The verdict on a subscriber, one that is gone included, is the same     *)
(* until TypeScript's count of it has been clamped: from then on it may    *)
(* read as drained while Rust still counts it as slow, never the reverse.  *)
VerdictsAgree ==
  \A id \in 1..MaxSubs :
    LET told == Rust!RustVerdict(rust.registry, id)
    IN /\ Verdict(id) = told \/ id \in capped
       /\ Verdict(id) = "ok" => told # "unknown"
       /\ Verdict(id) # "ok" => told = Verdict(id)

(* The two cores tell a host the same, whatever was called before: the     *)
(* cursor, whom a frame goes to, every checkpoint, replay and refusal, the *)
(* verdict on every subscriber as far as the widths of their counts let    *)
(* it, and the topics its gap frame would name, also of one that is gone.  *)
CoresAgree ==
  /\ ValidatorsAgree
  /\ WritesAgree
  /\ AnswersAgree
  /\ rust.last = lastId
  /\ Len(rust.history.entries) = Len(history) /\ rust.history.bytes = bytes
  /\ rust.registry.next = nextSub
  /\ \A t \in Topics : Rust!Matching(rust.registry, t) = Wanting(t)
  /\ Cardinality(DOMAIN rust.registry.byTopic) = Cardinality(DOMAIN byTopic)
  /\ DOMAIN rust.registry.subs = Live
  /\ \A id \in 1..MaxSubs : Rust!RustTopicsOf(rust.registry, id) = TopicsOf(id)
  /\ VerdictsAgree
  /\ \A c \in Cursors :
       /\ Rust!RustCheckpoint(rust, c) = Checkpoint(c)
       /\ \A T \in SUBSET Topics :
            LET sent == Replay(c, T)
                replay == Rust!RustReplay(rust, c, T)
            IN /\ Len(replay) = Cardinality(sent)
               /\ \A i \in sent : replay[Cardinality({j \in sent : j <= i})] = history[i]
=============================================================================
