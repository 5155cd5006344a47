------------------------------ MODULE FrontEnds ------------------------------
(***************************************************************************)
(* What stands between a caller and either core: the rules for topics,     *)
(* origins and ids as each language wrote them, and what becomes of a      *)
(* refusal on each of the three ways in: createTsCore, the Node binding    *)
(* with createNativeCore, and the C ABI.                                   *)
(*                                                                         *)
(* A text is its UTF-16 code units, of which only the class matters: a     *)
(* control character, the reserved prefix, one that takes one, two or      *)
(* three bytes of UTF-8, and the halves of one that takes four.            *)
(***************************************************************************)
EXTENDS Integers, Sequences, Functions, FiniteSetsExt

CONSTANTS
  MaxTopicBytes,   \* MAX_TOPIC_BYTES
  MaxOriginBytes,  \* MAX_ORIGIN_BYTES
  MaxDigits,       \* digits of MAX_ID_COMPONENT
  MaxIdComponent   \* the largest half of an id: 2^53 - 1 in the code

ASSUME FrontEndsAssumption ==
  {MaxTopicBytes, MaxOriginBytes, MaxDigits, MaxIdComponent} \subseteq Nat

Reserved == "~"
Control == "control"
Units == {Control, Reserved, "one", "two", "three", "high", "low"}

(* A string that is text: surrogates come in pairs. *)
WellFormed(s) ==
  /\ \A i \in DOMAIN s : s[i] = "high" => i < Len(s) /\ s[i + 1] = "low"
  /\ \A i \in DOMAIN s : s[i] = "low" => i > 1 /\ s[i - 1] = "high"

-----------------------------------------------------------------------------
(* TypeScript. *)
\* utf8Length: a high surrogate counts for the pair, and its other half is skipped.
Utf8Length(s) ==
  LET rest[i \in 1..Len(s) + 2] ==
        IF i > Len(s) THEN 0
        ELSE IF s[i] = "high" THEN 4 + rest[i + 2]
        ELSE IF s[i] = "two" THEN 2 + rest[i + 1]
        ELSE IF s[i] \in {"three", "low"} THEN 3 + rest[i + 1]
        ELSE 1 + rest[i + 1]
  IN rest[1]

TsWithin(s, bound) == Len(s) \in 1..bound /\ Utf8Length(s) <= bound

TsValidTopic(s) ==
  /\ TsWithin(s, MaxTopicBytes)
  /\ s[1] # Reserved
  /\ Control \notin Range(s)

TsValidOrigin(s) == TsWithin(s, MaxOriginBytes) /\ Control \notin Range(s)

\* What publish, append and encode check, an empty origin being none.
TsWriteRefused(topic, origin) ==
  ~TsValidTopic(topic) \/ (origin # <<>> /\ ~TsValidOrigin(origin))

-----------------------------------------------------------------------------
(* Rust. *)
\* What each unit adds to the encoding; the pair is counted at its first half.
Width(unit) ==
  IF unit = "low" THEN 0 ELSE IF unit = "two" THEN 2
  ELSE IF unit = "three" THEN 3 ELSE IF unit = "high" THEN 4 ELSE 1

Utf8Bytes(s) == SumFunction([i \in DOMAIN s |-> Width(s[i])])

TopicFault(s) ==
  IF Utf8Bytes(s) = 0 THEN "Empty"
  ELSE IF Utf8Bytes(s) > MaxTopicBytes THEN "TooLong"
  ELSE IF s[1] = Reserved THEN "ReservedPrefix"
  ELSE IF Control \in Range(s) THEN "ControlCharacter"
  ELSE "none"

OriginFault(s) ==
  IF Utf8Bytes(s) = 0 THEN "Empty"
  ELSE IF Utf8Bytes(s) > MaxOriginBytes THEN "TooLong"
  ELSE IF Control \in Range(s) THEN "ControlCharacter"
  ELSE "none"

\* hub.rs validate, as a refusal of publish, append and encode.
WriteRefusal(topic, origin) ==
  IF TopicFault(topic) # "none" THEN <<"Topic", TopicFault(topic)>>
  ELSE IF origin # <<>> /\ OriginFault(origin) # "none" THEN <<"Origin", OriginFault(origin)>>
  ELSE <<"none">>

-----------------------------------------------------------------------------
(* Ids as text, of which two digits, the dash and any other character.     *)
Digits == {"0", "1"}
IdUnits == Digits \cup {"-", "+"}

Malformed == "malformed"

ValueOf(s) ==
  LET value[i \in 0..Len(s)] ==
        IF i = 0 THEN 0 ELSE 10 * value[i - 1] + (IF s[i] = "1" THEN 1 ELSE 0)
  IN value[Len(s)]

IsCanonicalUint(s) ==
  /\ Len(s) \in 1..MaxDigits
  /\ Len(s) > 1 => s[1] # "0"
  /\ Range(s) \subseteq Digits

Dashes(raw) == {i \in DOMAIN raw : raw[i] = "-"}

\* parseId.
TsParseId(raw) ==
  IF Dashes(raw) = {} THEN Malformed
  ELSE LET dash == Min(Dashes(raw))
           ms == SubSeq(raw, 1, dash - 1)
           seq == SubSeq(raw, dash + 1, Len(raw))
       IN IF dash \in {1, Len(raw)} \/ ~IsCanonicalUint(ms) \/ ~IsCanonicalUint(seq)
             \/ ValueOf(ms) > MaxIdComponent \/ ValueOf(seq) > MaxIdComponent
          THEN Malformed ELSE <<ValueOf(ms), ValueOf(seq)>>

\* canonical_u64: one half, or nothing.
CanonicalU64(s) ==
  IF s = <<>> \/ Len(s) > MaxDigits \/ (Len(s) > 1 /\ s[1] = "0") \/ ~(Range(s) \subseteq Digits)
  THEN {} ELSE {n \in {ValueOf(s)} : n <= MaxIdComponent}

\* EventId::parse: split_once, and both halves.
RustParseId(raw) ==
  IF Dashes(raw) = {} THEN Malformed
  ELSE LET dash == Min(Dashes(raw))
           found == CanonicalU64(SubSeq(raw, 1, dash - 1))
                      \X CanonicalU64(SubSeq(raw, dash + 1, Len(raw)))
       IN IF found = {} THEN Malformed ELSE CHOOSE id \in found : TRUE

\* JavaScript's Number, if it is a safe integer: a sign may lead.
NumberOf(s) ==
  LET digits == IF s[1] \in {"+", "-"} THEN Tail(s) ELSE s
  IN {n \in {IF s[1] = "-" THEN -ValueOf(digits) ELSE ValueOf(digits)} :
        /\ digits # <<>> /\ Range(digits) \subseteq Digits
        /\ n \in -MaxIdComponent..MaxIdComponent}

\* The client's splitId.
ClientSplitId(raw) ==
  IF Dashes(raw) = {} \/ Min(Dashes(raw)) \in {1, Len(raw)} THEN Malformed
  ELSE LET dash == Min(Dashes(raw))
           found == NumberOf(SubSeq(raw, 1, dash - 1))
                      \X NumberOf(SubSeq(raw, dash + 1, Len(raw)))
       IN IF found = {} THEN Malformed ELSE CHOOSE id \in found : TRUE

-----------------------------------------------------------------------------
(* How a refusal of the Rust core is said. *)
\* The token that the binding puts before its message.
NativeToken(refusal) ==
  [Topic |-> "invalid-topic", Origin |-> "invalid-origin", Id |-> "malformed-cursor",
   TopicCount |-> "too-many-topics", MaxConnections |-> "max-connections",
   MaxConnectionsPerKey |-> "max-connections-per-key"][refusal[1]]

Reasons == {"invalid-topic", "invalid-origin", "too-many-topics",
            "max-connections", "max-connections-per-key", "malformed-cursor"}

\* asCoreError: an error without a known token is not a refusal.
AsCoreError(token) == IF token \in Reasons THEN token ELSE "not-a-rejection"

\* topic_code and origin_code.
TopicCode == [Empty |-> "AG_ERR_TOPIC_EMPTY", TooLong |-> "AG_ERR_TOPIC_TOO_LONG",
              ControlCharacter |-> "AG_ERR_TOPIC_CONTROL",
              ReservedPrefix |-> "AG_ERR_TOPIC_RESERVED"]

OriginCode == [Empty |-> "AG_ERR_ORIGIN_EMPTY", TooLong |-> "AG_ERR_ORIGIN_TOO_LONG",
               ControlCharacter |-> "AG_ERR_ORIGIN_CONTROL"]

\* publish_code and subscribe_code.
AbiCode(refusal) ==
  IF refusal[1] = "Topic" THEN TopicCode[refusal[2]]
  ELSE IF refusal[1] = "Origin" THEN OriginCode[refusal[2]]
  ELSE [none |-> "AG_OK", TopicCount |-> "AG_ERR_TOPIC_COUNT",
        MaxConnections |-> "AG_ERR_MAX_CONNECTIONS",
        MaxConnectionsPerKey |-> "AG_ERR_MAX_CONNECTIONS_PER_KEY"][refusal[1]]

\* The handler's status for what core.subscribe threw.
StatusFor(reason) ==
  IF reason = "none" THEN 200
  ELSE IF reason = "not-a-rejection" THEN 500
  ELSE IF reason \in {"max-connections", "max-connections-per-key"} THEN 429
  ELSE 400
=============================================================================
