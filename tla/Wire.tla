-------------------------------- MODULE Wire --------------------------------
(***************************************************************************)
(* The frames on the wire: what either core encodes, the network cuts into *)
(* chunks wherever it likes, and the client's SseParser puts together      *)
(* again, line by line.                                                    *)
(*                                                                         *)
(* A text is a sequence of characters, of which the ones the format is     *)
(* about stand for themselves and a whole word is one character.  Decoding *)
(* UTF-8 is left to TextDecoder, which holds an unfinished character back. *)
(***************************************************************************)
EXTENDS Integers, SequencesExt

CONSTANTS
  Characters,   \* what a payload may consist of
  Origins,      \* who an event may be attributed to; NoOrigin for nobody
  NoOrigin,
  NoId,         \* the id of a control frame
  Terminators,  \* how lines may end: the spec's parser takes any
  Chunks,       \* sizes of chunk the network may cut
  Ids,          \* bound: the ids of the frames there may be, in order
  MaxPayload    \* bound: characters in the payloads of one stream

ASSUME WireAssumption == Chunks \subseteq Nat \ {0} /\ MaxPayload \in Nat

VARIABLES
  sent,        \* what was published or said, in order
  terminator,  \* how this server ends its lines
  pipe,        \* written and not yet received
  lost,        \* the stream ended with something still in the pipe
  parser,      \* the SseParser, with all the events it ever returned
  done         \* end() was called

vars == <<sent, terminator, pipe, lost, parser, done>>

CR == "CR"
LF == "LF"
Breaks == {CR, LF}

(* A field that no line of the frame has named, and one with a value. *)
Undefined == <<>>
Is(value) == <<value>>

Fresh == [id |-> Undefined, event |-> Undefined, origin |-> Undefined, data |-> <<>>, saw |-> FALSE]

Init ==
  /\ sent = <<>>
  /\ terminator \in Terminators
  /\ pipe = <<>>
  /\ lost = FALSE
  /\ parser = [buffer |-> <<>>, frame |-> Fresh, out |-> <<>>]
  /\ done = FALSE

-----------------------------------------------------------------------------
Field(name, value) == <<name, ":", " ">> \o value \o <<LF>>

(* The payload goes out as it is. *)
DataLinesRaw(payload) == Field("data", payload)

(* encodeFrame's loop: one data line per segment, whatever ends it. *)
DataLines(payload) ==
  LET breaks == {i \in DOMAIN payload : payload[i] \in Breaks}
      second == {i \in breaks : i > 1 /\ payload[i] = LF /\ payload[i - 1] = CR}
      lines[i \in 0..Len(payload)] ==
        IF i = 0 THEN << <<>> >>
        ELSE IF i \in second THEN lines[i - 1]
        ELSE IF i \in breaks THEN Append(lines[i - 1], <<>>)
        ELSE [lines[i - 1] EXCEPT ![Len(lines[i - 1])] = Append(@, payload[i])]
  IN FlattenSeq([k \in DOMAIN lines[Len(payload)] |-> Field("data", lines[Len(payload)][k])])

(* write_data_lines: from `start` on, looking at i. *)
RECURSIVE WriteDataLines(_, _, _)
WriteDataLines(payload, start, i) ==
  IF i > Len(payload) THEN Field("data", SubSeq(payload, start, Len(payload)))
  ELSE IF payload[i] \notin Breaks THEN WriteDataLines(payload, start, i + 1)
  ELSE LET two == payload[i] = CR /\ i < Len(payload) /\ payload[i + 1] = LF
           next == IF two THEN i + 2 ELSE i + 1
       IN Field("data", SubSeq(payload, start, i - 1)) \o WriteDataLines(payload, next, next)

Heading(e) ==
  Field("id", <<e.id>>) \o Field("event", <<e.event>>)
    \o (IF e.origin = NoOrigin THEN <<>> ELSE Field("origin", <<e.origin>>))

EncodeFrame(e) == Heading(e) \o DataLines(e.payload) \o <<LF>>

RustEncodeFrame(e) == Heading(e) \o WriteDataLines(e.payload, 1, 1) \o <<LF>>

(* A control frame has no id; its JSON is one line. *)
EncodeControl(name, json) == Field("event", <<name>>) \o Field("data", <<json>>) \o <<LF>>

Comment == <<":", "ok", LF, LF>>

(* Lines as this server ends them. *)
Terminated(text) ==
  FlattenSeq([i \in DOMAIN text |-> IF text[i] = LF THEN terminator ELSE <<text[i]>>])

-----------------------------------------------------------------------------
Write(text) ==
  /\ ~done
  /\ pipe' = pipe \o Terminated(text)
  /\ UNCHANGED <<terminator, lost, parser, done>>

Spent == FoldLeft(LAMBDA n, e : n + Len(e.payload), 0, sent)

Payloads == UNION {[1..n -> Characters] : n \in 0..(MaxPayload - Spent)}

SendEvent(payload, origin) ==
  /\ Len(sent) < Len(Ids)
  /\ LET e == [id |-> Ids[Len(sent) + 1], event |-> "topic", origin |-> origin, payload |-> payload]
     IN sent' = Append(sent, e) /\ (Write(EncodeFrame(e)) \/ Write(RustEncodeFrame(e)))

SendControl ==
  /\ Len(sent) < Len(Ids)
  /\ sent' = Append(sent, [id |-> NoId, event |-> "~gap", origin |-> NoOrigin, payload |-> <<>>])
  /\ Write(EncodeControl("~gap", "json"))

(* The comment a stream opens with, and every keep-alive; bound: only when *)
(* little is in the pipe.                                                  *)
SendComment ==
  /\ Len(pipe) < Len(Comment)
  /\ Write(Comment)
  /\ UNCHANGED sent

-----------------------------------------------------------------------------
(* #line: a comment, a field of the frame, or the blank line that ends it. *)
Dispatched(p) ==
  IF p.frame.saw
  THEN [p EXCEPT !.out = Append(@, p.frame), !.frame = Fresh]
  ELSE p

FieldLine(p, line) ==
  LET colons == {i \in DOMAIN line : line[i] = ":"}
      colon == IF colons = {} THEN Len(line) + 1 ELSE Min(colons)
      name == SubSeq(line, 1, colon - 1)
      rest == SubSeq(line, colon + 1, Len(line))
      value == IF rest # <<>> /\ rest[1] = " " THEN Tail(rest) ELSE rest
  IN CASE name \in {<<"id">>, <<"event">>, <<"origin">>} ->
            [p EXCEPT !.frame[name[1]] = Is(value), !.frame.saw = TRUE]
       [] name = <<"data">> -> [p EXCEPT !.frame.data = Append(@, value), !.frame.saw = TRUE]
       [] OTHER -> p

Line(p, line) ==
  IF line = <<>> THEN Dispatched(p)
  ELSE IF line[1] = ":" THEN p
  ELSE FieldLine(p, line)

FirstLineBreak(s) ==
  LET found == {i \in DOMAIN s : s[i] \in Breaks} IN IF found = {} THEN 0 ELSE Min(found)

(* A CR at the end of the buffer is taken for a line end at once. *)
HeldBackNever(s, i, final) == FALSE

(* A CR at the end of the buffer may be the first half of a CRLF. *)
HeldBack(s, i, final) == s[i] = CR /\ i = Len(s) /\ ~final

(* #drain: every complete line of the buffer, and at the end the rest. *)
RECURSIVE Drain(_, _)
Drain(p, final) ==
  LET i == FirstLineBreak(p.buffer)
  IN IF i = 0 \/ HeldBack(p.buffer, i, final)
     THEN IF final /\ p.buffer # <<>> THEN Line([p EXCEPT !.buffer = <<>>], p.buffer) ELSE p
     ELSE LET two == p.buffer[i] = CR /\ i < Len(p.buffer) /\ p.buffer[i + 1] = LF
              rest == SubSeq(p.buffer, IF two THEN i + 2 ELSE i + 1, Len(p.buffer))
          IN Drain(Line([p EXCEPT !.buffer = rest], SubSeq(p.buffer, 1, i - 1)), final)

(* push: one chunk. *)
Push(n) ==
  /\ ~done
  /\ n <= Len(pipe)
  /\ parser' = Drain([parser EXCEPT !.buffer = @ \o SubSeq(pipe, 1, n)], FALSE)
  /\ pipe' = SubSeq(pipe, n + 1, Len(pipe))
  /\ UNCHANGED <<sent, terminator, lost, done>>

(* end: the response is over, perhaps in the middle of a frame. *)
End ==
  /\ ~done
  /\ done' = TRUE
  /\ lost' = (pipe # <<>>)
  /\ pipe' = <<>>
  /\ parser' = Drain(parser, TRUE)
  /\ UNCHANGED <<sent, terminator>>

Next ==
  \/ \E o \in Origins \cup {NoOrigin}, payload \in Payloads : SendEvent(payload, o)
  \/ SendControl
  \/ SendComment
  \/ \E n \in Chunks : Push(n)
  \/ End

Spec == Init /\ [][Next]_vars

-----------------------------------------------------------------------------
(* What the protocol keeps of a payload: its lines, ended by LF. *)
Normal(payload) ==
  FlattenSeq([i \in DOMAIN payload |->
    IF payload[i] = CR /\ i < Len(payload) /\ payload[i + 1] = LF THEN <<>>
    ELSE IF payload[i] = CR THEN <<LF>> ELSE <<payload[i]>>])

Joined(lines) ==
  FoldLeft(LAMBDA text, line : text \o <<LF>> \o line, lines[1], Tail(lines))

Means(frame, e) ==
  /\ frame.id = IF e.id = NoId THEN Undefined ELSE Is(<<e.id>>)
  /\ frame.event = Is(<<e.event>>)
  /\ frame.origin = IF e.origin = NoOrigin THEN Undefined ELSE Is(<<e.origin>>)
  /\ e.id # NoId => Joined(frame.data) = Normal(e.payload)

(* No payload forges a field or a frame and no cut splits or repeats one:  *)
(* however the stream is chunked and wherever it breaks off, what the      *)
(* parser returns is what was sent, in order, each once and whole, and if  *)
(* nothing was lost it is all that was sent.                               *)
OnlyWhatWasSent ==
  /\ Len(parser.out) <= Len(sent)
  /\ \A i \in DOMAIN parser.out : Means(parser.out[i], sent[i])
  /\ done /\ ~lost => Len(parser.out) = Len(sent)
=============================================================================
