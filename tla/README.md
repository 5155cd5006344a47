# A TLA+ model of aghoz

aghoz (the repository is `thinkgrid-labs/pushmount`) is a library for resumable
server-sent event streams: a *hub* mounted as a route of an existing Node
application, a browser *client* that resumes from a cursor, and the promise
that an interruption the hub cannot close is reported as a gap, after which the
application refetches. This directory holds TLA+ modules translated from that
code, the TLC configurations that check them on small instances, and TLAPS
proofs of what those runs check, for every value of the constants: of the
protocol core, the stream handler, the promise to a client, the client's
connection manager, the shared client, the framework adapters, the file history
and the Redis backplane. `PROJECT.json` lists, for
every definition, the lines of source it stands for.

Run a model with `tlc -config X.cfg MCModule.tla`, the proofs with
`tlapm HubCoreProofs.tla` (and the other modules whose names end in `Proofs`).

## 1. The system and its parts

| part | source | state it keeps | operations |
|---|---|---|---|
| event ids | `packages/server/src/hub.ts` | last id: `#lastMs`, `#lastSeq` | mint, compare, parse |
| history ring | `hub.ts` | `#history`, `#bytes`, `#lastTrimmed` | append with eviction, checkpoint, replay |
| subscriber registry | `registry.ts` | subscribers, topic index, per-key counts, queued bytes | add, remove, match, the three buffer notes |
| protocol core | `core-ts.ts` | ring and registry | publish, append, subscribe, remove, notes |
| stream handler | `create-hub.ts` | connection map, keepalive timer, revalidation timers, `closed`, restored floor and uncertainty | handler, fan-out, drop, revalidate, disconnect, close |
| counters | `stats.ts` | monotonic totals | increments beside the handler's steps |
| file history | `packages/history-file/src/index.ts` | log file, clean certificate, chain of appends, newest trimmed id | load, append, compact, close |
| Redis backplane | `packages/redis/src/index.ts` | shared stream and floor marker; per process `startedEmpty`, `floorWritten`, `lastRead` | start, publish, write the marker, reader loop, replay, close |
| client | `packages/client/src/client.ts` | subscriptions, cursor, topics key, abort controller, timers | subscribe, release, reconnect, close, connect loop, read loop |
| shared client | `packages/client/src/shared.ts` | lock, leader and follower tables, channel | elect, relay, welcome, close |
| stream parser | `packages/client/src/parser.ts` | partial line, partial event | push, end |
| Rust core | `core/src/` | a second ring and registry of the same shape | the core's operations |
| C ABI, Node binding | `abi/`, `bindings/node/`, `core-native.ts` | a locked hub | the core's operations, with their refusals turned into codes, errors and reasons |
| client adapters | `packages/{react,react-query,vue,svelte}` | per view: the topic of its last render, its subscription, a debounce timer, what it shows, its readers | mount, render, effects and cleanups, watch, read, unmount |
| server adapters | `packages/{fastify,nest}` | none of their own | wiring |

**How they interact.** A publish mints an id, appends to the ring and is fanned
out to the subscribers that the registry matches, all in one synchronous run;
with a store, the append to the file is started and not awaited. With a
backplane, publish only writes to the shared log, and every process appends and
fans out what its reader brings. A request is parsed, authorized (one await per
topic), registered, given its checkpoint and replay in one synchronous block
(with a backplane the replay is one more await), and then fed from fan-outs.
The socket, the revalidation timer, `disconnect()`, `close()` and the
slow-consumer verdict may each end it. The client holds one cursor for all its
topics, moves it with every event it reads, and comes back with it.

**What is hard here.** Four kinds of thing. First, *whether a gap is reported*:
that depends on the ring's two marks, on ids that come from outside or from a
clock that steps back, on what an earlier life of the hub left on disk, and on
what falls between registration and an awaited replay. Second, *lifecycles
across awaits*: a request whose client leaves, or whose hub closes, while
`authorize` or the shared replay is pending; a connect loop that sleeps through
an abort or a close. Third, *crash recovery*: which certificate survives which
crash, and what a later life then vouches for. Fourth, *several actors on one
thing*: hub processes on one Redis stream whose replays are four reads at four
instants, tabs that hand one connection and one cursor from leader to leader
over messages that arrive late, two implementations of one core. The `hazards` of `PROJECT.json`
list each at its line, with the properties that would catch it.

**What makes each part correct.**

* ids and ring: minted ids only grow; an echoed cursor has everything after it
  still retained; a gap is told only when something is gone; the byte budget holds.
* registry: its three maps describe the same subscribers; limits hold.
* core: a subscriber is handed everything it is owed, by replay or live.
* handler: nothing is lost or overtaken across the shared replay, no byte goes
  out before the head, every request is answered, every connection opened is
  closed and counted once, nobody is kept who has left or has been refused.
* client: it is never left without a loop while it wants topics, never dials
  once closed, has one connection, and that one carries the wanted topics.
* stream (client and hub together): the cursor passes no followed event that was
  neither delivered nor covered by a gap, and the client catches up.
* file history: what a restored hub vouches for is really there.
* backplane: a replay's `truncated` is true whenever something after the cursor
  was trimmed, or lost while a marker stood by; every process sees one order.
* shared client: no tab takes an event twice or goes back; what was forwarded to a tab
  survives a change of leader; the one connection asks for what the tabs want.
* client adapters: the client calls exactly the views that are there and want it, a view shows what it was told, and
  a query that was told to be refetched is.
* parser and codecs: however the stream is cut, what comes out is what was sent.
* the two cores: a host cannot tell which of them it drives.

## 2. Modules

```
EventIds ── HubRing ─┬─ HubCore ── TwoCores ── MCHubCore
            Registry ┘              │
RustHub (INSTANCE), FrontEnds ──────┘
HubRing, Listing ── Stream (implements Delivery) ── MCStream
Handler ── MCHandler              Listing ── FileHistory ── MCFileHistory
ClientTopics ─┬─ ClientManager ── MCClientManager
              └─ Views ── MCViews
RedisBackplane ── MCRedis
SharedClient ── MCShared          Wire ── MCWire

HubRing ── HubRingProofs ─┬─ HubCoreProofs (of HubCore and TwoCores)
                          └─ StreamProofs (of Stream)
HandlerProofs, SharedClientProofs, FileHistoryProofs, RedisProofs: each of the module it
is named after; ClientProofs: of Views and of ClientManager
```

**EventIds** (`hub.ts`): an id is a pair `[ms, seq]`, `NoId` stands for `null`
and is before all. `NextId` is `#nextId`: the clock if it has moved on, else the
next sequence number.

**HubRing** (`hub.ts`): `lastId`, `history` (the retained part of the code's
array), `bytes`, `lastTrimmed`, and two history variables, `accepted` and
`evicted`. `AppendEvent` is `Hub.append` with its eviction loop, `Truncated` the
checkpoint rule, `Replay` what follows it. A frame is its id, topic, size and
origin; its bytes are Wire's.

**Listing**: a set of positions as the one sequence that visits them in order, which is
what a loop over part of an array does; the frames of a replay in Stream and the
entries kept by a compaction in FileHistory are listed by it.

**Registry** (`registry.ts`): `subs`, `byTopic`, `byKey` are the code's three
maps; `Admits` the limits, `AddSubscriber`, `RemoveSubscriber`, `NoteBuffer`,
`NoteSent`, `NoteFlushed` its operations.

**HubCore** (`core-ts.ts`) composes the two: one action per synchronous call.
`handed` and `forgone` are history variables: what each subscriber was given, and
what it is not owed.

**RustHub** (`core/src/{hub,registry,history,id}.rs`): the same core as Rust wrote
it, as operators on a hub record that is nested as the struct is (`last`, `history`,
`registry`): `RustPublish`, `RustAppend`, `RustSubscribe`, `RustRemove` and the depth notes,
and what the hub answers. The loops of `History::push` and `History::since` are recursive
functions of the number of turns: `Turn` is one pass of the eviction loop.

**FrontEnds**: the rules that stand before either core, in each language: topics,
origins and ids over classes of UTF-16 units, and how a refusal travels from Rust
through the Node binding and `createNativeCore`, or through the C ABI's codes.

**TwoCores** drives HubCore and RustHub with the same calls. `CoresAgree` says
that a host sees no difference: in the state behind every answer, and in what every
request and every write, well-formed or not, is told on each way in. One difference is real
and kept: the backlog of a subscriber is counted up to `Number.MAX_SAFE_INTEGER` by one core
(`MaxQueued`) and up to `usize::MAX` by the other (`MaxUsize`). `capped` records for whom they
may have parted, and `VerdictsAgree` what still holds of those.

**Handler** (`create-hub.ts`): the handler of one process with a backplane. A
request is a record whose `pc` follows the function from await to await:
`checking` (authorize, topic by topic), `replaying` (registered, the shared
replay pending, live frames in `pending`), `open`, or `abandoned` (dropped while
replaying; its own continuation answers it). `Admit` is everything between the
last authorize and the next await; `Answer` and `AnswerFails` are the
backplane's; `Open` and `GiveUp` the two ways the function goes on. Around them:
`FanOut` (the backplane's sink, `writeTo`, and the drop of slow consumers),
`Leave` (heard once the listeners are attached, on registration), `Disconnect`, `Close`, `KeepAliveTick`, and the revalidation as
`SweepStart`, `SweepAsk`, `SweepCut`, with `Revoke` for an application that
changes its mind. `head` records how the response began: `implicit` is the head
that Node sends by itself when something is written too early.

**Delivery** is the abstract promise to one client: the cursor moves past an
event on a followed topic only if the event was handed over or is reflected in a
snapshot read since. **Stream** is one hub, one client and the wire between
them, without backplane or store: `Serve` is the handler on a reconnection,
`FanOut` the live writes and the slow-consumer end, `Break` a lost connection,
`Restart` a hub that is replaced, `Client` the client's steps. `NoSilentSkip` is
`Delivery!Spec` under the mapping `log <- published`, `followed <- asked`.

**ClientManager** (`client.ts`): `wanted`, `openKey` (`#openTopicsKey`), `owner`
(`#abort`: whose attempt it controls), `debounce`, `closed`, `fatal`, `state`,
and one record per run of `#run`. Calls, timers, answers, rejections and lost
connections are each an action; between two of them nothing else runs.

**FileHistory** (`history-file` and the restoring part of `create-hub.ts`): the
log as a sequence of lines (events, a trim marker, a torn line, a garbled one),
how much of it is durable, the certificate, the chain of appends, and the hub
that restores from it, over several lives. `Boot` is a load that reads the log, finds none or
finds it garbled; `LoadFails` one that throws on the way (index.ts:103, :114, :116), after which the
hub starts empty and certain and goes on appending to the log that is there. `WriteFails` has the
write, the sync after it and the compaction; `ProcessDies` and `MachineDies` are the crashes.

**RedisBackplane** (`redis/src/index.ts`): one stream and its floor marker, shared
by hub processes. Each `await` is a step: a process starts (`Boot`), its
`writeFloor` is `WriterGet`, `WriterOldest`, `WriterSet` or `WriterFails`,
`Publish` is XADD with its trimming, `Read` a turn of the reader loop, and a
replay is `Scan`, `ReadNewest`, `ReadOldest`, `Answer`, with everybody else's
steps in between. `Die` and `LoseStream` are the faults: the second takes the stream, its marker or both.
Each process is started with a client that implements some of `get` and `setnx` (`commands`); `CanMark` and
`Readable` are what the code does without them. `begin`, `unmarked` and `outrun` are history: what was lost,
with or without a marker left to tell of it, and whether trimming overtook a publish.

**SharedClient** (`shared.ts`): the tabs, the lock, the channel as one inbox per tab
in which messages of one sender keep their order, and the leader's inner client as
Delivery promises it. `BecomeLeader`, `Dial`, `Connect`, `FanOut` are the leader's
work, `Receive` one message of whichever kind at whichever tab, `Close` a tab that
says goodbye and `Die` one that does not. The lock is `navigator.locks`': a signal withdraws a
request that is pending and nothing else, so a leader that closes keeps the lock it was granted (`kept`)
until its page goes (`Unload`). With an `Unload` right after each `Close` the model also is what the
tests' stand-in for the lock does.

**Views** (`react`, `react-query`, `vue` and `svelte`, each `src/index.ts` or `.tsx`): the views of an application on one client, of
which there is only what they see: its registries, its state, events and gaps. React acts in
effects, so a render (`ReactMount`, `ReactRender`) and its effect (`TopicEffect`, `StateEffect`,
`QueryEffect`) are two steps with anything in between; `ReactUnmount` is the cleanup. Vue's
watcher is one step (`VueWatch`), a Svelte store registers with its first reader and goes with its
last (`SvelteRead`, `SvelteLeave`). `Event` and `Gap` dispatch to whoever is registered; the query hooks
invalidate, at once or by a debounce timer (`Timeout`), or fold the event into what is cached,
which a fetch (`Fetched`) replaces by what the server held some time ago. `Provide` and `ProviderEnds` are
the provider's client. ClientTopics declares the topics it shares with ClientManager.

**Wire** (the encoders of `hub.ts` and `codec.rs`, `parser.ts`): characters in a
pipe. `SendEvent`, `SendControl`, `SendComment` encode, `Push` hands the parser a
chunk, `End` breaks the stream off; `Drain` is the parser's loop, line by line.

## 3. Runs: what each checks, and its bounds

| run | shows |
|---|---|
| `hub_core` | under every order of the core's calls: no echo hides a gap, no gap is told without cause, indexes and limits hold, subscribers are handed what they are owed, minted ids are fresh, the byte budget holds; and the Rust core, the Node binding and the C ABI answer as the TypeScript core does |
| `stream` | Stream implements Delivery while its hub lives, the client catches up, and what goes down with a hub is made good by a gap as long as the new hub has not published up to the cursor |
| `handler` | nothing is lost, overtaken, written too early, counted twice, kept after close, left unanswered or left connected after it was denied, across every interleaving of the awaits |
| `handler_ghosts` | *violation*: a client that leaves during authorize stays (finding 1) |
| `client_manager` | never stranded, never dials after close, settles |
| `client_one_connection` | *violation*: two connections at once (finding 2) |
| `file_history` | what a restored hub may vouch for, after deploys and after crashes; a shutdown ends |
| `file_torn_tail` | *violation*: a torn line costs the whole log two lives later (finding 3) |
| `redis` | a marker never claims a beginning it did not see; a replay that reports no gap has none, a gap that is reported is real, though its reads are four instants |
| `shared` | no tab takes an event twice; what was forwarded outlives its leader; once settled, the connection asks for what open tabs want and they show its state |
| `views` | the client calls whom it should, each view shows what it was told, and no invalidation is left without a timer, whatever is rendered, disposed, read and left between a render and its effect |
| `wire` | what either encoder sent is what the parser returns, however the stream is cut or broken off |

**Bounds, and why they are enough.** Unbounded counters are capped in the
guards by constants whose names begin with `Max`; each is marked "bound" where
it is declared. The constants that are the program's own limits (`MaxBytes`,
`MaxConnections`, `MaxPerKey`, `MaxTopics`, `MaxBuffer`, `MaxQueued`, `MaxUsize`, `MaxUnread`, `MaxLines`,
`MaxLen`, `MaxReplay`) are set so low that the limit is passed, but for `MaxTopics` in `hub_core`
(requests of two topics, and a limit of two) and `MaxConnections` in `handler`.

* `hub_core`: a ring of one unit with frames of one and two units: one frame that
  fits, one that evicts everything including itself, and an empty ring that has
  evicted. Two clock readings and two sequence numbers give four ids, enough for
  an id from outside to be above, below or equal to the marks. Texts of up to four
  units around a topic limit of three bytes and an origin limit of two, so that each limit is passed
  by count and by encoding, and ids of up to five characters with halves of up to two
  digits. A buffer limit of 0, counts that end at 1 in TypeScript and at 2 in Rust: the slow verdict, both ends and a
  backlog on which the two counts differ are reached. Depths are reported of the first subscriber, if it has a key (`MaxNoted`). The proofs cover other values of the core's constants.
* `stream`: a ring of two frames and four events, so that the ring evicts twice; one frame
  of unread buffer, so that a fan-out can end a reader; two topics; two mishaps
  (refusals, breaks, topic changes), so that a reconnection can fail and a topic
  can be left and followed again; one restart.
* `handler`: two requests, one for two topics that may resume, one for a single topic;
  two events or one event and one withdrawal of a permission. That is enough for
  an event in the replay with one held back behind it, a trim between them, a
  sweep over two connections and a limit on topics. The connection limit (two)
  cannot be exceeded by two requests: that limits hold when requests race is not shown here, only in `hub_core`,
  where admission is one call.
* `client_manager`: four loops and four calls; two mishaps. The overlaps found need two
  loops and at most four calls.
* `file_history`: four lives, five events, two faults, compaction as soon as the log
  passes one line, so that a trim marker is carried over a later compaction and a crash is
  followed by two more lives. Each life has `fsync` on or off; a fault is a load, write or sync that fails, or a crash.
* `redis`: two processes, one of them watched, started twice between them, each with a client that has both optional
  commands or neither; a stream that keeps two of three entries; a replay limit of two; one failed round trip and one
  loss, of the stream, the marker or both. Two first publishes can race for the marker and fail, trimming can overtake one
  that is still under way, and an entry can be trimmed between any two reads. The proofs cover all other values.
* `shared`: three tabs opened one after another, the first two without a page cursor, the last with one and on
  a topic of its own; one event, two moves (a topic change, a reconnect, an exit, a lost
  connection): the lead can pass twice, to a tab with a cursor and to one without, and a closed leader's page may
  keep the lock for any time. At most one message is unread when something new begins.
* `views`: two views on two topics, the first of any kind of any framework, the second a hook that folds into the
  first topic's query; two events, two readers of one store, and a debounce in the first view. Two views are enough for one to
  take back what is the other's; the second query is never fetched, so that both a cached and an empty query are met.
* `wire`: two frames with payloads of up to three characters taken from CR, LF, `:`, space and a field name;
  chunks of one, two and seven characters; all three line ends.

Symmetry is used only where no liveness is checked. Deadlock checking is off in
every run: with its bounds used up, a client closed, a hub down or a stream ended, the
modelled system stops.

**Fairness.** A ready callback of the event loop runs: `WF(Client)` in Stream,
`WF(Sync)` and `WF(Progress(l))` in ClientManager, `WF(Write \/ Compact)` and
`WF(Finish)` in FileHistory, `WF` of the request handlers' steps in Handler.
This covers promises that settle (an authorize or a replay that hangs for ever
would keep its request waiting: nothing in the code times it out) and timers that
fire; the revalidation timer of Handler is `WF(Revalidate)`, for a hub with
`revalidateMs` set. No fairness is assumed of applications, clients that leave,
publishers, or anything that goes wrong; what goes wrong does so finitely often,
by its bound. `hub_core`, `redis`, `shared`, `views` and `wire` state safety only; what the shared
client must end up with is stated of the states in which nothing is left to do (`Settled`).

Every property of a passing run has a mutant: a plausible bug in one modelled
definition (`DropsCountingTwice`, `WriterOldestGivesUp`, `AnswerReadingLast`, ...), kept next to the
definition it replaces, under which TLC finds that property violated.

## 4. Proofs

Each theorem holds for every value of the constants, under the named assumptions
on them (`RingAssumption`, `RegistryAssumption`, `BoundsAssumption`, `TextsAssumption`, and `WidthAssumption`: a
`usize` at least as wide as the integers a double can count; those of
Handler, SharedClient and Views; `FileAssumption`, `RedisAssumption`). Every invariant and
every action property of a passing run is stated by a theorem, except the one named at
the end. One inductive invariant, `IInv` (`ViewsInv` and `ManagerInv` in ClientProofs), carries a module's theorems, and there is
one lemma per action.

| theorem | says |
|---|---|
| HubCoreProofs: `TypeCorrect` | `[]TypeOK` |
| `BudgetIsKept` | `[]RingWithinBudget`: the ring's bytes are the sum of what it holds, and within the budget |
| `NoSilentGap` | `[]EchoIsComplete`: a cursor is echoed only if everything accepted after it is retained |
| `NoFalseAlarm` | `[]AlarmsAreHonest`: a gap is told only if something after the cursor was evicted, or the cursor is above the sequence |
| `RegistryStaysSound` | `[]RegistrySound`: the registry's three maps agree (`IndexesAgree`); connections, connections per key and topics stay within their limits (`LimitsHold`) |
| `NothingSlipsBetween` | `[]HandedInFull`: replay and live hand-over leave nothing out |
| `IdsNeverGoBack` | `MintsAreFresh`: a minted id is above every accepted one |
| `CoresAlwaysAgree` | `BothSpec => []CoresAgree`: the two cores tell a host the same, as far as the widths of their counts let them |
| `BothIsTheCore` | `BothSpec => Spec`: what is proved of HubCore holds of the pair, too |
| StreamProofs: `TypeCorrect` | `[]TypeOK`, in every life of the hub |
| `NothingIsSkipped` | `NoSilentSkip`: hub, wire and client implement Delivery for as long as the hub lives |
| HandlerProofs: `TypeCorrect` | `[]TypeOK` |
| `OwedIsAlwaysGiven` | `[]OwedIsGiven`: nothing is lost or overtaken across the awaited replay |
| `HeadsAreFirst` | `[]HeadsComeFirst`: no byte precedes its response's head |
| `BooksAlwaysBalance` | `[]BooksBalance`: opened is what is there and what was counted as closed (`ClosesAddUp`); a closed hub stays empty, and the keepalive runs for open connections only (`Quiet`) |
| ClientProofs: `ViewsTypeCorrect` | `[]ViewsTypeOK`: the client's registries are those of the views that want them |
| `NothingIsMisshown` | `[]ShownIsTold`: indicators, folds, stores and cached queries show what they were told |
| `NoInvalidationIsLost` | `[]InvalidationsAreDue`: an invalidation a hook owes has a timeout running for it |
| `ManagerTypeCorrect` | `[]TypeOK` of ClientManager, and no timer survives `close()` |
| `AlwaysLooksAfterItself` | `[]NeverStranded` |
| `ClosedIsClosed` | `NoDialAfterClose` |
| FileHistoryProofs: `TypeCorrect` | `[]TypeOK` |
| `DeploysStayHonest` | `[]HonestAcrossDeploys`: after proper shutdowns what is vouched for is there, in every life whose own load did not throw |
| `CrashIsNeverHidden` | `[]HonestAfterCrash`: so it is in the life after a crash, if both lives read a log |
| `GapsAreNeverNeedless` | `[]NoNeedlessGap` |
| RedisProofs: `TypeCorrect` | `[]TypeOK` |
| `MarkersAreTrue` | `[]FloorTellsTheTruth`: nothing before the entry a `created` marker names was trimmed, or lost while a marker stood by, unless trimming outran its publish |
| `NothingIsMissed` | `[]Covered`: no gap reported, nothing missing, but for what a replay cannot know (section 5) |
| `GapsAreReal` | `[]NoNeedlessGap` |
| SharedClientProofs: `TypeCorrect` | `[]TypeOK` |
| `NoTabGoesBack` | `NeverBack`: no step takes a tab's cursor back or gives it an event at or below it |
| `WhatIsForwardedIsHeard` | `[]ForwardedIsHeard`: a hand-over loses nothing that was fanned out, except to a tab that takes the lead without a cursor |
| `AllSettlesRight` | `[]SettlesRight`: once settled, the connection asks for what the open tabs want (`EveryoneIsServed`), and all tabs show its state (`StatesAgree`); while a closed page keeps the lock none shows a connection (`NobodyIsMisled`) |

**HubRing, HubCore.** `IInv == RingInv /\ RegInv /\ CoreInv`. `EchoIsComplete` speaks of a rule that
looks only at two marks, so `RingInv` relates the marks to the facts: every accepted event is held
or its id is among the evicted, `lastTrimmed` is at or after every evicted id and is itself
one of them (or null), and `lastId` is at or after every accepted id. From the
first two follows `EchoIsComplete`, from the third `AlarmsAreHonest`, and the
last gives the freshness of minted ids. `RegInv` adds to `IndexesAgree` the
finiteness of the live set (counts are cardinalities) and that the next id is
above every id in use. `CoreInv` is `HandedInFull` with the types of the history
variables; its step for Subscribe uses that a truthful echo replays everything
(`EchoIsSound`). `LimitsHold` is inductive given `IInv`: admission tests a count, and
`IndexesAgree` says that the count is the number of connections. `RingWithinBudget` is
inductive given the types: the loop takes off `bytes` what it drops, and a sequence weighs
what its two parts weigh (`WeightInParts`). That is a fact about a fold, proved from scratch:
the sums of all subsets exist (`SumsExist`), depend only on the values (`SumsAgree`), and do
not depend on which element is added last (`SumWithout`).

**TwoCores.** `CoresAgree` compares answers, and answers cannot be carried from one state to the next; states can.
`MirrorInv == IInv /\ RingWithinBudget /\ Mirrors`, where `Mirrors` says that the Rust hub *is* the record
made of the TypeScript core's variables (`RustView`). Every call preserves it. The registries differ only in how they
write a map (`AddsAlike`, `RemovesAlike`, `NotesAlike`), and admission in the order of its tests. The histories
differ in kind: TypeScript's ring is specified by how many entries go (`TrimCount`), Rust's by a loop. `EvictsAlike` follows
the loop turn by turn: after i turns it has dropped the first i entries, weighs what the rest weighs, and
its mark is one that `MarkAfter` allows for those; at `TrimCount` it stops. It needs `RingWithinBudget`, without which the
byte counts of the two loops could not be compared, and `OneMark`, that the mark is determined. From `MirrorInv` each conjunct
of `CoresAgree` follows: `SinceReads` is the induction over the replay loop (what it has kept after i entries
are the wanted ones among them, in order), `AnswersMirrored` the case distinction over refusals. The backlogs are the one part that `Mirrors` does not equate: Rust's count is never below TypeScript's, and
equal to it for whoever is not `capped`. `ValidatorsAgree` and
`WritesAgree` are facts about texts of any length: `LengthIsBytes`, that TypeScript's count, which steps over the second
half of a pair, is the number of bytes Rust measures; and `IdsAgree`, that the one cut at the first dash which all three readers
of an id make is the same.

**Induction.** The library's induction theorems take an operator as a parameter, which the
provers cannot instantiate. Where a proof needs induction on a number, the set of
counterexamples is written down as a set, and `LeastNumber` (from the library's theorem that
`<` is well founded on `Nat`) gives its least member, which the argument then refutes. `CountingUp` packs that for the numbers below a bound, and
`StepsExist` uses it to show that a recursive function, which TLA+ defines by CHOOSE, exists.

**Stream.** `IInv` is about the wire between hub and client. `Recorded` and `InOrder` say that the ring
holds what was published, in the order of ids; `HeadFirst` that a response has one head, in
front; `NoneJumped` that no event on the wire comes after one that the client is owed, was not given
and will not have been given or told of before it; and `NoneLeftOut` the same of whatever is
published next, which is what the fan-out needs. A replay establishes both because it lists the
ring in order (`Listing`), and an ended or broken connection because nothing more follows.
Every step is then a step of Delivery or leaves its variables alone. All of it is said of the first life
of the hub (`restarts = 0`), as `NoSilentSkip` is; the types hold in every life.

**Handler.** `Stage` says, for each value of `pc`, how far the head is and whether there is a queue, `Mapped` that
the map holds exactly the requests that are opening or open, and `SweepOK` what the walk of a
revalidation may still refer to; from these follow `HeadsComeFirst` and `Quiet`, and
`ClosesAddUp` since each departure takes one connection out of the map. `OwedIsGiven` needs what is under way
(`OwedInv`). While a request waits for its replay (`Opening`), there is a point behind which the queue has every
event it asked for that was read, because it was registered before it asked, and an answer that admits no
gap covers everything from its cursor to that point or beyond; both are in order. Once it is open (`Running`),
there is a point, at or ahead of what this process has read, up to which everything owed has been given and
beyond which nothing was written: so what the fan-out brings is either given already or newer than all that was given.

**ClientManager.** `NeverStranded` needs to know that the loop which holds `#abort` was started for the
key of the last sync and has not ended (`OwnerIsCurrent`).

**Views.** `ViewsInv` says of each view by itself what it may look like (`Coherent`: a hook whose effect has run
is registered for the topic it was rendered for, a store is registered exactly while it has readers, a timer is
set only by a hook with a subscription) and that it shows and owes what it should (`Fits`, `Due`); `ViewsTypeOK`
ties the registries to the views. Most steps concern one view and need only that what it becomes
is sound and that the registries follow (`Moved`); a dispatch, a change of state and a fetch concern many and leave the
registries alone (`Dispatched`). The cleanup that runs first in an effect takes back the subscription the view
has, not the one it was last rendered for: that is where `Coherent` is needed.

**FileHistory.** `Types` gives the file its shape through every crash: numbers go up, a torn line is the
last, the mark is the first and below every event, what is queued comes after what is written
(`Ahead`). `Certified` says that a life that found a log has withdrawn the certificate before it did anything
else, so the life after its crash is uncertain and vouches for nothing. `Deployed`, which holds
while no life has ended badly, says that every published event is in the ring or at or below the floor, and in
the file, on its way there or at or below the mark (`OnFile`), also while a compaction drops and carries over marks.
The half about the ring is not said of a life whose load threw (`found = "unread"`); the half about the file is, and from it the
next life that reads the log has everything again.

**RedisBackplane.** `MarkerInv` is the heart. A process's own entry is the oldest of the stream only if it is the
first since the stream was last lost (`begin`), or trimming took what stood before it (`outrun`); so a marker that says
`created` names an entry before which nothing was trimmed, and while there is no marker, all that was lost counts as lost
without one (`unmarked`). `ReplayInv` says what a replay left out is gone for good and older than the oldest entry that
was read after it, or than the whole stream; `LiveInv` that the fan-out covers what came since, and `SignsInv` what each of
`missedAnything`'s signs of a loss implies for ever after. All three survive the others' steps by one lemma
(`OthersStep`): only the oldest entries go, and none comes back.

**SharedClient.** Nobody sees the whole state, so each conjunct of `IInv` says what a tab's *unread* messages will
make it know. `Locked`: the lock's queue has each open tab once, its holder first. `Keeping`: while a closed tab's page
has the lock nobody leads, and every open tab was told that the connection is closed, read or not, or opened too
late to be told anything (`Bereft`); hence `NobodyIsMisled`. `Leading`: the leader's own
topics are in its table, its connection's cursor is at or after its own, and it shows the
connection's state. `Membership`: what a tab says of itself is posted to the first in line and to nobody else
(`OnlyFirst`); the last it said there is what it wants (`Heard`); and when nothing of it is
unread, the leader knows what it wants, or knows nothing of it and has asked (`Known`). With empty
inboxes that is `EveryoneIsServed`. `Agreement`: an open tab's hello is still to be answered, or the last state it
was told, read or not, is the connection's (`Informed`); hence `StatesAgree`. `Forwarded`: an event owed to a tab is in
its inbox with nothing before it that would make it a duplicate, or the tab leads and its connection
resumes from before that event. The hand-over is where it is needed: the new leader has asked
everyone again, its connection starts from its own cursor, and messages of the old leader are still
in front of it. `NeverBack` follows from `Leading` and the comparison with the cursor in every
handler. A tab that takes the lead without a cursor is where `Forwarded` needs `skipped`: what it had in its inbox then it
will not hear.

Only model-checked: every liveness property and what happens to a client when a hub is replaced (`LossIsNoticed`),
which is stated with *leads to*; and `OnlyWhatWasSent`, since Wire's
encoders and its parser are recursive operators, out of the prover's reach.

## 5. Findings and known limits

Findings, each a run that ends in a violation:

1. **A client that leaves during authorize** (`handler_ghosts`, `create-hub.ts:862`).
   Its close events come before the listeners are attached; the handler registers it
   and never hears of it again. A client that leaves later is noticed, whichever await its handler is at.
2. **Two loops** (`client_one_connection`, `client.ts:313`). `reconnect()` during a
   backoff starts a second loop and does not end the sleeping one.
3. **A torn line** (`file_torn_tail`, `history-file/src/index.ts:135`). Skipped by load
   but left in the file; the next append runs on from it.

Limits of what the passing properties say, met while modelling:

* *A restarted hub echoes an old cursor* (`hub.ts:314-326`; `PROTOCOL.md:217`). A hub without a store
  that was replaced and has published past a client's cursor echoes it, though the old
  life's events are gone. `LossIsNoticed` has that condition.
* *Backlogs past 2^53.* TypeScript's count of a subscriber's queued bytes stops at `MAX_SAFE_INTEGER`, Rust's at
  `usize::MAX`. After that TypeScript may read as drained while Rust still says slow, never the reverse
  (`VerdictsAgree`); an absolute depth, or a full drain, brings them together.
* *A stale key* (`client.ts:297`, `client.ts:335`). A retry inside the debounce window dials for the topics
  of its own moment under the key of the last sync; the connection may stay up without a wanted topic.
  `NeverStranded` and `Settles` are stated of the key.
* *A certificate over an uncertain log* (`history-file/src/index.ts:177`). A graceful close certifies what its
  own load did not trust; `HonestAfterCrash` speaks of the life right after the crash.
* *A load that throws* (`history-file/src/index.ts:103`, `:114`, `:116`; `create-hub.ts:316-322`). The hub starts empty and is not
  `uncertain`. As soon as it has published past an old cursor it echoes it, although all of the old events are
  missing and every shutdown was proper; the comment at `create-hub.ts:319-321` says that the checkpoint rule "tells every
  resuming client the truth". It appends to the old log meanwhile, so the next life that reads it has everything again.
  `HonestAcrossDeploys` excepts the life itself (`found = "unread"`), and no other.
* *A reader that falls behind the trimming* (`redis/src/index.ts:238`) skips what was trimmed, and tells no open
  connection. `Covered` excepts exactly those entries (`skipped`).
* *A closed leader keeps its lock* (`shared.ts:200`, `:282-284`). The comment says that the abort "releases the lock, so a
  queued tab is promoted immediately". `navigator.locks` does that for a request that is pending; a lock that was granted stays
  until its callback's promise settles, which it never does, or the page goes. Until then nobody is promoted and no
  open tab is served, however long the page lives (a single-page application that only closes its client). The tests' stand-in
  for the lock does release it. `SettlesRight` says what is left to say: no tab shows a connection meanwhile, and once the page has
  gone everybody is served.
* *A tab that leads before it has read what was posted to it* (`shared.ts:319`, `:415`). A leader ignores what leaders say. If the new leader
  has a cursor, its connection replays those events; if it never had one, its connection starts from now and they
  are lost, with no gap told. `ForwardedIsHeard` excepts exactly them (`skipped`).
* *An older page* (`shared.ts:435`). A follower takes the leader's newer cursor from the welcome. If its page is
  older, and a topic that only it follows had events in between, nobody gives it those, and it is told no gap.
* *A cancelled invalidation* (`react-query/src/index.ts:146`). The effect's cleanup drops a debounced invalidation that
  is still to come: also when the effect runs again for another topic, for a hook that is disabled or, of the folding
  hook, for a `parse` written in place, which is a new function in each render. The query is then not refetched for
  what the hook was told, though the doc says it is "whenever `topic` fires, and whenever updates were missed" (line 112).
  `InvalidationsAreDue` is about what was told since the effect last ran.
* *Between a render and its effect* a query hook has the key of the new render and the subscription of the old
  one: an event of the old topic is folded into the new query, and a timer that fires invalidates the new key.
  `ShownIsTold` and `InvalidationsAreDue` are about hooks whose effect has run.
* *A fold and a fetch in flight.* A fetch that left before an event and resolves after it replaces
  what was folded in. `ShownIsTold` is about the events since the last fetch resolved.
* *Both Redis keys deleted, or the marker alone.* A process that starts on the empty stream claims the new beginning as `created`,
  and a cursor from before is told nothing, although `README.md:781-783` says that such a stream "answers conservatively" and
  `redis/src/index.ts:62-64` that it "has nothing to vouch with". `FloorTellsTheTruth` and `Covered` except what was
  lost with no marker left (`unmarked`), and nothing else that was lost.
* *A lost stream and a client without `get`* (`redis/src/index.ts:174`, `:228`). The cursor `0-0` is answered "nothing missed" on
  an empty stream, because no marker is read; the doc at `index.ts:28-34` says that such an adapter degrades to "you may have
  missed something". `Covered` excepts it (`blind`).
* *Trimming that overtakes a first publish* (`redis/src/index.ts:165-169`). If so much is published during the two round trips
  between a publish and its marker that the entries before it are trimmed, its own entry is the oldest and the marker says
  `created` of it. With the default `maxLen` that takes ten thousand publishes; the run has a `maxLen` of two. `outrun` marks it.
* *A list with too many topics, one of them invalid,* is refused for different reasons by the two cores. The handler
  tests the list first, so a request over HTTP never sees it; `AnswersAgree` names the exception.
* *`publish` and `append` of the TypeScript core throw a `TypeError`* where the native core throws a `CoreError` with a
  reason; `WritesAgree` compares acceptance, and reasons where both have one.

## 6. Abstractions and assumptions

* Handler: the backplane is an ordered log whose events are positions; it answers a replay
  in one instant (RedisBackplane has the instants) and trims only what this process has read. A replay larger than the
  backplane's cap has the outcome of `AnswerFails`. How far behind a slow consumer must be
  is left open: any open target of a fan-out may be ended. One revalidation at a time.
  Every request is parsed successfully. A hub without a backplane takes the path of a
  request without a cursor, where nothing is awaited after registration. The per-key limit
  and the limit on topics are Registry's.
* Stream: one attempt at a time (ClientManager has the overlaps), bytes counted as frames, 400
  and 403 left to ClientManager. The clock may step back within a life and across lives.
* ClientManager: callbacks do not call back into the client; "reconnecting" is one with
  "connecting".
* FileHistory: ids increase across lives; the ring keeps all it is given; renames and unlinks are
  durable and in order; what a crash loses of unsynced bytes is a suffix.
* RedisBackplane: ids are 1, 2, 3, ..., also across the loss of the stream; a process publishes one event at a
  time; a hub sets its sink before the first read; all entries are on topics the subscriber follows.
* SharedClient: a message that its reader would ignore is not posted; a tab that dies gives the lock back at once; a tab that was
  just granted the lock has run its callback (no close falls between the two); the inner client is Delivery's, one connection at a time; nothing is
  trimmed; a tab without a cursor is owed nothing from before it opened. Gaps, denials and origins pass through
  the channel unchanged and are left out.
* Views: "idle", "connecting" and "reconnecting" are one state; a dispatch is one step, in which no handler subscribes
  or unsubscribes another; the provider keeps the client it was given first; each topic has one query, and the
  hooks that share it are told apart by their topic; a query hook that is disabled, or has no topic, is one with
  the topic `Off`; a store, and a hook that shows a topic, keep the set of events they took in, of which the
  variants for the last value show the newest. An event that fails to parse fails for the view that parses it.
* Wire: a character is what the parser tells apart; a field's name and an id are one character each, which no
  cut divides.
* FrontEnds: texts are well-formed UTF-16 (a lone surrogate cannot cross into Rust); the C ABI takes an empty key
  for none. Its null pointers, lengths and poisoned locks are not modelled.

## 7. Not modelled

* `cursor()` and `sharedCursor()`, the cursor endpoint, the bootstrap header and `deniedFrame` of the handler: reads of
  the core's sequence or of the backplane's newest id, and one frame's text. Request parsing and most counters.
* MemoryStore: an array behind the same interface as the file store, a test double.
* Ownership of buffers, panics and pointers in the C ABI, and subscriber ids above 32 bits in the Node
  binding: marshalling, without protocol state.
* The server adapters (Fastify, Nest): wiring of one hub into a framework's lifecycle. Of the client adapters, the
  text that an indicator shows and the types.
* The conformance suite, scripts, spikes and examples: no part of the running system.

## 8. Plan

Done: all of the modules above, and the proofs of what their runs check, but for the property named at the end
of section 4. Left, in this order:

1. **Wire, proved**: the encoders and the parser written as recursive functions, and the induction over a stream that
   is cut anywhere.
2. **Handler on RedisBackplane**: Handler's assumption on its backplane as a specification of its own, which
   RedisBackplane is shown to implement for one process.
3. **The cursor endpoint**: a page's cursor read beside its data, with and without a backplane.
