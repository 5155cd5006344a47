------------------------------- MODULE Views -------------------------------
(***************************************************************************)
(* The framework adapters: what the views of an application do with the    *)
(* one client they share.  React's hooks and the query hooks built on them *)
(* act in effects, which run some time after the render that asked for     *)
(* them; Vue's composables in a watcher; Svelte's stores when the first    *)
(* reader comes and the last one goes.                                     *)
(*                                                                         *)
(* Of the client there is what they see of it: its three registries, its   *)
(* state, the events it dispatches and the gaps it reports.  How it comes  *)
(* by them is ClientManager's subject and Stream's, for which the topics   *)
(* in `handlers` are the ones the application wants.                       *)
(***************************************************************************)
EXTENDS ClientTopics, Integers, Sequences, FiniteSets

CONSTANTS
  Views,
  Off,        \* in the place of a topic: none, or a hook that is not
              \* enabled, for want of a query
  Kinds,      \* per view: what it may turn out to be
  Debounced,  \* the views whose query hook, if they have one, has a debounceMs
  Queries,    \* bound: the topics whose query anybody fetches
  MaxEvents,  \* bound: events dispatched
  MaxReaders  \* bound: readers of one store

TopicKinds == {"reactTopic", "vueTopic", "svelteTopic"}
StateKinds == {"reactState", "vueState", "svelteState"}
QueryKinds == {"invalidation", "fold"}
ReactKinds == {"reactTopic", "reactState"} \cup QueryKinds
SvelteKinds == {"svelteTopic", "svelteState"}

ASSUME ViewsAssumption ==
  /\ Off \notin Topics
  /\ Kinds \in [Views -> SUBSET (TopicKinds \cup StateKinds \cup QueryKinds)]
  /\ Debounced \subseteq Views
  /\ Queries \subseteq Topics
  /\ {MaxEvents, MaxReaders} \subseteq Nat

VARIABLES
  provider,        \* none, there (it made its client), gone (it closed it)
  view,            \* per view: what it is and what it holds
  handlers,        \* #handlers: who is to be called for which topic
  gapListeners,    \* #gapListeners
  stateListeners,  \* #stateListeners
  timeouts,        \* the views a timeout is running for
  connection,      \* #state; idle, connecting and reconnecting are one
  log,             \* the topics of the events dispatched
  data             \* per topic: the cached result of the one query kept by it

registries == <<handlers, gapListeners, stateListeners>>

client == <<provider, connection, log>>

viewsVars == <<view, registries, timeouts, client, data>>

States == {"connecting", "open", "closed"}

NoData == [at |-> -1, has |-> {}]

Gone ==
  [kind |-> "none",
   phase |-> "out",         \* out, rendered (the effect is yet to run), in
   prop |-> Off,            \* the topic, and the query, of the last render
   on |-> Off,              \* the topic its handler is registered for
   timer |-> FALSE,         \* timer.current is set
   told |-> FALSE,          \* an event or a gap since then wants its query
                            \* invalidated, which has not happened
   since |-> 0,             \* how much had been dispatched when the handler
                            \* was registered
   shows |-> {},            \* the events folded into its state
   status |-> "connecting", \* the connection state it shows
   readers |-> 0]

ViewsInit ==
  /\ provider = "none"
  /\ view = [v \in Views |-> Gone]
  /\ handlers = {}
  /\ gapListeners = {}
  /\ stateListeners = {}
  /\ timeouts = {}
  /\ connection = "connecting"
  /\ log = <<>>
  /\ data = [t \in Topics |-> NoData]

Is(v, kinds, phase) == view[v].kind \in kinds /\ view[v].phase = phase

(* An indicator starts with the state it finds. *)
Created(kind) ==
  [Gone EXCEPT !.kind = kind, !.status = IF kind \in StateKinds THEN connection ELSE @]

(* useAghoz, getAghozClient: a view comes where there is a provider.       *)
Absent(v) == view[v].phase = "out" /\ provider = "there"

Becomes(v, q) == view' = [view EXCEPT ![v] = q]

-----------------------------------------------------------------------------
(* What a view asks of the client.  The functions it gets in return take   *)
(* back what it registered, and nothing of anybody else's.                 *)
Without(v) == handlers \ {<<view[v].on, v>>}

Registered(t, v) == IF t = Off THEN {} ELSE {<<t, v>>}

On(q, t) == [q EXCEPT !.phase = "in", !.prop = t, !.on = t, !.since = Len(log)]

Listening(q) == [q EXCEPT !.phase = "in", !.status = connection]

(* useDebounced's cancel. *)
Cancelled(v) == IF view[v].timer THEN timeouts \ {v} ELSE timeouts

-----------------------------------------------------------------------------
(* React: a view is rendered for the first time.  An effect that is due    *)
(* runs before the next render, and not necessarily sooner.                *)
ReactMount(v) ==
  /\ Absent(v)
  /\ \E kind \in Kinds[v] \cap ReactKinds, t \in Topics \cup {Off} :
       /\ kind = "reactState" => t = Off
       /\ t = Off => kind \in QueryKinds \cup {"reactState"}
       /\ Becomes(v, [Created(kind) EXCEPT !.phase = "rendered", !.prop = t])
  /\ UNCHANGED <<registries, timeouts, client, data>>

(* It is rendered for another topic, a hook is enabled or disabled, or an  *)
(* option is another one, as a parse function written in place always is.  *)
ReactRender(v, t) ==
  /\ Is(v, ReactKinds \ {"reactState"}, "in")
  /\ t = Off => view[v].kind \in QueryKinds
  /\ Becomes(v, [view[v] EXCEPT !.phase = "rendered", !.prop = t])
  /\ UNCHANGED <<registries, timeouts, client, data>>

(* useTopic, useTopicEffect and useTopicReducer: the state stays. *)
TopicEffect(v) ==
  /\ Is(v, {"reactTopic"}, "rendered")
  /\ handlers' = Without(v) \cup Registered(view[v].prop, v)
  /\ Becomes(v, On(view[v], view[v].prop))
  /\ UNCHANGED <<gapListeners, stateListeners, timeouts, client, data>>

(* useConnectionState: read once, as well as on change. *)
StateEffect(v) ==
  /\ Is(v, {"reactState"}, "rendered")
  /\ stateListeners' = stateListeners \cup {v}
  /\ Becomes(v, Listening(view[v]))
  /\ UNCHANGED <<handlers, gapListeners, timeouts, client, data>>

(* The query hooks, the last run's cleanup first.  With it goes a          *)
(* debounced invalidation that was still to come.                          *)
QueryEffect(v) ==
  /\ Is(v, QueryKinds, "rendered")
  /\ handlers' = Without(v) \cup Registered(view[v].prop, v)
  /\ gapListeners' = IF view[v].prop = Off THEN gapListeners \ {v} ELSE gapListeners \cup {v}
  /\ timeouts' = Cancelled(v)
  /\ Becomes(v, [On(view[v], view[v].prop) EXCEPT !.timer = FALSE, !.told = FALSE])
  /\ UNCHANGED <<stateListeners, client, data>>

(* Its effect's cleanup runs, if the effect ever ran. *)
ReactUnmount(v) ==
  /\ view[v].kind \in ReactKinds
  /\ handlers' = Without(v)
  /\ gapListeners' = gapListeners \ {v}
  /\ stateListeners' = stateListeners \ {v}
  /\ timeouts' = Cancelled(v)
  /\ Becomes(v, Gone)
  /\ UNCHANGED <<client, data>>

-----------------------------------------------------------------------------
(* Vue: the watcher runs for the first time, in setup, and some time after *)
(* the topic has become another one.  Its cleanup comes first.             *)
VueWatch(v, t) ==
  /\ \/ Absent(v) /\ "vueTopic" \in Kinds[v]
     \/ Is(v, {"vueTopic"}, "in") /\ t # view[v].on
  /\ handlers' = Without(v) \cup Registered(t, v)
  /\ Becomes(v, On([view[v] EXCEPT !.kind = "vueTopic"], t))
  /\ UNCHANGED <<gapListeners, stateListeners, timeouts, client, data>>

VueState(v) ==
  /\ Absent(v) /\ "vueState" \in Kinds[v]
  /\ stateListeners' = stateListeners \cup {v}
  /\ Becomes(v, Listening([Gone EXCEPT !.kind = "vueState"]))
  /\ UNCHANGED <<handlers, gapListeners, timeouts, client, data>>

(* The watcher is forgotten with its last subscription in force. *)
VueDisposeForgets(v) ==
  /\ view[v].kind \in {"vueTopic", "vueState"}
  /\ stateListeners' = stateListeners \ {v}
  /\ Becomes(v, Gone)
  /\ UNCHANGED <<handlers, gapListeners, timeouts, client, data>>

(* The scope ends, and with it what was registered in it. *)
VueDispose(v) ==
  /\ view[v].kind \in {"vueTopic", "vueState"}
  /\ handlers' = Without(v)
  /\ stateListeners' = stateListeners \ {v}
  /\ Becomes(v, Gone)
  /\ UNCHANGED <<gapListeners, timeouts, client, data>>

-----------------------------------------------------------------------------
(* Svelte: a store is created for a topic; nobody reads it yet.  It is a   *)
(* fold: one that holds the last value alone is not started afresh, and    *)
(* topicEffect is one with a single reader.                                *)
SvelteStore(v, t) ==
  /\ Absent(v)
  /\ \E kind \in Kinds[v] \cap SvelteKinds :
       Becomes(v, [Created(kind) EXCEPT !.phase = "in",
                                        !.prop = IF kind = "svelteTopic" THEN t ELSE Off])
  /\ UNCHANGED <<registries, timeouts, client, data>>

(* The accumulator outlives the run it belongs to. *)
StartedAsItWas(q) == IF q.kind = "svelteTopic" THEN On(q, q.prop) ELSE Listening(q)

(* topicReducer publishes its initial state, connectionState the client's. *)
Started(q) ==
  IF q.kind = "svelteTopic" THEN [On(q, q.prop) EXCEPT !.shows = {}] ELSE Listening(q)

(* A reader comes; with the first one the store starts.                    *)
SvelteRead(v) ==
  /\ view[v].kind \in SvelteKinds
  /\ view[v].readers < MaxReaders
  /\ LET q == [view[v] EXCEPT !.readers = @ + 1]
     IN IF view[v].readers > 0
        THEN Becomes(v, q) /\ UNCHANGED <<handlers, stateListeners>>
        ELSE /\ handlers' = handlers \cup Registered(q.prop, v)
             /\ stateListeners' = IF q.prop = Off THEN stateListeners \cup {v} ELSE stateListeners
             /\ Becomes(v, Started(q))
  /\ UNCHANGED <<gapListeners, timeouts, client, data>>

(* One leaves; with the last one the store stops, and keeps its value.     *)
SvelteLeave(v) ==
  /\ view[v].readers > 0
  /\ LET q == [view[v] EXCEPT !.readers = @ - 1]
     IN IF q.readers > 0
        THEN Becomes(v, q) /\ UNCHANGED <<handlers, stateListeners>>
        ELSE /\ handlers' = Without(v)
             /\ stateListeners' = stateListeners \ {v}
             /\ Becomes(v, [q EXCEPT !.on = Off])
  /\ UNCHANGED <<gapListeners, timeouts, client, data>>

-----------------------------------------------------------------------------
(* #setState: nothing for no change, and otherwise every listener.         *)
Tell(s) ==
  /\ s # connection
  /\ connection' = s
  /\ view' = [v \in Views |->
                IF v \in stateListeners THEN [view[v] EXCEPT !.status = s] ELSE view[v]]

SetState(s) ==
  /\ provider # "none"
  /\ Tell(s)
  /\ UNCHANGED <<registries, timeouts, provider, log, data>>

(* The provider's part of the application begins: its client is made, and  *)
(* not replaced; whoever asks for it before that gets an error.            *)
Provide ==
  /\ provider = "none"
  /\ provider' = "there"
  /\ UNCHANGED <<view, registries, timeouts, connection, log, data>>

(* It ends, and close() is called on the client it made.  The views in it  *)
(* are on their way out and may hear of that yet.                          *)
ProviderEnds ==
  /\ provider = "there"
  /\ provider' = "gone"
  /\ Tell("closed") \/ (connection = "closed" /\ UNCHANGED <<connection, view>>)
  /\ UNCHANGED <<registries, timeouts, log, data>>

(* invalidateQueries, for the query of the latest render. *)
Invalidated(q) == [q EXCEPT !.told = @ /\ q.prop # q.on]

(* useDebounced's call: at once, or when the timer that is set fires.      *)
Notified(v) ==
  IF v \in Debounced THEN [view[v] EXCEPT !.told = TRUE, !.timer = TRUE]
  ELSE Invalidated([view[v] EXCEPT !.told = TRUE])

Scheduled(S) == timeouts \cup {v \in S \cap Debounced : ~view[v].timer}

(* useTopicQueryData: into what is cached, if anything is. *)
Folded(d, n) == IF d = NoData THEN d ELSE [d EXCEPT !.has = @ \cup {n}]

(* An event is dispatched to the handlers of its topic.  (One that parses  *)
(* it and fails has thrown for itself alone, as if it were not there.)     *)
Event(t) ==
  LET n == Len(log) + 1
      heard == {v \in Views : <<t, v>> \in handlers}
      called == {v \in heard : view[v].kind = "invalidation"}
      shown == {v \in heard : view[v].kind \in TopicKinds}
      folded == {view[v].prop : v \in {x \in heard : view[x].kind = "fold"}}
  IN /\ connection = "open"
     /\ Len(log) < MaxEvents
     /\ log' = Append(log, t)
     /\ view' = [v \in Views |->
                   IF v \in called THEN Notified(v)
                   ELSE IF v \in shown THEN [view[v] EXCEPT !.shows = @ \cup {n}]
                   ELSE view[v]]
     /\ timeouts' = Scheduled(called)
     /\ data' = [k \in Topics |-> IF k \in folded THEN Folded(data[k], n) ELSE data[k]]
     /\ UNCHANGED <<registries, provider, connection>>

(* A gap on the topics T, or on who knows which. *)
Affects(T, t) == T = {} \/ t \in T

Gap(T) ==
  LET called == {v \in gapListeners : Affects(T, view[v].on)}
  IN /\ provider # "none" /\ connection # "closed"
     /\ view' = [v \in Views |-> IF v \in called THEN Notified(v) ELSE view[v]]
     /\ timeouts' = Scheduled(called)
     /\ UNCHANGED <<registries, client, data>>

(* timer.current is not cleared. *)
TimeoutKeepsTimer(v) ==
  /\ v \in timeouts
  /\ timeouts' = timeouts \ {v}
  /\ Becomes(v, Invalidated(view[v]))
  /\ UNCHANGED <<registries, client, data>>

Timeout(v) ==
  /\ v \in timeouts
  /\ timeouts' = timeouts \ {v}
  /\ Becomes(v, Invalidated([view[v] EXCEPT !.timer = FALSE]))
  /\ UNCHANGED <<registries, client, data>>

EventsOn(t) == {n \in DOMAIN log : log[n] = t}

(* A fetch of a query resolves, with what the server held some time ago.   *)
Fetched(t, upTo) ==
  /\ data' = [data EXCEPT ![t] = [at |-> Len(log), has |-> {n \in EventsOn(t) : n <= upTo}]]
  /\ UNCHANGED <<view, registries, timeouts, client>>

-----------------------------------------------------------------------------
React(v) ==
  \/ ReactMount(v)
  \/ \E t \in Topics \cup {Off} : ReactRender(v, t)
  \/ TopicEffect(v) \/ StateEffect(v) \/ QueryEffect(v)
  \/ ReactUnmount(v)

Vue(v) == (\E t \in Topics : VueWatch(v, t)) \/ VueState(v) \/ VueDispose(v)

Svelte(v) == (\E t \in Topics : SvelteStore(v, t)) \/ SvelteRead(v) \/ SvelteLeave(v)

ViewsNext ==
  \/ \E v \in Views : React(v) \/ Vue(v) \/ Svelte(v) \/ Timeout(v)
  \/ \E s \in States : SetState(s)
  \/ Provide \/ ProviderEnds
  \/ \E t \in Topics : Event(t)
  \/ \E T \in SUBSET Topics : Gap(T)
  \/ \E t \in Queries, upTo \in 0..Len(log) : Fetched(t, upTo)

ViewsSpec == ViewsInit /\ [][ViewsNext]_viewsVars

-----------------------------------------------------------------------------
Shapes ==
  [kind : {"none"} \cup TopicKinds \cup StateKinds \cup QueryKinds,
   phase : {"out", "rendered", "in"},
   prop : Topics \cup {Off}, on : Topics \cup {Off},
   timer : BOOLEAN, told : BOOLEAN,
   since : Nat, shows : SUBSET Nat, status : States, readers : Nat]

(* Who wants to be told of the client's state, in force. *)
Watching == {v \in Views : /\ Is(v, StateKinds, "in")
                           /\ view[v].kind = "svelteState" => view[v].readers > 0}

(* The client's registries and the running timeouts are those of the views *)
(* that are there and want them: nobody who left, was disabled or moved to *)
(* another topic is called, and nobody who is there is forgotten.          *)
ViewsTypeOK ==
  /\ provider \in {"none", "there", "gone"}
  /\ connection \in States
  /\ log \in Seq(Topics)
  /\ data \in [Topics -> [at : Int, has : SUBSET Int]]
  /\ view \in [Views -> Shapes]
  /\ handlers = {<<view[v].on, v>> : v \in {x \in Views : view[x].on # Off}}
  /\ gapListeners = {v \in Views : view[v].kind \in QueryKinds /\ view[v].on # Off}
  /\ stateListeners = Watching
  /\ timeouts = {v \in Views : view[v].timer}
  /\ timeouts \subseteq gapListeners

Since(v) == {n \in EventsOn(view[v].on) : n > view[v].since}

(* A view shows what it was told: an indicator the client's state, a fold  *)
(* every event on its topic since it subscribed and, of a store, of no     *)
(* earlier run, and a query's cached data whatever was folded into it      *)
(* since it was fetched.                                                   *)
ShownIsTold ==
  \A v \in Views :
    /\ v \in Watching => view[v].status = connection
    /\ view[v].kind \in TopicKinds /\ view[v].on # Off =>
         {n \in view[v].shows : n > view[v].since} = Since(v)
    /\ view[v].kind = "svelteTopic" /\ view[v].on # Off =>
         view[v].shows = Since(v)
    /\ Is(v, {"fold"}, "in") /\ view[v].on # Off /\ data[view[v].on] # NoData =>
         {n \in Since(v) : n > data[view[v].on].at} \subseteq data[view[v].on].has

(* A query hook that was told of an event or a gap since it was rendered   *)
(* for this query has invalidated it, or a timeout is running that will.   *)
InvalidationsAreDue ==
  \A v \in Views : Is(v, QueryKinds, "in") /\ view[v].told => v \in timeouts
=============================================================================
