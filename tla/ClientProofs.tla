---------------------------- MODULE ClientProofs ----------------------------
(***************************************************************************)
(* Theorems about the two sides of the client: Views, whose subscriptions  *)
(* are the topics it has to follow, and ClientManager, which looks after   *)
(* the connection that follows them.  For every set of views and topics,   *)
(* and any number of events, readers, loops, calls and mishaps.            *)
(***************************************************************************)
EXTENDS Views, ClientManager, TLAPS

-----------------------------------------------------------------------------
(* Views.                                                                  *)

(* The events on its topic since it subscribed.                            *)
After(q, l) == {n \in DOMAIN l : l[n] = q.on /\ n > q.since}

(* It is to be told of the client's state.                                 *)
Wants(q) ==
  /\ q.kind \in StateKinds /\ q.phase = "in"
  /\ q.kind = "svelteState" => q.readers > 0

(* What ShownIsTold says of one view. *)
Fits(q, s, l, d) ==
  /\ Wants(q) => q.status = s
  /\ q.kind \in TopicKinds /\ q.on # Off => {n \in q.shows : n > q.since} = After(q, l)
  /\ q.kind = "svelteTopic" /\ q.on # Off => q.shows = After(q, l)
  /\ q.kind = "fold" /\ q.phase = "in" /\ q.on # Off /\ d[q.on] # NoData =>
       {n \in After(q, l) : n > d[q.on].at} \subseteq d[q.on].has

(* What InvalidationsAreDue says of one. *)
Due(q) == q.kind \in QueryKinds /\ q.phase = "in" /\ q.told => q.timer

(* It is to be told of gaps.                                               *)
Asks(q) == q.kind \in QueryKinds /\ q.on # Off

(* What a view of each kind may look like, when n events were dispatched. *)
Coherent(q, n) ==
  /\ q.phase = "out" => q = Gone
  /\ q.kind = "none" => q = Gone
  /\ q.phase = "rendered" => q.kind \in ReactKinds
  /\ q.kind \in QueryKinds /\ q.phase = "in" => q.on = q.prop
  /\ q.kind = "svelteTopic" => q.prop # Off /\ (q.readers > 0) = (q.on # Off)
  /\ q.kind \in StateKinds => q.on = Off /\ q.prop = Off
  /\ q.kind \in SvelteKinds => q.phase = "in"
  /\ q.kind \notin SvelteKinds => q.readers = 0
  /\ q.timer => Asks(q)
  /\ q.shows \subseteq 1..n /\ q.since \in 0..n

Sound(q) == Coherent(q, Len(log)) /\ Fits(q, connection, log, data) /\ Due(q)

ViewsInv == ViewsTypeOK /\ \A v \in Views : Sound(view[v])

(* What the invariant says of one view.                                    *)
LEMMA Facts ==
  ASSUME ViewsInv, NEW v \in Views
  PROVE  /\ view[v] \in Shapes /\ Coherent(view[v], Len(log)) /\ Fits(view[v], connection, log, data)
         /\ Due(view[v])
         /\ Len(log) \in Nat /\ log \in Seq(Topics) /\ connection \in States
         /\ data \in [Topics -> [at : Int, has : SUBSET Int]]
         /\ v \in gapListeners <=> Asks(view[v])
         /\ v \in stateListeners <=> Wants(view[v])
         /\ v \in timeouts <=> view[v].timer
BY DEF ViewsInv, ViewsTypeOK, Sound, Asks, Wants, Watching, Is

(* The steps that concern one view: it is enough that what it becomes is   *)
(* sound and that the registries follow.                                   *)
LEMMA Moved ==
  ASSUME ViewsInv, NEW v \in Views, NEW q \in Shapes, Becomes(v, q),
         handlers' = Without(v) \cup Registered(q.on, v),
         gapListeners' \ {v} = gapListeners \ {v}, v \in gapListeners' <=> Asks(q),
         stateListeners' \ {v} = stateListeners \ {v}, v \in stateListeners' <=> Wants(q),
         timeouts' \ {v} = timeouts \ {v}, v \in timeouts' <=> q.timer,
         UNCHANGED <<client, data>>, Sound(q)
  PROVE  ViewsInv'
<1>1. ViewsTypeOK /\ \A x \in Views : Sound(view[x])
  BY DEF ViewsInv
<1>2. view' \in [Views -> Shapes] /\ view'[v] = q /\ \A x \in Views \ {v} : view'[x] = view[x]
  BY <1>1 DEF ViewsTypeOK, Becomes
<1>3. \A x \in Views : Sound(view[x])'
  <2> TAKE x \in Views
  <2>1. CASE x = v
    BY <1>2, <2>1 DEF Sound, client
  <2>2. CASE x # v
    BY <1>1, <1>2, <2>2 DEF Sound, client
  <2> QED
    BY <2>1, <2>2
<1>4. handlers' = {<<view'[x].on, x>> : x \in {y \in Views : view'[y].on # Off}}
  <2>1. handlers = {<<view[x].on, x>> : x \in {y \in Views : view[y].on # Off}}
    BY <1>1 DEF ViewsTypeOK
  <2>2. ASSUME NEW h \in handlers'
        PROVE  h \in {<<view'[x].on, x>> : x \in {y \in Views : view'[y].on # Off}}
    <3>1. CASE h \in Without(v)
      BY <1>2, <2>1, <3>1 DEF Without
    <3>2. CASE h \in Registered(q.on, v)
      BY <1>2, <3>2 DEF Registered
    <3> QED
      BY <2>2, <3>1, <3>2
  <2>3. ASSUME NEW x \in Views, view'[x].on # Off PROVE <<view'[x].on, x>> \in handlers'
    <3>1. CASE x = v
      BY <1>2, <2>3, <3>1 DEF Registered
    <3>2. CASE x # v
      BY <1>2, <2>1, <2>3, <3>2 DEF Without
    <3> QED
      BY <3>1, <3>2
  <2> QED
    BY <2>2, <2>3
<1>5. gapListeners' = {x \in Views : Asks(view'[x])}
  BY <1>1, <1>2 DEF ViewsTypeOK, Asks
<1>6. stateListeners' = {x \in Views : Wants(view'[x])}
  BY <1>1, <1>2 DEF ViewsTypeOK, Watching, Is, Wants
<1>7. timeouts' = {x \in Views : view'[x].timer}
  BY <1>1, <1>2 DEF ViewsTypeOK
<1>8. timeouts' \subseteq gapListeners'
  BY <1>3, <1>5, <1>7 DEF Sound, Coherent
<1>9. ViewsTypeOK'
  BY <1>1, <1>2, <1>4, <1>5, <1>6, <1>7, <1>8 DEF ViewsTypeOK, client, Asks, Wants, Watching, Is
<1> QED
  BY <1>3, <1>9 DEF ViewsInv

(* A view with no handler of its own leaves the handlers alone. *)
LEMMA NoHandler ==
  ASSUME ViewsInv, NEW v \in Views, view[v].on = Off, NEW t
  PROVE  Without(v) = handlers /\ handlers = handlers \cup Registered(Off, v)
BY ViewsAssumption DEF ViewsInv, ViewsTypeOK, Without, Registered, Shapes

(* A view that has just come has nothing yet.                              *)
Comes(kind, phase, t) == [Created(kind) EXCEPT !.phase = phase, !.prop = t]

LEMMA NewOne ==
  ASSUME ViewsInv, NEW kind \in TopicKinds \cup StateKinds \cup QueryKinds,
         NEW phase \in {"rendered", "in"}, NEW t \in Topics \cup {Off},
         NEW q, q = Comes(kind, phase, t)
  PROVE  /\ q \in Shapes /\ q.kind = kind /\ q.phase = phase /\ q.prop = t /\ q.on = Off
         /\ ~q.timer /\ ~q.told /\ q.shows = {} /\ q.since = 0 /\ q.readers = 0
<1>1. Gone \in Shapes
  BY DEF Gone, Shapes, States
<1>2. connection \in States
  BY DEF ViewsInv, ViewsTypeOK
<1>3. Created(kind) \in Shapes
  BY <1>1, <1>2 DEF Created, Shapes
<1>4. /\ Created(kind).kind = kind /\ Created(kind).on = Off
      /\ Created(kind).timer = FALSE /\ Created(kind).told = FALSE
      /\ Created(kind).shows = {} /\ Created(kind).since = 0
      /\ Created(kind).readers = 0
  BY DEF Created, Gone
<1>5. Comes(kind, phase, t) \in Shapes
  BY <1>3 DEF Comes, Shapes
<1> QED
  BY <1>3, <1>4, <1>5 DEF Comes, Shapes

-----------------------------------------------------------------------------
(* React: renders, effects and cleanups.                                   *)
LEMMA ReactMountKeeps ==
  ASSUME ViewsInv, NEW v \in Views, ReactMount(v)
  PROVE  ViewsInv'
<1>1. PICK kind \in Kinds[v] \cap ReactKinds, t \in Topics \cup {Off} :
        /\ kind = "reactState" => t = Off
        /\ t = Off => kind \in QueryKinds \cup {"reactState"}
        /\ Becomes(v, [Created(kind) EXCEPT !.phase = "rendered", !.prop = t])
  BY DEF ReactMount
<1> DEFINE q == Comes(kind, "rendered", t)
<1>2. /\ q \in Shapes /\ q.kind = kind /\ q.phase = "rendered" /\ q.prop = t /\ q.on = Off
      /\ ~q.timer /\ ~q.told /\ q.shows = {} /\ q.since = 0 /\ q.readers = 0
  <2>1. kind \in TopicKinds \cup StateKinds \cup QueryKinds
    BY DEF ReactKinds, TopicKinds, StateKinds
  <2> QED
    BY <2>1, NewOne
<1>3. view[v] = Gone /\ Len(log) \in Nat
  BY Facts DEF ReactMount, Absent, Coherent
<1>4. ~Asks(q) /\ ~Wants(q) /\ ~Asks(view[v]) /\ ~Wants(view[v]) /\ ~view[v].timer
  BY <1>2, <1>3 DEF Asks, Wants, Gone, StateKinds
<1>5. Sound(q)
  BY <1>1, <1>2, <1>3, <1>4
  DEF Sound, Coherent, Fits, Due, Asks, ReactKinds, SvelteKinds, StateKinds, QueryKinds
<1>6. handlers' = Without(v) \cup Registered(q.on, v)
  BY <1>2, <1>3, NoHandler DEF ReactMount, registries, Gone
<1> QED
  BY <1>1, <1>2, <1>4, <1>5, <1>6, Facts, Moved DEF ReactMount, registries, Comes

LEMMA ReactRenderKeeps ==
  ASSUME ViewsInv, NEW v \in Views, NEW t \in Topics \cup {Off}, ReactRender(v, t)
  PROVE  ViewsInv'
<1> DEFINE p == view[v]
           q == [p EXCEPT !.phase = "rendered", !.prop = t]
<1>1. /\ p \in Shapes /\ Coherent(p, Len(log)) /\ Fits(p, connection, log, data) /\ Due(p)
      /\ p.kind \in ReactKinds \ {"reactState"} /\ p.phase = "in"
  BY Facts DEF ReactRender, Is
<1>2. /\ q \in Shapes /\ q.phase = "rendered" /\ q.prop = t
      /\ q.kind = p.kind /\ q.on = p.on /\ q.timer = p.timer /\ q.told = p.told
      /\ q.shows = p.shows /\ q.since = p.since /\ q.readers = p.readers
  BY <1>1 DEF Shapes
<1>3. Asks(q) = Asks(p) /\ ~Wants(q) /\ ~Wants(p)
  BY <1>1, <1>2 DEF Asks, Wants, ReactKinds, StateKinds, QueryKinds
<1>4. After(q, log) = After(p, log)
  BY <1>2 DEF After
<1>5. Sound(q)
  BY <1>1, <1>2, <1>3, <1>4
  DEF Sound, Coherent, Fits, Due, Gone, ReactKinds, SvelteKinds, StateKinds, QueryKinds, TopicKinds
<1>6. handlers' = Without(v) \cup Registered(q.on, v)
  BY <1>2 DEF ReactRender, registries, ViewsInv, ViewsTypeOK, Without, Registered
<1> QED
  BY <1>2, <1>3, <1>5, <1>6, Facts, Moved DEF ReactRender, registries

(* A view that registers owes nothing of before.                           *)
LEMMA Registering ==
  ASSUME ViewsInv, NEW p \in Shapes, NEW t \in Topics \cup {Off}
  PROVE  /\ On(p, t) \in Shapes /\ On(p, t).phase = "in" /\ On(p, t).prop = t /\ On(p, t).on = t
         /\ On(p, t).since = Len(log) /\ On(p, t).kind = p.kind /\ On(p, t).timer = p.timer
         /\ On(p, t).told = p.told /\ On(p, t).shows = p.shows /\ On(p, t).readers = p.readers
         /\ On(p, t).status = p.status
         /\ After(On(p, t), log) = {}
<1>1. Len(log) \in Nat /\ DOMAIN log = 1..Len(log)
  BY DEF ViewsInv, ViewsTypeOK
<1>3. /\ On(p, t) \in Shapes /\ On(p, t).phase = "in" /\ On(p, t).prop = t /\ On(p, t).on = t
      /\ On(p, t).since = Len(log) /\ On(p, t).kind = p.kind /\ On(p, t).timer = p.timer
      /\ On(p, t).told = p.told /\ On(p, t).shows = p.shows /\ On(p, t).readers = p.readers
      /\ On(p, t).status = p.status
  BY <1>1 DEF On, Shapes
<1>4. After(On(p, t), log) = {}
  BY <1>1, <1>3 DEF After
<1> QED
  BY <1>3, <1>4

LEMMA TopicEffectKeeps ==
  ASSUME ViewsInv, NEW v \in Views, TopicEffect(v)
  PROVE  ViewsInv'
<1> DEFINE p == view[v]
           q == On(p, p.prop)
<1>1. /\ p \in Shapes /\ Coherent(p, Len(log)) /\ p.kind = "reactTopic" /\ p.prop \in Topics \cup {Off}
      /\ Len(log) \in Nat
  BY Facts DEF TopicEffect, Is, Shapes
<1>2. /\ q \in Shapes /\ q.phase = "in" /\ q.prop = p.prop /\ q.on = p.prop /\ q.since = Len(log)
      /\ q.kind = "reactTopic" /\ q.timer = p.timer /\ q.shows = p.shows /\ q.readers = p.readers
      /\ After(q, log) = {}
  BY <1>1, Registering
<1>3. ~Asks(p) /\ ~Asks(q) /\ ~Wants(p) /\ ~Wants(q) /\ ~p.timer
  BY <1>1, <1>2 DEF Asks, Wants, Coherent, QueryKinds, StateKinds
<1>4. {n \in q.shows : n > q.since} = {}
  BY <1>1, <1>2 DEF Coherent
<1>5. Sound(q)
  BY <1>1, <1>2, <1>3, <1>4
  DEF Sound, Coherent, Fits, Due, ReactKinds, SvelteKinds, StateKinds, QueryKinds
<1> QED
  BY <1>2, <1>3, <1>5, Facts, Moved DEF TopicEffect

LEMMA StateEffectKeeps ==
  ASSUME ViewsInv, NEW v \in Views, StateEffect(v)
  PROVE  ViewsInv'
<1> DEFINE p == view[v]
           q == Listening(p)
<1>1. /\ p \in Shapes /\ Coherent(p, Len(log)) /\ p.kind = "reactState" /\ connection \in States
  BY Facts DEF StateEffect, Is
<1>2. /\ q \in Shapes /\ q.phase = "in" /\ q.status = connection /\ q.prop = p.prop /\ q.on = p.on
      /\ q.kind = p.kind /\ q.timer = p.timer /\ q.shows = p.shows /\ q.since = p.since
      /\ q.readers = p.readers
  BY <1>1 DEF Listening, Shapes
<1>3. ~Asks(p) /\ ~Asks(q) /\ Wants(q) /\ ~p.timer /\ p.on = Off
  BY <1>1, <1>2 DEF Asks, Wants, Coherent, QueryKinds, StateKinds
<1>4. Sound(q)
  BY <1>1, <1>2, <1>3
  DEF Sound, Coherent, Fits, Due, SvelteKinds, StateKinds, QueryKinds, TopicKinds
<1>5. handlers' = Without(v) \cup Registered(q.on, v)
  BY <1>2, <1>3, NoHandler DEF StateEffect
<1> QED
  BY <1>2, <1>3, <1>4, <1>5, Facts, Moved DEF StateEffect

LEMMA QueryEffectKeeps ==
  ASSUME ViewsInv, NEW v \in Views, QueryEffect(v)
  PROVE  ViewsInv'
<1> DEFINE p == view[v]
           o == On(p, p.prop)
           q == [o EXCEPT !.timer = FALSE, !.told = FALSE]
<1>1. /\ p \in Shapes /\ Coherent(p, Len(log)) /\ p.kind \in QueryKinds /\ p.phase = "rendered"
      /\ p.prop \in Topics \cup {Off} /\ Len(log) \in Nat
  BY Facts DEF QueryEffect, Is, Shapes
<1>2. /\ o \in Shapes /\ o.phase = "in" /\ o.prop = p.prop /\ o.on = p.prop /\ o.since = Len(log)
      /\ o.kind = p.kind /\ o.shows = p.shows /\ o.readers = p.readers
      /\ After(o, log) = {}
  BY <1>1, Registering
<1>3. /\ q \in Shapes /\ q.phase = "in" /\ q.prop = p.prop /\ q.on = p.prop /\ q.since = Len(log)
      /\ q.kind = p.kind /\ q.shows = p.shows /\ q.readers = p.readers
      /\ q.timer = FALSE /\ q.told = FALSE
  BY <1>2 DEF Shapes
<1>4. After(q, log) = {}
  BY <1>2, <1>3 DEF After
<1>5. ~Wants(p) /\ ~Wants(q) /\ (Asks(q) <=> p.prop # Off)
  BY <1>1, <1>3 DEF Asks, Wants, QueryKinds, StateKinds
<1>6. Sound(q)
  BY <1>1, <1>3, <1>4, <1>5
  DEF Sound, Coherent, Fits, Due, ReactKinds, SvelteKinds, StateKinds, QueryKinds, TopicKinds
<1>7. handlers' = Without(v) \cup Registered(q.on, v) /\ Becomes(v, q)
  BY <1>3 DEF QueryEffect
<1>8. /\ gapListeners' \ {v} = gapListeners \ {v}
      /\ v \in gapListeners' <=> Asks(q)
  BY <1>5 DEF QueryEffect
<1>9. stateListeners' = stateListeners /\ ~(v \in stateListeners)
  BY <1>5, Facts DEF QueryEffect
<1>10. timeouts' \ {v} = timeouts \ {v} /\ ~(v \in timeouts')
  BY Facts DEF QueryEffect, Cancelled
<1>11. UNCHANGED <<client, data>>
  BY DEF QueryEffect
<1> QED
  BY <1>3, <1>5, <1>6, <1>7, <1>8, <1>9, <1>10, <1>11, Moved

(* Whoever leaves takes back all that was registered for it.               *)
LEMMA LeavingKeeps ==
  ASSUME ViewsInv, NEW v \in Views, Becomes(v, Gone), handlers' = Without(v),
         gapListeners' = gapListeners \ {v}, stateListeners' = stateListeners \ {v},
         timeouts' = Cancelled(v), UNCHANGED <<client, data>>
  PROVE  ViewsInv'
<1>1. /\ Gone \in Shapes /\ Gone.kind = "none" /\ Gone.on = Off /\ Gone.prop = Off
      /\ Gone.phase = "out" /\ Gone.timer = FALSE /\ Gone.told = FALSE /\ Gone.shows = {}
      /\ Gone.since = 0 /\ Gone.readers = 0
  BY DEF Gone, Shapes, States
<1>2. ~Asks(Gone) /\ ~Wants(Gone)
  BY <1>1 DEF Asks, Wants
<1>3. Len(log) \in Nat
  BY Facts
<1>4. Sound(Gone)
  BY <1>1, <1>2, <1>3
  DEF Sound, Coherent, Fits, Due, ReactKinds, SvelteKinds, StateKinds, QueryKinds, TopicKinds
<1>5. handlers' = Without(v) \cup Registered(Gone.on, v)
  BY <1>1 DEF Registered
<1>6. timeouts' \ {v} = timeouts \ {v} /\ ~(v \in timeouts')
  BY Facts DEF Cancelled
<1> QED
  BY <1>1, <1>2, <1>4, <1>5, <1>6, Moved

LEMMA ReactUnmountKeeps ==
  ASSUME ViewsInv, NEW v \in Views, ReactUnmount(v)
  PROVE  ViewsInv'
BY LeavingKeeps DEF ReactUnmount

LEMMA VueDisposeKeeps ==
  ASSUME ViewsInv, NEW v \in Views, VueDispose(v)
  PROVE  ViewsInv'
<1>1. view[v].kind \notin QueryKinds
  BY DEF VueDispose, QueryKinds
<1>2. v \notin gapListeners /\ ~view[v].timer
  BY <1>1, Facts DEF Coherent, Asks
<1>3. gapListeners' = gapListeners \ {v} /\ timeouts' = Cancelled(v)
  BY <1>2 DEF VueDispose, Cancelled
<1> QED
  BY <1>3, LeavingKeeps DEF VueDispose

-----------------------------------------------------------------------------
(* Vue and Svelte.                                                         *)
LEMMA VueWatchKeeps ==
  ASSUME ViewsInv, NEW v \in Views, NEW t \in Topics, VueWatch(v, t)
  PROVE  ViewsInv'
<1> DEFINE p == view[v]
           o == [p EXCEPT !.kind = "vueTopic"]
           q == On(o, t)
<1>1. p \in Shapes /\ Coherent(p, Len(log)) /\ Len(log) \in Nat
  BY Facts
<1>2. /\ p.kind \in {"none", "vueTopic"}
      /\ p.readers = 0 /\ p.shows \subseteq 1..Len(log)
  BY <1>1 DEF VueWatch, Absent, Is, Coherent, Gone, SvelteKinds
<1>3. o \in Shapes /\ o.kind = "vueTopic" /\ o.timer = p.timer /\ o.shows = p.shows /\ o.readers = 0
  BY <1>1, <1>2 DEF Shapes, TopicKinds
<1>4. ~Asks(p) /\ ~Wants(p) /\ ~p.timer
  BY <1>1, <1>2 DEF Asks, Wants, Coherent, QueryKinds, StateKinds
<1>5. /\ q \in Shapes /\ q.phase = "in" /\ q.prop = t /\ q.on = t /\ q.since = Len(log)
      /\ q.kind = "vueTopic" /\ q.timer = p.timer /\ q.shows = p.shows /\ q.readers = 0
      /\ After(q, log) = {}
  BY <1>3, Registering
<1>6. {n \in q.shows : n > q.since} = {}
  BY <1>1, <1>2, <1>5
<1>7. ~Asks(q) /\ ~Wants(q)
  BY <1>5 DEF Asks, Wants, QueryKinds, StateKinds
<1>8. Sound(q)
  BY <1>1, <1>2, <1>4, <1>5, <1>6, <1>7
  DEF Sound, Coherent, Fits, Due, ReactKinds, SvelteKinds, StateKinds, QueryKinds
<1>9. handlers' = Without(v) \cup Registered(q.on, v) /\ Becomes(v, q)
  BY <1>5 DEF VueWatch
<1> QED
  BY <1>4, <1>5, <1>7, <1>8, <1>9, Facts, Moved DEF VueWatch

LEMMA VueStateKeeps ==
  ASSUME ViewsInv, NEW v \in Views, VueState(v)
  PROVE  ViewsInv'
<1> DEFINE o == [Gone EXCEPT !.kind = "vueState"]
           q == Listening(o)
<1>1. view[v] = Gone /\ Len(log) \in Nat /\ connection \in States
  BY Facts DEF VueState, Absent, Coherent
<1>2. /\ o \in Shapes /\ o.kind = "vueState" /\ o.on = Off /\ o.prop = Off /\ o.timer = FALSE
      /\ o.shows = {} /\ o.since = 0 /\ o.readers = 0
  BY DEF Gone, Shapes, States, StateKinds
<1>3. /\ q \in Shapes /\ q.phase = "in" /\ q.status = connection
      /\ q.kind = "vueState" /\ q.on = Off /\ q.prop = Off /\ q.timer = FALSE
      /\ q.shows = {} /\ q.since = 0 /\ q.readers = 0
  BY <1>1, <1>2 DEF Listening, Shapes
<1>4. ~Asks(q) /\ Wants(q) /\ ~Asks(view[v]) /\ ~view[v].timer
  BY <1>1, <1>3 DEF Asks, Wants, Gone, StateKinds
<1>5. Sound(q)
  BY <1>1, <1>3, <1>4
  DEF Sound, Coherent, Fits, Due, SvelteKinds, StateKinds, QueryKinds, TopicKinds
<1>6. handlers' = Without(v) \cup Registered(q.on, v)
  BY <1>1, <1>3, NoHandler DEF VueState, Gone
<1> QED
  BY <1>3, <1>4, <1>5, <1>6, Facts, Moved DEF VueState

LEMMA SvelteStoreKeeps ==
  ASSUME ViewsInv, NEW v \in Views, NEW t \in Topics, SvelteStore(v, t)
  PROVE  ViewsInv'
<1>1. PICK kind \in Kinds[v] \cap SvelteKinds :
        Becomes(v, [Created(kind) EXCEPT !.phase = "in",
                                         !.prop = IF kind = "svelteTopic" THEN t ELSE Off])
  BY DEF SvelteStore
<1> DEFINE to == IF kind = "svelteTopic" THEN t ELSE Off
           q == Comes(kind, "in", to)
<1>2. /\ q \in Shapes /\ q.kind = kind /\ q.phase = "in" /\ q.prop = to /\ q.on = Off
      /\ ~q.timer /\ ~q.told /\ q.shows = {} /\ q.since = 0 /\ q.readers = 0
  <2>1. /\ kind \in TopicKinds \cup StateKinds \cup QueryKinds
        /\ to \in Topics \cup {Off} /\ "in" \in {"rendered", "in"}
    BY DEF SvelteKinds, TopicKinds, StateKinds
  <2> QED
    BY <2>1, NewOne
<1>3. view[v] = Gone /\ Len(log) \in Nat
  BY Facts DEF SvelteStore, Absent, Coherent
<1>4. ~Asks(q) /\ ~Wants(q) /\ ~Asks(view[v]) /\ ~Wants(view[v]) /\ ~view[v].timer
  BY <1>2, <1>3 DEF Asks, Wants, Gone, StateKinds, SvelteKinds
<1>5. Sound(q)
  BY <1>1, <1>2, <1>3, <1>4, ViewsAssumption
  DEF Sound, Coherent, Fits, Due, Asks, ReactKinds, SvelteKinds, StateKinds, QueryKinds
<1>6. handlers' = Without(v) \cup Registered(q.on, v)
  BY <1>2, <1>3, NoHandler DEF SvelteStore, registries, Gone
<1> QED
  BY <1>1, <1>2, <1>4, <1>5, <1>6, Facts, Moved DEF SvelteStore, registries, Comes

LEMMA OwnHandler ==
  ASSUME ViewsInv, NEW v \in Views
  PROVE  handlers = Without(v) \cup Registered(view[v].on, v)
BY DEF ViewsInv, ViewsTypeOK, Without, Registered

LEMMA SvelteReadKeeps ==
  ASSUME ViewsInv, NEW v \in Views, SvelteRead(v)
  PROVE  ViewsInv'
<1> DEFINE p == view[v]
           o == [p EXCEPT !.readers = @ + 1]
<1>1. /\ p \in Shapes /\ Coherent(p, Len(log)) /\ Fits(p, connection, log, data)
      /\ p.kind \in SvelteKinds /\ p.phase = "in" /\ Len(log) \in Nat /\ connection \in States
  BY Facts DEF SvelteRead, Coherent
<1>2. ~Asks(p) /\ ~p.timer
  BY <1>1 DEF Asks, Coherent, QueryKinds, SvelteKinds
<1>3. /\ o \in Shapes /\ o.kind = p.kind /\ o.phase = "in" /\ o.prop = p.prop /\ o.on = p.on
      /\ o.timer = p.timer /\ o.told = p.told /\ o.shows = p.shows /\ o.since = p.since
      /\ o.status = p.status /\ o.readers = p.readers + 1 /\ p.readers \in Nat
  BY <1>1 DEF Shapes
<1>4. CASE p.readers > 0
  <2>1. Becomes(v, o) /\ UNCHANGED <<handlers, stateListeners>>
    BY <1>4 DEF SvelteRead
  <2>2. ~Asks(o) /\ (Wants(o) <=> Wants(p))
    BY <1>1, <1>2, <1>3, <1>4 DEF Asks, Wants
  <2>3. After(o, log) = After(p, log)
    BY <1>3 DEF After
  <2>4. Sound(o)
    BY <1>1, <1>2, <1>3, <1>4, <2>2, <2>3
    DEF Sound, Coherent, Fits, Due, Gone, ReactKinds, SvelteKinds, StateKinds, QueryKinds, TopicKinds
  <2>5. handlers' = Without(v) \cup Registered(o.on, v)
    BY <1>3, <2>1, OwnHandler
  <2> QED
    BY <1>2, <1>3, <2>1, <2>2, <2>4, <2>5, Facts, Moved DEF SvelteRead
<1>5. CASE ~(p.readers > 0) /\ p.kind = "svelteTopic"
  <2> DEFINE q == [On(o, p.prop) EXCEPT !.shows = {}]
  <2>1. p.on = Off /\ p.prop \in Topics /\ p.prop # Off
    BY <1>1, <1>5 DEF Coherent, Shapes
  <2>2. /\ On(o, p.prop) \in Shapes /\ On(o, p.prop).phase = "in" /\ On(o, p.prop).prop = p.prop
        /\ On(o, p.prop).on = p.prop /\ On(o, p.prop).since = Len(log)
        /\ On(o, p.prop).kind = p.kind /\ On(o, p.prop).timer = p.timer
        /\ On(o, p.prop).readers = p.readers + 1 /\ After(On(o, p.prop), log) = {}
    BY <1>3, <2>1, Registering
  <2>3. /\ q \in Shapes /\ q.phase = "in" /\ q.prop = p.prop /\ q.on = p.prop /\ q.since = Len(log)
        /\ q.kind = "svelteTopic" /\ q.timer = p.timer /\ q.shows = {} /\ q.readers = p.readers + 1
    BY <1>5, <2>2 DEF Shapes
  <2>4. After(q, log) = {}
    BY <2>2, <2>3 DEF After
  <2>5. ~Asks(q) /\ ~Wants(q) /\ ~Wants(p)
    BY <1>5, <2>3 DEF Asks, Wants, QueryKinds, StateKinds
  <2>6. Sound(q)
    <3> HIDE DEF q
    <3>1. Coherent(q, Len(log))
      BY <1>1, <1>2, <1>3, <2>1, <2>3
      DEF Coherent, ReactKinds, SvelteKinds, StateKinds, QueryKinds
    <3>2. Fits(q, connection, log, data)
      BY <1>1, <2>3, <2>4, <2>5 DEF Fits
    <3>3. Due(q)
      BY <2>3 DEF Due, QueryKinds
    <3> QED
      BY <3>1, <3>2, <3>3 DEF Sound
  <2>7. /\ handlers' = handlers \cup Registered(o.prop, v)
        /\ stateListeners' = IF o.prop = Off THEN stateListeners \cup {v} ELSE stateListeners
        /\ Becomes(v, Started(o))
    BY <1>5 DEF SvelteRead
  <2>8. Started(o) = q
    BY <1>3, <1>5 DEF Started
  <2>9. handlers' = Without(v) \cup Registered(q.on, v)
    BY <1>3, <2>1, <2>3, <2>7, NoHandler
  <2> QED
    BY <1>2, <1>3, <2>1, <2>3, <2>5, <2>6, <2>7, <2>8, <2>9, Facts, Moved DEF SvelteRead
<1>6. CASE ~(p.readers > 0) /\ p.kind = "svelteState"
  <2> DEFINE q == Listening(o)
  <2>1. p.on = Off /\ p.prop = Off
    BY <1>1, <1>6 DEF Coherent, StateKinds
  <2>2. /\ q \in Shapes /\ q.phase = "in" /\ q.status = connection /\ q.prop = Off /\ q.on = Off
        /\ q.kind = "svelteState" /\ q.timer = p.timer /\ q.shows = p.shows /\ q.since = p.since
        /\ q.readers = p.readers + 1
    BY <1>1, <1>3, <1>6, <2>1 DEF Listening, Shapes
  <2>3. ~Asks(q) /\ Wants(q)
    BY <1>3, <2>2 DEF Asks, Wants, StateKinds
  <2>4. Sound(q)
    BY <1>1, <1>2, <1>3, <2>2, <2>3
    DEF Sound, Coherent, Fits, Due, SvelteKinds, StateKinds, QueryKinds, TopicKinds
  <2>5. /\ handlers' = handlers \cup Registered(o.prop, v)
        /\ stateListeners' = IF o.prop = Off THEN stateListeners \cup {v} ELSE stateListeners
        /\ Becomes(v, Started(o))
    BY <1>6 DEF SvelteRead
  <2>6. Started(o) = q
    BY <1>3, <1>6 DEF Started
  <2>7. handlers' = Without(v) \cup Registered(q.on, v)
    BY <1>3, <2>1, <2>2, <2>5, NoHandler
  <2> QED
    BY <1>2, <1>3, <2>1, <2>2, <2>3, <2>4, <2>5, <2>6, <2>7, Facts, Moved DEF SvelteRead
<1> QED
  BY <1>1, <1>4, <1>5, <1>6 DEF SvelteKinds

LEMMA SvelteLeaveKeeps ==
  ASSUME ViewsInv, NEW v \in Views, SvelteLeave(v)
  PROVE  ViewsInv'
<1> DEFINE p == view[v]
           o == [p EXCEPT !.readers = @ - 1]
<1>1. /\ p \in Shapes /\ Coherent(p, Len(log)) /\ Fits(p, connection, log, data) /\ p.readers > 0
      /\ p.readers \in Nat /\ Len(log) \in Nat
  BY Facts DEF SvelteLeave, Shapes
<1>2. p.kind \in SvelteKinds /\ p.phase = "in"
  BY <1>1 DEF Coherent
<1>3. ~Asks(p) /\ ~p.timer
  BY <1>1, <1>2 DEF Asks, Coherent, QueryKinds, SvelteKinds
<1>4. /\ o \in Shapes /\ o.kind = p.kind /\ o.phase = "in" /\ o.prop = p.prop /\ o.on = p.on
      /\ o.timer = p.timer /\ o.told = p.told /\ o.shows = p.shows /\ o.since = p.since
      /\ o.status = p.status /\ o.readers = p.readers - 1
  BY <1>1, <1>2 DEF Shapes
<1>5. CASE o.readers > 0
  <2>1. Becomes(v, o) /\ UNCHANGED <<handlers, stateListeners>>
    BY <1>5 DEF SvelteLeave
  <2>2. ~Asks(o) /\ (Wants(o) <=> Wants(p))
    BY <1>1, <1>2, <1>3, <1>4, <1>5 DEF Asks, Wants
  <2>3. After(o, log) = After(p, log)
    BY <1>4 DEF After
  <2>4. Sound(o)
    BY <1>1, <1>2, <1>3, <1>4, <1>5, <2>2, <2>3
    DEF Sound, Coherent, Fits, Due, Gone, ReactKinds, SvelteKinds, StateKinds, QueryKinds, TopicKinds
  <2>5. handlers' = Without(v) \cup Registered(o.on, v)
    BY <1>4, <2>1, OwnHandler
  <2> QED
    BY <1>3, <1>4, <2>1, <2>2, <2>4, <2>5, Facts, Moved DEF SvelteLeave
<1>6. CASE ~(o.readers > 0)
  <2> DEFINE q == [o EXCEPT !.on = Off]
  <2>1. /\ handlers' = Without(v) /\ stateListeners' = stateListeners \ {v}
        /\ Becomes(v, q)
    BY <1>6 DEF SvelteLeave
  <2>2. /\ q \in Shapes /\ q.phase = "in" /\ q.prop = p.prop /\ q.on = Off
        /\ q.kind = p.kind /\ q.timer = p.timer /\ q.shows = p.shows /\ q.since = p.since
        /\ q.readers = 0
    <3>1. o.readers = 0
      BY <1>1, <1>4, <1>6
    <3> HIDE DEF o
    <3> QED
      BY <1>4, <3>1 DEF Shapes
  <2>3. ~Asks(q) /\ ~Wants(q)
    BY <1>2, <2>2 DEF Asks, Wants, StateKinds, SvelteKinds
  <2>4. Sound(q)
    BY <1>1, <1>2, <1>3, <2>2, <2>3
    DEF Sound, Coherent, Fits, Due, ReactKinds, SvelteKinds, StateKinds, QueryKinds, TopicKinds
  <2>5. handlers' = Without(v) \cup Registered(q.on, v)
    BY <2>1, <2>2 DEF Registered
  <2> QED
    BY <1>3, <2>1, <2>2, <2>3, <2>4, <2>5, Facts, Moved DEF SvelteLeave
<1> QED
  BY <1>5, <1>6

(* The debounce timer fires.                                               *)
LEMMA TimeoutKeeps ==
  ASSUME ViewsInv, NEW v \in Views, Timeout(v)
  PROVE  ViewsInv'
<1> DEFINE p == view[v]
           o == [p EXCEPT !.timer = FALSE]
           q == Invalidated(o)
<1>1. /\ p \in Shapes /\ Coherent(p, Len(log)) /\ Fits(p, connection, log, data) /\ Asks(p)
      /\ Len(log) \in Nat
  BY Facts DEF Timeout, Coherent
<1>2. /\ o \in Shapes /\ o.kind = p.kind /\ o.phase = p.phase /\ o.prop = p.prop /\ o.on = p.on
      /\ o.timer = FALSE /\ o.told = p.told /\ o.shows = p.shows /\ o.since = p.since
      /\ o.status = p.status /\ o.readers = p.readers
  BY <1>1 DEF Shapes
<1>3. /\ q \in Shapes /\ q.kind = p.kind /\ q.phase = p.phase /\ q.prop = p.prop /\ q.on = p.on
      /\ q.timer = FALSE /\ q.shows = p.shows /\ q.since = p.since
      /\ q.status = p.status /\ q.readers = p.readers
      /\ (q.told => p.prop # p.on)
  BY <1>2 DEF Shapes, Invalidated
<1>4. Asks(q) /\ ~Wants(q) /\ ~Wants(p)
  BY <1>1, <1>3 DEF Asks, Wants, StateKinds, QueryKinds
<1>5. After(q, log) = After(p, log)
  BY <1>3 DEF After
<1>6. Sound(q)
  <2>1. p.phase # "out" /\ p.kind \in QueryKinds
    BY <1>1 DEF Asks, Coherent, Gone
  <2>2. Coherent(q, Len(log))
    BY <1>1, <1>3, <2>1 DEF Coherent, QueryKinds
  <2>3. Fits(q, connection, log, data)
    BY <1>1, <1>3, <1>4, <1>5 DEF Fits
  <2>4. Due(q)
    BY <1>1, <1>3 DEF Due, Coherent
  <2> QED
    BY <2>2, <2>3, <2>4 DEF Sound
<1>7. handlers' = Without(v) \cup Registered(q.on, v)
  BY <1>3, OwnHandler DEF Timeout, registries
<1> QED
  BY <1>1, <1>3, <1>4, <1>6, <1>7, Facts, Moved DEF Timeout, registries

-----------------------------------------------------------------------------
(* The steps that concern many views leave the registries alone.           *)
LEMMA Dispatched ==
  ASSUME ViewsInv, view' \in [Views -> Shapes], UNCHANGED registries,
         \A x \in Views : /\ view'[x].on = view[x].on /\ view'[x].kind = view[x].kind
                          /\ view'[x].phase = view[x].phase /\ view'[x].readers = view[x].readers,
         timeouts' = {x \in Views : view'[x].timer},
         provider' \in {"none", "there", "gone"}, connection' \in States, log' \in Seq(Topics),
         data' \in [Topics -> [at : Int, has : SUBSET Int]],
         \A x \in Views : Sound(view[x])'
  PROVE  ViewsInv'
<1>1. handlers' = {<<view'[x].on, x>> : x \in {y \in Views : view'[y].on # Off}}
  BY DEF ViewsInv, ViewsTypeOK, registries
<1>2. gapListeners' = {x \in Views : Asks(view'[x])}
  BY DEF ViewsInv, ViewsTypeOK, registries, Asks
<1>3. stateListeners' = {x \in Views : Wants(view'[x])}
  BY DEF ViewsInv, ViewsTypeOK, registries, Wants, Watching, Is
<1>4. timeouts' \subseteq gapListeners'
  BY <1>2 DEF Sound, Coherent
<1>5. ViewsTypeOK'
  BY <1>1, <1>2, <1>3, <1>4 DEF ViewsTypeOK, Asks, Wants, Watching, Is
<1> QED
  BY <1>5 DEF ViewsInv

LEMMA TellKeeps ==
  ASSUME ViewsInv, NEW s \in States, Tell(s), UNCHANGED <<registries, timeouts, log, data>>,
         provider' \in {"none", "there", "gone"}
  PROVE  ViewsInv'
<1>1. ASSUME NEW x \in Views
      PROVE  /\ view'[x] \in Shapes
             /\ view'[x].on = view[x].on /\ view'[x].kind = view[x].kind
             /\ view'[x].phase = view[x].phase /\ view'[x].readers = view[x].readers
             /\ view'[x].timer = view[x].timer
             /\ Sound(view[x])'
  <2> DEFINE p == view[x]
             q == view'[x]
  <2>1. /\ p \in Shapes /\ Coherent(p, Len(log)) /\ Fits(p, connection, log, data) /\ Due(p)
        /\ (x \in stateListeners <=> Wants(p))
    BY Facts
  <2>2. q = IF Wants(p) THEN [p EXCEPT !.status = s] ELSE p
    BY <2>1 DEF Tell
  <2>3. /\ q \in Shapes /\ q.kind = p.kind /\ q.phase = p.phase /\ q.prop = p.prop /\ q.on = p.on
        /\ q.timer = p.timer /\ q.told = p.told /\ q.shows = p.shows /\ q.since = p.since
        /\ q.readers = p.readers /\ (Wants(p) => q.status = s /\ p.kind \in StateKinds)
        /\ (~Wants(p) => q = p)
    BY <2>1, <2>2 DEF Shapes, Wants
  <2>4. Wants(q) <=> Wants(p)
    BY <2>3 DEF Wants
  <2>5. After(q, log) = After(p, log)
    BY <2>3 DEF After
  <2>6. Asks(q) <=> Asks(p)
    BY <2>3 DEF Asks
  <2>7. Coherent(q, Len(log))
    <3>1. CASE Wants(p)
      BY <2>1, <2>3, <2>6, <3>1 DEF Coherent, Wants, StateKinds
    <3>2. CASE ~Wants(p)
      BY <2>1, <2>3, <3>2
    <3> QED
      BY <3>1, <3>2
  <2>8. Fits(q, s, log, data) /\ Due(q)
    BY <2>1, <2>3, <2>4, <2>5 DEF Fits, Due
  <2>9. Sound(view[x])'
    BY <2>7, <2>8 DEF Sound, Tell
  <2> QED
    BY <2>3, <2>9
<1>2. view' \in [Views -> Shapes]
  BY <1>1 DEF Tell
<1>3. timeouts' = {x \in Views : view'[x].timer}
  BY <1>1 DEF ViewsInv, ViewsTypeOK
<1>4. /\ connection' \in States /\ log' \in Seq(Topics)
      /\ data' \in [Topics -> [at : Int, has : SUBSET Int]]
  BY DEF ViewsInv, ViewsTypeOK, Tell
<1> QED
  BY <1>1, <1>2, <1>3, <1>4, Dispatched

(* What the call of an invalidation makes of a query hook.                 *)
LEMMA NotifiedHook ==
  ASSUME ViewsInv, NEW v \in Views, Asks(view[v])
  PROVE  /\ Notified(v) \in Shapes /\ Notified(v).kind = view[v].kind
         /\ Notified(v).phase = view[v].phase /\ Notified(v).prop = view[v].prop
         /\ Notified(v).on = view[v].on /\ Notified(v).shows = view[v].shows
         /\ Notified(v).since = view[v].since /\ Notified(v).readers = view[v].readers
         /\ (Notified(v).timer <=> view[v].timer \/ v \in Debounced)
         /\ Due(Notified(v)) /\ Coherent(Notified(v), Len(log))
<1> DEFINE p == view[v]
           o == [p EXCEPT !.told = TRUE]
<1>1. p \in Shapes /\ Coherent(p, Len(log)) /\ Asks(p)
  BY Facts
<1>2. /\ o \in Shapes /\ o.kind = p.kind /\ o.phase = p.phase /\ o.prop = p.prop /\ o.on = p.on
      /\ o.timer = p.timer /\ o.told = TRUE /\ o.shows = p.shows /\ o.since = p.since
      /\ o.readers = p.readers
  BY <1>1 DEF Shapes
<1>3. CASE v \in Debounced
  <2>1. Notified(v) = [p EXCEPT !.told = TRUE, !.timer = TRUE]
    BY <1>3 DEF Notified
  <2>2. /\ Notified(v) \in Shapes /\ Notified(v).kind = p.kind
        /\ Notified(v).phase = p.phase /\ Notified(v).prop = p.prop
        /\ Notified(v).on = p.on /\ Notified(v).shows = p.shows
        /\ Notified(v).since = p.since /\ Notified(v).readers = p.readers
        /\ Notified(v).timer = TRUE
    BY <1>1, <2>1 DEF Shapes
  <2> QED
    BY <1>1, <1>3, <2>2
    DEF Due, Coherent, Asks, Gone, ReactKinds, SvelteKinds, StateKinds, QueryKinds, TopicKinds
<1>4. CASE v \notin Debounced
  <2>1. Notified(v) = Invalidated(o)
    BY <1>4 DEF Notified
  <2>2. /\ Notified(v) \in Shapes /\ Notified(v).kind = p.kind
        /\ Notified(v).phase = p.phase /\ Notified(v).prop = p.prop
        /\ Notified(v).on = p.on /\ Notified(v).shows = p.shows
        /\ Notified(v).since = p.since /\ Notified(v).readers = p.readers
        /\ Notified(v).timer = p.timer /\ (Notified(v).told => p.prop # p.on)
    BY <1>2, <2>1 DEF Shapes, Invalidated
  <2> QED
    BY <1>1, <1>4, <2>2
    DEF Due, Coherent, Asks, Gone, ReactKinds, SvelteKinds, StateKinds, QueryKinds, TopicKinds
<1> QED
  BY <1>3, <1>4

LEMMA GapKeeps ==
  ASSUME ViewsInv, NEW T \in SUBSET Topics, Gap(T)
  PROVE  ViewsInv'
<1> DEFINE called == {v \in gapListeners : Affects(T, view[v].on)}
<1>1. /\ view' = [v \in Views |-> IF v \in called THEN Notified(v) ELSE view[v]]
      /\ timeouts' = Scheduled(called) /\ UNCHANGED <<registries, client, data>>
  BY DEF Gap
<1>2. ASSUME NEW x \in Views
      PROVE  /\ view'[x] \in Shapes
             /\ view'[x].on = view[x].on /\ view'[x].kind = view[x].kind
             /\ view'[x].phase = view[x].phase /\ view'[x].readers = view[x].readers
             /\ (view'[x].timer <=> view[x].timer \/ (x \in called /\ x \in Debounced))
             /\ Sound(view[x])'
  <2> DEFINE p == view[x]
             q == view'[x]
  <2>1. /\ p \in Shapes /\ Coherent(p, Len(log)) /\ Fits(p, connection, log, data) /\ Due(p)
        /\ (x \in gapListeners <=> Asks(p))
    BY Facts
  <2>2. CASE x \notin called
    <3>1. q = p
      BY <1>1, <2>2
    <3> QED
      BY <1>1, <2>1, <2>2, <3>1 DEF Sound, client
  <2>3. CASE x \in called
    <3>1. Asks(p) /\ q = Notified(x)
      BY <1>1, <2>1, <2>3
    <3>2. /\ q \in Shapes /\ q.kind = p.kind /\ q.phase = p.phase /\ q.prop = p.prop /\ q.on = p.on
          /\ q.shows = p.shows /\ q.since = p.since /\ q.readers = p.readers
          /\ (q.timer <=> p.timer \/ x \in Debounced)
          /\ Due(q) /\ Coherent(q, Len(log))
      BY <3>1, NotifiedHook
    <3>3. After(q, log) = After(p, log)
      BY <3>2 DEF After
    <3>4. ~Wants(q)
      BY <3>1, <3>2 DEF Wants, Asks, QueryKinds, StateKinds
    <3>5. Fits(q, connection, log, data)
      BY <2>1, <3>2, <3>3, <3>4 DEF Fits
    <3>6. Sound(view[x])'
      BY <1>1, <3>2, <3>5 DEF Sound, client
    <3> QED
      BY <2>3, <3>2, <3>6
  <2> QED
    BY <2>2, <2>3
<1>3. view' \in [Views -> Shapes]
  BY <1>1, <1>2
<1>4. timeouts' = {x \in Views : view'[x].timer}
  <2>1. timeouts = {x \in Views : view[x].timer} /\ called \subseteq Views
    BY DEF ViewsInv, ViewsTypeOK
  <2>2. timeouts' = timeouts \cup {v \in called \cap Debounced : ~view[v].timer}
    BY <1>1 DEF Scheduled
  <2> QED
    BY <1>2, <2>1, <2>2
<1>5. /\ connection' \in States /\ log' \in Seq(Topics) /\ provider' \in {"none", "there", "gone"}
      /\ data' \in [Topics -> [at : Int, has : SUBSET Int]]
  BY <1>1 DEF ViewsInv, ViewsTypeOK, client
<1> QED
  BY <1>1, <1>2, <1>3, <1>4, <1>5, Dispatched

LEMMA FetchedKeeps ==
  ASSUME ViewsInv, NEW t \in Queries, NEW upTo \in 0..Len(log), Fetched(t, upTo)
  PROVE  ViewsInv'
<1> DEFINE held == {n \in EventsOn(t) : n <= upTo}
<1>1. /\ Len(log) \in Nat /\ log \in Seq(Topics) /\ DOMAIN log = 1..Len(log) /\ t \in Topics
      /\ data \in [Topics -> [at : Int, has : SUBSET Int]]
  BY ViewsAssumption DEF ViewsInv, ViewsTypeOK
<1>2. held \in SUBSET Int
  BY <1>1 DEF EventsOn
<1> HIDE DEF held
<1>3. data' = [data EXCEPT ![t] = [at |-> Len(log), has |-> held]]
  BY DEF Fetched, held
<1>4. data' \in [Topics -> [at : Int, has : SUBSET Int]]
  BY <1>1, <1>2, <1>3
<1>5. ASSUME NEW x \in Views PROVE Sound(view[x])'
  <2> DEFINE p == view[x]
  <2>1. /\ p \in Shapes /\ Coherent(p, Len(log)) /\ Fits(p, connection, log, data) /\ Due(p)
    BY Facts
  <2>2. p.kind = "fold" /\ p.phase = "in" /\ p.on # Off /\ data'[p.on] # NoData =>
           {n \in After(p, log) : n > data'[p.on].at} \subseteq data'[p.on].has
    <3>1. CASE p.on = t
      <4>1. data'[t].at = Len(log)
        BY <1>1, <1>3
      <4>2. \A n \in After(p, log) : n \in Int /\ ~(n > Len(log))
        BY <1>1 DEF After
      <4>3. {n \in After(p, log) : n > data'[p.on].at} = {}
        BY <3>1, <4>1, <4>2
      <4> QED
        BY <4>3
    <3>2. CASE p.on # t
      BY <1>1, <1>3, <2>1, <3>2 DEF Fits, Shapes
    <3> QED
      BY <3>1, <3>2
  <2>3. Fits(p, connection, log, data')
    BY <2>1, <2>2 DEF Fits
  <2> QED
    BY <2>1, <2>3 DEF Sound, Fetched, client
<1>6. /\ view' = view /\ view \in [Views -> Shapes] /\ timeouts' = {x \in Views : view'[x].timer}
      /\ UNCHANGED registries
  BY DEF ViewsInv, ViewsTypeOK, Fetched
<1>7. /\ connection' \in States /\ log' \in Seq(Topics) /\ provider' \in {"none", "there", "gone"}
  BY DEF ViewsInv, ViewsTypeOK, client, Fetched
<1> QED
  BY <1>4, <1>5, <1>6, <1>7, Dispatched

(* A dispatch: whoever hears of the event shows it, folds it or            *)
(* invalidates; for the others it is on another topic.                     *)
LEMMA EventKeeps ==
  ASSUME ViewsInv, NEW t \in Topics, Event(t)
  PROVE  ViewsInv'
<1> DEFINE n == Len(log) + 1
           heard == {v \in Views : <<t, v>> \in handlers}
           called == {v \in heard : view[v].kind = "invalidation"}
           shown == {v \in heard : view[v].kind \in TopicKinds}
           folded == {view[v].prop : v \in {x \in heard : view[x].kind = "fold"}}
<1>1. /\ log' = Append(log, t)
      /\ view' = [v \in Views |->
                    IF v \in called THEN Notified(v)
                    ELSE IF v \in shown THEN [view[v] EXCEPT !.shows = @ \cup {n}]
                    ELSE view[v]]
      /\ timeouts' = Scheduled(called)
      /\ data' = [k \in Topics |-> IF k \in folded THEN Folded(data[k], n) ELSE data[k]]
      /\ UNCHANGED <<registries, provider, connection>>
  BY DEF Event
<1>2. /\ Len(log) \in Nat /\ log \in Seq(Topics) /\ DOMAIN log = 1..Len(log)
      /\ data \in [Topics -> [at : Int, has : SUBSET Int]] /\ n \in Nat
      /\ connection \in States /\ provider \in {"none", "there", "gone"}
  BY DEF ViewsInv, ViewsTypeOK
<1>3. /\ log' \in Seq(Topics) /\ Len(log') = n /\ DOMAIN log' = 1..n /\ log'[n] = t
      /\ \A i \in 1..Len(log) : log'[i] = log[i]
  BY <1>1, <1>2
<1>4. \A x \in Views : x \in heard <=> view[x].on = t
  BY ViewsAssumption DEF ViewsInv, ViewsTypeOK
<1>5. ASSUME NEW q, NEW p \in Shapes, p.on = q.on, p.since = q.since, p.since <= Len(log)
      PROVE  After(q, log') = After(p, log) \cup IF p.on = t THEN {n} ELSE {}
  <2>1. p.since \in Nat
    BY <1>5 DEF Shapes
  <2>2. ASSUME NEW i \in After(q, log')
        PROVE  i \in After(p, log) \cup IF p.on = t THEN {n} ELSE {}
    <3>1. i \in 1..n /\ log'[i] = p.on /\ i > p.since
      BY <1>3, <1>5, <2>2 DEF After
    <3>2. CASE i = n
      BY <1>3, <3>1, <3>2
    <3>3. CASE i # n
      BY <1>2, <1>3, <3>1, <3>3 DEF After
    <3> QED
      BY <3>2, <3>3
  <2>3. ASSUME NEW i \in After(p, log) PROVE i \in After(q, log')
    BY <1>2, <1>3, <1>5, <2>3 DEF After
  <2>4. p.on = t => n \in After(q, log')
    BY <1>2, <1>3, <1>5, <2>1 DEF After
  <2> QED
    BY <2>2, <2>3, <2>4
<1>6. /\ data' \in [Topics -> [at : Int, has : SUBSET Int]]
      /\ \A k \in Topics : data'[k] # NoData =>
           /\ data[k] # NoData /\ data'[k].at = data[k].at /\ data[k].has \subseteq data'[k].has
           /\ k \in folded => n \in data'[k].has
  <2>1. ASSUME NEW k \in Topics
        PROVE  /\ Folded(data[k], n) \in [at : Int, has : SUBSET Int]
               /\ Folded(data[k], n) # NoData =>
                    /\ data[k] # NoData /\ Folded(data[k], n).at = data[k].at
                    /\ data[k].has \subseteq Folded(data[k], n).has
                    /\ n \in Folded(data[k], n).has
    <3> DEFINE d == data[k]
    <3>1. d \in [at : Int, has : SUBSET Int]
      BY <1>2
    <3>2. CASE d = NoData
      BY <3>1, <3>2 DEF Folded
    <3>3. CASE d # NoData
      <4>1. Folded(d, n) = [d EXCEPT !.has = @ \cup {n}]
        BY <3>3 DEF Folded
      <4>2. /\ Folded(d, n).at = d.at /\ Folded(d, n).has = d.has \cup {n}
            /\ Folded(d, n) \in [at : Int, has : SUBSET Int]
        BY <1>2, <3>1, <4>1
      <4> QED
        BY <3>3, <4>2
    <3> QED
      BY <3>2, <3>3
  <2> QED
    BY <1>1, <1>2, <2>1
<1> HIDE DEF n
<1>7. ASSUME NEW x \in Views
      PROVE  /\ view'[x] \in Shapes
             /\ view'[x].on = view[x].on /\ view'[x].kind = view[x].kind
             /\ view'[x].phase = view[x].phase /\ view'[x].readers = view[x].readers
             /\ (view'[x].timer <=> view[x].timer \/ (x \in called /\ x \in Debounced))
             /\ Sound(view[x])'
  <2> DEFINE p == view[x]
             q == view'[x]
  <2>1. /\ p \in Shapes /\ Coherent(p, Len(log)) /\ Fits(p, connection, log, data) /\ Due(p)
        /\ p.since <= Len(log)
    BY Facts, <1>2 DEF Coherent
  <2>2. CASE x \in called
    <3>1. p.kind = "invalidation" /\ p.on = t /\ Asks(p) /\ q = Notified(x)
      BY <1>1, <1>4, <2>2, ViewsAssumption DEF Asks, QueryKinds
    <3>2. /\ q \in Shapes /\ q.kind = p.kind /\ q.phase = p.phase /\ q.prop = p.prop /\ q.on = p.on
          /\ q.shows = p.shows /\ q.since = p.since /\ q.readers = p.readers
          /\ (q.timer <=> p.timer \/ x \in Debounced)
          /\ Due(q) /\ Coherent(q, Len(log))
      BY <3>1, NotifiedHook
    <3>3. Fits(q, connection, log', data')
      BY <3>1, <3>2 DEF Fits, TopicKinds, StateKinds, Wants
    <3>4. Coherent(q, Len(log'))
      BY <1>2, <1>3, <3>2 DEF Coherent, n
    <3> QED
      BY <1>1, <2>2, <3>2, <3>3, <3>4 DEF Sound
  <2>3. CASE x \in shown
    <3>1. p.kind \in TopicKinds /\ p.on = t /\ p.on # Off /\ q = [p EXCEPT !.shows = @ \cup {n}]
      BY <1>1, <1>4, <2>3, ViewsAssumption DEF TopicKinds
    <3>2. /\ q \in Shapes /\ q.kind = p.kind /\ q.phase = p.phase /\ q.prop = p.prop /\ q.on = p.on
          /\ q.shows = p.shows \cup {n} /\ q.since = p.since /\ q.readers = p.readers
          /\ q.timer = p.timer /\ q.told = p.told
      <4>1. n \in Nat /\ p.shows \in SUBSET Nat
        BY <1>2, <2>1 DEF Shapes, n
      <4>2. p.shows \cup {n} \in SUBSET Nat
        BY <4>1
      <4> QED
        BY <2>1, <3>1, <4>2 DEF Shapes
    <3>3. After(q, log') = After(p, log) \cup {n}
      BY <1>5, <2>1, <3>1, <3>2
    <3>4. n > q.since
      BY <1>2, <2>1, <3>2 DEF Shapes, n
    <3>5. {i \in q.shows : i > q.since} = {i \in p.shows : i > p.since} \cup {n}
      BY <3>2, <3>4
    <3>6. p.kind \notin QueryKinds /\ p.kind \notin StateKinds /\ p.kind # "none" /\ p.phase # "out"
      BY <2>1, <3>1 DEF TopicKinds, QueryKinds, StateKinds, Coherent, Gone
    <3>7. Fits(q, connection, log', data')
      BY <2>1, <3>1, <3>2, <3>3, <3>5, <3>6 DEF Fits, Wants, QueryKinds
    <3>8. Due(q) /\ ~p.timer
      BY <2>1, <3>2, <3>6 DEF Due, Coherent, Asks
    <3>9. Coherent(q, Len(log'))
      BY <1>2, <1>3, <2>1, <3>1, <3>2, <3>6, <3>8 DEF Coherent, n
    <3>10. x \notin called
      BY <3>1 DEF TopicKinds
    <3> QED
      BY <1>1, <3>2, <3>7, <3>8, <3>9, <3>10 DEF Sound
  <2>4. CASE x \notin called /\ x \notin shown
    <3>1. q = p
      BY <1>1, <2>4
    <3>2. p.kind \in TopicKinds => p.on # t
      BY <1>4, <2>4
    <3>3. After(q, log') = After(p, log) \cup IF p.on = t THEN {n} ELSE {}
      BY <1>5, <2>1, <3>1
    <3>4. p.kind = "fold" /\ p.phase = "in" /\ p.on # Off /\ data'[p.on] # NoData =>
            {i \in After(q, log') : i > data'[p.on].at} \subseteq data'[p.on].has
      <4> SUFFICES ASSUME p.kind = "fold", p.phase = "in", p.on # Off, data'[p.on] # NoData
                   PROVE  {i \in After(q, log') : i > data'[p.on].at} \subseteq data'[p.on].has
        OBVIOUS
      <4>1. p.on \in Topics /\ p.prop = p.on
        BY <2>1 DEF Shapes, Coherent, QueryKinds
      <4>2. /\ data[p.on] # NoData /\ data'[p.on].at = data[p.on].at
            /\ data[p.on].has \subseteq data'[p.on].has
            /\ p.on \in folded => n \in data'[p.on].has
        BY <1>6, <4>1
      <4>3. {i \in After(p, log) : i > data[p.on].at} \subseteq data[p.on].has
        BY <2>1, <4>2 DEF Fits
      <4>4. p.on = t => p.on \in folded
        BY <1>4, <4>1
      <4> QED
        BY <3>3, <4>2, <4>3, <4>4
    <3>5. Fits(q, connection, log', data')
      BY <2>1, <3>1, <3>2, <3>3, <3>4 DEF Fits, TopicKinds
    <3>6. Coherent(q, Len(log'))
      BY <1>2, <1>3, <2>1, <3>1 DEF Coherent, n
    <3> QED
      BY <1>1, <2>1, <2>4, <3>1, <3>5, <3>6 DEF Sound
  <2> QED
    BY <2>2, <2>3, <2>4
<1>8. view' \in [Views -> Shapes]
  BY <1>1, <1>7
<1>9. timeouts' = {x \in Views : view'[x].timer}
  <2>1. timeouts = {x \in Views : view[x].timer} /\ called \subseteq Views
    BY DEF ViewsInv, ViewsTypeOK
  <2>2. timeouts' = timeouts \cup {v \in called \cap Debounced : ~view[v].timer}
    BY <1>1 DEF Scheduled
  <2> QED
    BY <1>7, <2>1, <2>2
<1> QED
  BY <1>1, <1>2, <1>3, <1>6, <1>7, <1>8, <1>9, Dispatched

LEMMA Initial ==
  ASSUME ViewsInit
  PROVE  ViewsInv
<1>1. Gone \in Shapes
  BY DEF Gone, Shapes, States
<1>2. /\ view \in [Views -> Shapes] /\ log \in Seq(Topics) /\ Len(log) = 0 /\ connection \in States
      /\ data \in [Topics -> [at : Int, has : SUBSET Int]] /\ provider \in {"none", "there", "gone"}
  BY <1>1 DEF ViewsInit, NoData, States
<1>3. \A x \in Views : view[x] = Gone /\ ~Asks(view[x]) /\ ~Wants(view[x]) /\ view[x].on = Off /\ ~view[x].timer
  BY DEF ViewsInit, Gone, Asks, Wants
<1>4. ViewsTypeOK
  BY <1>2, <1>3 DEF ViewsTypeOK, ViewsInit, Asks, Wants, Watching, Is
<1>5. ASSUME NEW x \in Views PROVE Sound(view[x])
  BY <1>2, <1>3
  DEF Sound, Coherent, Fits, Due, Gone, Asks, ReactKinds, SvelteKinds, StateKinds, QueryKinds, TopicKinds
<1> QED
  BY <1>4, <1>5 DEF ViewsInv

LEMMA EveryStep ==
  ASSUME ViewsInv, [ViewsNext]_viewsVars
  PROVE  ViewsInv'
<1>1. ASSUME NEW v \in Views, React(v) PROVE ViewsInv'
  BY <1>1, ReactMountKeeps, ReactRenderKeeps, TopicEffectKeeps, StateEffectKeeps, QueryEffectKeeps,
     ReactUnmountKeeps DEF React
<1>2. ASSUME NEW v \in Views, Vue(v) PROVE ViewsInv'
  BY <1>2, VueWatchKeeps, VueStateKeeps, VueDisposeKeeps DEF Vue
<1>3. ASSUME NEW v \in Views, Svelte(v) PROVE ViewsInv'
  BY <1>3, SvelteStoreKeeps, SvelteReadKeeps, SvelteLeaveKeeps DEF Svelte
<1>4. ASSUME NEW s \in States, SetState(s) PROVE ViewsInv'
  <2>1. provider' \in {"none", "there", "gone"}
    BY <1>4 DEF SetState, ViewsInv, ViewsTypeOK
  <2> QED
    BY <1>4, <2>1, TellKeeps DEF SetState
<1>5. ASSUME UNCHANGED <<view, registries, timeouts, connection, log, data>>,
             provider' \in {"none", "there", "gone"}
      PROVE  ViewsInv'
  BY <1>5
  DEF ViewsInv, ViewsTypeOK, Sound, registries, Watching, Is
<1>6. CASE Provide
  BY <1>5, <1>6 DEF Provide
<1>7. CASE ProviderEnds
  <2>1. CASE Tell("closed")
    BY <1>7, <2>1, TellKeeps DEF ProviderEnds, States
  <2>2. CASE UNCHANGED <<connection, view>>
    BY <1>5, <1>7, <2>2 DEF ProviderEnds
  <2> QED
    BY <1>7, <2>1, <2>2 DEF ProviderEnds
<1>8. CASE UNCHANGED viewsVars
  BY <1>5, <1>8 DEF viewsVars, client, ViewsInv, ViewsTypeOK
<1> QED
  BY <1>1, <1>2, <1>3, <1>4, <1>6, <1>7, <1>8, TimeoutKeeps, EventKeeps, GapKeeps, FetchedKeeps
  DEF ViewsNext

LEMMA SoundViews ==
  ASSUME ViewsInv
  PROVE  ViewsTypeOK /\ ShownIsTold /\ InvalidationsAreDue
<1>1. ASSUME NEW v \in Views PROVE Since(v) = After(view[v], log)
  BY DEF Since, EventsOn, After
<1>2. ASSUME NEW v \in Views
      PROVE  /\ v \in Watching => view[v].status = connection
             /\ view[v].kind \in TopicKinds /\ view[v].on # Off =>
                  {n \in view[v].shows : n > view[v].since} = Since(v)
             /\ view[v].kind = "svelteTopic" /\ view[v].on # Off =>
                  view[v].shows = Since(v)
             /\ Is(v, {"fold"}, "in") /\ view[v].on # Off /\ data[view[v].on] # NoData =>
                  {n \in Since(v) : n > data[view[v].on].at} \subseteq data[view[v].on].has
  <2>1. Fits(view[v], connection, log, data)
    BY Facts
  <2> QED
    BY <1>1, <2>1 DEF Fits, Watching, Wants, Is
<1>3. ShownIsTold
  BY <1>2 DEF ShownIsTold
<1>4. InvalidationsAreDue
  BY Facts DEF InvalidationsAreDue, Due, Is
<1> QED
  BY <1>3, <1>4 DEF ViewsInv

-----------------------------------------------------------------------------
LEMMA AlwaysViewsInv == ViewsSpec => []ViewsInv
  BY Initial, EveryStep, PTL DEF ViewsSpec

(* The client's registries are those of the views that are there and want  *)
(* them, and a timeout runs for exactly the hooks that have one set: no    *)
(* effect, watcher or store leaves anything behind or takes anything back  *)
(* that is not its own.                                                    *)
THEOREM ViewsTypeCorrect == ViewsSpec => []ViewsTypeOK
<1>1. ViewsInv => ViewsTypeOK
  BY SoundViews
<1> QED
  BY <1>1, AlwaysViewsInv, PTL

(* Indicators, folds, stores and cached queries show what they were told,  *)
(* and a store nothing of an earlier run.                                  *)
THEOREM NothingIsMisshown == ViewsSpec => []ShownIsTold
<1>1. ViewsInv => ShownIsTold
  BY SoundViews
<1> QED
  BY <1>1, AlwaysViewsInv, PTL

(* A query hook owes no invalidation without a timeout that will make it.  *)
THEOREM NoInvalidationIsLost == ViewsSpec => []InvalidationsAreDue
<1>1. ViewsInv => InvalidationsAreDue
  BY SoundViews
<1> QED
  BY <1>1, AlwaysViewsInv, PTL

-----------------------------------------------------------------------------
(* ClientManager.                                                          *)

(* The loop that made #abort's controller was started for the key that     *)
(* #openTopicsKey holds, and has not ended.                                *)
OwnerIsCurrent ==
  owner # NoLoop => loops[owner].key = openKey /\ loops[owner].pc # "ended"

ManagerInv == TypeOK /\ OwnerIsCurrent /\ NeverStranded

(* Aborting and moving a loop keep the loops' type, and leave the others   *)
(* as they were.                                                           *)
LEMMA AbortedLoops ==
  ASSUME TypeOK
  PROVE  /\ Aborted \in [Loops -> [pc : {"dialing", "reading", "sleeping", "rejected", "ended"},
                                   key : SUBSET Topics, asked : SUBSET Topics, aborted : BOOLEAN]]
         /\ \A l \in Loops : Aborted[l].pc = loops[l].pc /\ Aborted[l].key = loops[l].key
  BY DEF TypeOK, Aborted

LEMMA LoopIsNotNone == NoLoop \notin Loops
  BY DEF NoLoop, Loops

LEMMA InitManagerInv == Init => ManagerInv
<1> SUFFICES ASSUME Init PROVE ManagerInv
  OBVIOUS
<1>1. {debounce, closed, fatal} \subseteq BOOLEAN
  BY DEF Init
<1>2. loops \in [Loops -> [pc : {"dialing", "reading", "sleeping", "rejected", "ended"},
                          key : SUBSET Topics, asked : SUBSET Topics, aborted : BOOLEAN]]
  BY DEF Init, Unused
<1>3. TypeOK
  BY <1>1, <1>2 DEF Init, TypeOK
<1> QED
  BY <1>3 DEF Init, ManagerInv, OwnerIsCurrent, NeverStranded

-----------------------------------------------------------------------------
(* One lemma per kind of step. *)
LEMMA CallIInv ==
  ASSUME ManagerInv, NEW t \in Topics, Subscribe(t) \/ Release(t)
  PROVE  ManagerInv'
<1>1. /\ wanted' \subseteq Topics
      /\ debounce' = ~closed
      /\ UNCHANGED <<openKey, owner, closed, fatal, state, loops>>
  BY DEF ManagerInv, TypeOK, Subscribe, Release, ScheduleSync
<1>2. TypeOK'
  BY <1>1 DEF ManagerInv, TypeOK
<1>3. OwnerIsCurrent'
  BY <1>1 DEF ManagerInv, OwnerIsCurrent
<1>4. NeverStranded'
  BY <1>1 DEF ManagerInv, TypeOK, NeverStranded
<1> QED
  BY <1>2, <1>3, <1>4 DEF ManagerInv

LEMMA ReconnectIInv ==
  ASSUME ManagerInv, Reconnect
  PROVE  ManagerInv'
<1>1. TypeOK'
  BY AbortedLoops DEF ManagerInv, TypeOK, Reconnect, ScheduleSync
<1>2. OwnerIsCurrent' /\ NeverStranded'
  BY DEF ManagerInv, TypeOK, Reconnect, ScheduleSync, OwnerIsCurrent, NeverStranded
<1> QED
  BY <1>1, <1>2 DEF ManagerInv

LEMMA CloseIInv ==
  ASSUME ManagerInv, Close
  PROVE  ManagerInv'
<1>1. TypeOK'
  BY AbortedLoops DEF ManagerInv, TypeOK, Close
<1>2. OwnerIsCurrent' /\ NeverStranded'
  BY DEF Close, OwnerIsCurrent, NeverStranded
<1> QED
  BY <1>1, <1>2 DEF ManagerInv

(* A dial makes its loop the owner; it must be for the current key.        *)
LEMMA DialIInv ==
  ASSUME ManagerInv, ~closed, NEW l \in Loops, NEW key \in SUBSET Topics,
         NEW from, from \in {loops, Aborted},
         Dial(from, l, key), openKey' = key, key = wanted \/ debounce',
         debounce' \in BOOLEAN, UNCHANGED <<wanted, closed, fatal>>
  PROVE  ManagerInv'
<1>1. /\ loops' \in [Loops -> [pc : {"dialing", "reading", "sleeping", "rejected", "ended"},
                               key : SUBSET Topics, asked : SUBSET Topics, aborted : BOOLEAN]]
      /\ loops'[l] = [pc |-> "dialing", key |-> key, asked |-> wanted, aborted |-> FALSE]
      /\ owner' = l
      /\ state' = "connecting"
  BY AbortedLoops DEF ManagerInv, TypeOK, Dial
<1>2. TypeOK'
  BY <1>1 DEF ManagerInv, TypeOK
<1>3. OwnerIsCurrent'
  BY <1>1 DEF OwnerIsCurrent
<1>4. NeverStranded'
  BY <1>1, LoopIsNotNone DEF NeverStranded
<1> QED
  BY <1>2, <1>3, <1>4 DEF ManagerInv

LEMMA SyncIInv ==
  ASSUME ManagerInv, Sync
  PROVE  ManagerInv'
<1>0. ~closed /\ debounce' = FALSE /\ UNCHANGED <<wanted, closed, fatal>>
  BY DEF ManagerInv, TypeOK, Sync
<1>1. CASE wanted = openKey /\ owner # NoLoop
  <2>1. UNCHANGED <<openKey, owner, state, loops>>
    BY <1>1 DEF Sync
  <2> QED
    BY <1>0, <1>1, <2>1 DEF ManagerInv, TypeOK, OwnerIsCurrent, NeverStranded
<1>2. CASE ~(wanted = openKey /\ owner # NoLoop) /\ wanted = {}
  <2>1. openKey' = wanted /\ loops' = Aborted /\ owner' = NoLoop /\ state' = "idle"
    BY <1>2 DEF Sync
  <2>2. TypeOK'
    BY <1>0, <2>1, AbortedLoops DEF ManagerInv, TypeOK
  <2> QED
    BY <1>0, <1>2, <2>1, <2>2 DEF ManagerInv, OwnerIsCurrent, NeverStranded
<1>3. CASE ~(wanted = openKey /\ owner # NoLoop) /\ wanted # {}
  <2>1. openKey' = wanted /\ \E l \in Loops : Dial(Aborted, l, wanted)
    BY <1>3 DEF Sync
  <2> QED
    BY <1>0, <2>1, DialIInv DEF ManagerInv, TypeOK
<1> QED
  BY <1>1, <1>2, <1>3

(* A loop that moves on without dialing: only the owner matters, and the   *)
(* owner does not end.                                                     *)
LEMMA GotoIInv ==
  ASSUME ManagerInv, NEW l \in Loops,
         NEW pc \in {"reading", "sleeping", "rejected", "ended"},
         Goto(l, pc), pc = "ended" => l # owner,
         fatal' \in BOOLEAN, state' \in {"open", "closed", state},
         UNCHANGED <<wanted, openKey, owner, debounce, closed>>
  PROVE  ManagerInv'
<1>1. /\ loops' \in [Loops -> [pc : {"dialing", "reading", "sleeping", "rejected", "ended"},
                               key : SUBSET Topics, asked : SUBSET Topics, aborted : BOOLEAN]]
      /\ \A x \in Loops : /\ loops'[x].key = loops[x].key
                          /\ loops'[x].aborted = loops[x].aborted
                          /\ loops'[x].pc = IF x = l THEN pc ELSE loops[x].pc
  BY DEF ManagerInv, TypeOK, Goto
<1>2. TypeOK'
  BY <1>1, LoopIsNotNone DEF ManagerInv, TypeOK
<1>3. owner # NoLoop => owner \in Loops /\ loops'[owner].pc # "ended"
  BY <1>1 DEF ManagerInv, TypeOK, OwnerIsCurrent
<1>4. OwnerIsCurrent'
  BY <1>1, <1>3 DEF ManagerInv, OwnerIsCurrent
<1>5. NeverStranded'
  BY <1>1, <1>3 DEF ManagerInv, NeverStranded
<1> QED
  BY <1>2, <1>4, <1>5 DEF ManagerInv

LEMMA LoopIInv ==
  ASSUME ManagerInv, NEW l \in Loops, Progress(l) \/ Reject(l) \/ TryLater(l) \/ Drop(l)
  PROVE  ManagerInv'
<1>1. CASE Stop(l)
  <2>1. l # owner
    BY <1>1, LoopIsNotNone DEF ManagerInv, TypeOK, Stop
  <2> QED
    BY <1>1, <2>1, GotoIInv DEF ManagerInv, TypeOK, Stop, timers
<1>2. CASE Accept(l)
  BY <1>2, GotoIInv DEF ManagerInv, TypeOK, Accept, timers
<1>3. CASE Reject(l)
  BY <1>3, GotoIInv DEF Reject
<1>4. CASE TryLater(l)
  BY <1>4, GotoIInv DEF ManagerInv, TypeOK, TryLater, timers
<1>5. CASE Drop(l)
  <2>1. l = owner => StillWanted(l)
    BY LoopIsNotNone DEF ManagerInv, TypeOK, OwnerIsCurrent, StillWanted
  <2>2. CASE StillWanted(l)
    BY <1>5, <2>2, GotoIInv DEF ManagerInv, TypeOK, Drop, timers
  <2>3. CASE ~StillWanted(l)
    BY <1>5, <2>1, <2>3, GotoIInv DEF ManagerInv, TypeOK, Drop, timers
  <2> QED
    BY <2>2, <2>3
<1>6. CASE Wake(l)
  <2>0. UNCHANGED <<wanted, openKey, debounce, closed, fatal>>
    BY <1>6 DEF Wake, timers
  <2>1. CASE StillWanted(l)
    <3>1. /\ ~closed
          /\ loops[l].key \in SUBSET Topics
          /\ openKey = loops[l].key
          /\ Dial(loops, l, loops[l].key)
      BY <1>6, <2>1 DEF ManagerInv, TypeOK, Wake, StillWanted
    <3>2. openKey = wanted \/ debounce
      BY <3>1 DEF ManagerInv, NeverStranded
    <3> QED
      BY <2>0, <3>1, <3>2, DialIInv DEF ManagerInv, TypeOK
  <2>2. CASE ~StillWanted(l)
    <3>1. Goto(l, "ended") /\ UNCHANGED <<owner, state>>
      BY <1>6, <2>2 DEF Wake
    <3>2. l # owner
      BY <1>6, <2>2, LoopIsNotNone DEF ManagerInv, TypeOK, OwnerIsCurrent, StillWanted
    <3> QED
      BY <2>0, <3>1, <3>2, GotoIInv DEF ManagerInv, TypeOK
  <2> QED
    BY <2>1, <2>2
<1> QED
  BY <1>1, <1>2, <1>3, <1>4, <1>5, <1>6 DEF Progress

LEMMA NextManagerInv == ManagerInv /\ [Next]_vars => ManagerInv'
<1> SUFFICES ASSUME ManagerInv, [Next]_vars
             PROVE  ManagerInv'
  OBVIOUS
<1>1. CASE \E t \in Topics : Subscribe(t) \/ Release(t)
  BY <1>1, CallIInv
<1>2. CASE Reconnect
  BY <1>2, ReconnectIInv
<1>3. CASE Close
  BY <1>3, CloseIInv
<1>4. CASE Sync
  BY <1>4, SyncIInv
<1>5. CASE \E l \in Loops : Progress(l) \/ Reject(l) \/ TryLater(l) \/ Drop(l)
  BY <1>5, LoopIInv
<1>6. CASE UNCHANGED vars
  BY <1>6 DEF vars, timers, ManagerInv, TypeOK, OwnerIsCurrent, NeverStranded
<1> QED
  BY <1>1, <1>2, <1>3, <1>4, <1>5, <1>6 DEF Next

LEMMA AlwaysManagerInv == Spec => []ManagerInv
  BY InitManagerInv, NextManagerInv, PTL DEF Spec

-----------------------------------------------------------------------------
(* The client's state keeps its types, #abort is never the controller of   *)
(* an attempt that was aborted, and no timer survives close().             *)
THEOREM ManagerTypeCorrect == Spec => []TypeOK
<1>1. ManagerInv => TypeOK
  BY DEF ManagerInv
<1> QED
  BY <1>1, AlwaysManagerInv, PTL

(* A client with subscriptions always has a sync pending or a loop that    *)
(* works for exactly its topics, however many loops overlap.               *)
THEOREM AlwaysLooksAfterItself == Spec => []NeverStranded
<1>1. ManagerInv => NeverStranded
  BY DEF ManagerInv
<1> QED
  BY <1>1, AlwaysManagerInv, PTL

(* No loop dials once the client is closed, whichever were asleep, pending *)
(* or forgotten at the time.                                               *)
THEOREM ClosedIsClosed == Spec => NoDialAfterClose
<1> DEFINE NoneDials == closed => \A l \in Loops : loops'[l].pc = "dialing" => loops[l].pc = "dialing"
<1>1. ManagerInv /\ [Next]_vars => [NoneDials]_vars
  <2> SUFFICES ASSUME ManagerInv, Next, closed, NEW x \in Loops, loops'[x].pc = "dialing"
               PROVE  loops[x].pc = "dialing"
    BY DEF vars
  <2>0. loops \in [Loops -> [pc : {"dialing", "reading", "sleeping", "rejected", "ended"},
                             key : SUBSET Topics, asked : SUBSET Topics, aborted : BOOLEAN]]
    BY DEF ManagerInv, TypeOK
  <2>1. CASE \E t \in Topics : Subscribe(t) \/ Release(t)
    BY <2>1 DEF Subscribe, Release
  <2>2. CASE Reconnect \/ Close
    BY <2>2 DEF Reconnect, Close
  <2>3. CASE Sync
    BY <2>3 DEF ManagerInv, TypeOK, Sync
  <2>4. CASE \E l \in Loops : Progress(l) \/ Reject(l) \/ TryLater(l) \/ Drop(l)
    <3>1. PICK l \in Loops : Progress(l) \/ Reject(l) \/ TryLater(l) \/ Drop(l)
      BY <2>4
    <3>2. \E pc \in {"reading", "sleeping", "rejected", "ended"} : Goto(l, pc)
      BY <3>1 DEF Progress, Stop, Accept, Reject, TryLater, Drop, Wake, StillWanted
    <3> QED
      BY <2>0, <3>2 DEF Goto
  <2> QED
    BY <2>1, <2>2, <2>3, <2>4 DEF Next
<1> QED
  BY <1>1, AlwaysManagerInv, PTL DEF Spec, NoDialAfterClose
=============================================================================
