--------------------------- MODULE HubCoreProofs ---------------------------
(***************************************************************************)
(* Theorems about HubCore, for every set of topics, keys and frame sizes,  *)
(* every byte budget and every limit; and that the Rust core is, to        *)
(* whoever drives it, the TypeScript one.                                  *)
(***************************************************************************)
EXTENDS TwoCores, HubRingProofs

LEMMA RingInvImpliesEcho == RingInv => EchoIsComplete
<1> SUFFICES ASSUME RingInv, NEW c \in ModelIds, NEW T \in SUBSET Topics, ~Truncated(c)
             PROVE  {e \in accepted : Before(c, e.id) /\ e.topic \in T} \subseteq Replayed(c, T)
  BY DEF EchoIsComplete
<1>1. c \in EventId
  BY RingAssumption DEF ModelIds, EventId
<1> QED
  BY <1>1, EchoIsSound

LEMMA RingInvImpliesHonest == RingInv => AlarmsAreHonest
<1> SUFFICES ASSUME RingInv, NEW c \in ModelIds, EvictedPast(c)
             PROVE  \E id \in evicted : Before(c, id)
  BY DEF AlarmsAreHonest, Truncated
<1>1. c \in EventId
  BY RingAssumption DEF ModelIds, EventId
<1>2. lastTrimmed # NoId
  BY <1>1, IdOrder DEF EvictedPast
<1> QED
  BY <1>2 DEF EvictedPast, RingInv

-----------------------------------------------------------------------------
(* The registry.                                                           *)

RegInv == RegistryTypeOK /\ IndexesAgree

LEMMA LiveIsFinite ==
  ASSUME RegistryTypeOK
  PROVE  IsFiniteSet(Live) /\ nextSub \notin Live
<1>1. Live \subseteq 1..(nextSub - 1) /\ nextSub \in Nat
  BY DEF RegistryTypeOK
<1>2. IsFiniteSet(1..(nextSub - 1))
  BY <1>1, FS_Interval
<1>3. IsFiniteSet(Live)
  BY <1>1, <1>2, FS_Subset
<1>4. nextSub \notin 1..(nextSub - 1)
  BY <1>1
<1> QED
  BY <1>1, <1>3, <1>4

LEMMA RegistryInitInv == RegistryInit => RegInv
<1> SUFFICES ASSUME RegistryInit PROVE RegInv
  OBVIOUS
<1>1. DOMAIN subs = {} /\ DOMAIN byTopic = {} /\ DOMAIN byKey = {}
  BY DEF RegistryInit
<1>2. RegistryTypeOK
  BY <1>1 DEF RegistryInit, RegistryTypeOK, Live
<1>3. IndexesAgree
  BY <1>1 DEF IndexesAgree, Live
<1> QED
  BY <1>2, <1>3 DEF RegInv

LEMMA RegistryStutterInv ==
  ASSUME RegInv, UNCHANGED regVars
  PROVE  RegInv'
  BY DEF RegInv, RegistryTypeOK, IndexesAgree, regVars, Live

(* A publish reaches exactly the subscribers of its topic. *)
LEMMA TargetsAreSubscribers ==
  ASSUME RegInv, NEW t \in Topics, NEW s \in Live
  PROVE  s \in Wanting(t) <=> t \in subs[s].topics
  BY DEF RegInv, IndexesAgree, Wanting

LEMMA RegistryAddInv ==
  ASSUME RegInv, NEW asked \in Requests, NEW k \in Keys \cup {NoKey},
         AddSubscriber(asked, k)
  PROVE  /\ RegInv'
         /\ Live' = Live \cup {nextSub}
         /\ subs'[nextSub].topics = Listed(asked)
         /\ \A s \in Live : subs'[s] = subs[s]
<1> DEFINE id == nextSub
           unique == Listed(asked)
           OfKey(x) == {s \in Live : subs[s].key = x}
<1>1. /\ RegistryTypeOK /\ IndexesAgree
      /\ id \in Nat \ {0} /\ id \notin Live /\ IsFiniteSet(Live)
  BY LiveIsFinite DEF RegInv, RegistryTypeOK
<1>2. unique \subseteq Topics
  BY DEF Listed, Requests
<1>3. /\ Live' = Live \cup {id}
      /\ subs'[id] = [topics |-> unique, key |-> k, queued |-> 0]
      /\ \A s \in Live : subs'[s] = subs[s]
      /\ nextSub' = id + 1
  BY <1>1 DEF AddSubscriber, Live
<1>4. /\ DOMAIN byTopic' = DOMAIN byTopic \cup unique
      /\ \A t \in unique : byTopic'[t] = Wanting(t) \cup {id}
      /\ \A t \in DOMAIN byTopic \ unique : byTopic'[t] = byTopic[t]
      /\ byTopic' \in [DOMAIN byTopic' -> SUBSET Live']
  <2>1. /\ DOMAIN byTopic' = DOMAIN byTopic \cup unique
        /\ \A t \in unique : byTopic'[t] = Wanting(t) \cup {id}
        /\ \A t \in DOMAIN byTopic \ unique : byTopic'[t] = byTopic[t]
        /\ byTopic' = [t \in DOMAIN byTopic' |-> byTopic'[t]]
    BY DEF AddSubscriber
  <2>2. \A t \in DOMAIN byTopic' : byTopic'[t] \subseteq Live'
    BY <1>1, <1>3, <2>1 DEF Wanting, RegistryTypeOK
  <2> QED
    BY <2>1, <2>2
<1>5. /\ nextSub' \in Nat \ {0}
      /\ Live' \subseteq 1..(nextSub' - 1)
      /\ subs' \in [Live' -> [topics : SUBSET Topics, key : Keys \cup {NoKey}, queued : 0..MaxQueued]]
  <2>1. Live \subseteq 1..(id - 1)
    BY <1>1 DEF RegistryTypeOK
  <2>2. [topics |-> unique, key |-> k, queued |-> 0]
           \in [topics : SUBSET Topics, key : Keys \cup {NoKey}, queued : 0..MaxQueued]
    BY <1>2, RegistryAssumption
  <2>3. subs' = [s \in Live' |-> subs'[s]]
    BY DEF AddSubscriber, Live
  <2>4. \A s \in Live' : subs'[s] \in [topics : SUBSET Topics, key : Keys \cup {NoKey}, queued : 0..MaxQueued]
    BY <1>1, <1>3, <2>2 DEF RegistryTypeOK
  <2> QED
    BY <1>1, <1>3, <2>1, <2>3, <2>4
<1>6. \A x \in Keys : /\ CountForKey(x) = Cardinality(OfKey(x))
                      /\ CountForKey(x) \in Nat
                      /\ IsFiniteSet(OfKey(x))
                      /\ x \notin DOMAIN byKey => OfKey(x) = {}
  <2> SUFFICES ASSUME NEW x \in Keys
               PROVE  /\ CountForKey(x) = Cardinality(OfKey(x))
                      /\ CountForKey(x) \in Nat
                      /\ IsFiniteSet(OfKey(x))
                      /\ x \notin DOMAIN byKey => OfKey(x) = {}
    OBVIOUS
  <2>1. IsFiniteSet(OfKey(x))
    BY <1>1, FS_Subset
  <2>2. x \notin DOMAIN byKey => OfKey(x) = {}
    BY <1>1, RegistryAssumption DEF IndexesAgree
  <2>3. CASE x \in DOMAIN byKey
    BY <1>1, <2>1, <2>3 DEF CountForKey, IndexesAgree, RegistryTypeOK
  <2>4. CASE x \notin DOMAIN byKey
    BY <2>1, <2>2, <2>4, FS_EmptySet DEF CountForKey
  <2> QED
    BY <2>1, <2>2, <2>3, <2>4
<1>7. \A x \in Keys : {s \in Live' : subs'[s].key = x} =
                       IF x = k THEN OfKey(x) \cup {id} ELSE OfKey(x)
  BY <1>1, <1>3
<1>8. {subs'[s].key : s \in Live'} = {subs[s].key : s \in Live} \cup {k}
  BY <1>1, <1>3
<1>9a. /\ \A x : id \notin OfKey(x)
      /\ \A x \in DOMAIN byKey : /\ x \in Keys
                                 /\ byKey[x] \in Nat \ {0}
                                 /\ byKey[x] = Cardinality(OfKey(x))
  BY <1>1 DEF IndexesAgree, RegistryTypeOK
<1> HIDE DEF OfKey
<1>9. /\ byKey' \in [DOMAIN byKey' -> Nat \ {0}]
      /\ DOMAIN byKey' \subseteq Keys
      /\ DOMAIN byKey' = {subs'[s].key : s \in Live'} \ {NoKey}
      /\ \A x \in DOMAIN byKey' : byKey'[x] = Cardinality({s \in Live' : subs'[s].key = x})
  <2>1. CASE k = NoKey
    <3>1. byKey' = byKey
      BY <2>1 DEF AddSubscriber
    <3>2. \A x \in DOMAIN byKey : x \in Keys /\ x # k /\ byKey[x] = Cardinality(OfKey(x))
      BY <1>9a, <2>1, RegistryAssumption
    <3>3. DOMAIN byKey = {subs[s].key : s \in Live} \ {NoKey}
      BY <1>1 DEF IndexesAgree
    <3>4. \A x \in DOMAIN byKey : {s \in Live' : subs'[s].key = x} = OfKey(x)
      BY <1>7, <3>2
    <3>5. {subs'[s].key : s \in Live'} \ {NoKey} = {subs[s].key : s \in Live} \ {NoKey}
      BY <1>8, <2>1
    <3>6. byKey \in [DOMAIN byKey -> Nat \ {0}] /\ DOMAIN byKey \subseteq Keys
      BY <1>1 DEF RegistryTypeOK
    <3>7. \A x \in DOMAIN byKey' : byKey'[x] = Cardinality({s \in Live' : subs'[s].key = x})
      BY <3>1, <3>2, <3>4
    <3>8. byKey' \in [DOMAIN byKey' -> Nat \ {0}] /\ DOMAIN byKey' \subseteq Keys
      BY <3>1, <3>6
    <3>9. DOMAIN byKey' = {subs'[s].key : s \in Live'} \ {NoKey}
      BY <3>1, <3>3, <3>5
    <3> QED
      BY <3>7, <3>8, <3>9
  <2>2. CASE k \in Keys
    <3>1. byKey' = [x \in DOMAIN byKey \cup {k} |->
                      IF x = k THEN CountForKey(k) + 1 ELSE byKey[x]]
      BY <2>2, RegistryAssumption DEF AddSubscriber
    <3>2. Cardinality(OfKey(k) \cup {id}) = CountForKey(k) + 1
      <4>1. id \notin OfKey(k) /\ IsFiniteSet(OfKey(k)) /\ CountForKey(k) = Cardinality(OfKey(k))
        BY <1>6, <1>9a, <2>2
      <4> QED
        BY <4>1, FS_AddElement
    <3>3. \A x \in DOMAIN byKey : x \in Keys /\ byKey[x] = Cardinality(OfKey(x)) /\ byKey[x] \in Nat \ {0}
      BY <1>9a
    <3>4. DOMAIN byKey = {subs[s].key : s \in Live} \ {NoKey}
      BY <1>1 DEF IndexesAgree
    <3>5. \A x \in DOMAIN byKey' : byKey'[x] = Cardinality({s \in Live' : subs'[s].key = x})
      <4> SUFFICES ASSUME NEW x \in DOMAIN byKey'
                   PROVE  byKey'[x] = Cardinality({s \in Live' : subs'[s].key = x})
        OBVIOUS
      <4>1. CASE x = k
        <5>1. {s \in Live' : subs'[s].key = k} = OfKey(k) \cup {id}
          BY <1>7, <2>2
        <5> QED
          BY <2>2, <3>1, <3>2, <4>1, <5>1
      <4>2. CASE x # k
        <5>1. x \in DOMAIN byKey
          BY <3>1, <4>2
        <5>2. {s \in Live' : subs'[s].key = x} = OfKey(x)
          BY <1>7, <3>3, <4>2, <5>1
        <5> QED
          BY <3>1, <3>3, <4>2, <5>1, <5>2
      <4> QED
        BY <4>1, <4>2
    <3>6. \A x \in DOMAIN byKey' : byKey'[x] \in Nat \ {0} /\ x \in Keys
      <4>1. CountForKey(k) + 1 \in Nat \ {0}
        BY <1>6, <2>2
      <4>2. \A x \in DOMAIN byKey : x \in Keys /\ byKey[x] \in Nat \ {0}
        BY <3>3
      <4> QED
        BY <2>2, <3>1, <4>1, <4>2
    <3>7. byKey' \in [DOMAIN byKey' -> Nat \ {0}]
      <4>1. byKey' = [x \in DOMAIN byKey' |-> byKey'[x]]
        BY <3>1
      <4> QED
        BY <3>6, <4>1
    <3>8. DOMAIN byKey' = {subs'[s].key : s \in Live'} \ {NoKey}
      BY <1>8, <2>2, <3>1, <3>4, RegistryAssumption
    <3> QED
      BY <3>5, <3>6, <3>7, <3>8
  <2> QED
    BY <2>1, <2>2
<1>10. /\ DOMAIN byTopic' = UNION {subs'[s].topics : s \in Live'}
       /\ \A t \in DOMAIN byTopic' : byTopic'[t] = {s \in Live' : t \in subs'[s].topics}
  <2>1. /\ DOMAIN byTopic = UNION {subs[s].topics : s \in Live}
        /\ \A t \in DOMAIN byTopic : byTopic[t] = {s \in Live : t \in subs[s].topics}
    BY <1>1 DEF IndexesAgree
  <2>2. DOMAIN byTopic' = UNION {subs'[s].topics : s \in Live'}
    BY <1>1, <1>3, <1>4, <2>1
  <2>3. \A t \in DOMAIN byTopic' : byTopic'[t] = {s \in Live' : t \in subs'[s].topics}
    <3> SUFFICES ASSUME NEW t \in DOMAIN byTopic'
                 PROVE  byTopic'[t] = {s \in Live' : t \in subs'[s].topics}
      OBVIOUS
    <3>1. Wanting(t) = {s \in Live : t \in subs[s].topics}
      BY <2>1 DEF Wanting
    <3>2. {s \in Live' : t \in subs'[s].topics} =
            {s \in Live : t \in subs[s].topics} \cup (IF t \in unique THEN {id} ELSE {})
      BY <1>1, <1>3
    <3> QED
      BY <1>4, <2>1, <3>1, <3>2
  <2> QED
    BY <2>2, <2>3
<1>11. DOMAIN byTopic' \subseteq Topics
  BY <1>1, <1>2, <1>4 DEF RegistryTypeOK
<1>12. RegistryTypeOK'
  BY <1>4, <1>5, <1>9, <1>11 DEF RegistryTypeOK
<1>13. IndexesAgree'
  BY <1>9, <1>10 DEF IndexesAgree
<1> QED
  BY <1>3, <1>12, <1>13 DEF RegInv

LEMMA RegistryRemoveInv ==
  ASSUME RegInv, NEW id \in Live, RemoveSubscriber(id)
  PROVE  /\ RegInv'
         /\ Live' = Live \ {id}
         /\ \A s \in Live' : subs'[s] = subs[s]
<1> DEFINE k == subs[id].key
           gone == subs[id].topics
           emptied == {t \in gone : Wanting(t) \subseteq {id}}
           OfKey(x) == {s \in Live : subs[s].key = x}
<1>1. /\ RegistryTypeOK /\ IndexesAgree /\ IsFiniteSet(Live)
      /\ k \in Keys \cup {NoKey}
  BY LiveIsFinite DEF RegInv, RegistryTypeOK
<1>2. /\ Live' = Live \ {id}
      /\ subs' = [s \in Live' |-> subs[s]]
      /\ \A s \in Live' : subs'[s] = subs[s]
      /\ nextSub' = nextSub
  BY DEF RemoveSubscriber, Live
<1>3. \A t \in gone : t \in DOMAIN byTopic /\ Wanting(t) = byTopic[t]
  BY <1>1 DEF IndexesAgree, Wanting
<1>4. /\ DOMAIN byTopic = UNION {subs[s].topics : s \in Live}
      /\ \A t \in DOMAIN byTopic : byTopic[t] = {s \in Live : t \in subs[s].topics}
  BY <1>1 DEF IndexesAgree
<1>5. /\ DOMAIN byTopic' = DOMAIN byTopic \ emptied
      /\ byTopic' = [t \in DOMAIN byTopic' |-> byTopic'[t]]
      /\ \A t \in DOMAIN byTopic' : byTopic'[t] = IF t \in gone THEN byTopic[t] \ {id} ELSE byTopic[t]
  BY DEF RemoveSubscriber, Unindex
<1>6. \A t \in DOMAIN byTopic' : byTopic'[t] = {s \in Live' : t \in subs'[s].topics}
  <2> SUFFICES ASSUME NEW t \in DOMAIN byTopic'
               PROVE  byTopic'[t] = {s \in Live' : t \in subs'[s].topics}
    OBVIOUS
  <2>1. {s \in Live' : t \in subs'[s].topics} = {s \in Live : t \in subs[s].topics} \ {id}
    BY <1>2
  <2>2. id \in byTopic[t] => t \in gone
    BY <1>4, <1>5
  <2> QED
    BY <1>4, <1>5, <2>1, <2>2
<1>7. DOMAIN byTopic' = UNION {subs'[s].topics : s \in Live'}
  <2>1. ASSUME NEW t \in DOMAIN byTopic'
        PROVE  \E s \in Live' : t \in subs'[s].topics
    <3>1. CASE t \in gone
      <4>1. PICK s \in byTopic[t] : s # id
        BY <1>3, <1>5, <3>1
      <4> QED
        BY <1>2, <1>4, <1>5, <4>1
    <3>2. CASE t \notin gone
      BY <1>2, <1>4, <1>5, <3>2
    <3> QED
      BY <3>1, <3>2
  <2>2. ASSUME NEW s \in Live', NEW t \in subs'[s].topics
        PROVE  t \in DOMAIN byTopic'
    <3>1. t \in DOMAIN byTopic /\ s \in byTopic[t] /\ s # id
      BY <1>2, <1>4
    <3> QED
      BY <1>3, <1>5, <3>1
  <2> QED
    BY <2>1, <2>2
<1>8. /\ byTopic' \in [DOMAIN byTopic' -> SUBSET Live']
      /\ DOMAIN byTopic' \subseteq Topics
  BY <1>1, <1>5, <1>6 DEF RegistryTypeOK
<1>9. /\ nextSub' \in Nat \ {0}
      /\ Live' \subseteq 1..(nextSub' - 1)
      /\ subs' \in [Live' -> [topics : SUBSET Topics, key : Keys \cup {NoKey}, queued : 0..MaxQueued]]
  BY <1>1, <1>2 DEF RegistryTypeOK
<1>10. \A x : {s \in Live' : subs'[s].key = x} = OfKey(x) \ {id}
  BY <1>2
<1>11. /\ \A x : IsFiniteSet(OfKey(x))
       /\ \A x \in DOMAIN byKey : /\ x \in Keys
                                  /\ byKey[x] \in Nat \ {0}
                                  /\ byKey[x] = Cardinality(OfKey(x))
       /\ \A x : x \in DOMAIN byKey <=> x # NoKey /\ OfKey(x) # {}
  <2>1. \A x : IsFiniteSet(OfKey(x))
    BY <1>1, FS_Subset
  <2> QED
    BY <1>1, <2>1 DEF IndexesAgree, RegistryTypeOK
<1>12. id \in OfKey(k) /\ \A x : x # k => OfKey(x) \ {id} = OfKey(x)
  OBVIOUS
<1>13. \A x : x \in {subs'[s].key : s \in Live'} <=> OfKey(x) \ {id} # {}
  BY <1>2
<1> HIDE DEF OfKey
<1>14. CASE k = NoKey
  <2>1. byKey' = byKey
    BY <1>14 DEF RemoveSubscriber, ReleaseKey
  <2>2. \A x \in DOMAIN byKey' : byKey'[x] = Cardinality({s \in Live' : subs'[s].key = x})
    BY <1>10, <1>11, <1>12, <1>14, <2>1
  <2>3. DOMAIN byKey' = {subs'[s].key : s \in Live'} \ {NoKey}
    BY <1>11, <1>12, <1>13, <1>14, <2>1
  <2>4. byKey' \in [DOMAIN byKey' -> Nat \ {0}] /\ DOMAIN byKey' \subseteq Keys
    BY <1>1, <2>1 DEF RegistryTypeOK
  <2> QED
    BY <1>6, <1>7, <1>8, <1>9, <1>2, <2>2, <2>3, <2>4 DEF RegInv, RegistryTypeOK, IndexesAgree
<1>15. CASE k # NoKey
  <2>1. k \in DOMAIN byKey /\ CountForKey(k) = byKey[k] /\ byKey[k] \in Nat \ {0}
    BY <1>11, <1>12, <1>15 DEF CountForKey
  <2>2. byKey[k] = Cardinality(OfKey(k)) /\ Cardinality(OfKey(k) \ {id}) = byKey[k] - 1
    <3>1. byKey[k] = Cardinality(OfKey(k)) /\ IsFiniteSet(OfKey(k)) /\ id \in OfKey(k)
      BY <1>11, <1>12, <2>1
    <3> QED
      BY <3>1, FS_RemoveElement
  <2>3. IsFiniteSet(OfKey(k) \ {id})
    BY <1>11, FS_RemoveElement
  <2>4. CASE byKey[k] = 1
    <3>1. byKey' = [x \in DOMAIN byKey \ {k} |-> byKey[x]]
      BY <1>15, <2>1, <2>4 DEF RemoveSubscriber, ReleaseKey
    <3>2. OfKey(k) \ {id} = {}
      BY <2>2, <2>3, <2>4, FS_EmptySet
    <3>3. \A x \in DOMAIN byKey' : byKey'[x] = Cardinality({s \in Live' : subs'[s].key = x})
      BY <1>10, <1>11, <1>12, <3>1
    <3>4. DOMAIN byKey' = {subs'[s].key : s \in Live'} \ {NoKey}
      BY <1>11, <1>12, <1>13, <1>15, <3>1, <3>2
    <3>5. byKey' \in [DOMAIN byKey' -> Nat \ {0}] /\ DOMAIN byKey' \subseteq Keys
      BY <1>11, <3>1
    <3> QED
      BY <1>6, <1>7, <1>8, <1>9, <1>2, <3>3, <3>4, <3>5 DEF RegInv, RegistryTypeOK, IndexesAgree
  <2>5. CASE byKey[k] # 1
    <3>1. byKey' = [byKey EXCEPT ![k] = byKey[k] - 1]
      BY <1>15, <2>1, <2>5 DEF RemoveSubscriber, ReleaseKey
    <3>2. OfKey(k) \ {id} # {}
      <4>1. Cardinality(OfKey(k) \ {id}) # 0
        BY <2>1, <2>2, <2>5
      <4> QED
        BY <2>3, <4>1, FS_EmptySet
    <3>3. byKey' \in [DOMAIN byKey' -> Nat \ {0}] /\ DOMAIN byKey' = DOMAIN byKey
      BY <1>1, <2>1, <2>5, <3>1 DEF RegistryTypeOK
    <3>4. \A x \in DOMAIN byKey' : byKey'[x] = Cardinality({s \in Live' : subs'[s].key = x})
      <4>1. \A x \in DOMAIN byKey' : byKey'[x] = Cardinality(OfKey(x) \ {id})
        <5> SUFFICES ASSUME NEW x \in DOMAIN byKey
                     PROVE  byKey'[x] = Cardinality(OfKey(x) \ {id})
          BY <3>3
        <5>1. byKey'[x] = IF x = k THEN byKey[k] - 1 ELSE byKey[x]
          BY <1>1, <3>1 DEF RegistryTypeOK
        <5> QED
          BY <1>11, <1>12, <2>2, <5>1
      <4> QED
        BY <1>10, <4>1
    <3>5. DOMAIN byKey' = {subs'[s].key : s \in Live'} \ {NoKey}
      BY <1>11, <1>12, <1>13, <1>15, <2>1, <3>2, <3>3
    <3>6. DOMAIN byKey' \subseteq Keys
      BY <1>11, <3>3
    <3> QED
      BY <1>6, <1>7, <1>8, <1>9, <1>2, <3>3, <3>4, <3>5, <3>6 DEF RegInv, RegistryTypeOK, IndexesAgree
  <2> QED
    BY <2>4, <2>5
<1> QED
  BY <1>2, <1>14, <1>15

(* A buffer note changes nothing but a queued count, and keeps it clamped. *)
LEMMA RegistryNoteInv ==
  ASSUME RegInv, NEW id \in Live, NEW n \in 0..MaxQueued, Note(id, n)
  PROVE  /\ RegInv'
         /\ Live' = Live
         /\ \A s \in Live : subs'[s].topics = subs[s].topics
<1>1. RegistryTypeOK /\ IndexesAgree
  BY DEF RegInv
<1>2. subs[id].queued \in 0..MaxQueued /\ MaxQueued \in Nat
  BY <1>1, RegistryAssumption DEF RegistryTypeOK
<1>3. PICK q \in 0..MaxQueued : SetQueued(id, q)
  <2>1. CASE NoteBuffer(id, n)
    BY <2>1 DEF NoteBuffer
  <2>2. CASE NoteSent(id, n)
    <3>1. (IF subs[id].queued + n > MaxQueued THEN MaxQueued ELSE subs[id].queued + n) \in 0..MaxQueued
      BY <1>2
    <3> QED
      BY <2>2, <3>1 DEF NoteSent
  <2>3. CASE NoteFlushed(id, n)
    <3>1. (IF subs[id].queued < n THEN 0 ELSE subs[id].queued - n) \in 0..MaxQueued
      BY <1>2
    <3> QED
      BY <2>3, <3>1 DEF NoteFlushed
  <2> QED
    BY <2>1, <2>2, <2>3 DEF Note
<1>4. /\ UNCHANGED <<nextSub, byTopic, byKey>>
      /\ Live' = Live
      /\ \A s \in Live : subs'[s].topics = subs[s].topics /\ subs'[s].key = subs[s].key
      /\ subs' \in [Live -> [topics : SUBSET Topics, key : Keys \cup {NoKey}, queued : 0..MaxQueued]]
  BY <1>1, <1>3 DEF SetQueued, RegistryTypeOK, Live
<1>5. RegistryTypeOK'
  BY <1>1, <1>4 DEF RegistryTypeOK
<1>6. /\ {subs'[s].key : s \in Live'} = {subs[s].key : s \in Live}
      /\ UNION {subs'[s].topics : s \in Live'} = UNION {subs[s].topics : s \in Live}
      /\ \A x : {s \in Live' : subs'[s].key = x} = {s \in Live : subs[s].key = x}
      /\ \A t : {s \in Live' : t \in subs'[s].topics} = {s \in Live : t \in subs[s].topics}
  BY <1>4
<1>7. IndexesAgree'
  BY <1>1, <1>4, <1>6 DEF IndexesAgree
<1> QED
  BY <1>4, <1>5, <1>7 DEF RegInv

-----------------------------------------------------------------------------
(* The two together.                                                       *)

CoreInv == CoreTypeOK /\ HandedInFull

IInv == RingInv /\ RegInv /\ CoreInv

LEMMA InitIInv == Init => IInv
<1> SUFFICES ASSUME Init PROVE IInv
  OBVIOUS
<1>1. RingInv /\ RegInv
  BY RingInitInv, RegistryInitInv DEF Init
<1>2. DOMAIN subs = {}
  BY DEF Init, RegistryInit
<1>3. CoreInv
  BY <1>2 DEF Init, CoreInv, CoreTypeOK, HandedInFull, Live
<1> QED
  BY <1>1, <1>3 DEF IInv

LEMMA AppendedIInv ==
  ASSUME IInv, NEW e \in Entry, Appended(e)
  PROVE  IInv'
<1>1. RingInv'
  BY RingAppendInv DEF IInv, Appended
<1>2. RegInv' /\ Live' = Live /\ subs' = subs
  BY RegistryStutterInv DEF IInv, Appended, regVars, Live
<1>3. accepted' = accepted \cup {e} /\ forgone' = forgone
  BY DEF Appended, AppendEvent
<1>4. handed' = [s \in Live |-> IF s \in Wanting(e.topic) THEN handed[s] \cup {e} ELSE handed[s]]
  BY DEF Appended, HandToTargets
<1>5. \A s \in Live : s \in Wanting(e.topic) <=> e.topic \in subs[s].topics
  BY TargetsAreSubscribers DEF IInv, Entry
<1>6. CoreTypeOK'
  BY <1>2, <1>3, <1>4 DEF IInv, CoreInv, CoreTypeOK
<1>7. HandedInFull'
  BY <1>2, <1>3, <1>4, <1>5 DEF IInv, CoreInv, HandedInFull, Owed
<1> QED
  BY <1>1, <1>2, <1>6, <1>7 DEF IInv, CoreInv

LEMMA SubscribeIInv ==
  ASSUME IInv, NEW asked \in Requests, NEW k \in Keys \cup {NoKey}, NEW c \in Cursors,
         Subscribe(asked, k, c)
  PROVE  IInv'
<1> DEFINE T == Listed(asked)
<1>0. PICK id : id = nextSub
  OBVIOUS
<1>1. RingInv' /\ accepted' = accepted
  BY RingStutterInv DEF IInv, Subscribe, ringVars
<1>2. /\ RegInv'
      /\ Live' = Live \cup {id}
      /\ subs'[id].topics = T
      /\ \A s \in Live : subs'[s] = subs[s]
      /\ id \notin Live
  BY <1>0, RegistryAddInv, LiveIsFinite DEF IInv, Subscribe, RegInv
<1>3. /\ forgone' = [s \in Live' |-> forgone'[s]]
      /\ handed' = [s \in Live' |-> handed'[s]]
      /\ handed'[id] = Replayed(c, T)
      /\ \A s \in Live : handed'[s] = handed[s] /\ forgone'[s] = forgone[s]
      /\ forgone'[id] = IF Checkpoint(c) = "echo" THEN {e \in accepted : ~Before(c, e.id)} ELSE accepted
  BY <1>0, <1>2 DEF Subscribe
<1>4. /\ Replayed(c, T) \subseteq Entry
      /\ \A e \in Replayed(c, T) : e.topic \in T
  BY ElementOfSeq DEF IInv, RingInv, RingTypeOK, Replayed, Replay
<1>5. CoreTypeOK'
  <2>1. \A s \in Live' : handed'[s] \subseteq Entry /\ forgone'[s] \subseteq Entry
    BY <1>2, <1>3, <1>4 DEF IInv, CoreInv, CoreTypeOK, RingInv, RingTypeOK
  <2> QED
    BY <1>3, <2>1 DEF CoreTypeOK
<1>6. \A s \in Live : Owed(s)' = Owed(s)
  BY <1>1, <1>2, <1>3 DEF Owed
<1>7. Owed(id)' \subseteq handed'[id]
  <2>1. Owed(id)' = {e \in accepted \ forgone'[id] : e.topic \in T}
    BY <1>1, <1>2 DEF Owed
  <2>2. CASE Checkpoint(c) # "echo"
    BY <1>3, <2>1, <2>2
  <2>3. CASE Checkpoint(c) = "echo"
    <3>1. c \in EventId /\ ~Truncated(c)
      BY <2>3, RingAssumption DEF Checkpoint, Cursors, ModelIds, EventId
    <3>2. {e \in accepted : Before(c, e.id) /\ e.topic \in T} \subseteq Replayed(c, T)
      BY <3>1, EchoIsSound DEF IInv
    <3> QED
      BY <1>3, <2>1, <2>3, <3>2
  <2> QED
    BY <2>2, <2>3
<1>8. HandedInFull'
  BY <1>2, <1>3, <1>4, <1>6, <1>7 DEF IInv, CoreInv, HandedInFull
<1> QED
  BY <1>1, <1>2, <1>5, <1>8 DEF IInv, CoreInv

LEMMA RemoveIInv ==
  ASSUME IInv, NEW id \in Live, Remove(id)
  PROVE  IInv'
<1>1. RingInv' /\ accepted' = accepted
  BY RingStutterInv DEF IInv, Remove, ringVars
<1>2. RegInv' /\ Live' = Live \ {id} /\ \A s \in Live' : subs'[s] = subs[s]
  BY RegistryRemoveInv DEF IInv, Remove
<1>3. /\ forgone' = [s \in Live' |-> forgone[s]]
      /\ handed' = [s \in Live' |-> handed[s]]
  BY <1>2 DEF Remove
<1>4. CoreInv'
  BY <1>1, <1>2, <1>3 DEF IInv, CoreInv, CoreTypeOK, HandedInFull, Owed
<1> QED
  BY <1>1, <1>2, <1>4 DEF IInv

LEMMA NoteIInv ==
  ASSUME IInv, NEW id \in Live, NEW n \in 0..MaxQueued, Note(id, n)
  PROVE  IInv'
<1>1. RingInv' /\ accepted' = accepted
  BY RingStutterInv DEF IInv, Note, ringVars
<1>2. RegInv' /\ Live' = Live /\ \A s \in Live : subs'[s].topics = subs[s].topics
  BY RegistryNoteInv DEF IInv
<1>3. forgone' = forgone /\ handed' = handed
  BY DEF Note, coreVars
<1>4. CoreInv'
  BY <1>1, <1>2, <1>3 DEF IInv, CoreInv, CoreTypeOK, HandedInFull, Owed
<1> QED
  BY <1>1, <1>2, <1>4 DEF IInv

LEMMA NextIInv == IInv /\ [Next]_vars => IInv'
<1> SUFFICES ASSUME IInv, [Next]_vars PROVE IInv'
  OBVIOUS
<1>1. CASE \E now \in 0..MaxMs, t \in Topics, n \in Sizes, o \in Origins : Publish(now, t, n, o)
  BY <1>1, MintedIsFresh, AppendedIInv DEF Publish, IInv
<1>2. CASE \E id \in ModelIds, t \in Topics, n \in Sizes, o \in Origins : AppendAssigned(id, t, n, o)
  <2>1. ASSUME NEW id \in ModelIds, NEW t \in Topics, NEW n \in Sizes, NEW o \in Origins
        PROVE  [id |-> id, topic |-> t, size |-> n, origin |-> o] \in Entry
    BY RingAssumption DEF ModelIds, EventId, Entry
  <2> QED
    BY <1>2, <2>1, AppendedIInv DEF AppendAssigned
<1>3. CASE \E asked \in Requests, k \in Keys \cup {NoKey}, c \in Cursors : Subscribe(asked, k, c)
  BY <1>3, SubscribeIInv
<1>4. CASE \E id \in Live : Remove(id)
  BY <1>4, RemoveIInv
<1>5. CASE \E id \in Noted, n \in 0..MaxQueued : Note(id, n)
  BY <1>5, NoteIInv DEF Noted
<1>6. CASE UNCHANGED vars
  <2>1. RingInv' /\ RegInv'
    BY <1>6, RingStutterInv, RegistryStutterInv DEF vars, IInv
  <2>2. CoreInv'
    BY <1>6 DEF vars, IInv, CoreInv, CoreTypeOK, HandedInFull, Owed, ringVars, regVars, coreVars, Live
  <2> QED
    BY <2>1, <2>2 DEF IInv
<1> QED
  BY <1>1, <1>2, <1>3, <1>4, <1>5, <1>6 DEF Next

LEMMA AlwaysIInv == Spec => []IInv
  BY InitIInv, NextIInv, PTL DEF Spec

-----------------------------------------------------------------------------
(* Every variable of the core always has its type.                         *)
THEOREM TypeCorrect == Spec => []TypeOK
<1>1. IInv => TypeOK
  BY DEF IInv, RingInv, RegInv, CoreInv, TypeOK
<1> QED
  BY <1>1, AlwaysIInv, PTL

(* The bytes counted as entries come and go are those of the ring, and the *)
(* budget is kept, whatever the sizes and however much one append evicts.  *)
LEMMA BudgetIsInductive == IInv /\ RingWithinBudget /\ [Next]_vars => RingWithinBudget'
<1> SUFFICES ASSUME IInv, RingWithinBudget, [Next]_vars PROVE RingWithinBudget'
  OBVIOUS
<1>1. history \in Seq(Entry) /\ Fitting
  BY DEF IInv, RingInv, RingTypeOK, RingWithinBudget, Fitting
<1>2. ASSUME NEW e \in Entry, AppendEvent(e) PROVE RingWithinBudget'
  <2>1. Fitting'
    BY <1>1, <1>2, AppendStaysFitting
  <2> QED
    BY <2>1 DEF Fitting, RingWithinBudget
<1>3. ASSUME UNCHANGED ringVars PROVE RingWithinBudget'
  BY <1>3 DEF ringVars, RingWithinBudget
<1>4. CASE \E now \in 0..MaxMs, t \in Topics, n \in Sizes, o \in Origins : Publish(now, t, n, o)
  BY <1>2, <1>4, MintedIsFresh DEF Publish, Appended, IInv
<1>5. CASE \E id \in ModelIds, t \in Topics, n \in Sizes, o \in Origins : AppendAssigned(id, t, n, o)
  <2>1. ASSUME NEW id \in ModelIds, NEW t \in Topics, NEW n \in Sizes, NEW o \in Origins
        PROVE  [id |-> id, topic |-> t, size |-> n, origin |-> o] \in Entry
    BY RingAssumption DEF ModelIds, EventId, Entry
  <2> QED
    BY <1>2, <1>5, <2>1 DEF AppendAssigned, Appended
<1>6. CASE \E asked \in Requests, k \in Keys \cup {NoKey}, c \in Cursors : Subscribe(asked, k, c)
  BY <1>3, <1>6 DEF Subscribe
<1>7. CASE \E id \in Live : Remove(id)
  BY <1>3, <1>7 DEF Remove
<1>8. CASE \E id \in Noted, n \in 0..MaxQueued : Note(id, n)
  BY <1>3, <1>8 DEF Note, ringVars
<1>9. CASE UNCHANGED vars
  BY <1>3, <1>9 DEF vars, ringVars
<1> QED
  BY <1>4, <1>5, <1>6, <1>7, <1>8, <1>9 DEF Next

(* The ring never exceeds its byte budget, and the count that is kept      *)
(* incrementally is the sum of the frames it holds.                        *)
THEOREM BudgetIsKept == Spec => []RingWithinBudget
<1>1. Init => RingWithinBudget
  BY WeightOfNone, RingAssumption DEF Init, RingInit, RingWithinBudget, RingAssumption
<1> QED
  BY <1>1, AlwaysIInv, BudgetIsInductive, PTL DEF Spec

(* An echoed cursor never hides a gap, in any ring of any budget.          *)
THEOREM NoSilentGap == Spec => []EchoIsComplete
<1>1. IInv => EchoIsComplete
  BY RingInvImpliesEcho DEF IInv
<1> QED
  BY <1>1, AlwaysIInv, PTL

(* A gap is never reported to a cursor that missed nothing.                *)
THEOREM NoFalseAlarm == Spec => []AlarmsAreHonest
<1>1. IInv => AlarmsAreHonest
  BY RingInvImpliesHonest DEF IInv
<1> QED
  BY <1>1, AlwaysIInv, PTL

(* The topic and key indexes always agree with the live subscribers.       *)
THEOREM IndexesAlwaysAgree == Spec => []IndexesAgree
<1>1. IInv => IndexesAgree
  BY DEF IInv, RegInv
<1> QED
  BY <1>1, AlwaysIInv, PTL

(* Registration, replay and live delivery leave no event out.              *)
THEOREM NothingSlipsBetween == Spec => []HandedInFull
<1>1. IInv => HandedInFull
  BY DEF IInv, CoreInv
<1> QED
  BY <1>1, AlwaysIInv, PTL

(* A publish never reuses an id or goes back, whatever the clock does.     *)
THEOREM IdsNeverGoBack == Spec => MintsAreFresh
<1> DEFINE Fresh == \A now \in 0..MaxMs, t \in Topics, n \in Sizes, o \in Origins :
                      Publish(now, t, n, o) =>
                        \E e \in accepted' : /\ accepted' = accepted \cup {e}
                                             /\ \A x \in accepted : Before(x.id, e.id)
<1>1. IInv => Fresh
  <2> SUFFICES ASSUME IInv, NEW now \in 0..MaxMs, NEW t \in Topics, NEW n \in Sizes, NEW o \in Origins,
                      Publish(now, t, n, o)
               PROVE  \E e \in accepted' : /\ accepted' = accepted \cup {e}
                                            /\ \A x \in accepted : Before(x.id, e.id)
    OBVIOUS
  <2>1. accepted' = accepted \cup {Minted(now, t, n, o)}
    BY DEF Publish, Appended, AppendEvent
  <2>2. \A x \in accepted : Before(x.id, Minted(now, t, n, o).id)
    BY MintedIsFresh DEF IInv
  <2> QED
    BY <2>1, <2>2
<1>2. IInv /\ [Next]_vars => [Fresh]_ringVars
  BY <1>1 DEF vars
<1>3. Spec => [][Fresh]_ringVars
  BY <1>2, AlwaysIInv, PTL DEF Spec
<1> QED
  BY <1>3 DEF MintsAreFresh

-----------------------------------------------------------------------------
(* The limits, which the indexes make it enough to test on admission.      *)
LEMMA ListedIsBounded ==
  ASSUME NEW n \in Nat \ {0}, NEW asked \in [1..n -> Topics]
  PROVE  Cardinality(Listed(asked)) \in 1..n
<1>1. asked \in Surjection(1..n, Listed(asked))
  BY DEF Listed, Surjection
<1>2. IsFiniteSet(1..n) /\ Cardinality(1..n) = n
  BY FS_Interval
<1>3. IsFiniteSet(Listed(asked)) /\ Cardinality(Listed(asked)) <= n
  BY <1>1, <1>2, FS_Surjection
<1>4. Listed(asked) # {}
  BY DEF Listed
<1>5. Cardinality(Listed(asked)) \in Nat /\ Cardinality(Listed(asked)) # 0
  BY <1>3, <1>4, FS_CardinalityType, FS_EmptySet
<1> QED
  BY <1>3, <1>5

OfKey(k) == {s \in Live : subs[s].key = k}

LEMMA KeysAreFinite ==
  ASSUME RegInv, NEW k \in Keys
  PROVE  /\ IsFiniteSet(OfKey(k)) /\ Cardinality(OfKey(k)) \in Nat
         /\ CountForKey(k) = Cardinality(OfKey(k))
<1>1. IsFiniteSet(Live) /\ OfKey(k) \in SUBSET Live
  BY LiveIsFinite DEF RegInv, OfKey
<1>2. IsFiniteSet(OfKey(k)) /\ Cardinality(OfKey(k)) \in Nat
  BY <1>1, FS_Subset, FS_CardinalityType
<1>3. CASE k \in DOMAIN byKey
  BY <1>2, <1>3 DEF RegInv, IndexesAgree, CountForKey, OfKey
<1>4. CASE k \notin DOMAIN byKey
  <2>1. OfKey(k) = {}
    BY <1>4, RegistryAssumption DEF RegInv, IndexesAgree, OfKey
  <2> QED
    BY <1>2, <1>4, <2>1, FS_EmptySet DEF CountForKey
<1> QED
  BY <1>2, <1>3, <1>4

(* Fewer subscribers, with the same keys and topics, are within the limits. *)
LEMMA FewerAreWithin ==
  ASSUME RegInv, LimitsHold, Live' \subseteq Live,
         \A s \in Live' : subs'[s].key = subs[s].key /\ subs'[s].topics = subs[s].topics
  PROVE  LimitsHold'
<1>1. IsFiniteSet(Live) /\ MaxConnections \in Nat /\ MaxPerKey \in Nat
  BY LiveIsFinite, RegistryAssumption DEF RegInv
<1>2. Cardinality(Live') <= MaxConnections
  <2>1. IsFiniteSet(Live') /\ Cardinality(Live') <= Cardinality(Live)
    BY <1>1, FS_Subset
  <2>2. Cardinality(Live') \in Nat /\ Cardinality(Live) \in Nat
    BY <1>1, <2>1, FS_CardinalityType
  <2> QED
    BY <1>1, <2>1, <2>2 DEF LimitsHold
<1>3. ASSUME NEW k \in Keys
      PROVE  Cardinality(OfKey(k)') <= MaxPerKey
  <2>1. OfKey(k)' \in SUBSET OfKey(k)
    BY DEF OfKey
  <2>2. IsFiniteSet(OfKey(k)') /\ Cardinality(OfKey(k)') <= Cardinality(OfKey(k))
    BY <2>1, KeysAreFinite, FS_Subset
  <2>3. Cardinality(OfKey(k)') \in Nat /\ Cardinality(OfKey(k)) \in Nat
    BY <2>2, KeysAreFinite, FS_CardinalityType
  <2>4. Cardinality(OfKey(k)) <= MaxPerKey
    BY DEF LimitsHold, OfKey
  <2> QED
    BY <1>1, <2>2, <2>3, <2>4
<1>4. \A s \in Live' : Cardinality(subs'[s].topics) \in 1..MaxTopics
  BY DEF LimitsHold
<1> QED
  BY <1>2, <1>3, <1>4 DEF LimitsHold, OfKey

LEMMA AdmittedIsWithin ==
  ASSUME RegInv, LimitsHold, NEW asked \in Requests, NEW k \in Keys \cup {NoKey},
         Admits(asked, k), AddSubscriber(asked, k)
  PROVE  LimitsHold'
<1>1. /\ IsFiniteSet(Live) /\ nextSub \notin Live
      /\ MaxConnections \in Nat /\ MaxPerKey \in Nat /\ MaxTopics \in Nat
  BY LiveIsFinite, RegistryAssumption DEF RegInv
<1>2. /\ Live' = Live \cup {nextSub}
      /\ subs'[nextSub].topics = Listed(asked) /\ subs'[nextSub].key = k
      /\ \A s \in Live : subs'[s] = subs[s]
  BY <1>1 DEF AddSubscriber, Live
<1>3. Cardinality(Live') <= MaxConnections
  <2>1. Cardinality(Live') = Cardinality(Live) + 1 /\ Cardinality(Live) \in Nat
    BY <1>1, <1>2, FS_AddElement, FS_CardinalityType
  <2> QED
    BY <1>1, <2>1 DEF Admits
<1>4. ASSUME NEW x \in Keys
      PROVE  Cardinality(OfKey(x)') <= MaxPerKey
  <2>1. CASE x # k
    <3>1. OfKey(x)' = OfKey(x)
      BY <1>1, <1>2, <2>1 DEF OfKey
    <3> QED
      BY <3>1 DEF LimitsHold, OfKey
  <2>2. CASE x = k
    <3>1. OfKey(x)' = OfKey(x) \cup {nextSub} /\ nextSub \notin OfKey(x)
      BY <1>1, <1>2, <2>2 DEF OfKey
    <3>2. Cardinality(OfKey(x)') = Cardinality(OfKey(x)) + 1
      BY <3>1, KeysAreFinite, FS_AddElement
    <3>3. CountForKey(x) < MaxPerKey
      BY <2>2, RegistryAssumption DEF Admits
    <3> QED
      BY <1>1, <3>2, <3>3, KeysAreFinite
  <2> QED
    BY <2>1, <2>2
<1>5. Cardinality(Listed(asked)) \in 1..MaxTopics
  <2>1. PICK n \in 0..MaxAsked : asked \in [1..n -> Topics]
    BY DEF Requests
  <2>2. n \in Nat /\ Len(asked) = n
    BY <2>1, BoundsAssumption
  <2>3. n \in 1..MaxTopics
    BY <2>2 DEF Admits
  <2>4. Cardinality(Listed(asked)) \in 1..n
    BY <1>1, <2>1, <2>2, <2>3, ListedIsBounded
  <2> QED
    BY <1>1, <2>3, <2>4
<1>6. \A s \in Live' : Cardinality(subs'[s].topics) \in 1..MaxTopics
  BY <1>2, <1>5 DEF LimitsHold
<1> QED
  BY <1>3, <1>4, <1>6 DEF LimitsHold, OfKey

LEMMA InitWithin == Init => LimitsHold
<1> SUFFICES ASSUME Init PROVE LimitsHold
  OBVIOUS
<1>1. Live = {}
  BY DEF Init, RegistryInit, Live
<1>2. \A k : {s \in Live : subs[s].key = k} = {}
  BY <1>1
<1>3. 0 <= MaxConnections /\ 0 <= MaxPerKey
  BY RegistryAssumption
<1> QED
  BY <1>1, <1>2, <1>3, FS_EmptySet DEF LimitsHold

LEMMA NextWithin == IInv /\ LimitsHold /\ [Next]_vars => LimitsHold'
<1> SUFFICES ASSUME IInv, LimitsHold, [Next]_vars PROVE LimitsHold'
  OBVIOUS
<1>1. RegInv
  BY DEF IInv
<1>2. CASE UNCHANGED regVars
  BY <1>1, <1>2, FewerAreWithin DEF regVars, Live
<1>3. ASSUME NEW asked \in Requests, NEW k \in Keys \cup {NoKey}, NEW c \in Cursors,
             Subscribe(asked, k, c)
      PROVE  LimitsHold'
  BY <1>1, <1>3, AdmittedIsWithin DEF Subscribe
<1>4. ASSUME NEW id \in Live, Remove(id)
      PROVE  LimitsHold'
  <2>1. Live' = Live \ {id} /\ \A s \in Live' : subs'[s] = subs[s]
    BY <1>1, <1>4, RegistryRemoveInv DEF Remove
  <2> QED
    BY <1>1, <2>1, FewerAreWithin
<1>5. ASSUME NEW id \in Live, NEW n \in 0..MaxQueued, Note(id, n)
      PROVE  LimitsHold'
  <2>1. PICK q : SetQueued(id, q)
    BY <1>5 DEF Note, NoteBuffer, NoteSent, NoteFlushed
  <2>2. /\ Live' = Live
        /\ \A s \in Live : subs'[s].key = subs[s].key /\ subs'[s].topics = subs[s].topics
    BY <1>1, <2>1 DEF SetQueued, Live, RegInv, RegistryTypeOK
  <2> QED
    BY <1>1, <2>2, FewerAreWithin
<1> QED
  BY <1>2, <1>3, <1>4, <1>5
  DEF Next, Noted, Publish, AppendAssigned, Appended, vars

(* The registry's three limits hold after any calls in any order: the      *)
(* per-key counts that admission tests never drift from the connections.   *)
THEOREM WithinLimits == Spec => []LimitsHold
  BY InitWithin, NextWithin, AlwaysIInv, PTL DEF Spec

(* The registry's maps agree and its limits hold, after any calls: what    *)
(* admission counts is what is there.                                      *)
THEOREM RegistryStaysSound == Spec => []RegistrySound
<1>1. IndexesAgree /\ LimitsHold => RegistrySound
  BY DEF RegistrySound
<1> QED
  BY <1>1, IndexesAlwaysAgree, WithinLimits, PTL

-----------------------------------------------------------------------------
(* Counting up and counting down, the two ways the recursive definitions   *)
(* of the cores are read.                                                  *)
LEMMA CountingUp ==
  ASSUME NEW n \in Nat, NEW S, 0 \in S, \A i \in 1..n : i - 1 \in S => i \in S
  PROVE  \A i \in 0..n : i \in S
<1> DEFINE Bad == {i \in Nat : i <= n /\ i \notin S}
<1>1. Bad = {}
  <2> SUFFICES ASSUME Bad # {} PROVE FALSE
    OBVIOUS
  <2>1. PICK i \in Bad : \A j \in Bad : i <= j
    BY LeastNumber, Bad \in SUBSET Nat
  <2>2. i # 0 /\ i \in Nat
    OBVIOUS
  <2>3. i \in 1..n /\ i - 1 \in Nat /\ i - 1 <= n /\ ~(i <= i - 1)
    BY <2>2
  <2>4. i - 1 \in S
    BY <2>1, <2>3
  <2> QED
    BY <2>3, <2>4
<1> QED
  BY <1>1

(* As CountingUp, from the last number to the first. *)
LEMMA CountingDown ==
  ASSUME NEW n \in Nat, NEW S, n \in S, \A i \in 1..n : i \in S => i - 1 \in S
  PROVE  \A i \in 0..n : i \in S
<1> DEFINE T == {j \in 0..n : n - j \in S}
<1>1. 0 \in T
  OBVIOUS
<1>2. \A j \in 1..n : j - 1 \in T => j \in T
  <2> SUFFICES ASSUME NEW j \in 1..n, n - (j - 1) \in S PROVE n - j \in S
    OBVIOUS
  <2>1. n - (j - 1) \in 1..n /\ n - (j - 1) - 1 = n - j
    OBVIOUS
  <2> QED
    BY <2>1
<1> HIDE DEF T
<1>3. \A j \in 0..n : j \in T
  BY <1>1, <1>2, CountingUp
<1>4. \A i \in 0..n : n - i \in 0..n /\ n - (n - i) = i
  OBVIOUS
<1> QED
  BY <1>3, <1>4 DEF T

(* A function that each number's value makes from the one before it.       *)
StepsFrom(f, b, step, n) == f[0] = b /\ \A i \in 1..n : f[i] = step[i][f[i - 1]]

(* There is such a function, of any number of steps. *)
LEMMA StepsExist ==
  ASSUME NEW n \in Nat, NEW V, NEW b \in V, NEW step \in [1..n -> [V -> V]]
  PROVE  \E f \in [0..n -> V] : StepsFrom(f, b, step, n)
<1> DEFINE Built(f, k) == f[0] = b /\ \A i \in 1..k : f[i] = step[i][f[i - 1]]
           S == {k \in 0..n : \E f \in [0..k -> V] : Built(f, k)}
<1>1. 0 \in S
  <2> DEFINE f == [i \in 0..0 |-> b]
  <2>1. f \in [0..0 -> V] /\ Built(f, 0)
    OBVIOUS
  <2>2. 0 \in 0..n
    OBVIOUS
  <2> HIDE DEF f, Built
  <2> QED
    BY <2>1, <2>2
<1>2. ASSUME NEW k \in 1..n, k - 1 \in S
      PROVE  k \in S
  <2>1. PICK f \in [0..(k - 1) -> V] : Built(f, k - 1)
    BY <1>2
  <2> DEFINE g == [i \in 0..k |-> IF i = k THEN step[k][f[k - 1]] ELSE f[i]]
  <2>2. k \in Nat /\ k - 1 \in 0..(k - 1) /\ \A i \in 0..k : i = k \/ i \in 0..(k - 1)
    OBVIOUS
  <2>3. g \in [0..k -> V]
    BY <2>1, <2>2
  <2>4. g[0] = b
    BY <2>1, <2>2
  <2>5. ASSUME NEW i \in 1..k
        PROVE  g[i] = step[i][g[i - 1]]
    <3>1. i - 1 \in 0..(k - 1) /\ i \in 0..k /\ i - 1 # k /\ i - 1 \in 0..k
      OBVIOUS
    <3>2. g[i - 1] = f[i - 1]
      BY <3>1
    <3>3. CASE i = k
      BY <3>1, <3>2, <3>3
    <3>4. CASE i # k
      <4>1. i \in 1..(k - 1)
        BY <3>4
      <4>2. g[i] = f[i]
        BY <3>1, <3>4
      <4> QED
        BY <2>1, <3>2, <4>1, <4>2
    <3> QED
      BY <3>3, <3>4
  <2>6. Built(g, k)
    BY <2>4, <2>5
  <2>7. k \in 0..n
    OBVIOUS
  <2> HIDE DEF g, Built
  <2> QED
    BY <2>3, <2>6, <2>7
<1> HIDE DEF S
<1>3. n \in S
  <2>1. \A k \in 1..n : k - 1 \in S => k \in S
    BY <1>2
  <2>2. \A k \in 0..n : k \in S
    BY <1>1, <2>1, CountingUp
  <2> QED
    BY <2>2
<1>4. PICK f \in [0..n -> V] : Built(f, n)
  BY <1>3 DEF S
<1> QED
  BY <1>4 DEF StepsFrom

-----------------------------------------------------------------------------
(* Ids as text.                                                            *)
LEMMA ValueIsANumber ==
  ASSUME NEW s, Len(s) \in Nat
  PROVE  ValueOf(s) \in Nat
<1> DEFINE n == Len(s)
           D(i) == IF s[i] = "1" THEN 1 ELSE 0
           P(f) == f = [i \in 0..n |-> IF i = 0 THEN 0 ELSE 10 * f[i - 1] + D(i)]
           step == [i \in 1..n |-> [v \in Nat |-> 10 * v + D(i)]]
           value == CHOOSE f : P(f)
<1>1. step \in [1..n -> [Nat -> Nat]]
  OBVIOUS
<1>2. PICK f \in [0..n -> Nat] : StepsFrom(f, 0, step, n)
  <2>1. 0 \in Nat /\ n \in Nat
    OBVIOUS
  <2> HIDE DEF step, n
  <2> QED
    BY <1>1, <2>1, StepsExist, Zenon
<1> HIDE DEF step
<1>3. \A i \in 0..n : f[i] = IF i = 0 THEN 0 ELSE 10 * f[i - 1] + D(i)
  <2> SUFFICES ASSUME NEW i \in 0..n, i # 0
               PROVE  f[i] = 10 * f[i - 1] + D(i)
    BY <1>2 DEF StepsFrom
  <2>1. i \in 1..n /\ f[i - 1] \in Nat
    <3>1. i \in 1..n /\ i - 1 \in 0..n
      OBVIOUS
    <3> QED
      BY <3>1
  <2>2. f[i] = step[i][f[i - 1]]
    BY <1>2 DEF StepsFrom
  <2>3. step[i][f[i - 1]] = 10 * f[i - 1] + D(i)
    BY <2>1 DEF step
  <2> QED
    BY <2>2, <2>3
<1>4. P(f)
  <2>1. f = [i \in 0..n |-> f[i]]
    OBVIOUS
  <2> QED
    BY <1>3, <2>1
<1>5. P(value)
  BY <1>4
<1>6. ValueOf(s) = value[n]
  BY DEF ValueOf
<1> HIDE DEF value
<1> DEFINE S == {i \in 0..n : value[i] \in Nat}
<1>7. 0 \in S
  BY <1>5
<1>8. \A i \in 1..n : i - 1 \in S => i \in S
  <2> SUFFICES ASSUME NEW i \in 1..n, value[i - 1] \in Nat PROVE value[i] \in Nat
    OBVIOUS
  <2>1. value[i] = 10 * value[i - 1] + D(i)
    BY <1>5
  <2> QED
    BY <2>1
<1> HIDE DEF S
<1>9. n \in S
  BY <1>7, <1>8, CountingUp
<1> QED
  BY <1>6, <1>9 DEF S

-----------------------------------------------------------------------------
(* Texts.                                                                  *)

(* The bytes of a text from its i-th unit on. *)
BytesFrom(s, i) == SumFunctionOnSet([j \in DOMAIN s |-> Width(s[j])], i..Len(s))

(* The bytes from a unit on are that unit's and those of the rest. *)
LEMMA BytesAdd ==
  ASSUME NEW s \in Seq(Units)
  PROVE  /\ Utf8Bytes(s) = BytesFrom(s, 1)
         /\ BytesFrom(s, Len(s) + 1) = 0
         /\ \A i \in 1..Len(s) : BytesFrom(s, i) = Width(s[i]) + BytesFrom(s, i + 1)
         /\ \A i \in 1..(Len(s) + 1) : BytesFrom(s, i) \in Nat
<1> DEFINE w == [j \in DOMAIN s |-> Width(s[j])]
           n == Len(s)
<1>1. DOMAIN s = 1..n /\ n \in Nat
  BY LenProperties
<1>2. \A j \in 1..n : w[j] = Width(s[j]) /\ w[j] \in Nat
  BY <1>1 DEF Width
<1>3. DOMAIN w = 1..n
  BY <1>1
<1>4. \A i : BytesFrom(s, i) = SumFunctionOnSet(w, i..n)
  BY DEF BytesFrom
<1>5. Utf8Bytes(s) = SumFunctionOnSet(w, 1..n)
  BY <1>3 DEF Utf8Bytes, SumFunction
<1> HIDE DEF w, n
<1>6. \A i \in 1..(n + 1) : IsFiniteSet(i..n) /\ Numbers(w, i..n)
  <2> SUFFICES ASSUME NEW i \in 1..(n + 1)
               PROVE  IsFiniteSet(i..n) /\ Numbers(w, i..n)
    OBVIOUS
  <2>1. IsFiniteSet(i..n)
    BY <1>1, FS_Interval
  <2>2. \A j \in i..n : j \in 1..n
    BY <1>1
  <2> QED
    BY <1>2, <2>1, <2>2 DEF Numbers
<1>7. \A i \in 1..(n + 1) : SumFunctionOnSet(w, i..n) \in Nat
  BY <1>6, SumIsANumber
<1>8. SumFunctionOnSet(w, (n + 1)..n) = 0
  <2>1. (n + 1)..n = {}
    BY <1>1
  <2> QED
    BY <2>1, FS_EmptySet, SumUnfolds
<1>9. \A i \in 1..n : SumFunctionOnSet(w, i..n) = w[i] + SumFunctionOnSet(w, (i + 1)..n)
  <2> SUFFICES ASSUME NEW i \in 1..n
               PROVE  SumFunctionOnSet(w, i..n) = w[i] + SumFunctionOnSet(w, (i + 1)..n)
    OBVIOUS
  <2>1. i \in i..n /\ (i..n) \ {i} = (i + 1)..n /\ i \in 1..(n + 1)
    BY <1>1
  <2>2. IsFiniteSet(i..n) /\ Numbers(w, i..n)
    BY <1>6, <2>1
  <2> DEFINE I == i..n
  <2>3. i \in I /\ IsFiniteSet(I) /\ Numbers(w, I)
    BY <2>1, <2>2
  <2> HIDE DEF I
  <2>4. SumFunctionOnSet(w, I) = w[i] + SumFunctionOnSet(w, I \ {i})
    BY <2>3, SumWithout
  <2> QED
    BY <2>1, <2>4 DEF I
<1>10. \A i \in 1..n : i + 1 \in 1..(n + 1)
  BY <1>1
<1> QED
  BY <1>2, <1>4, <1>5, <1>7, <1>8, <1>9 DEF n

(* A unit that is no surrogate takes a byte at least, and a pair takes four. *)
LEMMA BytesOutnumberUnits ==
  ASSUME NEW s \in Seq(Units), WellFormed(s)
  PROVE  Utf8Bytes(s) \in Nat /\ Len(s) <= Utf8Bytes(s)
<1> DEFINE n == Len(s)
           B(i) == BytesFrom(s, i)
           Enough(i) == n - i + 1 <= B(i) + (IF i <= n /\ s[i] = "low" THEN 1 ELSE 0)
           S == {i \in 0..n : Enough(i + 1)}
<1>1. n \in Nat
  BY LenProperties
<1>2. /\ Utf8Bytes(s) = B(1)
      /\ B(n + 1) = 0
      /\ \A i \in 1..n : B(i) = Width(s[i]) + B(i + 1)
      /\ \A i \in 1..(n + 1) : B(i) \in Nat
  BY BytesAdd
<1>3. /\ \A i \in 1..n : s[i] = "high" => i < n /\ s[i + 1] = "low"
      /\ \A i \in 1..n : s[i] = "low" => i > 1 /\ s[i - 1] = "high"
  BY LenProperties DEF WellFormed
<1> HIDE DEF n, B
<1>4. n \in S
  BY <1>1, <1>2
<1>5. \A i \in 1..n : i \in S => i - 1 \in S
  <2> SUFFICES ASSUME NEW i \in 1..n, Enough(i + 1)
               PROVE  Enough(i)
    BY <1>1
  <2>1. B(i) = Width(s[i]) + B(i + 1) /\ B(i) \in Nat /\ B(i + 1) \in Nat
    BY <1>1, <1>2
  <2>2. i + 1 <= n /\ s[i + 1] = "low" => s[i] = "high"
    <3>1. i + 1 <= n => i + 1 \in 1..n /\ (i + 1) - 1 = i
      BY <1>1
    <3> QED
      BY <1>3, <3>1
  <2>3. CASE s[i] = "high"
    <3>1. Width(s[i]) = 4
      BY <2>3 DEF Width
    <3>2. n - (i + 1) + 1 <= B(i + 1) + 1
      BY <1>1, <2>1
    <3> QED
      BY <1>1, <2>1, <2>3, <3>1, <3>2
  <2>4. CASE s[i] # "high"
    <3>1. n - (i + 1) + 1 <= B(i + 1)
      BY <1>1, <2>1, <2>2, <2>4
    <3>2. CASE s[i] = "low"
      <4>1. Width(s[i]) = 0
        BY <3>2 DEF Width
      <4> QED
        BY <1>1, <2>1, <3>1, <3>2, <4>1
    <3>3. CASE s[i] # "low"
      <4>1. Width(s[i]) \in Nat /\ Width(s[i]) >= 1
        BY <3>3 DEF Width
      <4> QED
        BY <1>1, <2>1, <3>1, <3>3, <4>1
    <3> QED
      BY <3>2, <3>3
  <2> QED
    BY <2>3, <2>4
<1>6. 0 \in S
  <2> HIDE DEF S
  <2>1. \A i \in 0..n : i \in S
    BY <1>1, <1>4, <1>5, CountingDown
  <2> QED
    BY <1>1, <2>1
<1>7. n <= B(1) + (IF 1 <= n /\ s[1] = "low" THEN 1 ELSE 0)
  BY <1>1, <1>6
<1>8. 1 <= n => s[1] # "low"
  BY <1>1, <1>3
<1>9. B(1) \in Nat
  BY <1>1, <1>2
<1> QED
  BY <1>1, <1>2, <1>7, <1>8, <1>9 DEF n

(* Skipping the second half of a pair counts the pair once: what           *)
(* TypeScript counts is what Rust measures.                                *)
LEMMA LengthIsBytes ==
  ASSUME NEW s \in Seq(Units), WellFormed(s)
  PROVE  Utf8Length(s) = Utf8Bytes(s)
<1> DEFINE n == Len(s)
           B(i) == BytesFrom(s, i)
           Rest(g, i) == IF i > n THEN 0
                         ELSE IF s[i] = "high" THEN 4 + g[i + 2]
                         ELSE IF s[i] = "two" THEN 2 + g[i + 1]
                         ELSE IF s[i] \in {"three", "low"} THEN 3 + g[i + 1]
                         ELSE 1 + g[i + 1]
           P(g) == g = [i \in 1..(n + 2) |-> Rest(g, i)]
           Sum(i) == IF i > n THEN 0 ELSE (IF s[i] = "low" THEN 3 ELSE 0) + B(i)
           sum == [i \in 1..(n + 2) |-> Sum(i)]
           rest == CHOOSE g : P(g)
<1>1. n \in Nat
  BY LenProperties
<1>2. /\ Utf8Bytes(s) = B(1)
      /\ B(n + 1) = 0
      /\ \A i \in 1..n : B(i) = Width(s[i]) + B(i + 1)
      /\ \A i \in 1..(n + 1) : B(i) \in Nat
  BY BytesAdd
<1>3. /\ \A i \in 1..n : s[i] = "high" => i < n /\ s[i + 1] = "low"
      /\ \A i \in 1..n : s[i] = "low" => i > 1 /\ s[i - 1] = "high"
  BY LenProperties DEF WellFormed
<1>3a. Utf8Length(s) = rest[1]
  BY DEF Utf8Length
<1> HIDE DEF n, B
<1>4. \A i \in 1..(n + 2) : i > n => Sum(i) = 0
  OBVIOUS
<1>5. \A i \in 1..n : s[i] = "high" => Sum(i) = 4 + Sum(i + 2)
  <2> SUFFICES ASSUME NEW i \in 1..n, s[i] = "high"
               PROVE  Sum(i) = 4 + Sum(i + 2)
    OBVIOUS
  <2>1. i + 1 \in 1..n /\ s[i + 1] = "low"
    BY <1>1, <1>3
  <2>2. B(i) = 4 + B(i + 1) /\ B(i + 1) = 0 + B(i + 2)
    <3>1. B(i) = Width(s[i]) + B(i + 1) /\ Width(s[i]) = 4
      BY <1>2 DEF Width
    <3>2. (i + 1) + 1 = i + 2
      BY <1>1
    <3>3. B(i + 1) = Width(s[i + 1]) + B(i + 2) /\ Width(s[i + 1]) = 0
      BY <1>2, <2>1, <3>2 DEF Width
    <3> QED
      BY <3>1, <3>3
  <2>3. i + 2 \in 1..(n + 1) /\ B(i + 2) \in Nat
    BY <1>1, <1>2, <2>1
  <2>4. CASE i + 2 > n
    <3>1. i + 2 = n + 1
      BY <1>1, <2>3, <2>4
    <3> QED
      BY <1>1, <1>2, <2>1, <2>2, <2>4, <3>1
  <2>5. CASE i + 2 <= n
    <3>1. i + 2 \in 1..n /\ (i + 2) - 1 = i + 1
      BY <1>1, <2>5
    <3>2. s[i + 2] # "low"
      BY <1>3, <2>1, <3>1
    <3> QED
      BY <1>1, <2>2, <2>3, <2>5, <3>2
  <2> QED
    BY <1>1, <2>3, <2>4, <2>5
<1>6. \A i \in 1..n : s[i] # "high" =>
        Sum(i) = (IF s[i] = "low" THEN 3 ELSE Width(s[i])) + Sum(i + 1)
  <2> SUFFICES ASSUME NEW i \in 1..n, s[i] # "high"
               PROVE  Sum(i) = (IF s[i] = "low" THEN 3 ELSE Width(s[i])) + Sum(i + 1)
    OBVIOUS
  <2>1. B(i) = Width(s[i]) + B(i + 1) /\ B(i) \in Nat /\ B(i + 1) \in Nat
    BY <1>1, <1>2
  <2>2. Sum(i + 1) = B(i + 1)
    <3>1. CASE i + 1 > n
      <4>1. i + 1 = n + 1
        BY <1>1, <3>1
      <4> QED
        BY <1>1, <1>2, <3>1, <4>1
    <3>2. CASE i + 1 <= n
      <4>1. i + 1 \in 1..n /\ (i + 1) - 1 = i
        BY <1>1, <3>2
      <4>2. s[i + 1] # "low"
        BY <1>3, <4>1
      <4> QED
        BY <1>1, <2>1, <3>2, <4>2
    <3> QED
      BY <1>1, <3>1, <3>2
  <2>3. Width(s[i]) \in Nat /\ (s[i] = "low" => Width(s[i]) = 0)
    BY DEF Width
  <2> QED
    BY <1>1, <2>1, <2>2, <2>3
<1>7. \A i \in 1..(n + 2) : sum[i] = Sum(i)
  OBVIOUS
<1> HIDE DEF Sum
<1>8. \A i \in 1..n : i + 1 \in 1..(n + 2) /\ i + 2 \in 1..(n + 2) /\ ~(i > n)
  BY <1>1
<1>9. \A i \in 1..n : s[i] \in Units
  BY ElementOfSeq DEF n
<1>10. \A i \in 1..(n + 2) : sum[i] = Rest(sum, i)
  <2> SUFFICES ASSUME NEW i \in 1..(n + 2)
               PROVE  Sum(i) = Rest(sum, i)
    BY <1>7
  <2>1. CASE i > n
    BY <1>4, <2>1
  <2>2. CASE ~(i > n)
    <3>1. i \in 1..n
      BY <1>1, <2>2
    <3>2. sum[i + 1] = Sum(i + 1) /\ sum[i + 2] = Sum(i + 2)
      BY <1>7, <1>8, <3>1
    <3> HIDE DEF sum
    <3>3. CASE s[i] = "high"
      BY <1>5, <2>2, <3>1, <3>2, <3>3
    <3>4. CASE s[i] # "high"
      BY <1>6, <2>2, <3>1, <3>2, <3>4 DEF Width
    <3> QED
      BY <3>3, <3>4
  <2> QED
    BY <2>1, <2>2
<1>11. P(sum)
  BY <1>7, <1>10
<1>12. P(rest)
  BY <1>11
<1>13. \A i \in 1..(n + 2) : rest[i] = Rest(rest, i)
  BY <1>12
<1> HIDE DEF rest, sum, P
<1> DEFINE S == {i \in 0..n : rest[i + 1] = Sum(i + 1) /\ rest[i + 2] = Sum(i + 2)}
<1>14. n \in S
  <2>1. n + 1 \in 1..(n + 2) /\ n + 2 \in 1..(n + 2) /\ n + 1 > n /\ n + 2 > n
    BY <1>1
  <2> QED
    BY <1>1, <1>4, <1>13, <2>1
<1>15. \A i \in 1..n : i \in S => i - 1 \in S
  <2> SUFFICES ASSUME NEW i \in 1..n, rest[i + 1] = Sum(i + 1), rest[i + 2] = Sum(i + 2)
               PROVE  rest[i] = Sum(i)
    BY <1>1
  <2>1. ~(i > n) /\ i \in 1..(n + 2)
    BY <1>1
  <2>2. rest[i] = Rest(rest, i)
    BY <1>13, <2>1
  <2>3. CASE s[i] = "high"
    BY <1>5, <2>1, <2>2, <2>3
  <2>4. CASE s[i] # "high"
    BY <1>6, <2>1, <2>2, <2>4 DEF Width
  <2> QED
    BY <2>3, <2>4
<1>16. 0 \in S
  <2> HIDE DEF S
  <2>1. \A i \in 0..n : i \in S
    BY <1>1, <1>14, <1>15, CountingDown
  <2> QED
    BY <1>1, <2>1
<1>17. rest[1] = Sum(1)
  BY <1>16
<1>18. Sum(1) = B(1)
  <2>1. CASE n = 0
    BY <1>2, <2>1 DEF Sum
  <2>2. CASE n # 0
    <3>1. 1 \in 1..n /\ ~(1 > n)
      BY <1>1, <2>2
    <3>2. s[1] # "low"
      BY <1>3, <3>1
    <3>3. B(1) \in Nat
      BY <1>1, <1>2
    <3> QED
      BY <3>1, <3>2, <3>3 DEF Sum
  <2> QED
    BY <2>1, <2>2
<1> QED
  BY <1>2, <1>3a, <1>17, <1>18

(* A text is short enough for both languages or for neither. *)
LEMMA WithinAgrees ==
  ASSUME NEW s \in Seq(Units), WellFormed(s), NEW bound \in Nat
  PROVE  /\ TsWithin(s, bound) <=> Utf8Bytes(s) # 0 /\ ~(Utf8Bytes(s) > bound)
         /\ Utf8Bytes(s) = 0 <=> s = <<>>
<1>1. Utf8Length(s) = Utf8Bytes(s) /\ Utf8Bytes(s) \in Nat /\ Len(s) <= Utf8Bytes(s)
  BY LengthIsBytes, BytesOutnumberUnits
<1>2. Len(s) \in Nat
  BY LenProperties
<1>3. Utf8Bytes(s) = 0 <=> Len(s) = 0
  <2>1. ASSUME Len(s) = 0 PROVE Utf8Bytes(s) = 0
    <3>1. BytesFrom(s, Len(s) + 1) = 0 /\ Utf8Bytes(s) = BytesFrom(s, 1)
      BY BytesAdd
    <3> QED
      BY <2>1, <3>1
  <2> QED
    BY <1>1, <1>2, <2>1
<1>4. Len(s) = 0 <=> s = <<>>
  BY EmptySeq
<1> QED
  BY <1>1, <1>2, <1>3, <1>4 DEF TsWithin

(* Rust finds no fault with a text exactly when TypeScript takes it for a topic. *)
LEMMA TopicsAgree ==
  ASSUME NEW s \in Seq(Units), WellFormed(s)
  PROVE  /\ TsValidTopic(s) <=> TopicFault(s) = "none"
         /\ TopicFault(s) = "none" \/ TopicFault(s) \in DOMAIN TopicCode
<1>1. TsWithin(s, MaxTopicBytes) <=> Utf8Bytes(s) # 0 /\ ~(Utf8Bytes(s) > MaxTopicBytes)
  BY WithinAgrees, FrontEndsAssumption DEF FrontEndsAssumption
<1>2. DOMAIN TopicCode = {"Empty", "TooLong", "ControlCharacter", "ReservedPrefix"}
  BY DEF TopicCode
<1> QED
  BY <1>1, <1>2 DEF TsValidTopic, TopicFault

(* No text that is written down as an origin is an empty one. *)
LEMMA OriginsAgree ==
  ASSUME NEW s \in Seq(Units), WellFormed(s)
  PROVE  /\ TsValidOrigin(s) <=> OriginFault(s) = "none"
         /\ OriginFault(s) = "none" \/ OriginFault(s) \in DOMAIN OriginCode
         /\ s # <<>> => OriginFault(s) # "Empty"
<1>1. /\ TsWithin(s, MaxOriginBytes) <=> Utf8Bytes(s) # 0 /\ ~(Utf8Bytes(s) > MaxOriginBytes)
      /\ Utf8Bytes(s) = 0 <=> s = <<>>
  BY WithinAgrees, FrontEndsAssumption DEF FrontEndsAssumption
<1>2. DOMAIN OriginCode = {"Empty", "TooLong", "ControlCharacter"}
  BY DEF OriginCode
<1> QED
  BY <1>1, <1>2 DEF TsValidOrigin, OriginFault

(* A refused write is refused for the same reason. *)
LEMMA WriteRefusalsAgree ==
  ASSUME NEW topic \in Seq(Units), NEW origin \in Seq(Units),
         WellFormed(topic), WellFormed(origin)
  PROVE  LET refusal == WriteRefusal(topic, origin)
         IN \/ ~TsWriteRefused(topic, origin) /\ refusal = <<"none">>
            \/ /\ TsWriteRefused(topic, origin) /\ ~TsValidTopic(topic)
               /\ \E f \in DOMAIN TopicCode : refusal = <<"Topic", f>>
            \/ /\ TsWriteRefused(topic, origin) /\ TsValidTopic(topic)
               /\ \E f \in DOMAIN OriginCode \ {"Empty"} : refusal = <<"Origin", f>>
<1>1. /\ TsValidTopic(topic) <=> TopicFault(topic) = "none"
      /\ TopicFault(topic) = "none" \/ TopicFault(topic) \in DOMAIN TopicCode
  BY TopicsAgree
<1>2. /\ TsValidOrigin(origin) <=> OriginFault(origin) = "none"
      /\ OriginFault(origin) = "none" \/ OriginFault(origin) \in DOMAIN OriginCode
      /\ origin # <<>> => OriginFault(origin) # "Empty"
  BY OriginsAgree
<1>3. CASE ~TsValidTopic(topic)
  BY <1>1, <1>3 DEF WriteRefusal, TsWriteRefused
<1>4. CASE TsValidTopic(topic) /\ origin # <<>> /\ ~TsValidOrigin(origin)
  BY <1>1, <1>2, <1>4 DEF WriteRefusal, TsWriteRefused
<1>5. CASE TsValidTopic(topic) /\ (origin = <<>> \/ TsValidOrigin(origin))
  BY <1>1, <1>2, <1>5 DEF WriteRefusal, TsWriteRefused
<1> QED
  BY <1>3, <1>4, <1>5

-----------------------------------------------------------------------------
(* What a string of id characters is cut into at its first dash.           *)
LEMMA FirstDash ==
  ASSUME NEW raw \in Seq(IdUnits), Dashes(raw) # {}
  PROVE  LET dash == Min(Dashes(raw))
             ms == SubSeq(raw, 1, dash - 1)
             seq == SubSeq(raw, dash + 1, Len(raw))
         IN /\ dash \in 1..Len(raw)
            /\ ms \in Seq(IdUnits) /\ seq \in Seq(IdUnits)
            /\ Len(ms) = dash - 1 /\ Len(seq) = Len(raw) - dash
<1> DEFINE dash == Min(Dashes(raw))
           n == Len(raw)
<1>1. n \in Nat /\ DOMAIN raw = 1..n
  BY LenProperties
<1>2. Dashes(raw) \subseteq 1..n
  BY <1>1 DEF Dashes
<1>3. PICK x \in Dashes(raw) : \A y \in Dashes(raw) : x <= y
  BY <1>1, <1>2, LeastNumber
<1>4. dash \in Dashes(raw)
  BY <1>3 DEF Min
<1> HIDE DEF dash, n
<1>5. \A i \in 1..n : raw[i] \in IdUnits
  BY ElementOfSeq DEF n
<1>6. dash \in 1..n
  BY <1>2, <1>4
<1>7. SubSeq(raw, 1, dash - 1) \in Seq(IdUnits) /\ Len(SubSeq(raw, 1, dash - 1)) = dash - 1
  <2>1. 1 \in Int /\ dash - 1 \in Int /\ \A i \in 1..(dash - 1) : raw[i] \in IdUnits
    BY <1>1, <1>5, <1>6
  <2>2. /\ SubSeq(raw, 1, dash - 1) \in Seq(IdUnits)
        /\ Len(SubSeq(raw, 1, dash - 1)) = IF 1 <= dash - 1 THEN (dash - 1) - 1 + 1 ELSE 0
    BY <2>1, SubSeqProperties
  <2> QED
    BY <1>1, <1>6, <2>2
<1>8. SubSeq(raw, dash + 1, n) \in Seq(IdUnits) /\ Len(SubSeq(raw, dash + 1, n)) = n - dash
  <2>1. dash + 1 \in Int /\ n \in Int /\ \A i \in (dash + 1)..n : raw[i] \in IdUnits
    BY <1>1, <1>5, <1>6
  <2>2. /\ SubSeq(raw, dash + 1, n) \in Seq(IdUnits)
        /\ Len(SubSeq(raw, dash + 1, n)) = IF dash + 1 <= n THEN n - (dash + 1) + 1 ELSE 0
    BY <2>1, SubSeqProperties
  <2> QED
    BY <1>1, <1>6, <2>2
<1> QED
  BY <1>6, <1>7, <1>8 DEF dash, n

(* Half of an id: what the two cores ask of it is the same. *)
LEMMA HalvesAgree ==
  ASSUME NEW s \in Seq(IdUnits)
  PROVE  /\ CanonicalU64(s) = IF IsCanonicalUint(s) /\ ~(ValueOf(s) > MaxIdComponent)
                              THEN {ValueOf(s)} ELSE {}
         /\ IsCanonicalUint(s) /\ ~(ValueOf(s) > MaxIdComponent) => NumberOf(s) = {ValueOf(s)}
         /\ IsCanonicalUint(s) => s # <<>>
<1>1. Len(s) \in Nat /\ (Len(s) = 0 <=> s = <<>>) /\ DOMAIN s = 1..Len(s)
  BY LenProperties, EmptySeq
<1>2. ValueOf(s) \in Nat
  BY <1>1, ValueIsANumber
<1>3. MaxDigits \in Nat /\ MaxIdComponent \in Nat
  BY FrontEndsAssumption DEF FrontEndsAssumption
<1>4. IsCanonicalUint(s) <=>
        ~(s = <<>> \/ Len(s) > MaxDigits \/ (Len(s) > 1 /\ s[1] = "0") \/ ~(Range(s) \subseteq Digits))
  BY <1>1, <1>3 DEF IsCanonicalUint
<1>5. CanonicalU64(s) = IF IsCanonicalUint(s) /\ ~(ValueOf(s) > MaxIdComponent)
                        THEN {ValueOf(s)} ELSE {}
  <2> DEFINE v == ValueOf(s)
  <2>1. CanonicalU64(s) = IF ~IsCanonicalUint(s) THEN {} ELSE {n \in {v} : n <= MaxIdComponent}
    BY <1>4 DEF CanonicalU64
  <2>2. {n \in {v} : n <= MaxIdComponent} = IF v > MaxIdComponent THEN {} ELSE {v}
    BY <1>2, <1>3
  <2> QED
    BY <2>1, <2>2
<1>6. ASSUME IsCanonicalUint(s), ~(ValueOf(s) > MaxIdComponent)
      PROVE  NumberOf(s) = {ValueOf(s)}
  <2>1. s # <<>> /\ Range(s) \subseteq Digits /\ s[1] \in Range(s)
    BY <1>1, <1>4, <1>6 DEF Range
  <2>2. s[1] \notin {"+", "-"}
    BY <2>1 DEF Digits
  <2>3. ValueOf(s) \in -MaxIdComponent..MaxIdComponent
    BY <1>2, <1>3, <1>6
  <2> QED
    BY <2>1, <2>2, <2>3 DEF NumberOf
<1> QED
  BY <1>4, <1>5, <1>6

(* Both cores read an id alike, and the client reads what they read. *)
LEMMA IdsAgree ==
  ASSUME NEW raw \in Seq(IdUnits)
  PROVE  /\ TsParseId(raw) = RustParseId(raw)
         /\ TsParseId(raw) # Malformed => ClientSplitId(raw) = TsParseId(raw)
<1>1. CASE Dashes(raw) = {}
  BY <1>1 DEF TsParseId, RustParseId
<1>2. CASE Dashes(raw) # {}
  <2> DEFINE dash == Min(Dashes(raw))
             ms == SubSeq(raw, 1, dash - 1)
             seq == SubSeq(raw, dash + 1, Len(raw))
             Fine(s) == IsCanonicalUint(s) /\ ~(ValueOf(s) > MaxIdComponent)
             found == CanonicalU64(ms) \X CanonicalU64(seq)
             read == NumberOf(ms) \X NumberOf(seq)
  <2>1. /\ dash \in 1..Len(raw) /\ Len(raw) \in Nat
        /\ ms \in Seq(IdUnits) /\ seq \in Seq(IdUnits)
        /\ Len(ms) = dash - 1 /\ Len(seq) = Len(raw) - dash
    BY <1>2, FirstDash, LenProperties
  <2>2. TsParseId(raw) = IF dash \in {1, Len(raw)} \/ ~IsCanonicalUint(ms) \/ ~IsCanonicalUint(seq)
                            \/ ValueOf(ms) > MaxIdComponent \/ ValueOf(seq) > MaxIdComponent
                         THEN Malformed ELSE <<ValueOf(ms), ValueOf(seq)>>
    BY <1>2 DEF TsParseId
  <2>3. RustParseId(raw) = IF found = {} THEN Malformed ELSE CHOOSE id \in found : TRUE
    BY <1>2 DEF RustParseId
  <2>4. ClientSplitId(raw) = IF dash \in {1, Len(raw)} \/ read = {} THEN Malformed
                             ELSE CHOOSE id \in read : TRUE
    BY <1>2 DEF ClientSplitId
  <2> HIDE DEF dash, ms, seq
  <2>5. /\ CanonicalU64(ms) = IF Fine(ms) THEN {ValueOf(ms)} ELSE {}
        /\ CanonicalU64(seq) = IF Fine(seq) THEN {ValueOf(seq)} ELSE {}
        /\ Fine(ms) => NumberOf(ms) = {ValueOf(ms)}
        /\ Fine(seq) => NumberOf(seq) = {ValueOf(seq)}
        /\ Fine(ms) => ms # <<>>
        /\ Fine(seq) => seq # <<>>
    BY <2>1, HalvesAgree
  <2>6. /\ Fine(ms) => dash # 1
        /\ Fine(seq) => dash # Len(raw)
    <3>1. (Len(ms) = 0 => ms = <<>>) /\ (Len(seq) = 0 => seq = <<>>)
      BY <2>1, EmptySeq
    <3> QED
      BY <2>1, <2>5, <3>1
  <2> HIDE DEF Fine
  <2>7. CASE Fine(ms) /\ Fine(seq)
    <3> DEFINE id == <<ValueOf(ms), ValueOf(seq)>>
    <3>1. found = {id} /\ read = {id}
      BY <2>5, <2>7
    <3>2. dash \notin {1, Len(raw)}
      BY <2>6, <2>7
    <3>3. TsParseId(raw) = id
      BY <2>2, <2>7, <3>2 DEF Fine
    <3> HIDE DEF found, read, id
    <3>4. RustParseId(raw) = id /\ ClientSplitId(raw) = id
      BY <2>3, <2>4, <3>1, <3>2
    <3> QED
      BY <3>3, <3>4
  <2>8. CASE ~(Fine(ms) /\ Fine(seq))
    <3>1. found = {}
      BY <2>5, <2>8
    <3>2. TsParseId(raw) = Malformed
      BY <2>2, <2>8 DEF Fine
    <3> QED
      BY <2>3, <3>1, <3>2
  <2> QED
    BY <2>7, <2>8
<1> QED
  BY <1>1, <1>2

(* The bounded texts a run enumerates are texts. *)
LEMMA TextsAreSequences ==
  ASSUME NEW n, NEW units, NEW s \in TextsUpTo(n, units), n \in Nat
  PROVE  s \in Seq(units)
<1>1. PICK k \in 0..n : s \in [1..k -> units]
  BY DEF TextsUpTo
<1> QED
  BY <1>1

(* Topics, origins and ids are judged alike, at any length. *)
LEMMA ValidatorsAlwaysAgree == ValidatorsAgree
<1>1. ASSUME NEW s \in TextsUpTo(MaxText, Units), WellFormed(s)
      PROVE  /\ TsValidTopic(s) <=> TopicFault(s) = "none"
             /\ TsWriteRefused(<<"one">>, s) <=> WriteRefusal(<<"one">>, s) # <<"none">>
  <2>1. s \in Seq(Units) /\ <<"one">> \in Seq(Units) /\ WellFormed(<<"one">>)
    BY TextsAreSequences, TextsAssumption DEF TextsAssumption, WellFormed, Units
  <2>2. \A f : <<"Topic", f>> # <<"none">> /\ <<"Origin", f>> # <<"none">>
    OBVIOUS
  <2>3. TsWriteRefused(<<"one">>, s) <=> WriteRefusal(<<"one">>, s) # <<"none">>
    BY <1>1, <2>1, <2>2, WriteRefusalsAgree
  <2> QED
    BY <1>1, <2>1, <2>3, TopicsAgree
<1>2. ASSUME NEW raw \in TextsUpTo(MaxIdText, IdUnits)
      PROVE  /\ TsParseId(raw) = RustParseId(raw)
             /\ TsParseId(raw) # Malformed => ClientSplitId(raw) = TsParseId(raw)
  <2>1. raw \in Seq(IdUnits)
    BY TextsAreSequences, TextsAssumption DEF TextsAssumption
  <2> QED
    BY <2>1, IdsAgree
<1> QED
  BY <1>1, <1>2 DEF ValidatorsAgree

-----------------------------------------------------------------------------
(* What becomes of a refusal.                                              *)
LEMMA TokensAreReasons ==
  /\ \A f : AsCoreError(NativeToken(<<"Topic", f>>)) = "invalid-topic"
  /\ \A f : AsCoreError(NativeToken(<<"Origin", f>>)) = "invalid-origin"
  /\ AsCoreError(NativeToken(<<"Id">>)) = "malformed-cursor"
  /\ AsCoreError(NativeToken(<<"TopicCount">>)) = "too-many-topics"
  /\ AsCoreError(NativeToken(<<"MaxConnections">>)) = "max-connections"
  /\ AsCoreError(NativeToken(<<"MaxConnectionsPerKey">>)) = "max-connections-per-key"
  BY DEF AsCoreError, NativeToken, Reasons

(* The C ABI tells every refusal of a request from success. *)
LEMMA CodesOfRefusals ==
  /\ \A f \in DOMAIN TopicCode : AbiCode(<<"Topic", f>>) \notin {"AG_OK", "AG_ERR_ORIGIN_EMPTY"}
  /\ \A f \in DOMAIN OriginCode \ {"Empty"} :
       AbiCode(<<"Origin", f>>) \notin {"AG_OK", "AG_ERR_ORIGIN_EMPTY"}
  /\ AbiCode(<<"none">>) = "AG_OK"
  /\ \A r \in {"TopicCount", "MaxConnections", "MaxConnectionsPerKey"} : AbiCode(<<r>>) # "AG_OK"
  BY DEF AbiCode, TopicCode, OriginCode

(* No two refusals of a request are one. *)
LEMMA RefusalsDiffer ==
  /\ \A f : <<"Topic", f>> # <<"none">> /\ <<"Origin", f>> # <<"none">>
  /\ \A r \in {"Id", "TopicCount", "MaxConnections", "MaxConnectionsPerKey"} : <<r>> # <<"none">>
  OBVIOUS

(* A write is refused on all three ways in or on none, at any length. *)
LEMMA WritesAlwaysAgree == WritesAgree
<1> SUFFICES ASSUME NEW call \in Writes, NEW raw \in RawCursors,
                    NEW topic \in TextsUpTo(MaxWritten, Units),
                    NEW origin \in TextsUpTo(MaxWritten, Units),
                    WellFormed(topic), WellFormed(origin)
             PROVE  LET ts == TsWriteAnswer(call, raw, topic, origin)
                        native == NativeWriteAnswer(call, raw, topic, origin)
                        abi == AbiWriteAnswer(call, raw, topic, origin)
                    IN /\ (ts = "none") <=> (native = "none")
                       /\ (abi = "AG_OK") <=> (native = "none")
                       /\ native # "not-a-rejection"
                       /\ ts \in {native, "not-a-rejection"}
                       /\ abi # "AG_ERR_ORIGIN_EMPTY"
  BY DEF WritesAgree
<1> DEFINE ts == TsWriteAnswer(call, raw, topic, origin)
           native == NativeWriteAnswer(call, raw, topic, origin)
           abi == AbiWriteAnswer(call, raw, topic, origin)
           refusal == WriteRefusal(topic, origin)
           named == call # "publish" /\ TsParseId(raw) = Malformed
<1>1. topic \in Seq(Units) /\ origin \in Seq(Units) /\ raw \in Seq(IdUnits)
  BY TextsAreSequences, TextsAssumption DEF TextsAssumption
<1>2. TsParseId(raw) = RustParseId(raw)
  BY <1>1, IdsAgree
<1>3. ts = IF named THEN "malformed-cursor"
           ELSE IF ~TsWriteRefused(topic, origin) THEN "none"
           ELSE IF call # "encode" THEN "not-a-rejection"
           ELSE IF TsValidTopic(topic) THEN "invalid-origin" ELSE "invalid-topic"
  BY DEF TsWriteAnswer
<1>4. native = IF named THEN AsCoreError(NativeToken(<<"Id">>))
               ELSE IF refusal = <<"none">> THEN "none" ELSE AsCoreError(NativeToken(refusal))
  BY <1>2, RefusalsDiffer DEF NativeWriteAnswer, NativeWriteRefusal
<1>5. abi = IF named THEN "AG_ERR_MALFORMED_ID" ELSE AbiCode(refusal)
  BY <1>2 DEF AbiWriteAnswer
<1> HIDE DEF ts, native, abi, named, refusal
<1>6. CASE named
  BY <1>3, <1>4, <1>5, <1>6, TokensAreReasons DEF ts, native, abi
<1>7. CASE ~named /\ ~TsWriteRefused(topic, origin) /\ refusal = <<"none">>
  <2>1. ts = "none" /\ native = "none"
    BY <1>3, <1>4, <1>7
  <2>2. abi = "AG_OK"
    BY <1>5, <1>7, CodesOfRefusals
  <2> QED
    BY <2>1, <2>2 DEF ts, native, abi
<1>8. ASSUME ~named, TsWriteRefused(topic, origin), ~TsValidTopic(topic),
             NEW f \in DOMAIN TopicCode, refusal = <<"Topic", f>>
      PROVE  /\ ts \in {"not-a-rejection", "invalid-topic"} /\ native = "invalid-topic"
             /\ abi \notin {"AG_OK", "AG_ERR_ORIGIN_EMPTY"}
  <2>1. native = "invalid-topic"
    BY <1>4, <1>8, TokensAreReasons, RefusalsDiffer
  <2>2. abi \notin {"AG_OK", "AG_ERR_ORIGIN_EMPTY"}
    BY <1>5, <1>8, CodesOfRefusals
  <2> QED
    BY <1>3, <1>8, <2>1, <2>2
<1>9. ASSUME ~named, TsWriteRefused(topic, origin), TsValidTopic(topic),
             NEW f \in DOMAIN OriginCode \ {"Empty"}, refusal = <<"Origin", f>>
      PROVE  /\ ts \in {"not-a-rejection", "invalid-origin"} /\ native = "invalid-origin"
             /\ abi \notin {"AG_OK", "AG_ERR_ORIGIN_EMPTY"}
  <2>1. native = "invalid-origin"
    BY <1>4, <1>9, TokensAreReasons, RefusalsDiffer
  <2>2. abi \notin {"AG_OK", "AG_ERR_ORIGIN_EMPTY"}
    BY <1>5, <1>9, CodesOfRefusals
  <2> QED
    BY <1>3, <1>9, <2>1, <2>2
<1>10. \/ ~TsWriteRefused(topic, origin) /\ refusal = <<"none">>
       \/ /\ TsWriteRefused(topic, origin) /\ ~TsValidTopic(topic)
          /\ \E f \in DOMAIN TopicCode : refusal = <<"Topic", f>>
       \/ /\ TsWriteRefused(topic, origin) /\ TsValidTopic(topic)
          /\ \E f \in DOMAIN OriginCode \ {"Empty"} : refusal = <<"Origin", f>>
  BY <1>1, WriteRefusalsAgree DEF refusal
<1>11. ASSUME ~named, TsWriteRefused(topic, origin)
       PROVE  /\ native \in {"invalid-topic", "invalid-origin"}
              /\ ts \in {"not-a-rejection", native}
              /\ abi \notin {"AG_OK", "AG_ERR_ORIGIN_EMPTY"}
  BY <1>8, <1>9, <1>10, <1>11
<1>12. CASE ~named /\ TsWriteRefused(topic, origin)
  BY <1>11, <1>12 DEF ts, native, abi
<1> QED
  BY <1>6, <1>7, <1>10, <1>12

-----------------------------------------------------------------------------
(* The eviction loop.                                                      *)
LEMMA SameIds ==
  /\ \A a, b : Rust!Before(a, b) <=> Before(a, b)
  /\ Rust!NoId = NoId
  /\ Rust!ZeroId = ZeroId
  BY DEF Rust!Before, Before, Rust!NoId, NoId, Rust!ZeroId, ZeroId, Rust!Id, Id

RingState == [entries : Seq(Entry), bytes : Int, trimmed : IdOrNull]

(* What an entry carries. *)
LEMMA EntryHasSize ==
  ASSUME NEW e \in Entry
  PROVE  e.size \in Nat /\ e.id \in EventId
  BY RingAssumption DEF RingAssumption, Entry

(* A turn of the loop leaves a ring. *)
LEMMA TurnStays ==
  ASSUME NEW v \in RingState
  PROVE  Rust!Turn(v) \in RingState
<1>1. CASE v.bytes <= MaxBytes \/ v.entries = <<>>
  BY <1>1 DEF Rust!Turn
<1>2. CASE ~(v.bytes <= MaxBytes \/ v.entries = <<>>)
  <2>1. v.entries \in Seq(Entry) /\ v.bytes \in Int /\ v.trimmed \in IdOrNull
    BY DEF RingState
  <2>2. Head(v.entries) \in Entry /\ Tail(v.entries) \in Seq(Entry)
    BY <1>2, <2>1, HeadTailProperties
  <2>3. Head(v.entries).size \in Nat /\ Head(v.entries).id \in IdOrNull
    BY <2>2, EntryHasSize DEF IdOrNull
  <2>4. Rust!Turn(v) = Rust!PopFront(v)
    BY <1>2 DEF Rust!Turn
  <2> QED
    BY <2>1, <2>2, <2>3, <2>4 DEF Rust!PopFront, RingState
<1> QED
  BY <1>1, <1>2

(* The loop goes through a state after each of its turns. *)
LEMMA LoopRuns ==
  ASSUME NEW v \in RingState, NEW e \in Entry
  PROVE  LET enough == Len(v.entries) + 1
         IN \E after :
              /\ after[0] = Rust!PushedBack(v, e)
              /\ \A i \in 1..enough : after[i] = Rust!Turn(after[i - 1])
              /\ Rust!HistoryPush(v, e) = after[enough]
<1> DEFINE n == Len(v.entries) + 1
           b == Rust!PushedBack(v, e)
           step == [i \in 1..n |-> [x \in RingState |-> Rust!Turn(x)]]
           P(g) == g = [i \in 0..n |-> IF i = 0 THEN b ELSE Rust!Turn(g[i - 1])]
           after == CHOOSE g : P(g)
<1>1. v.entries \in Seq(Entry) /\ v.bytes \in Int /\ v.trimmed \in IdOrNull
  BY DEF RingState
<1>2. n \in Nat
  BY <1>1, LenProperties
<1>3. Rust!HistoryPush(v, e) = after[n]
  BY DEF Rust!HistoryPush
<1>4. b \in RingState
  <2>1. Append(v.entries, e) \in Seq(Entry) /\ e.size \in Nat
    BY <1>1, AppendProperties, EntryHasSize
  <2>2. b = [entries |-> Append(v.entries, e), bytes |-> v.bytes + e.size, trimmed |-> v.trimmed]
    BY DEF Rust!PushedBack, RingState
  <2>3. v.bytes + e.size \in Int
    BY <1>1, <2>1
  <2> HIDE DEF b
  <2> QED
    BY <1>1, <2>1, <2>2, <2>3 DEF RingState
<1>5. step \in [1..n -> [RingState -> RingState]]
  BY TurnStays
<1> HIDE DEF b, n
<1>6. PICK f \in [0..n -> RingState] : StepsFrom(f, b, step, n)
  <2> DEFINE V == RingState
  <2>1. b \in V /\ step \in [1..n -> [V -> V]]
    BY <1>4, <1>5
  <2> HIDE DEF step, V
  <2>2. \E f \in [0..n -> V] : StepsFrom(f, b, step, n)
    BY <1>2, <2>1, StepsExist, Zenon
  <2> QED
    BY <2>2 DEF V
<1>7. \A i \in 0..n : f[i] = IF i = 0 THEN b ELSE Rust!Turn(f[i - 1])
  <2> SUFFICES ASSUME NEW i \in 0..n, i # 0
               PROVE  f[i] = Rust!Turn(f[i - 1])
    BY <1>6 DEF StepsFrom
  <2>1. i \in 1..n /\ i - 1 \in 0..n
    BY <1>2
  <2>2. f[i - 1] \in RingState
    BY <2>1
  <2>3. f[i] = step[i][f[i - 1]]
    BY <1>6, <2>1 DEF StepsFrom
  <2>4. step[i][f[i - 1]] = Rust!Turn(f[i - 1])
    BY <2>1, <2>2
  <2> QED
    BY <2>3, <2>4
<1>8. P(f)
  <2>1. f = [i \in 0..n |-> f[i]]
    OBVIOUS
  <2> QED
    BY <1>7, <2>1
<1> HIDE DEF step
<1>9. P(after)
  BY <1>8
<1> HIDE DEF after
<1>10. after[0] = b /\ \A i \in 1..n : after[i] = Rust!Turn(after[i - 1])
  BY <1>2, <1>9
<1> QED
  BY <1>3, <1>10 DEF n, b

(* The mark that an append leaves is the only one there could be. *)
LEMMA OneMark ==
  ASSUME NEW mark \in IdOrNull, NEW dropped \in SUBSET EventId,
         NEW a \in MarkAfter(mark, dropped), NEW b \in MarkAfter(mark, dropped)
  PROVE  a = b
<1>1. /\ a \in IdOrNull /\ b \in IdOrNull
      /\ AtOrBefore(a, b) /\ AtOrBefore(b, a)
  BY DEF MarkAfter, Newest, IdOrNull
<1> QED
  BY <1>1, IdOrder DEF AtOrBefore

(* Moving the mark past one more id is what dropping one more id leaves. *)
LEMMA MarkMovesOn ==
  ASSUME NEW mark \in IdOrNull, NEW dropped \in SUBSET EventId, NEW id \in EventId,
         NEW a \in MarkAfter(mark, dropped)
  PROVE  /\ a \in IdOrNull
         /\ (IF Before(a, id) THEN id ELSE a) \in MarkAfter(mark, dropped \cup {id})
<1>1. a \in {mark} \cup dropped /\ \A x \in {mark} \cup dropped : AtOrBefore(x, a)
  BY DEF MarkAfter, Newest
<1>2. a \in IdOrNull /\ id \in IdOrNull
  BY <1>1 DEF IdOrNull
<1>3. CASE Before(a, id)
  <2>1. \A x \in {mark} \cup dropped : AtOrBefore(x, id)
    BY <1>1, <1>2, <1>3, IdOrder DEF AtOrBefore, IdOrNull
  <2> QED
    BY <1>2, <1>3, <2>1 DEF MarkAfter, Newest, AtOrBefore
<1>4. CASE ~Before(a, id)
  <2>1. AtOrBefore(id, a)
    BY <1>2, <1>4, IdOrder
  <2> QED
    BY <1>1, <1>2, <1>4, <2>1 DEF MarkAfter, Newest
<1> QED
  BY <1>3, <1>4

(* The Rust history after the TypeScript one. *)
HistoryView == [entries |-> history, bytes |-> bytes, trimmed |-> lastTrimmed]

(* The loop of Rust and the one of TypeScript stop at the same entry. *)
LEMMA EvictsAlike ==
  ASSUME RingInv, Fitting, NEW e \in Entry, AppendEvent(e)
  PROVE  Rust!HistoryPush(HistoryView, e) = HistoryView'
<1> DEFINE h == Append(history, e)
           n == Len(h)
           w == bytes + e.size
           Ids(j) == {h[i].id : i \in 1..j}
           After(j) == SubSeq(h, j + 1, n)
           Left(j) == w - Weight(SubSeq(h, 1, j))
<1>1. /\ history \in Seq(Entry) /\ lastTrimmed \in IdOrNull /\ bytes \in Int
      /\ h \in Seq(Entry) /\ n \in Nat /\ n = Len(history) + 1
      /\ e.size \in Nat /\ w \in Int
  <2>1. history \in Seq(Entry) /\ lastTrimmed \in IdOrNull
    BY DEF RingInv, RingTypeOK, IdOrNull
  <2>2. bytes \in Int
    BY <2>1, WeightIsANumber DEF Fitting
  <2>3. h \in Seq(Entry) /\ n \in Nat /\ n = Len(history) + 1
    BY <2>1, AppendProperties, LenProperties
  <2>4. e.size \in Nat
    BY EntryHasSize
  <2> QED
    BY <2>1, <2>2, <2>3, <2>4
<1>2. HistoryView \in RingState /\ HistoryView.entries = history
  BY <1>1 DEF HistoryView, RingState
<1>3. Rust!PushedBack(HistoryView, e) = [entries |-> h, bytes |-> w, trimmed |-> lastTrimmed]
  BY DEF Rust!PushedBack, HistoryView
<1>4. PICK k \in TrimCount(h, w) :
        /\ history' = SubSeq(h, k + 1, Len(h))
        /\ bytes' = w - Weight(SubSeq(h, 1, k))
        /\ lastTrimmed' \in MarkAfter(lastTrimmed, {h[i].id : i \in 1..k})
  BY DEF AppendEvent
<1>5. PICK after : /\ after[0] = Rust!PushedBack(HistoryView, e)
                   /\ \A i \in 1..n : after[i] = Rust!Turn(after[i - 1])
                   /\ Rust!HistoryPush(HistoryView, e) = after[n]
  BY <1>1, <1>2, LoopRuns
<1> HIDE DEF h, n, w
<1>6. /\ k \in 0..n
      /\ Left(k) <= MaxBytes \/ k = n
      /\ \A j \in 0..(k - 1) : ~(Left(j) <= MaxBytes)
  BY <1>4 DEF TrimCount, n
<1>7. /\ \A j \in 1..n : h[j] \in Entry /\ h[j].id \in EventId /\ h[j].size \in Nat
      /\ MaxBytes \in Nat
  BY <1>1, ElementOfSeq, EntryHasSize, RingAssumption DEF n, RingAssumption
<1>8. \A j \in 0..n : Left(j) \in Int
  <2> SUFFICES ASSUME NEW j \in 0..n PROVE Left(j) \in Int
    OBVIOUS
  <2>1. SubSeq(h, 1, j) \in Seq(Entry)
    BY <1>1, StretchesOf DEF n
  <2>2. Weight(SubSeq(h, 1, j)) \in Nat
    BY <2>1, WeightIsANumber
  <2> QED
    BY <1>1, <2>2
<1>9. \A j \in 1..n : Left(j) = Left(j - 1) - h[j].size
  <2> SUFFICES ASSUME NEW j \in 1..n PROVE Left(j) = Left(j - 1) - h[j].size
    OBVIOUS
  <2>1. Weight(SubSeq(h, 1, j)) = Weight(SubSeq(h, 1, j - 1)) + h[j].size
    BY <1>1, WeightOfLonger DEF n
  <2>2. SubSeq(h, 1, j - 1) \in Seq(Entry)
    BY <1>1, StretchesOf DEF n
  <2>3. Weight(SubSeq(h, 1, j - 1)) \in Nat
    BY <2>2, WeightIsANumber
  <2> QED
    BY <1>1, <1>7, <2>1, <2>3
<1>10. \A j \in 1..n : /\ After(j - 1) # <<>>
                       /\ Head(After(j - 1)) = h[j]
                       /\ Tail(After(j - 1)) = After(j)
  <2> SUFFICES ASSUME NEW j \in 1..n
               PROVE  /\ After(j - 1) # <<>>
                      /\ Head(After(j - 1)) = h[j]
                      /\ Tail(After(j - 1)) = After(j)
    OBVIOUS
  <2>1. /\ After(j - 1) \in Seq(Entry) /\ After(j) \in Seq(Entry)
        /\ Len(After(j - 1)) = n - j + 1 /\ Len(After(j)) = n - j
        /\ \A i \in 1..(n - j + 1) : After(j - 1)[i] = h[j - 1 + i]
        /\ \A i \in 1..(n - j) : After(j)[i] = h[j + i]
    <3>1. \A a \in 1..(n + 1) :
             /\ SubSeq(h, a, n) \in Seq(Entry)
             /\ Len(SubSeq(h, a, n)) = IF a <= n THEN n - a + 1 ELSE 0
             /\ \A i \in 1..(n - a + 1) : SubSeq(h, a, n)[i] = h[a + i - 1]
      <4> SUFFICES ASSUME NEW a \in 1..(n + 1)
                   PROVE  /\ SubSeq(h, a, n) \in Seq(Entry)
                          /\ Len(SubSeq(h, a, n)) = IF a <= n THEN n - a + 1 ELSE 0
                          /\ \A i \in 1..(n - a + 1) : SubSeq(h, a, n)[i] = h[a + i - 1]
        OBVIOUS
      <4>1. a \in Int /\ n \in Int /\ \A i \in a..n : h[i] \in Entry
        BY <1>1, <1>7
      <4> QED
        BY <4>1, SubSeqProperties
    <3>2. j \in 1..(n + 1) /\ j + 1 \in 1..(n + 1) /\ (j - 1) + 1 = j
      BY <1>1
    <3> QED
      BY <1>1, <3>1, <3>2
  <2>2. After(j - 1) # <<>>
    <3>1. n - j + 1 # 0 /\ Len(<<>>) = 0
      BY <1>1
    <3> HIDE DEF After
    <3> QED
      BY <2>1, <3>1
  <2>3. /\ Head(After(j - 1)) = After(j - 1)[1]
        /\ Tail(After(j - 1)) \in Seq(Entry)
        /\ Len(Tail(After(j - 1))) = Len(After(j - 1)) - 1
        /\ \A i \in 1..Len(Tail(After(j - 1))) : Tail(After(j - 1))[i] = After(j - 1)[i + 1]
    BY <2>1, <2>2, HeadTailProperties
  <2> HIDE DEF After
  <2>4. Tail(After(j - 1)) = After(j)
    <3>1. Len(Tail(After(j - 1))) = Len(After(j))
      BY <1>1, <2>1, <2>3
    <3>2. \A i \in 1..Len(After(j)) : Tail(After(j - 1))[i] = After(j)[i]
      <4> SUFFICES ASSUME NEW i \in 1..Len(After(j))
                   PROVE  Tail(After(j - 1))[i] = After(j)[i]
        OBVIOUS
      <4>1. i \in 1..(n - j) /\ i + 1 \in 1..(n - j + 1) /\ j - 1 + (i + 1) = j + i
        BY <1>1, <2>1
      <4>2. After(j - 1)[i + 1] = h[j + i] /\ After(j)[i] = h[j + i]
        BY <2>1, <4>1
      <4> QED
        BY <2>3, <3>1, <4>2
    <3> QED
      BY <2>1, <2>3, <3>1, <3>2, SeqEqual
  <2> QED
    BY <1>1, <2>1, <2>2, <2>3, <2>4
<1>11. \A j \in 1..n : Ids(j) = Ids(j - 1) \cup {h[j].id}
  <2> SUFFICES ASSUME NEW j \in 1..n PROVE Ids(j) = Ids(j - 1) \cup {h[j].id}
    OBVIOUS
  <2>1. 1..j = (1..(j - 1)) \cup {j}
    BY <1>1
  <2> QED
    BY <2>1
<1>12. \A j \in 0..n : Ids(j) \in SUBSET EventId
  BY <1>1, <1>7
<1>13. Ids(0) = {} /\ After(0) = h /\ Left(0) = w
  <2>1. SubSeq(h, 1, n) = h
    BY <1>1, SubSeqFull DEF n
  <2>2. SubSeq(h, 1, 0) = <<>>
    BY <1>1, SubSeqEmpty
  <2>3. Ids(0) = {}
    OBVIOUS
  <2>4. After(0) = h
    BY <2>1
  <2>5. Left(0) = w
    <3>1. Weight(SubSeq(h, 1, 0)) = 0
      BY <2>2, WeightOfNone, Zenon
    <3>2. Left(0) = w - 0
      BY <3>1, Zenon
    <3> HIDE DEF Left
    <3> QED
      BY <1>1, <3>2
  <2> QED
    BY <2>3, <2>4, <2>5
<1>14. k < n => After(k) # <<>>
  <2>1. k < n => k + 1 \in 1..n /\ (k + 1) - 1 = k
    BY <1>1, <1>6
  <2> QED
    BY <1>10, <2>1
<1>15. After(n) = <<>>
  BY <1>1, SubSeqEmpty
<1> HIDE DEF Ids, After, Left
<1> DEFINE State(a, j) == /\ a = [entries |-> After(j), bytes |-> Left(j), trimmed |-> a.trimmed]
                          /\ a.trimmed \in MarkAfter(lastTrimmed, Ids(j))
           S == {i \in 0..n : State(after[i], IF i <= k THEN i ELSE k)}
<1>16. 0 \in S
  <2>1. lastTrimmed \in MarkAfter(lastTrimmed, {})
    BY DEF MarkAfter, Newest, AtOrBefore
  <2>2. after[0] = [entries |-> After(0), bytes |-> Left(0), trimmed |-> lastTrimmed]
    BY <1>3, <1>5, <1>13
  <2>3. State(after[0], 0)
    BY <1>13, <2>1, <2>2
  <2> HIDE DEF State
  <2> QED
    BY <1>1, <1>6, <2>3
<1>17. \A i \in 1..n : i - 1 \in S => i \in S
  <2> SUFFICES ASSUME NEW i \in 1..n, State(after[i - 1], IF i - 1 <= k THEN i - 1 ELSE k)
               PROVE  State(after[i], IF i <= k THEN i ELSE k)
    BY <1>1
  <2>1. after[i] = Rust!Turn(after[i - 1])
    BY <1>5
  <2> DEFINE v == after[i - 1]
  <2>2. CASE i <= k
    <3>1. State(v, i - 1) /\ i - 1 \in 0..(k - 1) /\ i - 1 \in 0..n
      BY <1>1, <1>6, <2>2
    <3>2. /\ v.entries = After(i - 1) /\ v.bytes = Left(i - 1)
          /\ v.trimmed \in MarkAfter(lastTrimmed, Ids(i - 1))
      BY <3>1
    <3> HIDE DEF v, State
    <3>3. ~(v.bytes <= MaxBytes \/ v.entries = <<>>)
      BY <1>6, <1>10, <3>1, <3>2
    <3>4. /\ Head(v.entries) = h[i] /\ Tail(v.entries) = After(i)
          /\ v.bytes - h[i].size = Left(i)
      BY <1>9, <1>10, <3>2
    <3> DEFINE mark == IF Before(v.trimmed, h[i].id) THEN h[i].id ELSE v.trimmed
    <3>5. mark \in MarkAfter(lastTrimmed, Ids(i))
      <4>1. Ids(i - 1) \in SUBSET EventId /\ h[i].id \in EventId
        BY <1>7, <1>12, <3>1
      <4>2. mark \in MarkAfter(lastTrimmed, Ids(i - 1) \cup {h[i].id})
        BY <1>1, <3>2, <4>1, MarkMovesOn
      <4> QED
        BY <1>11, <4>2
    <3>6. Rust!Turn(v) = [entries |-> After(i), bytes |-> Left(i), trimmed |-> mark]
      BY <3>3, <3>4, SameIds DEF Rust!Turn, Rust!PopFront
    <3> HIDE DEF mark
    <3>7. State(after[i], i)
      BY <2>1, <3>5, <3>6 DEF State, v
    <3> QED
      BY <2>2, <3>7
  <2>3. CASE ~(i <= k)
    <3>1. State(v, k)
      <4>1. i - 1 <= k => i - 1 = k
        BY <1>1, <1>6, <2>3
      <4> QED
        BY <4>1
    <3>2. v.entries = After(k) /\ v.bytes = Left(k)
      BY <3>1
    <3>3. v.bytes <= MaxBytes \/ v.entries = <<>>
      BY <1>6, <1>15, <3>2
    <3>4. Rust!Turn(v) = v
      BY <3>3 DEF Rust!Turn
    <3> HIDE DEF State
    <3> QED
      BY <2>1, <2>3, <3>1, <3>4
  <2> QED
    BY <2>2, <2>3
<1>18. n \in S
  <2> HIDE DEF S
  <2>1. \A i \in 0..n : i \in S
    BY <1>1, <1>16, <1>17, CountingUp
  <2> QED
    BY <1>1, <2>1
<1>19. State(after[n], k)
  <2>1. n <= k => n = k
    BY <1>1, <1>6
  <2> HIDE DEF State
  <2> QED
    BY <1>18, <2>1
<1>20. history' = After(k) /\ bytes' = Left(k) /\ lastTrimmed' \in MarkAfter(lastTrimmed, Ids(k))
  BY <1>4 DEF n, After, Left, Ids
<1>21. after[n].trimmed = lastTrimmed'
  <2>1. after[n].trimmed \in MarkAfter(lastTrimmed, Ids(k)) /\ Ids(k) \in SUBSET EventId
    BY <1>6, <1>12, <1>19
  <2> QED
    BY <1>1, <1>20, <2>1, OneMark
<1>22. after[n] = [entries |-> history', bytes |-> bytes', trimmed |-> lastTrimmed']
  BY <1>19, <1>20, <1>21
<1> QED
  BY <1>5, <1>22 DEF HistoryView

-----------------------------------------------------------------------------
(* The registry, which in Rust is that of TypeScript but for the counts q. *)
RegistryView(q) ==
  [next |-> nextSub,
   subs |-> [s \in Live |-> [topics |-> subs[s].topics, key |-> subs[s].key, queued |-> q[s]]],
   byTopic |-> byTopic, byKey |-> byKey]

(* A subscriber is entered in the four indexes alike. *)
LEMMA AddsAlike ==
  ASSUME NEW asked \in Requests, NEW k \in Keys \cup {NoKey}, AddSubscriber(asked, k),
         NEW q, NEW r, r = [s \in Live \cup {nextSub} |-> IF s = nextSub THEN 0 ELSE q[s]]
  PROVE  Rust!RegistryAdd(RegistryView(q), asked, k) = RegistryView(r)'
<1> DEFINE id == nextSub
           unique == Listed(asked)
           new == Rust!RegistryAdd(RegistryView(q), asked, k)
           view == [s \in Live |-> [topics |-> subs[s].topics, key |-> subs[s].key, queued |-> q[s]]]
           view2 == [s \in Live' |-> [topics |-> subs'[s].topics, key |-> subs'[s].key, queued |-> r[s]]]
<1>1. unique = {asked[i] : i \in DOMAIN asked}
  BY DEF Listed
<1>2. new.next = nextSub'
  BY DEF Rust!RegistryAdd, RegistryView, AddSubscriber
<1>3. new.subs = view2
  <2>1. new.subs = Rust!Put(view, id, [topics |-> unique, key |-> k, queued |-> 0])
    BY <1>1 DEF Rust!RegistryAdd, RegistryView
  <2>2. /\ Live' = Live \cup {id}
        /\ \A s \in Live' : subs'[s] = IF s = id THEN [topics |-> unique, key |-> k, queued |-> 0]
                                      ELSE subs[s]
    BY DEF AddSubscriber, Live
  <2>3. DOMAIN view = Live
    OBVIOUS
  <2>4. \A s \in Live' : view2[s] = IF s = id THEN [topics |-> unique, key |-> k, queued |-> 0]
                                   ELSE view[s]
    BY <2>2
  <2> HIDE DEF view, view2
  <2>5. view2 = [s \in Live' |-> view2[s]]
    BY DEF view2
  <2> QED
    BY <2>1, <2>2, <2>3, <2>4, <2>5 DEF Rust!Put
<1>4. new.byTopic = byTopic'
  BY <1>1 DEF Rust!RegistryAdd, RegistryView, AddSubscriber, Rust!At, Wanting
<1>5. new.byKey = byKey'
  BY DEF Rust!RegistryAdd, RegistryView, AddSubscriber, Rust!Put, Rust!At, CountForKey
<1>6. new = [next |-> new.next, subs |-> new.subs, byTopic |-> new.byTopic, byKey |-> new.byKey]
  BY DEF Rust!RegistryAdd
<1>7. RegistryView(r)' = [next |-> nextSub', subs |-> view2, byTopic |-> byTopic', byKey |-> byKey']
  BY DEF RegistryView
<1> HIDE DEF view2
<1> QED
  BY <1>2, <1>3, <1>4, <1>5, <1>6, <1>7

(* A subscriber is taken out of the four indexes alike. *)
LEMMA RemovesAlike ==
  ASSUME RegInv, NEW id \in Live, RemoveSubscriber(id),
         NEW q, NEW r, r = [s \in Live \ {id} |-> q[s]]
  PROVE  Rust!RegistryRemove(RegistryView(q), id) = RegistryView(r)'
<1> DEFINE k == subs[id].key
           gone == subs[id].topics
           new == Rust!RegistryRemove(RegistryView(q), id)
           view == [s \in Live |-> [topics |-> subs[s].topics, key |-> subs[s].key, queued |-> q[s]]]
           view2 == [s \in Live' |-> [topics |-> subs'[s].topics, key |-> subs'[s].key, queued |-> r[s]]]
           rest == [t \in DOMAIN byTopic |->
                      IF t \in gone THEN byTopic[t] \ {id} ELSE byTopic[t]]
           emptied == {t \in gone : Wanting(t) \subseteq {id}}
<1>1. /\ k \in Keys \cup {NoKey}
      /\ \A x \in DOMAIN byKey : byKey[x] \in Nat \ {0}
      /\ byKey = [x \in DOMAIN byKey |-> byKey[x]]
      /\ k # NoKey => k \in DOMAIN byKey
  BY DEF RegInv, RegistryTypeOK, IndexesAgree
<1>2. new = [next |-> nextSub,
             subs |-> Rust!Without(view, {id}),
             byTopic |-> Rust!Without(rest, {t \in gone : Rust!At(rest, t, {}) = {}}),
             byKey |-> IF k = NoKey THEN byKey
                       ELSE IF Rust!At(byKey, k, 0) > 1 THEN Rust!Put(byKey, k, byKey[k] - 1)
                       ELSE Rust!Without(byKey, {k})]
  <2>1. /\ RegistryView(q).next = nextSub /\ RegistryView(q).subs = view
        /\ RegistryView(q).byTopic = byTopic /\ RegistryView(q).byKey = byKey
    BY DEF RegistryView
  <2>2. id \in DOMAIN view /\ view[id].topics = gone /\ view[id].key = k
    OBVIOUS
  <2> HIDE DEF view
  <2> QED
    BY <2>1, <2>2 DEF Rust!RegistryRemove
<1>3. Rust!Without(view, {id}) = view2
  <2>1. Live' = Live \ {id} /\ \A s \in Live' : subs'[s] = subs[s]
    BY DEF RemoveSubscriber, Live
  <2> QED
    BY <2>1 DEF Rust!Without
<1>4. Rust!Without(rest, {t \in gone : Rust!At(rest, t, {}) = {}}) = byTopic'
  <2>1. {t \in gone : Rust!At(rest, t, {}) = {}} = emptied
    <3> SUFFICES ASSUME NEW t \in gone
                 PROVE  Rust!At(rest, t, {}) = {} <=> Wanting(t) \subseteq {id}
      OBVIOUS
    <3>1. CASE t \in DOMAIN byTopic
      <4>1. Rust!At(rest, t, {}) = byTopic[t] \ {id} /\ Wanting(t) = byTopic[t]
        BY <3>1 DEF Rust!At, Wanting
      <4> QED
        BY <4>1
    <3>2. CASE t \notin DOMAIN byTopic
      BY <3>2 DEF Rust!At, Wanting
    <3> QED
      BY <3>1, <3>2
  <2>2. byTopic' = [t \in DOMAIN byTopic \ emptied |->
                      IF t \in gone THEN byTopic[t] \ {id} ELSE byTopic[t]]
    BY DEF RemoveSubscriber, Unindex
  <2> HIDE DEF emptied
  <2>3. Rust!Without(rest, emptied) = [t \in DOMAIN byTopic \ emptied |-> rest[t]]
    BY DEF Rust!Without
  <2> QED
    BY <2>1, <2>2, <2>3
<1>5. (IF k = NoKey THEN byKey
       ELSE IF Rust!At(byKey, k, 0) > 1 THEN Rust!Put(byKey, k, byKey[k] - 1)
       ELSE Rust!Without(byKey, {k})) = byKey'
  <2>1. byKey' = IF k = NoKey THEN byKey
                 ELSE IF CountForKey(k) <= 1
                 THEN [x \in DOMAIN byKey \ {k} |-> byKey[x]]
                 ELSE [byKey EXCEPT ![k] = @ - 1]
    BY DEF RemoveSubscriber, ReleaseKey
  <2>2. CASE k = NoKey
    BY <2>1, <2>2
  <2>3. CASE k # NoKey
    <3>1. /\ k \in DOMAIN byKey /\ byKey[k] \in Nat
          /\ CountForKey(k) = byKey[k] /\ Rust!At(byKey, k, 0) = byKey[k]
      BY <1>1, <2>3 DEF CountForKey, Rust!At
    <3>2. CASE byKey[k] <= 1
      BY <2>1, <2>3, <3>1, <3>2 DEF Rust!Without
    <3>3. CASE ~(byKey[k] <= 1)
      <4>1. Rust!Put(byKey, k, byKey[k] - 1) = [byKey EXCEPT ![k] = @ - 1]
        BY <1>1, <3>1 DEF Rust!Put
      <4> QED
        BY <2>1, <2>3, <3>1, <3>3, <4>1
    <3> QED
      BY <3>2, <3>3
  <2> QED
    BY <2>2, <2>3
<1>6. nextSub' = nextSub
  BY DEF RemoveSubscriber
<1>7. RegistryView(r)' = [next |-> nextSub', subs |-> view2, byTopic |-> byTopic', byKey |-> byKey']
  BY DEF RegistryView
<1> HIDE DEF view, view2, rest
<1> QED
  BY <1>2, <1>3, <1>4, <1>5, <1>6, <1>7

(* A count that is set is one count of one subscriber, whatever TypeScript *)
(* sets it to.                                                             *)
LEMMA SetsAlike ==
  ASSUME NEW id \in Live, NEW n, SetQueued(id, n), NEW q, NEW m,
         NEW r, r = [s \in Live |-> IF s = id THEN m ELSE q[s]]
  PROVE  Rust!SetQueued(RegistryView(q), id, m) = RegistryView(r)'
<1> DEFINE view(f) ==
             [s \in Live |-> [topics |-> subs[s].topics, key |-> subs[s].key, queued |-> f[s]]]
<1>1. RegistryView(q) = [next |-> nextSub, subs |-> view(q), byTopic |-> byTopic, byKey |-> byKey]
  BY DEF RegistryView
<1>2. Rust!SetQueued(RegistryView(q), id, m)
        = [next |-> nextSub, subs |-> [view(q) EXCEPT ![id].queued = m],
           byTopic |-> byTopic, byKey |-> byKey]
  <2> HIDE DEF view
  <2> QED
    BY <1>1 DEF Rust!SetQueued
<1>3. [view(q) EXCEPT ![id].queued = m] = view(r)
  <2>1. \A s \in Live : r[s] = IF s = id THEN m ELSE q[s]
    OBVIOUS
  <2>2. [view(q) EXCEPT ![id].queued = m]
          = [s \in Live |-> IF s = id THEN [view(q)[id] EXCEPT !.queued = m] ELSE view(q)[s]]
    OBVIOUS
  <2>3. [view(q)[id] EXCEPT !.queued = m]
          = [topics |-> subs[id].topics, key |-> subs[id].key, queued |-> m]
    OBVIOUS
  <2>4. \A s \in Live : view(r)[s]
          = IF s = id THEN [view(q)[id] EXCEPT !.queued = m] ELSE view(q)[s]
    BY <2>1, <2>3
  <2>5. view(r) = [s \in Live |-> view(r)[s]]
    OBVIOUS
  <2> HIDE DEF view
  <2> QED
    BY <2>2, <2>4, <2>5
<1>4. /\ Live' = Live /\ nextSub' = nextSub /\ byTopic' = byTopic /\ byKey' = byKey
      /\ \A s \in Live : subs'[s].topics = subs[s].topics /\ subs'[s].key = subs[s].key
  BY DEF SetQueued, Live
<1>5. RegistryView(r)' = [next |-> nextSub, subs |-> view(r), byTopic |-> byTopic, byKey |-> byKey]
  BY <1>4 DEF RegistryView
<1> QED
  BY <1>2, <1>3, <1>5

-----------------------------------------------------------------------------
(* The hubs.                                                               *)
RustView(q) == [last |-> lastId, history |-> HistoryView, registry |-> RegistryView(q)]

(* No count of the Rust core is below TypeScript's, and until that one was *)
(* clamped they are equal.                                                 *)
Tied(q) ==
  \A s \in Live : /\ subs[s].queued <= q[s]
                  /\ s \notin capped => q[s] = subs[s].queued

Mirrors == \E q \in [Live -> Nat] : rust = RustView(q) /\ Tied(q)

(* The two hubs start alike. *)
LEMMA InitMirrors == BothInit => Mirrors
<1> SUFFICES ASSUME BothInit PROVE Mirrors
  OBVIOUS
<1>1. Live = {} /\ subs = <<>>
  BY DEF BothInit, Init, RegistryInit, Live
<1>2. <<>> \in [Live -> Nat] /\ Tied(<<>>)
  BY <1>1 DEF Tied
<1>3. [s \in Live |-> [topics |-> subs[s].topics, key |-> subs[s].key, queued |-> <<>>[s]]] = <<>>
  BY <1>1
<1>4. rust = RustView(<<>>)
  BY <1>3, SameIds DEF BothInit, Init, RingInit, RegistryInit, RustView, HistoryView,
     RegistryView, Rust!RustHubNew
<1> QED
  BY <1>2, <1>4 DEF Mirrors

(* The two sequences mint the same id. *)
LEMMA MintsAlike ==
  ASSUME NEW last \in EventId, NEW now \in Nat
  PROVE  Rust!SequenceNext(last, now) = NextId(last, now)
<1>1. last = [ms |-> last.ms, seq |-> last.seq]
  BY DEF EventId
<1>2. [last EXCEPT !.seq = @ + 1] = [ms |-> last.ms, seq |-> last.seq + 1]
  BY <1>1
<1> QED
  BY <1>2 DEF Rust!SequenceNext, NextId, Rust!Id, Id

(* The two histories record the same entry. *)
LEMMA RecordsAlike ==
  ASSUME RingInv, Fitting, NEW e \in Entry, Appended(e), NEW q
  PROVE  Rust!Record([RustView(q) EXCEPT !.last = Later(lastId, e.id)], e) = RustView(q)'
<1>1. Rust!HistoryPush(HistoryView, e) = HistoryView'
  BY EvictsAlike DEF Appended
<1>2. lastId' = Later(lastId, e.id)
  BY DEF Appended, AppendEvent
<1>3. RegistryView(q)' = RegistryView(q)
  BY DEF Appended, regVars, RegistryView, Live
<1>4. [RustView(q) EXCEPT !.last = Later(lastId, e.id)]
        = [last |-> Later(lastId, e.id), history |-> HistoryView, registry |-> RegistryView(q)]
  BY DEF RustView
<1>5. Rust!Record([last |-> Later(lastId, e.id), history |-> HistoryView, registry |-> RegistryView(q)], e)
        = [last |-> Later(lastId, e.id), history |-> Rust!HistoryPush(HistoryView, e),
           registry |-> RegistryView(q)]
  BY DEF Rust!Record
<1> QED
  BY <1>1, <1>2, <1>3, <1>4, <1>5 DEF RustView

(* What leaves the subscribers as they are leaves their counts tied. *)
LEMMA TiedStill ==
  ASSUME UNCHANGED <<subs, capped>>, NEW q, Tied(q)
  PROVE  Live' = Live /\ Tied(q)'
BY DEF Tied, Live

(* A publish leaves the two hubs alike. *)
LEMMA PublishMirrors ==
  ASSUME IInv, Fitting, Mirrors, NEW now \in 0..MaxMs, NEW t \in Topics, NEW n \in Sizes,
         NEW o \in Origins, BothPublish(now, t, n, o)
  PROVE  Mirrors'
<1> DEFINE e == Minted(now, t, n, o)
<1>1. lastId \in EventId /\ now \in Nat /\ RingInv
  BY RingAssumption DEF IInv, RingInv, RingTypeOK
<1>2. e \in Entry /\ e = [id |-> NextId(lastId, now), topic |-> t, size |-> n, origin |-> o]
  BY <1>1, MintedIsFresh DEF Minted
<1>3. Later(lastId, NextId(lastId, now)) = NextId(lastId, now)
  BY <1>1, MintIsLater DEF Later
<1>4. PICK q \in [Live -> Nat] : rust = RustView(q) /\ Tied(q)
  BY DEF Mirrors
<1>5. rust' = Rust!Record([RustView(q) EXCEPT !.last = NextId(lastId, now)], e)
  <2>1. RustView(q).last = lastId
    BY DEF RustView
  <2>2. Rust!SequenceNext(lastId, now) = NextId(lastId, now)
    BY <1>1, MintsAlike
  <2> QED
    BY <1>2, <1>4, <2>1, <2>2 DEF Rust!RustPublish, BothPublish
<1>6. Rust!Record([RustView(q) EXCEPT !.last = Later(lastId, e.id)], e) = RustView(q)'
  BY <1>1, <1>2, RecordsAlike DEF BothPublish, Publish
<1>7. Later(lastId, e.id) = NextId(lastId, now)
  BY <1>2, <1>3
<1>8. Live' = Live /\ Tied(q)'
  BY <1>4, TiedStill DEF BothPublish, Publish, Appended, regVars
<1> QED
  BY <1>4, <1>5, <1>6, <1>7, <1>8 DEF Mirrors

(* An append leaves the two hubs alike. *)
LEMMA AppendMirrors ==
  ASSUME IInv, Fitting, Mirrors, NEW id \in ModelIds, NEW t \in Topics, NEW n \in Sizes,
         NEW o \in Origins, BothAppend(id, t, n, o)
  PROVE  Mirrors'
<1> DEFINE e == [id |-> id, topic |-> t, size |-> n, origin |-> o]
<1>1. e \in Entry /\ e.id = id
  BY RingAssumption DEF ModelIds, EventId, Entry
<1>2. PICK q \in [Live -> Nat] : rust = RustView(q) /\ Tied(q)
  BY DEF Mirrors
<1>3. RustView(q).last = lastId
  BY DEF RustView
<1>4. Rust!SequenceObserve(lastId, id) = Later(lastId, id)
  BY SameIds DEF Rust!SequenceObserve, Later
<1>5. rust' = Rust!Record([RustView(q) EXCEPT !.last = Later(lastId, id)], e)
  BY <1>2, <1>3, <1>4 DEF Rust!RustAppend, BothAppend
<1> HIDE DEF e
<1>6. Rust!Record([RustView(q) EXCEPT !.last = Later(lastId, e.id)], e) = RustView(q)'
  BY <1>1, RecordsAlike DEF BothAppend, AppendAssigned, IInv, e
<1>7. Live' = Live /\ Tied(q)'
  BY <1>2, TiedStill DEF BothAppend, AppendAssigned, Appended, regVars
<1> QED
  BY <1>1, <1>2, <1>5, <1>6, <1>7 DEF Mirrors

(* Rust counts what TypeScript counts. *)
LEMMA SameCardinality == \A S : Rust!Cardinality(S) = Cardinality(S)
  BY Zenon DEF Rust!Cardinality, Cardinality

(* A request of topics has no fault. *)
LEMMA FaultsOfTopics ==
  ASSUME NEW asked \in Requests
  PROVE  {Faults[asked[i]] : i \in DOMAIN asked} \ {"none"} = {}
<1>1. \A t \in Topics : Faults[t] = "none"
  BY DEF Faults
<1>2. \A i \in DOMAIN asked : asked[i] \in Topics
  BY DEF Requests
<1> QED
  BY <1>1, <1>2

(* An admitted subscription leaves the two hubs alike. *)
LEMMA SubscribeMirrors ==
  ASSUME IInv, Mirrors, NEW asked \in Requests, NEW k \in Keys \cup {NoKey}, NEW c \in Cursors,
         BothSubscribe(asked, k, c)
  PROVE  Mirrors'
<1>1. PICK q \in [Live -> Nat] : rust = RustView(q) /\ Tied(q)
  BY DEF Mirrors
<1>2. /\ RustView(q).registry = RegistryView(q)
      /\ DOMAIN RegistryView(q).subs = DOMAIN subs /\ RegistryView(q).byKey = byKey
  BY DEF RustView, RegistryView, Live
<1>3. /\ Len(asked) \in 1..MaxTopics
      /\ Cardinality(DOMAIN subs) < MaxConnections
      /\ k = NoKey \/ CountForKey(k) < MaxPerKey
      /\ AddSubscriber(asked, k)
      /\ UNCHANGED ringVars /\ UNCHANGED capped
  BY DEF BothSubscribe, Subscribe, Admits, Live
<1>4. IsFiniteSet(DOMAIN subs) /\ Cardinality(DOMAIN subs) \in Nat /\ MaxConnections \in Nat /\ MaxPerKey \in Nat
  BY LiveIsFinite, FS_CardinalityType, RegistryAssumption DEF IInv, RegInv, Live, RegistryAssumption
<1>5. k # NoKey => CountForKey(k) \in Nat /\ Rust!At(byKey, k, 0) = CountForKey(k)
  BY DEF IInv, RegInv, RegistryTypeOK, CountForKey, Rust!At
<1>6. Rust!RustRefusal(RegistryView(q), asked, k, Faults) = <<"none">>
  <2>1. ~(Cardinality(DOMAIN subs) >= MaxConnections)
    BY <1>3, <1>4
  <2>2. ~(k # NoKey /\ Rust!At(byKey, k, 0) >= MaxPerKey)
    BY <1>3, <1>4, <1>5
  <2> QED
    BY <1>2, <1>3, <2>1, <2>2, FaultsOfTopics, SameCardinality DEF Rust!RustRefusal
<1>7. rust' = [RustView(q) EXCEPT !.registry = Rust!RegistryAdd(RegistryView(q), asked, k)]
  BY <1>1, <1>2, <1>6 DEF Rust!RustSubscribe, BothSubscribe
<1>8. PICK r : r = [s \in Live \cup {nextSub} |-> IF s = nextSub THEN 0 ELSE q[s]]
  OBVIOUS
<1>9. Rust!RegistryAdd(RegistryView(q), asked, k) = RegistryView(r)'
  BY <1>3, <1>8, AddsAlike
<1>10. lastId' = lastId /\ HistoryView' = HistoryView
  BY <1>3 DEF ringVars, HistoryView
<1>11. rust' = RustView(r)'
  BY <1>7, <1>9, <1>10 DEF RustView
<1>12. /\ Live' = Live \cup {nextSub}
       /\ \A s \in Live' : subs'[s].queued = IF s = nextSub THEN 0 ELSE subs[s].queued
  BY <1>3 DEF AddSubscriber, Live
<1>13. r \in [Live' -> Nat] /\ Tied(r)'
  BY <1>1, <1>3, <1>8, <1>12 DEF Tied
<1> QED
  BY <1>11, <1>13 DEF Mirrors

(* A removal leaves the two hubs alike. *)
LEMMA RemoveMirrors ==
  ASSUME IInv, Mirrors, NEW id \in Live, BothRemove(id)
  PROVE  Mirrors'
<1>1. PICK q \in [Live -> Nat] : rust = RustView(q) /\ Tied(q)
  BY DEF Mirrors
<1>2. rust' = [RustView(q) EXCEPT !.registry = Rust!RegistryRemove(RegistryView(q), id)]
  BY <1>1 DEF Rust!RustRemove, RustView, BothRemove
<1>3. PICK r : r = [s \in Live \ {id} |-> q[s]]
  OBVIOUS
<1>4. Rust!RegistryRemove(RegistryView(q), id) = RegistryView(r)'
  BY <1>3, RemovesAlike DEF IInv, BothRemove, Remove
<1>5. lastId' = lastId /\ HistoryView' = HistoryView
  BY DEF BothRemove, Remove, ringVars, HistoryView
<1>6. rust' = RustView(r)'
  BY <1>2, <1>4, <1>5 DEF RustView
<1>7. Live' = Live \ {id} /\ \A s \in Live' : subs'[s] = subs[s]
  BY DEF BothRemove, Remove, RemoveSubscriber, Live
<1>8. r \in [Live' -> Nat] /\ Tied(r)'
  BY <1>1, <1>3, <1>7 DEF Tied, BothRemove
<1> QED
  BY <1>6, <1>8 DEF Mirrors

(* A note leaves the two hubs alike, whichever count it makes stop first. *)
LEMMA NoteMirrors ==
  ASSUME IInv, Mirrors, NEW id \in Live, NEW n \in 0..MaxQueued, BothNote(id, n)
  PROVE  Mirrors'
<1>1. PICK q \in [Live -> Nat] : rust = RustView(q) /\ Tied(q)
  BY DEF Mirrors
<1>2. /\ subs = [s \in Live |-> subs[s]]
      /\ \A s \in Live : subs[s] = [topics |-> subs[s].topics, key |-> subs[s].key,
                                   queued |-> subs[s].queued]
      /\ \A s \in Live : subs[s].queued \in Nat
      /\ MaxQueued \in Nat /\ MaxUsize \in Nat /\ MaxQueued <= MaxUsize /\ n \in Nat
  BY RegistryAssumption, WidthAssumption
  DEF IInv, RegInv, RegistryTypeOK, RegistryAssumption, WidthAssumption, Live
<1>3. RustView(q).registry = RegistryView(q) /\ RegistryView(q).subs[id].queued = q[id]
  BY DEF RustView, RegistryView
<1> DEFINE Step(m, p, c) ==
             /\ m \in Nat /\ p \in Nat
             /\ SetQueued(id, m)
             /\ rust' = [RustView(q) EXCEPT !.registry = Rust!SetQueued(RegistryView(q), id, p)]
             /\ capped' = c
             /\ m <= p
             /\ \A s \in Live \ {id} : s \notin c => s \notin capped
             /\ id \notin c => p = m
<1>4. \E m, p, c : Step(m, p, c)
  <2>1. CASE NoteBuffer(id, n) /\ rust' = Rust!RustNoteBuffer(rust, id, n) /\ capped' = capped \ {id}
    <3>1. Step(n, n, capped \ {id})
      BY <1>1, <1>2, <1>3, <2>1 DEF NoteBuffer, Rust!RustNoteBuffer
    <3> QED
      BY <3>1
  <2>2. CASE /\ NoteSent(id, n) /\ rust' = Rust!RustNoteSent(rust, id, n)
             /\ capped' = IF subs[id].queued + n > MaxQueued THEN capped \cup {id} ELSE capped
    <3> DEFINE m == IF subs[id].queued + n > MaxQueued THEN MaxQueued ELSE subs[id].queued + n
               p == IF q[id] + n > MaxUsize THEN MaxUsize ELSE q[id] + n
               c == IF subs[id].queued + n > MaxQueued THEN capped \cup {id} ELSE capped
    <3>1. m \in Nat /\ p \in Nat /\ m <= p
      BY <1>1, <1>2 DEF Tied
    <3>2. id \notin c => p = m
      BY <1>1, <1>2 DEF Tied
    <3>3. Rust!AddQueued(RegistryView(q), id, n) = Rust!SetQueued(RegistryView(q), id, p)
      BY <1>3 DEF Rust!AddQueued, Rust!SetQueued
    <3>4. rust' = [RustView(q) EXCEPT !.registry = Rust!SetQueued(RegistryView(q), id, p)]
      BY <1>1, <1>3, <2>2, <3>3 DEF Rust!RustNoteSent
    <3>5. SetQueued(id, m)
      BY <2>2 DEF NoteSent
    <3>6. Step(m, p, c)
      BY <2>2, <3>1, <3>2, <3>4, <3>5
    <3> QED
      BY <3>6
  <2>3. CASE /\ NoteFlushed(id, n) /\ rust' = Rust!RustNoteFlushed(rust, id, n)
             /\ capped' = IF rust.registry.subs[id].queued <= n THEN capped \ {id} ELSE capped
    <3> DEFINE m == IF subs[id].queued < n THEN 0 ELSE subs[id].queued - n
               p == IF q[id] < n THEN 0 ELSE q[id] - n
               c == IF q[id] <= n THEN capped \ {id} ELSE capped
    <3>1. m \in Nat /\ p \in Nat /\ m <= p
      BY <1>1, <1>2 DEF Tied
    <3>2. id \notin c => p = m
      BY <1>1, <1>2 DEF Tied
    <3>3. Rust!SubQueued(RegistryView(q), id, n) = Rust!SetQueued(RegistryView(q), id, p)
      BY <1>3 DEF Rust!SubQueued, Rust!SetQueued
    <3>4. rust' = [RustView(q) EXCEPT !.registry = Rust!SetQueued(RegistryView(q), id, p)]
      BY <1>1, <1>3, <2>3, <3>3 DEF Rust!RustNoteFlushed
    <3>5. SetQueued(id, m) /\ capped' = c
      BY <1>1, <1>3, <2>3 DEF NoteFlushed
    <3>6. Step(m, p, c)
      BY <3>1, <3>2, <3>4, <3>5
    <3> QED
      BY <3>6
  <2> QED
    BY <2>1, <2>2, <2>3 DEF BothNote
<1>5. PICK m, p, c : Step(m, p, c)
  BY <1>4
<1>6. PICK r : r = [s \in Live |-> IF s = id THEN p ELSE q[s]]
  OBVIOUS
<1>7. Rust!SetQueued(RegistryView(q), id, p) = RegistryView(r)'
  <2>1. SetQueued(id, m)
    BY <1>5
  <2> QED
    BY <1>6, <2>1, SetsAlike
<1>8. lastId' = lastId /\ HistoryView' = HistoryView
  BY DEF BothNote, ringVars, HistoryView
<1>9. rust' = RustView(r)'
  BY <1>5, <1>7, <1>8 DEF RustView
<1>10. Live' = Live /\ \A s \in Live : subs'[s].queued = IF s = id THEN m ELSE subs[s].queued
  BY <1>2, <1>5 DEF SetQueued, Live
<1>11. r \in [Live' -> Nat] /\ Tied(r)'
  BY <1>1, <1>5, <1>6, <1>10 DEF Tied
<1> QED
  BY <1>9, <1>11 DEF Mirrors

(* A step of both cores is one of the TypeScript core. *)
LEMMA BothIsOne == BothNext => Next
  BY DEF BothNext, Next, BothPublish, BothAppend, BothSubscribe, BothRemove, BothNote, Note

(* The Rust hub mirrors the TypeScript one whatever is called. *)
MirrorInv == IInv /\ RingWithinBudget /\ Mirrors

(* The two hubs start as mirrors. *)
LEMMA InitMirrorInv == BothInit => MirrorInv
<1> SUFFICES ASSUME BothInit PROVE MirrorInv
  OBVIOUS
<1>1. bytes = 0 /\ history = <<>>
  BY DEF BothInit, Init, RingInit
<1>2. RingWithinBudget
  BY <1>1, WeightOfNone, RingAssumption DEF RingWithinBudget, RingAssumption
<1> QED
  BY <1>2, InitIInv, InitMirrors DEF BothInit, MirrorInv

(* Every call keeps the two hubs mirrors. *)
LEMMA NextMirrorInv == MirrorInv /\ [BothNext]_bothVars => MirrorInv'
<1> SUFFICES ASSUME MirrorInv, [BothNext]_bothVars PROVE MirrorInv'
  OBVIOUS
<1>1. IInv /\ RingWithinBudget /\ Mirrors /\ Fitting
  BY DEF MirrorInv, RingWithinBudget, Fitting
<1>2. [Next]_vars
  BY BothIsOne DEF bothVars
<1>3. IInv' /\ RingWithinBudget'
  BY <1>1, <1>2, NextIInv, BudgetIsInductive
<1>4. Mirrors'
  <2>1. CASE \E now \in 0..MaxMs, t \in Topics, n \in Sizes, o \in Origins : BothPublish(now, t, n, o)
    BY <1>1, <2>1, PublishMirrors
  <2>2. CASE \E id \in ModelIds, t \in Topics, n \in Sizes, o \in Origins : BothAppend(id, t, n, o)
    BY <1>1, <2>2, AppendMirrors
  <2>3. CASE \E asked \in Requests, k \in Keys \cup {NoKey}, c \in Cursors : BothSubscribe(asked, k, c)
    BY <1>1, <2>3, SubscribeMirrors
  <2>4. CASE \E id \in Live : BothRemove(id)
    BY <1>1, <2>4, RemoveMirrors
  <2>5. CASE \E id \in Noted, n \in 0..MaxQueued : BothNote(id, n)
    BY <1>1, <2>5, NoteMirrors DEF Noted
  <2>6. CASE UNCHANGED bothVars
    BY <1>1, <2>6 DEF bothVars, vars, ringVars, regVars, Mirrors, Tied, Live, RustView, HistoryView, RegistryView
  <2> QED
    BY <2>1, <2>2, <2>3, <2>4, <2>5, <2>6 DEF BothNext
<1> QED
  BY <1>3, <1>4 DEF MirrorInv

(* The two hubs are mirrors whatever was called. *)
LEMMA AlwaysMirrorInv == BothSpec => []MirrorInv
  BY InitMirrorInv, NextMirrorInv, PTL DEF BothSpec

-----------------------------------------------------------------------------
(* What is read off the two.                                               *)

(* A text that is no topic is none for both, so a request is refused by    *)
(* both or by neither, and for the same reason but for the order of two.   *)
LEMMA ValidIsFaultless ==
  ASSUME NEW t \in Topics \cup BadTopics
  PROVE  /\ Valid[t] <=> Faults[t] = "none"
         /\ Faults[t] # "none" => Faults[t] \in DOMAIN TopicCode /\ t \in BadTopics
<1>1. CASE t \in Topics
  BY <1>1 DEF Valid, Faults
<1>2. CASE t \notin Topics
  <2>1. t \in Seq(Units) /\ WellFormed(t) /\ t \in BadTopics
    BY <1>2, TextsAssumption DEF TextsAssumption
  <2> QED
    BY <1>2, <2>1, TopicsAgree DEF Valid, Faults
<1> QED
  BY <1>1, <1>2

(* Mirrors answer every request alike. *)
LEMMA AnswersMirrored == MirrorInv => AnswersAgree
<1> SUFFICES ASSUME MirrorInv, NEW asked \in RawRequests, NEW k \in Keys \cup {NoKey},
                    NEW c \in RawCursors
             PROVE  LET ts == TsAnswer(asked, k, c)
                        native == NativeAnswer(asked, k, c)
                    IN /\ (ts = "none") <=> (native = "none")
                       /\ (c = <<>> \/ native # "malformed-cursor") =>
                            ((AbiAnswer(asked, k) = "AG_OK") <=> (native = "none"))
                       /\ ts # native => /\ Len(asked) > MaxTopics
                                         /\ \E i \in DOMAIN asked : asked[i] \in BadTopics
                       /\ Status(asked, asked, ts) = Status(asked, asked, native)
                       /\ Status(asked, asked, native) # 500
  BY DEF AnswersAgree
<1> DEFINE ts == TsAnswer(asked, k, c)
           native == NativeAnswer(asked, k, c)
           view == rust.registry
           refusal == Rust!RustRefusal(view, asked, k, Faults)
           faults == {Faults[asked[i]] : i \in DOMAIN asked} \ {"none"}
           malformed == c # <<>> /\ TsParseId(c) = Malformed
           bad == \E i \in DOMAIN asked : ~Valid[asked[i]]
           many == Len(asked) \notin 1..MaxTopics
           full == Cardinality(Live) >= MaxConnections
           taken == k # NoKey /\ CountForKey(k) >= MaxPerKey
<1>1. \A i \in DOMAIN asked : asked[i] \in Topics \cup BadTopics
  BY DEF RawRequests
<1>2. /\ bad <=> faults # {}
      /\ \A f \in faults : f \in DOMAIN TopicCode
      /\ bad => \E i \in DOMAIN asked : asked[i] \in BadTopics
  BY <1>1, ValidIsFaultless
<1>3. /\ malformed <=> c # <<>> /\ TsParsed[c] = Malformed
      /\ malformed <=> c # <<>> /\ RustParsed[c] = Malformed
  <2>1. c \in Seq(IdUnits)
    BY TextsAssumption DEF TextsAssumption
  <2>2. TsParseId(c) = RustParseId(c)
    BY <2>1, IdsAgree
  <2> QED
    BY <2>2 DEF TsParsed, RustParsed
<1>4. ts = IF malformed THEN "malformed-cursor"
           ELSE IF bad THEN "invalid-topic" ELSE IF many THEN "too-many-topics"
           ELSE IF full THEN "max-connections"
           ELSE IF taken THEN "max-connections-per-key" ELSE "none"
  BY <1>3 DEF TsAnswer
<1>5. /\ rust.registry = view /\ DOMAIN view.subs = DOMAIN subs /\ view.byKey = byKey
  <2>1. \E q : rust = RustView(q)
    BY DEF MirrorInv, Mirrors
  <2> QED
    BY <2>1 DEF RustView, RegistryView, Live
<1>6. Cardinality(DOMAIN view.subs) = Cardinality(Live)
  BY <1>5 DEF Live
<1>7. Rust!At(view.byKey, k, 0) = CountForKey(k)
  BY <1>5 DEF Rust!At, CountForKey
<1>8. refusal = IF many THEN <<"TopicCount">>
                ELSE IF faults # {} THEN <<"Topic", CHOOSE f \in faults : TRUE>>
                ELSE IF full THEN <<"MaxConnections">>
                ELSE IF taken THEN <<"MaxConnectionsPerKey">> ELSE <<"none">>
  BY <1>6, <1>7, SameCardinality DEF Rust!RustRefusal
<1>9. native = IF malformed THEN AsCoreError(NativeToken(<<"Id">>))
               ELSE IF refusal = <<"none">> THEN "none" ELSE AsCoreError(NativeToken(refusal))
  BY <1>3, <1>5, RefusalsDiffer DEF NativeAnswer, NativeRefusal
<1>10. AbiAnswer(asked, k) = AbiCode(refusal)
  BY <1>5 DEF AbiAnswer
<1> DEFINE f == CHOOSE f \in faults : TRUE
<1>11. bad => f \in DOMAIN TopicCode
  BY <1>2
<1>12. many => Len(asked) > MaxTopics \/ asked = <<>>
  <2>1. asked \in Seq(Topics \cup BadTopics)
    BY DEF RawRequests
  <2>2. Len(asked) \in Nat /\ MaxTopics \in Nat /\ (Len(asked) = 0 <=> asked = <<>>)
    BY <2>1, LenProperties, EmptySeq, RegistryAssumption DEF RegistryAssumption
  <2> QED
    BY <2>2
<1>13. asked = <<>> => ~bad
  OBVIOUS
<1>14. \A a : Status(asked, asked, a) = IF asked = <<>> \/ bad THEN 400 ELSE StatusFor(a)
  BY DEF Status
<1> HIDE DEF ts, native, refusal, faults, malformed, bad, many, full, taken, f
<1>15. CASE malformed
  <2>1. ts = "malformed-cursor" /\ native = "malformed-cursor" /\ c # <<>>
    BY <1>4, <1>9, <1>15, TokensAreReasons DEF malformed
  <2> QED
    BY <1>14, <2>1 DEF ts, native, StatusFor
<1>16. CASE ~malformed /\ many
  <2>1. native = "too-many-topics"
    BY <1>8, <1>9, <1>16, TokensAreReasons, RefusalsDiffer
  <2>2. AbiAnswer(asked, k) # "AG_OK"
    BY <1>8, <1>10, <1>16, CodesOfRefusals
  <2>3. ts = IF bad THEN "invalid-topic" ELSE "too-many-topics"
    BY <1>4, <1>16
  <2>4. bad => Len(asked) > MaxTopics
    BY <1>12, <1>13, <1>16
  <2>5. Status(asked, asked, ts) = 400 /\ Status(asked, asked, native) = 400
    BY <1>14, <2>1, <2>3 DEF StatusFor
  <2> QED
    BY <1>2, <2>1, <2>2, <2>3, <2>4, <2>5 DEF ts, native
<1>17. CASE ~malformed /\ ~many /\ bad
  <2>1. refusal = <<"Topic", f>>
    BY <1>2, <1>8, <1>17 DEF f
  <2>2. native = "invalid-topic" /\ ts = "invalid-topic"
    BY <1>4, <1>9, <1>17, <2>1, TokensAreReasons, RefusalsDiffer
  <2>3. AbiAnswer(asked, k) # "AG_OK"
    BY <1>10, <1>11, <1>17, <2>1, CodesOfRefusals
  <2> QED
    BY <1>14, <1>17, <2>2, <2>3 DEF ts, native
<1>18. CASE ~malformed /\ ~many /\ ~bad /\ full
  <2>1. refusal = <<"MaxConnections">>
    BY <1>2, <1>8, <1>18
  <2>2. native = "max-connections" /\ ts = "max-connections"
    BY <1>4, <1>9, <1>18, <2>1, TokensAreReasons, RefusalsDiffer
  <2>3. AbiAnswer(asked, k) # "AG_OK"
    BY <1>10, <2>1, CodesOfRefusals
  <2> QED
    BY <1>14, <2>2, <2>3 DEF ts, native, StatusFor
<1>19. CASE ~malformed /\ ~many /\ ~bad /\ ~full /\ taken
  <2>1. refusal = <<"MaxConnectionsPerKey">>
    BY <1>2, <1>8, <1>19
  <2>2. native = "max-connections-per-key" /\ ts = "max-connections-per-key"
    BY <1>4, <1>9, <1>19, <2>1, TokensAreReasons, RefusalsDiffer
  <2>3. AbiAnswer(asked, k) # "AG_OK"
    BY <1>10, <2>1, CodesOfRefusals
  <2> QED
    BY <1>14, <2>2, <2>3 DEF ts, native, StatusFor
<1>20. CASE ~malformed /\ ~many /\ ~bad /\ ~full /\ ~taken
  <2>1. refusal = <<"none">>
    BY <1>2, <1>8, <1>20
  <2>2. native = "none" /\ ts = "none"
    BY <1>4, <1>9, <1>20, <2>1
  <2>3. AbiAnswer(asked, k) = "AG_OK"
    BY <1>10, <2>1, CodesOfRefusals
  <2> QED
    BY <1>14, <2>2, <2>3 DEF ts, native, StatusFor
<1> QED
  BY <1>15, <1>16, <1>17, <1>18, <1>19, <1>20

(* The replay loop of the Rust history copies, in ring order, the entries  *)
(* at the positions the TypeScript replay picks.                           *)
LEMMA SinceReads ==
  ASSUME NEW c, NEW T, NEW h \in Seq(Entry)
  PROVE  LET sent == {i \in 1..Len(h) : Before(c, h[i].id) /\ h[i].topic \in T}
             replay == Rust!Since(h, c, T)
         IN /\ Len(replay) = Cardinality(sent)
            /\ \A i \in sent : replay[Cardinality({j \in sent : j <= i})] = h[i]
<1> DEFINE n == Len(h)
           sent == {i \in 1..n : Before(c, h[i].id) /\ h[i].topic \in T}
           Upto(i) == {j \in sent : j <= i}
           Next1(i, s) == IF i \in sent THEN Append(s, h[i]) ELSE s
           P(g) == g = [i \in 0..n |-> IF i = 0 THEN <<>> ELSE Next1(i, g[i - 1])]
           kept == CHOOSE g : P(g)
           step == [i \in 1..n |-> [s \in Seq(Entry) |-> Next1(i, s)]]
<1>1. n \in Nat /\ \A i \in 1..n : h[i] \in Entry
  BY LenProperties, ElementOfSeq
<1>2. Rust!Since(h, c, T) = kept[n]
  <2>1. \A g : [i \in 0..n |-> IF i = 0 THEN <<>>
                 ELSE IF Rust!Before(c, h[i].id) /\ h[i].topic \in T
                      THEN Append(g[i - 1], h[i]) ELSE g[i - 1]]
               = [i \in 0..n |-> IF i = 0 THEN <<>> ELSE Next1(i, g[i - 1])]
    BY <1>1, SameIds
  <2> QED
    BY <2>1 DEF Rust!Since
<1>3. step \in [1..n -> [Seq(Entry) -> Seq(Entry)]]
  <2>1. \A i \in 1..n, s \in Seq(Entry) : Next1(i, s) \in Seq(Entry)
    BY <1>1, AppendProperties
  <2> HIDE DEF Next1
  <2> QED
    BY <2>1
<1> HIDE DEF n
<1>4. PICK f \in [0..n -> Seq(Entry)] : StepsFrom(f, <<>>, step, n)
  <2> DEFINE V == Seq(Entry)
  <2>1. <<>> \in V /\ step \in [1..n -> [V -> V]]
    BY <1>3, EmptySeq
  <2> HIDE DEF step, V
  <2>2. \E f \in [0..n -> V] : StepsFrom(f, <<>>, step, n)
    BY <1>1, <2>1, StepsExist, Zenon
  <2> QED
    BY <2>2 DEF V
<1>5. \A i \in 0..n : f[i] = IF i = 0 THEN <<>> ELSE Next1(i, f[i - 1])
  <2> SUFFICES ASSUME NEW i \in 0..n, i # 0
               PROVE  f[i] = Next1(i, f[i - 1])
    BY <1>4 DEF StepsFrom
  <2>1. i \in 1..n /\ i - 1 \in 0..n
    BY <1>1
  <2>2. f[i - 1] \in Seq(Entry)
    BY <2>1
  <2>3. f[i] = step[i][f[i - 1]]
    BY <1>4, <2>1 DEF StepsFrom
  <2>4. step[i][f[i - 1]] = Next1(i, f[i - 1])
    BY <2>1, <2>2
  <2> QED
    BY <2>3, <2>4
<1>6. P(f)
  <2>1. f = [i \in 0..n |-> f[i]]
    OBVIOUS
  <2> HIDE DEF Next1
  <2> QED
    BY <1>5, <2>1
<1> HIDE DEF step
<1>7. P(kept)
  BY <1>6
<1> HIDE DEF kept
<1>8. kept[0] = <<>> /\ \A i \in 1..n : kept[i] = Next1(i, kept[i - 1])
  <2> HIDE DEF Next1
  <2> QED
    BY <1>1, <1>7
<1>9. IsFiniteSet(sent) /\ \A i : IsFiniteSet(Upto(i)) /\ Cardinality(Upto(i)) \in Nat
  <2>1. IsFiniteSet(1..n)
    BY <1>1, FS_Interval
  <2>2. sent \in SUBSET (1..n) /\ \A i : Upto(i) \in SUBSET (1..n)
    OBVIOUS
  <2> HIDE DEF sent, Upto
  <2> QED
    BY <2>1, <2>2, FS_Subset, FS_CardinalityType
<1> DEFINE Good(i) == /\ kept[i] \in Seq(Entry)
                      /\ Len(kept[i]) = Cardinality(Upto(i))
                      /\ \A j \in Upto(i) : kept[i][Cardinality(Upto(j))] = h[j]
           S == {i \in 0..n : Good(i)}
<1>10. Good(0)
  <2>1. Upto(0) = {}
    BY <1>1
  <2> HIDE DEF Upto
  <2>2. Len(<<>>) = 0 /\ <<>> \in Seq(Entry)
    BY EmptySeq
  <2>3. kept[0] = <<>> /\ Cardinality(Upto(0)) = 0
    BY <1>8, <2>1, FS_EmptySet
  <2> QED
    BY <2>1, <2>2, <2>3
<1>11. ASSUME NEW i \in 1..n, Good(i - 1)
       PROVE  Good(i)
  <2>0. /\ kept[i - 1] \in Seq(Entry)
        /\ Len(kept[i - 1]) = Cardinality(Upto(i - 1))
        /\ \A j \in Upto(i - 1) : kept[i - 1][Cardinality(Upto(j))] = h[j]
    BY <1>11
  <2>1. kept[i] = Next1(i, kept[i - 1])
    BY <1>8
  <2>2. CASE i \in sent
    <3>1. Upto(i) = Upto(i - 1) \cup {i} /\ i \notin Upto(i - 1)
      BY <1>1, <2>2
    <3>2. Cardinality(Upto(i)) = Cardinality(Upto(i - 1)) + 1
      <4> HIDE DEF Upto
      <4> QED
        BY <1>9, <3>1, FS_AddElement
    <3>3. /\ kept[i] = Append(kept[i - 1], h[i])
          /\ kept[i] \in Seq(Entry)
          /\ Len(kept[i]) = Len(kept[i - 1]) + 1
          /\ \A k \in 1..Len(kept[i - 1]) : kept[i][k] = kept[i - 1][k]
          /\ kept[i][Len(kept[i - 1]) + 1] = h[i]
      <4>1. kept[i] = Append(kept[i - 1], h[i])
        BY <2>1, <2>2
      <4> HIDE DEF Upto
      <4> QED
        BY <1>1, <2>0, <4>1, AppendProperties
    <3>4. ASSUME NEW j \in Upto(i)
          PROVE  kept[i][Cardinality(Upto(j))] = h[j]
      <4>1. CASE j = i
        <5> HIDE DEF Upto
        <5> QED
          BY <2>0, <3>2, <3>3, <4>1
      <4>2. CASE j # i
        <5>1. j \in Upto(i - 1)
          BY <3>1, <4>2
        <5>2. Upto(j) \in SUBSET Upto(i - 1) /\ j \in Upto(j)
          BY <1>1, <5>1
        <5>3. Cardinality(Upto(j)) \in 1..Cardinality(Upto(i - 1))
          <6> HIDE DEF Upto
          <6>1. Cardinality(Upto(j)) <= Cardinality(Upto(i - 1)) /\ Cardinality(Upto(j)) # 0
            BY <1>9, <5>2, FS_Subset, FS_EmptySet
          <6> QED
            BY <1>9, <6>1
        <5> HIDE DEF Upto
        <5> QED
          BY <2>0, <3>3, <5>1, <5>3
      <4> QED
        BY <4>1, <4>2
    <3> HIDE DEF Upto
    <3> QED
      BY <2>0, <3>2, <3>3, <3>4
  <2>3. CASE i \notin sent
    <3>1. Upto(i) = Upto(i - 1)
      <4> SUFFICES ASSUME NEW j \in sent, j <= i PROVE j <= i - 1
        BY <1>1
      <4> QED
        BY <1>1, <2>3
    <3>2. kept[i] = kept[i - 1]
      BY <2>1, <2>3
    <3> HIDE DEF Upto
    <3> QED
      BY <2>0, <3>1, <3>2
  <2> QED
    BY <2>2, <2>3
<1>12. Good(n)
  <2> HIDE DEF Good
  <2>1. 0 \in S /\ \A i \in 1..n : i - 1 \in S => i \in S
    BY <1>1, <1>10, <1>11
  <2> HIDE DEF S
  <2>2. \A i \in 0..n : i \in S
    BY <1>1, <2>1, CountingUp
  <2>3. n \in S
    BY <1>1, <2>2
  <2> QED
    BY <2>3 DEF S
<1>13. Upto(n) = sent
  BY <1>1
<1>14. /\ Len(kept[n]) = Cardinality(sent)
       /\ \A i \in sent : kept[n][Cardinality(Upto(i))] = h[i]
  <2> HIDE DEF Upto, sent
  <2> QED
    BY <1>12, <1>13
<1> QED
  BY <1>2, <1>14 DEF n

(* Mirrors replay the same entries in the same order. *)
LEMMA ReplaysMirrored ==
  ASSUME IInv, Mirrors, NEW c \in Cursors, NEW T \in SUBSET Topics
  PROVE  LET sent == Replay(c, T)
             replay == Rust!RustReplay(rust, c, T)
         IN /\ Len(replay) = Cardinality(sent)
            /\ \A i \in sent : replay[Cardinality({j \in sent : j <= i})] = history[i]
<1>1. history \in Seq(Entry) /\ rust.history.entries = history
  BY DEF IInv, RingInv, RingTypeOK, Mirrors, RustView, HistoryView
<1>2. CASE c = NoId
  BY <1>2, SameIds, EmptySeq, FS_EmptySet DEF Replay, Rust!RustReplay
<1>3. CASE c # NoId
  <2>1. Rust!RustReplay(rust, c, T) = Rust!Since(history, c, T)
    BY <1>1, <1>3, SameIds DEF Rust!RustReplay
  <2>2. Replay(c, T) = {i \in 1..Len(history) : Before(c, history[i].id) /\ history[i].topic \in T}
    BY <1>3 DEF Replay
  <2> QED
    BY <1>1, <2>1, <2>2, SinceReads
<1> QED
  BY <1>2, <1>3

(* Mirrors take every cursor alike. *)
LEMMA CheckpointsMirrored ==
  ASSUME IInv, Mirrors, NEW c \in Cursors
  PROVE  Rust!RustCheckpoint(rust, c) = Checkpoint(c)
<1>1. rust.history.trimmed = lastTrimmed /\ rust.last = lastId
  BY DEF Mirrors, RustView, HistoryView
<1>2. c # NoId => c \in EventId
  BY RingAssumption DEF Cursors, ModelIds, EventId, RingAssumption
<1>3. c # NoId => ~Before(c, NoId)
  BY <1>2, IdOrder
<1> QED
  BY <1>1, <1>3, SameIds DEF Rust!RustCheckpoint, Checkpoint, Truncated, EvictedPast, Beyond

(* Mirrors name the same targets, and judge every subscriber alike whose   *)
(* counts have not parted.                                                 *)
LEMMA RegistriesMirrored ==
  ASSUME IInv, Mirrors
  PROVE  /\ rust.registry.next = nextSub
         /\ DOMAIN rust.registry.subs = Live
         /\ rust.registry.byTopic = byTopic
         /\ \A t \in Topics : Rust!Matching(rust.registry, t) = Wanting(t)
         /\ \A id : Rust!RustTopicsOf(rust.registry, id) = TopicsOf(id)
         /\ VerdictsAgree
<1>1. PICK q \in [Live -> Nat] : rust = RustView(q) /\ Tied(q)
  BY DEF Mirrors
<1>2. /\ rust.registry.next = nextSub /\ DOMAIN rust.registry.subs = Live
      /\ \A s \in Live : /\ rust.registry.subs[s].topics = subs[s].topics
                         /\ rust.registry.subs[s].queued = q[s]
      /\ rust.registry.byTopic = byTopic
  BY <1>1 DEF RustView, RegistryView
<1>3. \A t \in Topics : Rust!Matching(rust.registry, t) = Wanting(t)
  BY <1>2 DEF Rust!Matching, Rust!At, Wanting
<1>4. ASSUME NEW id PROVE Rust!RustTopicsOf(rust.registry, id) = TopicsOf(id)
  BY <1>2 DEF Rust!RustTopicsOf, TopicsOf
<1>5. VerdictsAgree
  <2> SUFFICES ASSUME NEW id \in 1..MaxSubs
               PROVE  /\ Verdict(id) = Rust!RustVerdict(rust.registry, id) \/ id \in capped
                      /\ Verdict(id) = "ok" => Rust!RustVerdict(rust.registry, id) # "unknown"
                      /\ Verdict(id) # "ok" => Rust!RustVerdict(rust.registry, id) = Verdict(id)
    BY DEF VerdictsAgree
  <2>1. CASE id \notin Live
    BY <1>2, <2>1 DEF Verdict, Rust!RustVerdict
  <2>2. CASE id \in Live
    <3>1. /\ subs[id].queued \in Nat /\ q[id] \in Nat /\ MaxBuffer \in Nat
          /\ subs[id].queued <= q[id]
          /\ id \notin capped => q[id] = subs[id].queued
      BY <1>1, <2>2, RegistryAssumption DEF Tied, IInv, RegInv, RegistryTypeOK, RegistryAssumption
    <3>2. /\ Verdict(id) = IF subs[id].queued > MaxBuffer THEN "slow-consumer" ELSE "ok"
          /\ Rust!RustVerdict(rust.registry, id) = IF q[id] > MaxBuffer THEN "slow-consumer" ELSE "ok"
      BY <1>2, <2>2 DEF Verdict, Rust!RustVerdict
    <3>3. CASE subs[id].queued > MaxBuffer
      <4>1. q[id] > MaxBuffer
        BY <3>1, <3>3
      <4>2. Verdict(id) = "slow-consumer" /\ Rust!RustVerdict(rust.registry, id) = "slow-consumer"
        BY <3>2, <3>3, <4>1
      <4> QED
        BY <4>2
    <3>4. CASE ~(subs[id].queued > MaxBuffer) /\ id \in capped
      BY <3>2, <3>4
    <3>5. CASE ~(subs[id].queued > MaxBuffer) /\ id \notin capped
      BY <3>1, <3>2, <3>5
    <3> QED
      BY <3>3, <3>4, <3>5
  <2> QED
    BY <2>1, <2>2
<1> QED
  BY <1>2, <1>3, <1>4, <1>5

(* Mirrors cannot be told apart. *)
LEMMA MirrorsAgree == MirrorInv => CoresAgree
<1> SUFFICES ASSUME MirrorInv PROVE CoresAgree
  OBVIOUS
<1>1. IInv /\ Mirrors
  BY DEF MirrorInv
<1>2. /\ rust.last = lastId
      /\ Len(rust.history.entries) = Len(history) /\ rust.history.bytes = bytes
  BY <1>1 DEF Mirrors, RustView, HistoryView
<1>3. /\ rust.registry.next = nextSub
      /\ \A t \in Topics : Rust!Matching(rust.registry, t) = Wanting(t)
      /\ Cardinality(DOMAIN rust.registry.byTopic) = Cardinality(DOMAIN byTopic)
      /\ DOMAIN rust.registry.subs = Live
      /\ \A id \in 1..MaxSubs : Rust!RustTopicsOf(rust.registry, id) = TopicsOf(id)
      /\ VerdictsAgree
  BY <1>1, RegistriesMirrored
<1>4. \A c \in Cursors :
        /\ Rust!RustCheckpoint(rust, c) = Checkpoint(c)
        /\ \A T \in SUBSET Topics :
             LET sent == Replay(c, T)
                 replay == Rust!RustReplay(rust, c, T)
             IN /\ Len(replay) = Cardinality(sent)
                /\ \A i \in sent : replay[Cardinality({j \in sent : j <= i})] = history[i]
  BY <1>1, CheckpointsMirrored, ReplaysMirrored
<1> QED
  BY <1>2, <1>3, <1>4, ValidatorsAlwaysAgree, WritesAlwaysAgree, AnswersMirrored DEF CoresAgree

(* Whatever is called, in whatever order, the two cores tell a host the    *)
(* same: of every text, write and request, and of every cursor, topic and  *)
(* subscriber.  Driving both is driving the TypeScript one, so what is     *)
(* proved of it holds of the pair.                                         *)
THEOREM CoresAlwaysAgree == BothSpec => []CoresAgree
  BY AlwaysMirrorInv, MirrorsAgree, PTL

(* A host that drives both cores drives each as it would alone.            *)
THEOREM BothIsTheCore == BothSpec => Spec
<1>1. BothInit => Init
  BY DEF BothInit
<1>2. [BothNext]_bothVars => [Next]_vars
  BY BothIsOne DEF bothVars
<1> QED
  BY <1>1, <1>2, PTL DEF BothSpec, Spec
=============================================================================
