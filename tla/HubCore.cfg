SPECIFICATION BothSpec
CONSTANTS
  t1 = t1
  t2 = t2
  k1 = k1
  NoKey = NoKey
  Topics = {t1, t2}
  Keys = {k1}
  Origins = {nobody}
  nobody = nobody
  Sizes <- FrameSizes
  MaxBytes = 1
  MaxMs = 1
  MaxSeq = 1
  MaxConnections = 2
  MaxPerKey = 1
  MaxTopics = 2
  MaxBuffer = 0
  MaxQueued = 1
  MaxUsize = 2
  MaxNoted = 1
  MaxEvents = 2
  MaxSubs = 2
  MaxAsked = 2
  MaxTopicBytes = 3
  MaxOriginBytes = 2
  MaxDigits = 2
  MaxIdComponent = 10
  MaxText = 4
  MaxWritten = 2
  MaxIdText = 5
  BadTopics <- NoTopics
  RawCursors <- MCCursors
SYMMETRY Symmetric
INVARIANTS
  TypeOK
  RingWithinBudget
  EchoIsComplete
  AlarmsAreHonest
  RegistrySound
  HandedInFull
  CoresAgree
PROPERTIES
  MintsAreFresh
CHECK_DEADLOCK FALSE
