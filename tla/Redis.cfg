SPECIFICATION Spec
CONSTANTS
  p1 = p1
  p2 = p2
  Procs <- MCProcs
  Watched <- MCWatched
  MaxLen = 2
  MaxReplay = 2
  Adapters <- MCAdapters
  MaxEntries = 3
  MaxBoots = 2
  MaxFailures = 1
  MaxLosses = 1
INVARIANTS
  TypeOK
  FloorTellsTheTruth
  Covered
  NoNeedlessGap
CHECK_DEADLOCK FALSE
