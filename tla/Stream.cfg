SPECIFICATION Spec
CONSTANTS
  t1 = t1
  t2 = t2
  Topics = {t1, t2}
  nobody = nobody
  Origins = {nobody}
  Sizes = {1}
  MaxBytes = 2
  MaxMs = 1
  MaxSeq = 1
  MaxUnread = 1
  MaxEvents = 4
  MaxMishaps = 2
  MaxRestarts = 1
INVARIANTS
  TypeOK
PROPERTIES
  NoSilentSkip
  CatchesUp
  LossIsNoticed
CHECK_DEADLOCK FALSE
