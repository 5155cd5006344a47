SPECIFICATION ViewsSpec
CONSTANTS
  v1 = v1
  v2 = v2
  t1 = t1
  t2 = t2
  Views = {v1, v2}
  Topics = {t1, t2}
  Off = Off
  Kinds <- MCKinds
  Debounced = {v1}
  Queries = {t1}
  MaxEvents = 2
  MaxReaders = 2
INVARIANTS
  ViewsTypeOK
  ShownIsTold
  InvalidationsAreDue
CHECK_DEADLOCK FALSE
