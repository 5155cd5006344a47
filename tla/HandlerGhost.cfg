SPECIFICATION Spec
CONSTANTS
  r1 = r1
  r2 = r2
  t1 = t1
  t2 = t2
  Requests = {r1, r2}
  Asks <- Asking
  Resuming = {r1}
  NoRequest = NoRequest
  Topics = {t1, t2}
  MaxConnections = 2
  MaxRevokes = 1
  MaxOutside = 2
INVARIANTS
  NoGhosts
CHECK_DEADLOCK FALSE
