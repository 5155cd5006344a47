SPECIFICATION Spec
CONSTANTS
  t1 = t1
  t2 = t2
  TabCount = 3
  Topics <- MCTopics
  Mounts <- MCMounts
  Pages <- MCPages
  MaxEvents = 1
  MaxMoves = 2
  MaxBacklog = 1
INVARIANTS
  TypeOK
  ForwardedIsHeard
  SettlesRight
PROPERTIES
  NeverBack
CHECK_DEADLOCK FALSE
