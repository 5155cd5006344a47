SPECIFICATION Spec
CONSTANTS
  t1 = t1
  t2 = t2
  Topics = {t1, t2}
  MaxLoops = 4
  MaxCalls = 4
  MaxMishaps = 2
INVARIANTS
  TypeOK
  NeverStranded
PROPERTIES
  NoDialAfterClose
  Settles
CHECK_DEADLOCK FALSE
