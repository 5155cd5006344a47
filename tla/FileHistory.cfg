SPECIFICATION Spec
CONSTANTS
  MaxLines = 1
  MaxEvents = 5
  MaxBoots = 4
  MaxFaults = 2
INVARIANTS
  TypeOK
  HonestAcrossDeploys
  HonestAfterCrash
  NoNeedlessGap
PROPERTIES
  CloseEnds
CHECK_DEADLOCK FALSE
