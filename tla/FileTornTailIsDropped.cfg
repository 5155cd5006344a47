SPECIFICATION Spec
CONSTANTS
  MaxLines = 1
  MaxEvents = 3
  MaxBoots = 4
  MaxFaults = 2
INVARIANTS
  TornTailIsDropped
CHECK_DEADLOCK FALSE
