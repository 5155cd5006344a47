SPECIFICATION Spec
CONSTANTS
  NoOrigin = NoOrigin
  Characters <- MCCharacters
  Terminators <- MCTerminators
  Origins <- MCOrigins
  Chunks <- MCChunks
  NoId = NoId
  Ids <- MCIds
  MaxPayload = 3
INVARIANTS
  OnlyWhatWasSent
CHECK_DEADLOCK FALSE
