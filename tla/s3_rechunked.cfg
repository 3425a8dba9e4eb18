SPECIFICATION Spec
CONSTANTS
  Size = 5
  Chunks = {2, 3}
  MinPart = 1
  MaxParts = 10
  ListLimit = 5
  MaxRetries = 3
  Nothing = Nothing
  Foreign = Foreign
  NoSession = NoSession
  Limit <- OneOutage
CHECK_DEADLOCK FALSE
INVARIANTS
  ObjectIsWhole
