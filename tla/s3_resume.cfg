SPECIFICATION FairSpec
CONSTANTS
  Size = 7
  Chunks = {2}
  MinPart = 1
  MaxParts = 10
  ListLimit = 5
  MaxRetries = 3
  Nothing = Nothing
  Foreign = Foreign
  NoSession = NoSession
  Limit <- Harsh
CHECK_DEADLOCK FALSE
INVARIANTS
  TypeOK
  ObjectIsWhole
  CheckpointHeld
PROPERTIES
  NoRetransmission
  EventuallyDelivered
  UploadIsAtomic
