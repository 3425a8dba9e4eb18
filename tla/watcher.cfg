SPECIFICATION FairSpec
CONSTANTS
  Files = {f1}
  MaxSize = 2
  StableTicks = 2
  Visible = TRUE
  NoFile = NoFile
  NoTrack = NoTrack
  Limit <- Harsh
CHECK_DEADLOCK FALSE
INVARIANTS
  TypeOK
  QueuedIsComplete
PROPERTIES
  EventuallyQueued
