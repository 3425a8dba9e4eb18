SPECIFICATION Spec
CONSTANTS
  Files = {f1}
  MaxSize = 2
  StableTicks = 2
  Visible = FALSE
  NoFile = NoFile
  NoTrack = NoTrack
  Limit <- Quiet
CHECK_DEADLOCK FALSE
INVARIANTS
  QueuedIsComplete
