SPECIFICATION FairSpec
CONSTANTS
  Size = 3
  Chunks = {1, 2}
  MaxRetries = 3
  Limit <- Harsh
CHECK_DEADLOCK FALSE
INVARIANTS
  TypeOK
  DoneIsFiled
  OneFile
  ResumesExactly
PROPERTIES
  FilingIsAtomic
  EventuallyFiled
