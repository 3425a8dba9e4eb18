SPECIFICATION FairSpec
CONSTANTS
  Workers <- MCWorkers
  PathOf <- TwoDays
  Limit <- Harsh
CHECK_DEADLOCK FALSE
INVARIANTS
  TypeOK
  FiledInPath
  EachAttemptCounts
PROPERTIES
  EventuallyFiled
