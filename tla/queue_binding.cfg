SPECIFICATION FairSpec
CONSTANTS
  Old <- CutOff
  Owner = "rsync"
  Configs <- LeavingRsync
  Sites <- MCSites
  MaxRows = 2
  Limit <- Harsh
CHECK_DEADLOCK FALSE
INVARIANTS
  TypeOK
  NeverUnbound
  BoundAsMeant
  DeliveredAsMeant
PROPERTIES
  BindingKept
  EventuallyServed
