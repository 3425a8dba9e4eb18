SPECIFICATION Spec
CONSTANTS
  c1 = c1
  c2 = c2
  c3 = c3
  w1 = w1
  w2 = w2
  NumBags = 3
  MaxRetries = 2
  Contents <- TwoContents
  SizeOf <- MCSizeOf
  Bindings <- MCBindings
  Stores <- MCStores
  Paths <- MCPaths
  BindingOf <- TwoBindings
  PathOf <- OddName
  StoreOf <- TwoStores
  KindOf <- Migrated
  FolderOf <- MCFolderOf
  Torn = Torn
  Workers <- Threads
  VerifyBlake3 = TRUE
  Dedup = TRUE
  DeleteAfter = TRUE
  RetryFailedOnStart = TRUE
  Missing = Missing
  Nobody = Nobody
  Limit <- FaultOutage
CHECK_DEADLOCK FALSE
SYMMETRY AnyThread
INVARIANTS
  DoneIsStored
  CustodyKept
