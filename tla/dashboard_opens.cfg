SPECIFICATION Spec
CONSTANTS
  c1 = c1
  c2 = c2
  c3 = c3
  w1 = w1
  w2 = w2
  NumBags = 2
  MaxRetries = 2
  Contents <- TwoContents
  SizeOf <- MCSizeOf
  Bindings <- MCBindings
  Stores <- MCStores
  Paths <- MCPaths
  BindingOf <- OneBinding
  PathOf <- SameName
  StoreOf <- OneStore
  KindOf <- AllS3
  FolderOf <- MCFolderOf
  Torn = Torn
  Workers <- Threads
  VerifyBlake3 = TRUE
  Dedup = TRUE
  DeleteAfter = FALSE
  RetryFailedOnStart = TRUE
  Missing = Missing
  Nobody = Nobody
  Limit <- Opened
CHECK_DEADLOCK FALSE
SYMMETRY AnyThread
INVARIANTS
  ClaimedOnce
