CONSTANTS
  SnModulus = 12
  WindowSize = 2
  SoLimit = 2
  MaxPdus = 5
  MaxRetries = 1
  SduSizes = {1, 2, 3}
  MaxBinds = 2
  U8Max = 3
  Builds <- MCBuilds
SPECIFICATION FairSpec
INVARIANTS DeliveredWhenReported ResolvedOnReturn BoundAsBuilt
PROPERTIES CallReturns
CHECK_DEADLOCK FALSE
