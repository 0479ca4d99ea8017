CONSTANTS
  SnModulus = 10
  WindowSize = 2
  SoLimit = 2
  MaxPdus = 4
  MaxRetries = 1
  SduSizes = {1, 2, 3}
  MaxAhead = 3
  MaxReports = 1
SPECIFICATION FairSpec
INVARIANTS ExactUntilGiveUp
PROPERTIES Progress
CHECK_DEADLOCK FALSE
