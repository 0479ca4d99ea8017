CONSTANTS
  SnModulus = 12
  WindowSize = 2
  SoLimit = 2
  MaxPdus = 5
  MaxRetries = 0
  SduSizes = {1, 2, 3}
  MaxAhead = 5
  MaxReports = 1
SPECIFICATION Spec
INVARIANTS TypeOK InOrderAtMostOnce SduIntact Accounted PendingBounded
PROPERTIES ExpectedForward ImplementsService
CHECK_DEADLOCK FALSE
