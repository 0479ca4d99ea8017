CONSTANTS
  SnModulus = 10
  WindowSize = 2
  SoLimit = 2
  MaxPdus = 11
  SduSizes = {1, 2, 3}
  MaxSpread = 3
SPECIFICATION UmSpec
INVARIANT LosslessExact
CHECK_DEADLOCK FALSE
