CONSTANTS
  Fecs = {conv, rs}
  ConfiguredFec = conv
  StrictFecCheck = FALSE
  MaxFrames = 4
  NWorkers = {0, 1, 2, 3}
  MaxPerBuffer = 2
  NONE = NONE
SPECIFICATION ReceiversSpec
PROPERTIES LikeLoop
