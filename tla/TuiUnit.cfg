CONSTANTS
  Sides = {"air", "ground"}
  Burst = 2
  TopLevel = 1
  PdusAt <- MCPdusAt
  Adaptive = TRUE
  PeerLevel = 0
SPECIFICATION FairSpec
INVARIANTS FramesWhole CutForItsModem
PROPERTIES StopIsFinal StoppedEnds ComesBackUnlessRefused
CHECK_DEADLOCK FALSE
