CONSTANTS
  MissLimit = 2
  WireCapacity = 1
  Typists = {"ground"}
  Restartable = {"air"}
  MaxRestarts = 2
SPECIFICATION FairSpec
INVARIANTS OneHandshake
PROPERTIES NoLimbo ComesBackUnlessBindLost
CHECK_DEADLOCK FALSE
