CONSTANTS
  FftSize = 6
  CpLen = 1
  TrainingSymbols = 1
  HeaderSymbols = 1
  StreamSearchWindowSymbols = 8
  SyncPercent = 55
  MaxPayloadSymbols = 3
  Chunks = {4, 9}
  PayloadSymbols = {1}
  Gaps = {0, 40}
  Kinds = {"frame", "bad_header", "bad_payload", "lookalike"}
  MaxItems = 3
  NOTHING = NOTHING
SPECIFICATION StreamSpec
INVARIANTS InOrderOnce NoFrameLost Prompt BufferBounded
CHECK_DEADLOCK FALSE
