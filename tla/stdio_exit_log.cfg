SPECIFICATION Spec
CONSTANTS
  i1 = i1
  i2 = i2
  h1 = h1
  k1 = k1
  k2 = k2
  NoId = NoId
  Ids <- Distinct
  Keys <- MCKeys
  KeyOf <- DistinctKeyOf
  HardIds <- Hard
  Modes = {"wrap", "record"}
  ReuseKeys = FALSE
  ExitCodes = {0, 3}
  Signals = {}
  MaxClient = 1
  MaxServer = 1
  MaxStderr = 0
  HighWater = 1
INVARIANTS
  LogCompleteAtExit
