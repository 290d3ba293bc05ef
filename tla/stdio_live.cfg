SPECIFICATION FairSpec
CONSTANTS
  i1 = i1
  i2 = i2
  h1 = h1
  k1 = k1
  k2 = k2
  NoId = NoId
  Ids <- Single
  Keys <- SingleKey
  KeyOf <- SingleKeyOf
  HardIds = {}
  Modes = {"wrap", "tui"}
  ReuseKeys = TRUE
  ExitCodes = {3}
  Signals = {"SIGINT"}
  MaxClient = 2
  MaxServer = 1
  MaxStderr = 0
  HighWater = 1
INVARIANTS
  PendingIsExact
PROPERTIES
  EverythingArrives
  ProxyEnds
  SignalsArrive
