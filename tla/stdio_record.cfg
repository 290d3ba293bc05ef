SPECIFICATION Spec
CONSTANTS
  i1 = i1
  i2 = i2
  h1 = h1
  k1 = k1
  k2 = k2
  NoId = NoId
  Ids <- Distinct
  Keys <- MCKeys
  KeyOf <- DistinctKeyOf
  HardIds <- Hard
  Modes = {"record"}
  ReuseKeys = FALSE
  ExitCodes = {3}
  Signals = {}
  MaxClient = 2
  MaxServer = 2
  MaxStderr = 1
  HighWater = 1
INVARIANTS
  TypeOK
  
  
  
  
  LogIsPrefix
PROPERTIES
  ImplementsWire
