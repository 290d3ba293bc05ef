SPECIFICATION FairSpec
CHECK_DEADLOCK FALSE
CONSTANTS
  ExitCodes = {3}
  MaxClient = 1
  MaxServer = 2
  MaxStderr = 1
  PipeSize = 2
  
PROPERTIES ImplementsWire ProxyEnds EofArrives
