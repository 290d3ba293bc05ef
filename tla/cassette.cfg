SPECIFICATION MCSpec
CHECK_DEADLOCK FALSE
CONSTANTS
  MaxDepth = 2
  Requests <- MCRequests
  ReadOnly = {"tools/list"}
  Masked <- MCMasked
  Servers <- MCServers
  Changes <- MCChanges
  Reading <- MCReading
  MaxSession = 2
  MaxEdits = 1
INVARIANTS  VerdictIsTrue LossIsReported
 
