SPECIFICATION FairSpec
CHECK_DEADLOCK FALSE
CONSTANTS
  Exchanges = {e1, e2}
  Keys = {k1}
  NoKey = noKey
  Hard = hard
  NoBody = noBody
  NoOne = noOne
  Bodies = {k1, hard, noBody}
  MayLeave = {e1}
  Routes <- MCRoutes
  Paths <- MCPaths
  MaxMessages = 2
INVARIANTS BodyIsUpstreams RouteIsLongest  PendingIsExact LatencyIsOwn
 
