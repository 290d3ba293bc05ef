SPECIFICATION ProbesSpec
CHECK_DEADLOCK FALSE
CONSTANTS
  Surfaces <- MCSurfaces
  Hash <- MCHash
  Latencies = {1, 2}
  MaxHistory = 2
  Specs = 3
  NullTool = NullTool
INVARIANTS AlertsSuffice StatusIsHonest 
PROPERTIES WhatLastsIsKnown
