SPECIFICATION ParsersSpec
CHECK_DEADLOCK FALSE
CONSTANTS
  MaxLine = 2
  MaxChunk = 3
  MaxBytes = 8
  MaxThrows = 1
  MaxSseChunk = 2
  MaxSseStream = 8
  MaxNesting = 3
  Keys <- MCKeys
  Strings <- MCStrings
INVARIANTS LinesInv EventsAreTheStreams 
