SPECIFICATION Spec
CONSTANTS
  c1 = c1
  c2 = c2
  c3 = c3
  k1 = k1
  x = x
  y = y
  NoKey = NoKey
  NoCall = NoCall
  NoChunk = NoChunk
  Calls <- OneCall
  Sent <- KeyOrNone
  Chunks <- TwoChunks
  MaxCites = 1
  Strays <- SecondAsMarker
  MaxFaults = 0
  MaxCrashes = 0
CHECK_DEADLOCK FALSE
PROPERTIES
  CancelledStoresNothing
