SPECIFICATION FairSpec
CONSTANTS
  c1 = c1
  c2 = c2
  c3 = c3
  k1 = k1
  x = x
  y = y
  NoKey = NoKey
  NoCall = NoCall
  NoChunk = NoChunk
  Calls <- ThreeCalls
  Sent <- OneKey
  Chunks <- TwoChunks
  MaxCites = 2
  Strays <- SecondAsMarker
  MaxFaults = 1
  MaxCrashes = 1
CHECK_DEADLOCK FALSE
INVARIANTS
  TypeOK
  OneRowPerKey
  NoSecondRun
  AnswersAreStored
  WeakStaysWeak
  MarkersTrue
PROPERTIES
  CallsEnd
