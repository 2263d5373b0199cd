SPECIFICATION Spec
CONSTANTS
  a = a
  b = b
  card = card
  m1 = m1
  m2 = m2
  r1 = r1
  r2 = r2
  NoCard = NoCard
  MaxCitations = 1
  MaxStarts = 5
  NoId = NoId
  NoVec = NoVec
  Ids <- FewIds
  Bodies <- Parsers
  Cards <- OneCard
  Models <- TwoModels
  Requests <- TwoRequests
SYMMETRY Symmetry
CHECK_DEADLOCK FALSE
INVARIANTS
  VectorsTrue
  CitationsTrue
PROPERTIES
  IngestExact
