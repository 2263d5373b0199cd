SPECIFICATION SpecAll
CONSTANTS
  Paper = Paper
  h1 = h1
  a = a
  card = card
  m1 = m1
  r1 = r1
  r2 = r2
  NoDoc = NoDoc
  NoRequest = NoRequest
  NoCard = NoCard
  NoId = NoId
  NoVec = NoVec
  Docs <- OnePaper
  Handlers <- OneHandler
  MaxJobs = 1
  MAX_RESUME_ATTEMPTS = 2
  MaxCrashes = 1
  MaxFaults = 0
  Ids <- FewIds
  Bodies <- TwoBodies
  Cards <- OneCard
  Models <- OneModel
  Requests <- TwoRequests
  MaxStarts = 4
  MaxCitations = 0
  MaxReruns = 2
CHECK_DEADLOCK FALSE
INVARIANTS
  ReadyIsSearchable
