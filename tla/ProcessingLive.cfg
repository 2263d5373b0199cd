SPECIFICATION FairSpec
CONSTANTS
  d1 = d1
  d2 = d2
  h1 = h1
  h2 = h2
  NoDoc = NoDoc
  Docs <- OneDoc
  Handlers <- OneHandler
  MaxJobs = 2
  MAX_RESUME_ATTEMPTS = 2
  MaxCrashes = 3
  MaxFaults = 0
CHECK_DEADLOCK FALSE
PROPERTIES
  JobsEnd
  ProcessingEnds
