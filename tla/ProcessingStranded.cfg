SPECIFICATION Spec
CONSTANTS
  d1 = d1
  d2 = d2
  h1 = h1
  h2 = h2
  NoDoc = NoDoc
  Docs <- OneDoc
  Handlers <- OneHandler
  MaxJobs = 1
  MAX_RESUME_ATTEMPTS = 3
  MaxCrashes = 1
  MaxFaults = 0
CHECK_DEADLOCK FALSE
INVARIANTS
  NoStrandedDocument
