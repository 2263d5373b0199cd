SPECIFICATION Spec
CONSTANTS
  d1 = d1
  d2 = d2
  h1 = h1
  h2 = h2
  NoDoc = NoDoc
  Docs <- TwoDocs
  Handlers <- TwoHandlers
  MaxJobs = 2
  MAX_RESUME_ATTEMPTS = 2
  MaxCrashes = 2
  MaxFaults = 1
SYMMETRY Symmetry
CHECK_DEADLOCK FALSE
INVARIANTS
  IInv
  InProgressOwned
  ReadyHasCompletedJob
  OpenJobsRun
PROPERTIES
  ReadyStaysReady
  JobsFollowLifecycle
