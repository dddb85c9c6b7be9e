SPECIFICATION Spec
CONSTANTS
  Backend = "postgres"
  Downloads = {d1}
  Jobs = {j1}
  MaxAttempts = 3
  AutoResume = TRUE
  MaxVersions = 2
  MaxRestarts = 3
  MaxPauses = 1
  None = None
INVARIANTS
  RunningJobHasWorker
  FailuresAreCharged
  QueuedHasJob
  SectionMatchesOriginals
CHECK_DEADLOCK FALSE
