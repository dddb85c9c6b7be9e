SPECIFICATION FairSpec
CONSTANTS
  Backend = "sqlite"
  Downloads = {d1}
  Jobs = {j1, j2}
  MaxAttempts = 2
  AutoResume = TRUE
  MaxVersions = 1
  MaxRestarts = 1
  MaxPauses = 0
  None = None

  
PROPERTIES
  JobSettles
CHECK_DEADLOCK FALSE
