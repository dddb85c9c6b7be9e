SPECIFICATION FairSpec
CONSTANTS
  r1 = r1
  r2 = r2
  r3 = r3
  Requests <- MCRequests
  Profiles <- MCProfiles
  MediaLimit = 1
  None = None
INVARIANTS
  PendingHasSolver
  SecondSolverWasLetIn
  SessionWasTried
PROPERTIES
  RequestsEnd
CHECK_DEADLOCK FALSE
