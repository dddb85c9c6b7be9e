SPECIFICATION Spec
CONSTANTS
  Downloads = {d1, d2}
  Chapters = {c1}
  Workers = {w1, w2}
  Handlers = {h1, h2}
  MaxRequests = 2
  MaxCrashes = 1
  MaxDbFaults = 1
  Kept = Kept
  None = None
SYMMETRY Symmetry
INVARIANTS
  TypeOK
  WorkingHasWorker
  ExclusiveChapterWork
  
PROPERTIES
  CancelledAttemptNeverCompletes
  SettledStaysSettled
CHECK_DEADLOCK FALSE
