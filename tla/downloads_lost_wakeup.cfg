SPECIFICATION FairSpec
CONSTANTS
  Downloads = {d1, d2}
  Chapters = {c1, c2}
  Workers = {w1, w2}
  Handlers = {h1}
  MaxRequests = 0
  MaxCrashes = 0
  MaxDbFaults = 0
  Kept = Kept
  None = None
PROPERTIES
  QueuedIsProcessed
CHECK_DEADLOCK FALSE
