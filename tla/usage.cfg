SPECIFICATION FairSpec
CONSTANTS
  Chapters = {c1, c2}
  Tasks = {t1, t2}
  Scans = {s1}
  Sizes = {1, 2}
  Stored = {0, 1}
  Growth = 1
  Cap = 3
  MaxOps = 2
  None = None
INVARIANTS
  CountIsExact
PROPERTIES
  ReservationsFitCap
  CountRecovers
CHECK_DEADLOCK FALSE
