SPECIFICATION FairSpec
CONSTANTS
  Manga = {m1, m2, m3}
  ManualRuns = {q1}
  Scheduled = Scheduled
  MaxConcurrent = 2
INVARIANTS
  FanOutIsKept
  ReportCoversLibrary
  NoStrayChecks
PROPERTIES
  ShutdownEndsScheduler
CHECK_DEADLOCK FALSE
