SPECIFICATION FairSpec
CONSTANTS
  Manga = {m1, m2, m3}
  ManualRuns = {}
  Scheduled = Scheduled
  MaxConcurrent = 2
PROPERTIES
  ScheduledRunChecks
CHECK_DEADLOCK FALSE
