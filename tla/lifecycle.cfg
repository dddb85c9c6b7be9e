SPECIFICATION FairProcess
CONSTANTS
  Tasks = {"downloads", "search_cache", "metrics"}
  AutoResume = TRUE
  WarmSearches = TRUE
  MaxRequests = 1
  MaxToggles = 2
  MaxWarmed = 1
  MaxPanics = 1
INVARIANTS
  NothingIsCutOff
PROPERTIES
  ShutdownEnds
CHECK_DEADLOCK FALSE
