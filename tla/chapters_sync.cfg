SPECIFICATION Spec
CONSTANTS
  Remotes = {r1, r2}
  Numbers = {1, 2}
  Dates = {1, 2}
  Tasks = {t1, t2}
  AutoDownload = TRUE
  MaxRows = 3
  MaxSyncs = 3
  Listings <- UpToTwo
  None = None
SYMMETRY Symmetry
INVARIANTS
  ChaptersAreDistinct
  DownloadsHaveChapter
  BackCatalogueIsNotQueued
PROPERTIES
  SyncIsIdempotent
CHECK_DEADLOCK FALSE
