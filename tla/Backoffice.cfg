CONSTANTS
  Ids       = {p1, p2}
  Writers   = {w1, w2}
  Instances = {i1, i2}
  Poison    = {p2}
  MaxFaults = 1

  Folders  = {f1, f2}
  Main     = f1
  Hands    = {h1, h2, h3}
  Start    = start
  Outside  = outside
  MaxSlips = 1

  Entries  = {e1, e2}
  Clerks   = {c1, c2, c3}
  MaxDrops = 1

  Callers  = {"super-admin", "admin", "viewer"}
  Edits   <- MCEdits
  MaxEdits = 2

  Records  = {r1, r2, r3, r4}
  Calendars <- MCCalendars
  PageSize = 2
  PageCap  = 3
  Many     = 4
  MaxMoves = 2

  None = none

SPECIFICATION OfficeSpec

CHECK_DEADLOCK FALSE

INVARIANTS
  BackofficeTypeOK
  FilesMatchRows
  RoutesAreReached

PROPERTIES
  RowsLoseOnlyToOverlap
  DuePostsArePublished
  NoticesTellTheTruth
  
  ReadersSeeRowsOnce
