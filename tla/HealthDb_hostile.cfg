SPECIFICATION FairSpec
CONSTANTS
  c1 = c1  c2 = c2  c3 = c3
  NoKey = NoKey  None = None
  Chunks = {}
  Rows <- SoleRow
  OtherName = 9
  BLAME_ROWS_PER_KIND = 1
  Values = {1}
  DayLength = 2
  DRIVE_REWRITE = 1
  LockTimeouts = TRUE
  Faults = {"statement", "commit"}
  MaxNow = 0
  MaxFlushes = 2
  MaxClears = 1
PROPERTIES WriteLockReleased ClearReturns
