SPECIFICATION Spec
CONSTANTS
  c1 = c1  c2 = c2  c3 = c3
  NoKey = NoKey  None = None
  Chunks <- OneChunk
  Rows <- SoleRow
  OtherName = 9
  BLAME_ROWS_PER_KIND = 1
  Values = {}
  DayLength = 2
  DRIVE_REWRITE = 1
  LockTimeouts = TRUE
  Faults = {}
  MaxNow = 0
  MaxFlushes = 1
  MaxClears = 1
INVARIANTS NothingLost
