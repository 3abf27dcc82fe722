SPECIFICATION Spec
CONSTANTS
  c1 = c1  c2 = c2  c3 = c3
  NoKey = NoKey  None = None
  Chunks <- MCChunks
  Rows <- MCRows
  OtherName = 9
  BLAME_ROWS_PER_KIND = 1
  Values = {}
  DayLength = 1
  DRIVE_REWRITE = 1
  LockTimeouts = FALSE
  Faults = {"commit"}
  MaxNow = 1
  MaxFlushes = 2
  MaxClears = 1
SYMMETRY Symmetric
INVARIANTS TypeOK NothingLost CountedOnce FlushAtomic LargestRowsKept DayAndBasisKept
PROPERTIES ImplementsBlameRecord
