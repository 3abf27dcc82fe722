CONSTANTS
  Pids = {1, 2}
  Lives = {1, 2}
  Kinds = {"kill"}
  None = None
  MaxStarts = 3
  MaxActions = 1
  MaxTurns = 0
SPECIFICATION Spec
INVARIANT TableRefreshes
CHECK_DEADLOCK FALSE
