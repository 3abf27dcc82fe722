CONSTANTS
  Pids = {p1, p2}
  None = None
  TruncatesSeen = TRUE
  MaxBytes = 3
  MaxProcesses = 2
SPECIFICATION Spec
INVARIANT NothingCreditedTwice
CHECK_DEADLOCK FALSE
