SPECIFICATION Spec
CONSTANTS
  root = root  a = a  sub = sub  slice = slice
  Unread = Unread
  Root = root
  Paths <- Unit
  Parent <- UnitParent
  Slices = {}
  Existing <- Unit
  ReadFailures = FALSE
  RecreateInWalk = TRUE
  MaxWrites = 2
  MaxCgroups <- TwoEach
  MaxUpdates = 3
INVARIANTS UnitsNotOvercharged
CHECK_DEADLOCK FALSE
