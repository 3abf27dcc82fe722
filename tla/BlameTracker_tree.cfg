SPECIFICATION Spec
CONSTANTS
  root = root  a = a  sub = sub  slice = slice
  Unread = Unread
  Root = root
  Paths <- Tree
  Parent <- TreeParent
  Slices = {slice}
  Existing <- Unit
  ReadFailures = TRUE
  RecreateInWalk = FALSE
  MaxWrites = 2
  MaxCgroups <- TwoEach
  MaxUpdates = 3
INVARIANTS TypeOK Conservation OnlyRacingWritesTwice UnitsExact UnitsNotOvercharged
CHECK_DEADLOCK FALSE
