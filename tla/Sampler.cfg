SPECIFICATION FairSpec
CONSTANTS
  Nothing = Nothing
  Chunks = {c1, c2}
  Proxied = {c1}
  Disks = {disk}
  Mappers = {mapper}
  Drives = {ssd, stick}
  Hazards = {"unplug", "udisks lags", "silent", "commit", "kill"}
  MAP_MISS_REFRESH = 2
  FlushInterval = 3
INVARIANTS TypeOK RowsAccountedFor RedividedExactly RetriedEachMinute
PROPERTIES UsesRecordProperly OnlyUntrackedDropped ReachesTable
CHECK_DEADLOCK FALSE
