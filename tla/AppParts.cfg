CONSTANTS
  None = None
  Malformed = Malformed
  Nothing = Nothing
  TablePids = {1, 2, 3}  ReuseInWalk = FALSE  MaxBirths = 2  ProcRefreshes = 2  MaxSettings = 1
  MIN_UPDATE_INTERVAL = 10  MAX_UPDATE_INTERVAL = 40  Settings = {10, 25, 40}
  Speeds = {60, 120}  Frames = {0, 1, 2, 3}  FRAMES_PER_UNIT = 4  MaxTicks = 9
  GraphDevices = {d1, d2}  ByteUnit = 1000  ByteSteps = {1, 2}  GraphSizes = {2, 3}
  MaxCounter = 2  MaxElapsed = 1  GraphRefreshes = 3  GraphChanges = 2
  CpuCount = 2  CpuTicks = 1  LoadRefreshes = 3
  ActedPids = {1, 2}  ActedLives = {1}  Kinds = {"kill", "affinity"}
  MaxStarts = 2  MaxActions = 2  MaxTurns = 1
  WalkedPids = {1, 2}  WalkStarts = 3
  Cgroups = {"/", "/a", "/a/b", "/a/b/d", "/c"}  RootCgroup = "/"
  CgroupAbove <- CgroupsAbove  CgroupRank <- CgroupsInOrder
  WalkDepth = 2  MaxCgroups = 7  MaxErrors = 1
  Versions = {va, vb}  Absent = Absent  Foreign = Foreign  ChannelCommands = 5
  MAX_AGE = 1  MaxWear = 1  PageChanges = 4  MaxToggles = 2
  Tabs = {"processes", "health"}  SettingValues = {"yes", "no"}  ListRows <- TreeRows
  SocketCommands = 3  MaxUser = 1
  MountDirs = {"/", "/m"}  MountKinds = {"disk", "pseudo", "refused"}
  DiskIntervals = {1, 2}  DiskBlocks = 2  DiskAge = 3
  LastStart = 4  LastDescriptor = 2  OpenTypes = {"file", "pipe"}  OpenNames = {"x", "y"}
  ListChanges = 4
SPECIFICATION Spec
INVARIANTS
  TableSound
  TimersSound
  FrozenByCancelOnly
  GraphSound
  WalksSound
  ChannelSound
  
  
  ListsSound
  FiguresSound
  ReaderSound
CHECK_DEADLOCK FALSE
