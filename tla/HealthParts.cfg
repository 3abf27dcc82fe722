CONSTANTS
  Pids = {p1, p2}  NoProcess = NoProcess  TruncatesSeen = FALSE
  MaxBytes = 3  MaxProcesses = 2
  HOUR = 2  DAY = 4  RAW_RETENTION_SECS = 2  HOURLY_RETENTION_SECS = 4  ROLL_UP_SECS = 2
  MaxNow = 9
  Openers = {window, daemon}  Tables = {t1, t2, t3}
  Drives = {drive}  Units = {app}  Instances = {h1, h2}
  CrasherOf <- Crashers  Estimate <- CoreSizes
  ExactFigures = {1, 2}  MaxEntries = 3  MaxCharge = 2
  h1 = h1  app = app  service = service
  Disks = {stick, bare}  Nameless = {bare}  Figures = {1, 2}  Torn = Torn
  MAX_AGE_SECONDS = 1  SmartMaxNow = 3  MaxRuns = 3
  Nothing = Nothing
  NoKey = NoKey  DbValues = {1, 2}  DbMaxNow = 1  MaxFlushes = 2
  Groups = {"/", "sys", "ctr", "app"}  Root = "/"
  ParentOf <- WorkloadsAbove  GroupClass <- WorkloadClasses
  Procs = {p1}  Agents = {p1}  Pages <- OnePage  Online = 1  MaxSteps = 3  MaxSamples = 1
SPECIFICATION Spec
INVARIANTS
  CreditedOnce
  WearKept
  OpenedSound
  RowsSound
  EntriesUsedOnce
  ShownIsTheDrives
  
  GroupsSound
CHECK_DEADLOCK FALSE
