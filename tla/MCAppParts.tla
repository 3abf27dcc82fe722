----------------------------- MODULE MCAppParts -----------------------------
(***************************************************************************)
(* The parts of the application, each on its own, as in MCHealthParts: the *)
(* first state picks the part that runs.  Here the parts take turns with   *)
(* the same variables, named by their place in the part's own list; those  *)
(* it does not need stay 0.  A pure part reads one input and stops.        *)
(***************************************************************************)
EXTENDS MCFigures

CONSTANTS
  Nothing,
  TablePids, ReuseInWalk, MaxBirths, ProcRefreshes, MaxSettings,       \* ProcTable
  MIN_UPDATE_INTERVAL, MAX_UPDATE_INTERVAL, Settings,                  \* RefreshTimer
  Speeds, Frames, FRAMES_PER_UNIT, MaxTicks,                           \* GraphTimer
  GraphDevices, ByteUnit, ByteSteps, GraphSizes, MaxCounter, MaxElapsed,
  GraphRefreshes, GraphChanges,                                        \* LoadGraph
  CpuCount, CpuTicks, LoadRefreshes,                                   \* CpuLoad
  ActedPids, ActedLives, Kinds, MaxStarts, MaxActions, MaxTurns,            \* ProcActions
  WalkedPids, WalkStarts,                                              \* ProcWalk
  Cgroups, RootCgroup, CgroupAbove, CgroupRank, WalkDepth, MaxCgroups, MaxErrors, \* CgroupWalk
  Versions, Absent, Foreign, ChannelCommands,                          \* DevChannel
  MAX_AGE, MaxWear, PageChanges, MaxToggles,                           \* HealthPage
  Tabs, SettingValues, ListRows, SocketCommands, MaxUser,              \* DevIpc
  MountDirs, MountKinds, DiskIntervals, DiskBlocks, DiskAge,           \* Disks
  LastStart, LastDescriptor, OpenTypes, OpenNames, ListChanges         \* MemMaps, OpenFiles

(* What the proofs take of them: the bounds of the setting hold every      *)
(* value of it, a new graph has a frame, None is none of the values it     *)
(* stands beside, init is a process, the rows of the tree are a sequence,  *)
(* and a disk has a block for its user beside the one for the superuser.   *)
ASSUME TablePidsAssumption ==
  /\ TablePids \subseteq Nat \ {0} /\ 1 \in TablePids
  /\ None \notin [birth : Nat, parent : Nat, active : BOOLEAN]
ASSUME IntervalsAssumption ==
  /\ MIN_UPDATE_INTERVAL \in Nat /\ MAX_UPDATE_INTERVAL \in Nat
  /\ Settings \subseteq MIN_UPDATE_INTERVAL..MAX_UPDATE_INTERVAL
ASSUME FramesAssumption ==
  /\ Speeds \subseteq Nat /\ Frames \subseteq Nat
  /\ FRAMES_PER_UNIT \in Nat \ {0} /\ MaxTicks \in Nat
ASSUME GraphAssumption ==
  /\ IsFiniteSet(GraphDevices) /\ ByteUnit \in Nat /\ ByteSteps \subseteq Nat
  /\ GraphSizes \subseteq Nat \ {0} /\ MaxCounter \in Nat
  /\ (2 * (Cardinality(GraphDevices) * MaxCounter * ByteUnit)) \div 1024 < 1024 * 1024 * 1024
ASSUME LoadAssumption == CpuCount \in Nat \ {0} /\ CpuTicks \in Nat
ASSUME ActedOnAssumption == \A S \in SUBSET (ActedPids \X ActedLives) : S # None
ASSUME CgroupsAssumption ==
  /\ IsFiniteSet(Cgroups) /\ RootCgroup \in Cgroups
  /\ CgroupAbove \in [Cgroups \ {RootCgroup} -> Cgroups] /\ CgroupRank \in [Cgroups -> Nat]
  /\ \A c \in Cgroups \ {RootCgroup} : CgroupRank[CgroupAbove[c]] < CgroupRank[c]
ASSUME ListAssumption ==
  /\ DiskIntervals \subseteq Nat /\ DiskBlocks \in Nat \ {0, 1}
  /\ LastStart \in Nat /\ LastDescriptor \in Nat
ASSUME WalkedPidsAssumption == WalkedPids \subseteq Nat \ {0} /\ None \notin Nat

(* Cgroups four deep, and a tree of three rows, one below another.         *)
CgroupsAbove == "/a" :> "/" @@ "/a/b" :> "/a" @@ "/a/b/d" :> "/a/b" @@ "/c" :> "/"
CgroupsInOrder == "/" :> 1 @@ "/a" :> 2 @@ "/a/b" :> 3 @@ "/a/b/d" :> 4 @@ "/c" :> 5
ProcessRow(pid, texts, above) == [pid |-> pid, texts |-> texts, above |-> above]
TreeRows == <<ProcessRow(4, {"a"}, 0), ProcessRow(7, {"a", "b"}, 1), ProcessRow(47, {"b"}, 0)>>

VARIABLES part, v1, v2, v3, v4, v5, v6, v7, v8, v9, v10, v11, v12, v13, v14, v15, v16,
          v17, v18, v19

from6 == <<v6, v7, v8, v9, v10, v11, v12, v13, v14, v15, v16, v17, v18, v19>>
from7 == <<v7, v8, v9, v10, v11, v12, v13, v14, v15, v16, v17, v18, v19>>
from10 == <<v10, v11, v12, v13, v14, v15, v16, v17, v18, v19>>
from13 == <<v13, v14, v15, v16, v17, v18, v19>>
from14 == <<v14, v15, v16, v17, v18, v19>>
from15 == <<v15, v16, v17, v18, v19>>
from16 == <<v16, v17, v18, v19>>
from17 == <<v17, v18, v19>>

No17 == v17 = 0 /\ v18 = 0 /\ v19 = 0
No16 == v16 = 0 /\ No17
No15 == v15 = 0 /\ v16 = 0 /\ No17
No14 == v14 = 0 /\ No15
No13 == v13 = 0 /\ No14
No10 == v10 = 0 /\ v11 = 0 /\ v12 = 0 /\ No13
No7 == v7 = 0 /\ v8 = 0 /\ v9 = 0 /\ No10
No6 == v6 = 0 /\ No7
No2 == v2 = 0 /\ v3 = 0 /\ v4 = 0 /\ v5 = 0 /\ No6

Table == INSTANCE ProcTable
  WITH Pids <- TablePids, Whose <- {"all", "active"}, MaxRefreshes <- ProcRefreshes,
       proc <- v1, births <- v2, whose <- v3, source <- v4, dependencies <- v5, changes <- v6,
       phase <- v7, now <- v8, list <- v9, unread <- v10, addition <- v11, table <- v12,
       tree <- v13, cpu_times <- v14, total <- v15, snapshots <- v16
Timer == INSTANCE RefreshTimer
  WITH update_interval <- v1, active <- v2, interval <- v3, last_pcpu <- v4, timeout <- v5
Actions == INSTANCE ProcActions
  WITH Pids <- ActedPids, Lives <- ActedLives,
       alive <- v1, starts <- v2, rows <- v3, selected <- v4, properties <- v5, shown <- v6,
       turns <- v7, timeout <- v8, dismissed <- v9, question <- v10, actions <- v11,
       begun <- v12, astray <- v13, freed <- v14
Graph == INSTANCE LoadGraph
  WITH Types <- {"net", "disk", "memory"}, Devices <- GraphDevices, Unit <- ByteUnit,
       Steps <- ByteSteps, Sizes <- GraphSizes,
       MaxRefreshes <- GraphRefreshes, MaxChanges <- GraphChanges,
       counters <- v1, selected <- v2, moved <- v3, elapsed <- v4, type <- v5, num_points <- v6,
       iteration <- v7, latest <- v8, data <- v9, values <- v10, max <- v11, last <- v12,
       num_bars <- v13, in_bits <- v14, background <- v15, overstated <- v16, resized <- v17,
       refreshes <- v18, changes <- v19
Redraw == INSTANCE GraphTimer
  WITH speed <- v1, frames_per_unit <- v2, render_counter <- v3, redraw_timeout <- v4,
       delayed <- v5, draw <- v6, room <- v7, waited <- v8, settled <- v9
Load == INSTANCE CpuLoad
  WITH Cpus <- 0..(CpuCount - 1), MaxTicks <- CpuTicks, MaxRefreshes <- LoadRefreshes,
       ticks <- v1, stall <- v2, elapsed <- v3, stalled <- v4, iteration <- v5, last <- v6,
       data <- v7, pressure <- v8, some <- v9, drawStacked <- v10, span <- v11,
       misjudged <- v12, refreshes <- v13
Walk == INSTANCE ProcWalk
  WITH Pids <- WalkedPids, MaxStarts <- WalkStarts,
       owner <- v1, starts <- v2, listing <- v3, entry <- v4, handle <- v5, parts <- v6,
       processes <- v7, exited <- v8, unkeyed <- v9, entries <- v10, lived <- v11,
       throughout <- v12
Tree == INSTANCE CgroupWalk
  WITH Paths <- Cgroups, Root <- RootCgroup, ParentOf <- CgroupAbove, Rank <- CgroupRank,
       MaxDepth <- WalkDepth, MaxMade <- MaxCgroups,
       inode <- v1, made <- v2, frames <- v3, doubt <- v4, groups <- v5, vanished <- v6,
       too_deep <- v7, directory_errors <- v8, throughout <- v9
Channel == INSTANCE DevChannel
  WITH MaxCommands <- ChannelCommands,
       content <- v1, current <- v2, previous <- v3, export <- v4, backup <- v5, saved <- v6,
       command <- v7, commands <- v8, original <- v9, before <- v10, cut <- v11, torn <- v12,
       halted <- v13
ASSUME VersionsAssumption ==
  /\ None \notin Versions /\ None \notin [1..3 -> Channel!Held]
  /\ None \notin [do : Channel!Steps, version : Versions, done : Nat]
Page == INSTANCE HealthPage
  WITH Failed <- Malformed, MaxChanges <- PageChanges,
       at <- v1, wear <- v2, file <- v3, epoch <- v4, setting <- v5, sampler <- v6, jobs <- v7,
       open <- v8, range <- v9, tracking_enabled <- v10, refreshing <- v11, worker <- v12,
       card <- v13, failed <- v14, moved <- v15, wanted <- v16, raced <- v17, changes <- v18
Socket == INSTANCE DevIpc
  WITH NULL <- None, Values <- SettingValues, MaxCommands <- SocketCommands,
       window <- v1, visible <- v2, styled <- v3, selection <- v4, expanded <- v5, switch <- v6,
       setting <- v7, idle <- v8, serving <- v9, painted <- v10, reply <- v11, commands <- v12,
       acts <- v13, alone <- v14, hurried <- v15
ASSUME RowsAssumption == ListRows \in Seq([pid : Nat, texts : SUBSET STRING, above : Nat])
ASSUME CommandsAssumption == \A c \in Socket!Commands : c # None

FileSystems == INSTANCE Disks
  WITH Dirs <- MountDirs, Kinds <- MountKinds, Intervals <- DiskIntervals,
       Total <- DiskBlocks, MaxAge <- DiskAge, MaxChanges <- ListChanges,
       mounts <- v1, filled <- v2, known_directories <- v3, list_store <- v4, show_all_fs <- v5,
       update_interval <- v6, timeout <- v7, mapped <- v8, suspended <- v9, seen <- v10,
       age <- v11, changes <- v12

AddressSpace == INSTANCE MemMaps
  WITH MaxChanges <- ListChanges,
       maps <- v1, list_store <- v2, alive <- v3, seen <- v4, squeezed <- v5, changes <- v6
OpenTable == INSTANCE OpenFiles
  WITH Types <- OpenTypes, Names <- OpenNames, MaxChanges <- ListChanges,
       files <- v1, info <- v2, known_files <- v3, store <- v4, seen <- v5, changes <- v6

-----------------------------------------------------------------------------
ReadInput ==
  /\ part \in Pure /\ v1 = None
  /\ v1' \in Inputs(part)
  /\ UNCHANGED <<v2, v3, v4, v5, from6>>

-----------------------------------------------------------------------------
Init ==
  \/ part = "table" /\ Table!Init /\ No17
  \/ part = "timer" /\ Timer!Init /\ No6
  \/ part = "actions" /\ Actions!Init /\ No15
  \/ part = "graph" /\ Graph!Init
  \/ part = "redraw" /\ Redraw!Init /\ No10
  \/ part = "load" /\ Load!Init /\ No14
  \/ part = "procwalk" /\ Walk!Init /\ No13
  \/ part = "cgroupwalk" /\ Tree!Init /\ No10
  \/ part = "channel" /\ Channel!Init /\ No14
  \/ part = "page" /\ Page!Init /\ v19 = 0
  \/ part = "socket" /\ Socket!Init /\ No16
  \/ part = "disks" /\ FileSystems!Init /\ No13
  \/ part = "maps" /\ AddressSpace!Init /\ No7
  \/ part = "files" /\ OpenTable!Init /\ No7
  \/ part \in Pure /\ v1 = None /\ No2

Next ==
  /\ UNCHANGED part
  /\ \/ part = "table" /\ Table!Next /\ UNCHANGED from17
     \/ part = "timer" /\ Timer!Next /\ UNCHANGED from6
     \/ part = "actions" /\ Actions!Next /\ UNCHANGED from15
     \/ part = "graph" /\ Graph!Next
     \/ part = "redraw" /\ Redraw!Next /\ UNCHANGED from10
     \/ part = "load" /\ Load!Next /\ UNCHANGED from14
     \/ part = "procwalk" /\ Walk!Next /\ UNCHANGED from13
     \/ part = "cgroupwalk" /\ Tree!Next /\ UNCHANGED from10
     \/ part = "channel" /\ Channel!Next /\ UNCHANGED from14
     \/ part = "page" /\ Page!Next /\ UNCHANGED v19
     \/ part = "socket" /\ Socket!Next /\ UNCHANGED from16
     \/ part = "disks" /\ FileSystems!Next /\ UNCHANGED from13
     \/ part = "maps" /\ AddressSpace!Next /\ UNCHANGED from7
     \/ part = "files" /\ OpenTable!Next /\ UNCHANGED from7
     \/ ReadInput

Spec == Init /\ [][Next]_<<part, v1, v2, v3, v4, v5, from6>>

-----------------------------------------------------------------------------
(* The properties of the parts; each says in its module what it is about.  *)

(* ProcTable: every listed process has one row, in the tree; a rate is of  *)
(* one process and, until the user changes what is listed, of one interval. *)
TableSound == part = "table" =>
  Table!TreeIsTheTable /\ Table!RatesAreOfOneProcess /\ Table!RatesSpanOneIntervalAtFirst

(* RefreshTimer, GraphTimer: the table waits between once and twice the    *)
(* setting, and a graph goes on sampling.                                  *)
TimersSound ==
  /\ part = "timer" => Timer!IntervalInBounds
  /\ part = "redraw" => Redraw!SamplesEachRound

(* ProcActions: only a cancelled question leaves the table frozen.         *)
FrozenByCancelOnly == part = "actions" => Actions!FrozenByCancelOnly

(* LoadGraph, CpuLoad: rates, the labels and the scale of a graph fit      *)
(* together, and shares are of the time since the refresh before.          *)
GraphSound ==
  /\ part = "graph" =>
       Graph!RatesNotOverstated /\ Graph!BackgroundIsCurrent /\ Graph!PointsWithinScaleAtFirst
  /\ part = "load" => Load!SharesAreOfOneInterval /\ Load!PressureIsOfOneInterval

(* ProcWalk, CgroupWalk: the walks have all that lives, and only that.     *)
WalksSound ==
  /\ part = "procwalk" => Walk!LivingAreListed /\ Walk!EndedHaveNoRecord /\ Walk!PartsAreOfOne
  /\ part = "cgroupwalk" => Tree!LivingAreListed /\ Tree!TreeIsOrdered

(* DevChannel: a way back, and nothing of the user's lost.                 *)
ChannelSound == part = "channel" => Channel!Sound

(* HealthPage: the page is current, its figures are the drive's, and the   *)
(* sampler is as the user asked.                                           *)
PageSound == part = "page" => Page!Sound

(* Readings, GraphScale, Classify, and of a card of the health page        *)
(* DriveFigures, HealthCard, HealthCharts: the pure functions against what *)
(* they are for.                                                           *)
FiguresSound ==
  /\ (part \in Readings /\ v1 # None) => ReadingSound(part, v1)
  /\ (part \in Cards /\ v1 # None) => CardSound(part, v1)

(* DevIpc: a picture is whole, the row selected is the one asked for, and  *)
(* nothing is closed under a handler.                                      *)
SocketSound == part = "socket" => Socket!Sound

(* Disks, MemMaps, OpenFiles: the rows are what is mounted, mapped, open.  *)
ListsSound ==
  /\ part = "disks" => FileSystems!Sound
  /\ part = "maps" => AddressSpace!Sound
  /\ part = "files" => OpenTable!Sound

(* SmartCommands, SmartFile, SmartScan: what is asked of which disk, what  *)
(* is believed of its answers, and what is read back of them.              *)
ReaderSound == (part \in Reader /\ v1 # None) => SmartSound(part, v1)
=============================================================================
