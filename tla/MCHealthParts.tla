---------------------------- MODULE MCHealthParts ----------------------------
(***************************************************************************)
(* Six parts of the health code and the table of workloads, which share no *)
(* state, each on its own: the first state picks the part that runs and    *)
(* the others stand still, so their state spaces are added and not         *)
(* multiplied.                                                             *)
(***************************************************************************)
EXTENDS Integers, FiniteSets, TLC

CONSTANTS
  Pids, NoProcess, TruncatesSeen, MaxBytes, MaxProcesses,              \* UserWrites
  HOUR, DAY, RAW_RETENTION_SECS, HOURLY_RETENTION_SECS, ROLL_UP_SECS, MaxNow,   \* RollUp
  Openers, Tables,                                                     \* SchemaMigration
  Drives, Units, Instances, CrasherOf, Estimate, ExactFigures, MaxEntries, MaxCharge, \* OnBehalf
  Disks, Nameless, Figures, Torn, MAX_AGE_SECONDS, SmartMaxNow, MaxRuns,   \* SmartReader
  NoKey, DbValues, DbMaxNow, MaxFlushes,                               \* HealthDb
  Groups, Root, ParentOf, GroupClass, Procs, Agents, Pages, Online, MaxSteps,
  MaxSamples,                                                          \* GroupTable
  Nothing,                                                             \* the last four
  h1, app, service                                                     \* see below

(* Two crash handlers, run for different programs.                         *)
Crashers == [i \in Instances |-> IF i = h1 THEN app ELSE service]
CoreSizes == [i \in Instances |-> IF i = h1 THEN 1 ELSE 2]

(* A container in a system service's cgroup, an application's cgroup, and  *)
(* processes that are all alike.                                           *)
Workload(class, name) == [class |-> class, key |-> name, mixed |-> FALSE]
WorkloadsAbove == "sys" :> "/" @@ "ctr" :> "sys" @@ "app" :> "/"
WorkloadClasses == "/" :> [class |-> "unclassified", key |-> "", mixed |-> TRUE]
                     @@ "sys" :> Workload("system_services", "")
                     @@ "ctr" :> Workload("containers_and_vms", "c")
                     @@ "app" :> Workload("applications", "app")
OnePage == [p \in Procs |-> 1]

(* What the proofs need of them.                                           *)
ASSUME PidsAssumption ==
  IsFiniteSet(Pids) /\ NoProcess \notin Int /\ TruncatesSeen \in BOOLEAN
ASSUME WidthsAssumption ==
  /\ HOUR \in Nat \ {0} /\ DAY \in Nat \ {0} /\ DAY % HOUR = 0
  /\ RAW_RETENTION_SECS \in Nat /\ HOURLY_RETENTION_SECS \in Nat
  /\ ROLL_UP_SECS \in Nat /\ MaxNow \in Nat
ASSUME MaxEntriesAssumption == MaxEntries \in Nat \ {0} /\ Nothing \notin Int
ASSUME ChargesAssumption ==
  /\ IsFiniteSet(Instances) /\ Estimate \in [Instances -> Nat]
  /\ ExactFigures \subseteq Nat /\ MaxCharge \in Nat
ASSUME DisksAssumption ==
  /\ Nothing \notin Disks
  /\ Torn \notin [usb_serial : Disks \cup {Nothing}, serial : Disks \cup {Nothing},
                 status : {"ok", "asleep", "failed", "garbled"},
                 figure : Figures \cup {Nothing}, last_ok : Nat]

VARIABLES
  part,
  writes, cancelled, processes, delegated, lump, reading, user_io_delegated,
  prev_proc, dirtied, credited, throughProc, overlap,
  now, counter, drive_sample, drive_hourly, drive_daily, last_roll_up, recorded,
  blame, columns, missing, version, pc, table, altered,
  journal, readable, charges, journal_cursor, source, rows, split, read, skipped,
  attached, smartNow, phase, run, current, tmp, ini, runs, gave,
  dbNow, pending, key, cache, tx, dbPhase, todo, unwritten, row,
  sqlTx, staged, draft, stored, dbTable, lock, ui, dbRuns, batch, clears, erased, lost,
  inode, usage, place, started, time, workNow, state, steps, samples, spentIn, spentBy, strayed

writesVars == <<writes, cancelled, processes, delegated, lump, reading, user_io_delegated,
                prev_proc, dirtied, credited, throughProc, overlap>>
rollVars == <<now, counter, drive_sample, drive_hourly, drive_daily, last_roll_up, recorded>>
schemaVars == <<blame, columns, missing, version, pc, table, altered>>
behalfVars == <<journal, readable, charges, journal_cursor, source, rows, split, read, skipped>>
smartVars == <<attached, smartNow, phase, run, current, tmp, ini, runs, gave>>
dbVars == <<dbNow, pending, key, cache, tx, dbPhase, todo, unwritten, row,
            sqlTx, staged, draft, stored, dbTable, lock, ui, dbRuns, batch, clears, erased, lost>>
workVars == <<inode, usage, place, started, time, workNow, state, steps, samples,
              spentIn, spentBy, strayed>>

Writes == INSTANCE UserWrites WITH None <- NoProcess
Roll == INSTANCE RollUp
Schema == INSTANCE SchemaMigration
Behalf == INSTANCE OnBehalf WITH None <- Nothing
Smart == INSTANCE SmartReader WITH Drives <- Disks, MaxNow <- SmartMaxNow, now <- smartNow
Readings == INSTANCE HealthDb
  WITH Chunks <- {}, Rows <- {[name |-> 1, via |-> "", basis |-> "kernel"]}, OtherName <- 9,
       BLAME_ROWS_PER_KIND <- 1, Values <- DbValues, DayLength <- 1, DRIVE_REWRITE <- 1,
       LockTimeouts <- FALSE, Faults <- {"commit"}, None <- Nothing,
       MaxNow <- DbMaxNow, MaxClears <- 0,
       now <- dbNow, phase <- dbPhase, table <- dbTable, runs <- dbRuns
Work == INSTANCE GroupTable WITH None <- Nothing, now <- workNow
(* Every cgroup but the root is somewhere below it, and one whose class is *)
(* open, as a session's are, is not below one that has a class.            *)
ASSUME WorkloadsAssumption ==
  /\ IsFiniteSet(Groups) /\ Root \in Groups /\ ParentOf \in [Groups \ {Root} -> Groups]
  /\ \A S \in (SUBSET Groups) \ {{}} : \E g \in S : g = Root \/ ParentOf[g] \notin S
  /\ \A g \in Groups \ {Root} : GroupClass[g].mixed => GroupClass[ParentOf[g]].mixed
  /\ \A g \in Groups : /\ GroupClass[g].mixed \in BOOLEAN /\ GroupClass[g] # Nothing
                       /\ \A l \in Work!Levels : Work!RowOf(GroupClass[g], l) # Nothing
  /\ IsFiniteSet(Procs) /\ Procs \cap Groups = {} /\ Pages \in [Procs -> Nat]
  /\ Nothing \notin Groups /\ Nothing \notin Nat /\ Online \in Nat

(* The variables of a part that stands still.                              *)
NoWrites ==
  /\ writes = 0 /\ cancelled = 0 /\ processes = 0 /\ delegated = 0 /\ lump = 0
  /\ reading = 0 /\ user_io_delegated = 0 /\ prev_proc = 0
  /\ dirtied = 0 /\ credited = 0 /\ throughProc = 0 /\ overlap = 0
NoRoll ==
  /\ now = 0 /\ counter = 0 /\ last_roll_up = 0 /\ recorded = 0
  /\ drive_sample = 0 /\ drive_hourly = 0 /\ drive_daily = 0
NoSchema ==
  /\ blame = 0 /\ columns = 0 /\ missing = 0 /\ version = 0
  /\ pc = 0 /\ table = 0 /\ altered = 0
NoBehalf ==
  /\ journal = 0 /\ readable = 0 /\ charges = 0 /\ journal_cursor = 0 /\ source = 0
  /\ rows = 0 /\ split = 0 /\ read = 0 /\ skipped = 0
NoSmart ==
  /\ attached = 0 /\ smartNow = 0 /\ phase = 0 /\ run = 0 /\ current = 0
  /\ tmp = 0 /\ ini = 0 /\ runs = 0 /\ gave = 0
NoReadings ==
  /\ dbNow = 0 /\ pending = 0 /\ key = 0 /\ cache = 0 /\ tx = 0 /\ dbPhase = 0
  /\ todo = 0 /\ unwritten = 0 /\ row = 0 /\ sqlTx = 0 /\ staged = 0 /\ draft = 0
  /\ stored = 0 /\ dbTable = 0 /\ lock = 0 /\ ui = 0
  /\ dbRuns = 0 /\ batch = 0 /\ clears = 0 /\ erased = 0 /\ lost = 0
NoWork ==
  /\ inode = 0 /\ usage = 0 /\ place = 0 /\ started = 0 /\ time = 0 /\ workNow = 0 /\ state = 0
  /\ steps = 0 /\ samples = 0 /\ spentIn = 0 /\ spentBy = 0 /\ strayed = 0

Init ==
  \/ part = "writes" /\ Writes!Init
     /\ NoRoll /\ NoSchema /\ NoBehalf /\ NoSmart /\ NoReadings /\ NoWork
  \/ part = "roll up" /\ Roll!Init
     /\ NoWrites /\ NoSchema /\ NoBehalf /\ NoSmart /\ NoReadings /\ NoWork
  \/ part = "schema" /\ Schema!Init
     /\ NoWrites /\ NoRoll /\ NoBehalf /\ NoSmart /\ NoReadings /\ NoWork
  \/ part = "on behalf" /\ Behalf!Init
     /\ NoWrites /\ NoRoll /\ NoSchema /\ NoSmart /\ NoReadings /\ NoWork
  \/ part = "smart" /\ Smart!Init
     /\ NoWrites /\ NoRoll /\ NoSchema /\ NoBehalf /\ NoReadings /\ NoWork
  \/ part = "readings" /\ Readings!Init
     /\ NoWrites /\ NoRoll /\ NoSchema /\ NoBehalf /\ NoSmart /\ NoWork
  \/ part = "groups" /\ Work!Init
     /\ NoWrites /\ NoRoll /\ NoSchema /\ NoBehalf /\ NoSmart /\ NoReadings

Next ==
  /\ UNCHANGED part
  /\ \/ part = "writes" /\ Writes!Next
        /\ UNCHANGED <<rollVars, schemaVars, behalfVars, smartVars, dbVars, workVars>>
     \/ part = "roll up" /\ Roll!Next
        /\ UNCHANGED <<writesVars, schemaVars, behalfVars, smartVars, dbVars, workVars>>
     \/ part = "schema" /\ Schema!Next
        /\ UNCHANGED <<writesVars, rollVars, behalfVars, smartVars, dbVars, workVars>>
     \/ part = "on behalf" /\ Behalf!Next
        /\ UNCHANGED <<writesVars, rollVars, schemaVars, smartVars, dbVars, workVars>>
     \/ part = "smart" /\ Smart!Next
        /\ UNCHANGED <<writesVars, rollVars, schemaVars, behalfVars, dbVars, workVars>>
     \/ part = "readings" /\ Readings!Next
        /\ UNCHANGED <<writesVars, rollVars, schemaVars, behalfVars, smartVars, workVars>>
     \/ part = "groups" /\ Work!Next
        /\ UNCHANGED <<writesVars, rollVars, schemaVars, behalfVars, smartVars, dbVars>>

Spec == Init /\ [][Next]_<<part, writesVars, rollVars, schemaVars, behalfVars, smartVars, dbVars, workVars>>

-----------------------------------------------------------------------------
(* The properties of the parts; each says in its module what it is about.  *)

(* UserWrites: programs are credited what they wrote, once.                *)
CreditedOnce == part = "writes" => Writes!CreditedOnce

(* RollUp: the history never understates wear.                             *)
WearKept == part = "roll up" => Roll!WearKept

(* SchemaMigration: who has opened the file finds every column, and only   *)
(* an ALTER that came second fails.                                        *)
OpenedSound == part = "schema" => Schema!OpenedIsComplete /\ Schema!FailsOnlyOnce

(* OnBehalf: the rows of an interval come to what was charged, and exact   *)
(* rows claim no more than the resource messages.                          *)
RowsSound == part = "on behalf" => Behalf!RowsSumToCharged /\ Behalf!ExactWithinFigures

(* OnBehalf: a journal entry behind the cursor was used in one interval.   *)
EntriesUsedOnce == part = "on behalf" => Behalf!EntriesUsedOnce

(* SmartReader: what is shown of a disk is that disk's, and as old as said.*)
ShownIsTheDrives == part = "smart" => Smart!ShownIsTheDrives

(* HealthDb, without deltas: what is believed stored is stored.            *)
CacheTruthful == part = "readings" => Readings!CacheTruthful

(* GroupTable: the rows claim no more than was used, and say what they miss. *)
GroupsSound == part = "groups" => Work!TableIsTrue
=============================================================================
