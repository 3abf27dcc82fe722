------------------------------ MODULE ProcTable ------------------------------
(***************************************************************************)
(* src/src/proctable.cpp, proclist.h, procinfo.cpp, cpurate.c and          *)
(* procsource.cpp: the table of processes, its tree and the CPU share of   *)
(* each row.  A refresh lists the processes, reads them one after another  *)
(* through libgtop or takes a snapshot of the collector, drops the rows of *)
(* those that are gone and puts new rows and orphans into the tree.        *)
(* Processes start, exit and reuse identifiers meanwhile.                  *)
(*                                                                         *)
(* A CPU counter is represented by the process it is of and the refresh it *)
(* was read in: a rate is right when both ends are of one process and when *)
(* it is divided by the time between them.  Names, icons, memory and disk  *)
(* figures, and the few calls about one row, are left out; the timer is    *)
(* RefreshTimer's.                                                         *)
(***************************************************************************)
EXTENDS Integers, FiniteSets

CONSTANTS
  Pids,             \* natural numbers; 0 is no process, 1 is init
  None,             \* model value
  Whose,            \* the filters the user may choose
  ReuseInWalk,      \* may an identifier that was listed be reused in the walk?
  MaxBirths, MaxRefreshes, MaxSettings   \* bounds

VARIABLES
  \* --- the machine ---
  proc,             \* pid -> [birth, parent, active] or None
  births,
  \* --- settings ---
  whose, source, dependencies, changes,
  \* --- a refresh ---
  phase, now,
  list, unread,     \* pid_list, and what of it is not read yet
  addition,
  \* --- the table ---
  table,            \* app->processes: pid -> [base, ppid, rate]
  tree,             \* pid -> parent in the tree store, 0 at the top
  cpu_times,        \* pid -> the last good counter
  total,            \* cpu_total_time(_last): the refresh it spans from, the last one read
  snapshots         \* the collector's current and previous, or None

machine  == <<proc, births>>
settings == <<whose, source, dependencies, changes>>
walk     == <<phase, now, list, unread, addition>>
rows     == <<table, tree>>
tableVars == <<machine, settings, walk, rows, cpu_times, total, snapshots>>

Running == {p \in Pids : proc[p] # None}
NoRows == [p \in {} |-> None]
Put(f, p, x) == [q \in DOMAIN f \cup {p} |-> IF q = p THEN x ELSE f[q]]
NoSnapshots == [current |-> None, previous |-> None]

Init ==
  /\ proc = [p \in Pids |-> IF p = 1 THEN [birth |-> 0, parent |-> 0, active |-> FALSE] ELSE None]
  /\ births = 0
  /\ whose \in Whose /\ source \in {"libgtop", "collector"} /\ dependencies \in BOOLEAN
  /\ changes = 0
  /\ phase = "idle" /\ now = 0 /\ list = {} /\ unread = {} /\ addition = {}
  /\ table = NoRows /\ tree = NoRows /\ cpu_times = NoRows
  /\ total = [from |-> 0, last |-> 0] /\ snapshots = NoSnapshots

-----------------------------------------------------------------------------
Fork(p, parent) ==
  /\ births < MaxBirths
  /\ proc[p] = None /\ parent \in Running
  /\ ReuseInWalk \/ phase = "idle" \/ p \notin list
  /\ births' = births + 1
  /\ proc' = [proc EXCEPT ![p] = [birth |-> births + 1, parent |-> parent, active |-> TRUE]]
  /\ UNCHANGED <<settings, walk, rows, cpu_times, total, snapshots>>

(* Its children become init's.                                             *)
Exit(p) ==
  /\ p # 1 /\ proc[p] # None
  /\ proc' = [q \in Pids |->
       IF q = p THEN None
       ELSE IF proc[q] # None /\ proc[q].parent = p THEN [proc[q] EXCEPT !.parent = 1]
       ELSE proc[q]]
  /\ UNCHANGED <<births, settings, walk, rows, cpu_times, total, snapshots>>

(* The state letter becomes R or another.                                  *)
Schedule(p) ==
  /\ proc[p] # None /\ Whose # {"all"}
  /\ proc' = [proc EXCEPT ![p].active = ~@]
  /\ UNCHANGED <<births, settings, walk, rows, cpu_times, total, snapshots>>

-----------------------------------------------------------------------------
(* gsm_proc_source_selects, and the same selection by libgtop.             *)
Selected == {p \in Running : whose = "all" \/ proc[p].active}

(* gsm_proc_source_sample.                                                 *)
Snapshot == [at |-> now', births |-> [p \in Running |-> proc[p].birth]]

(* fill_cpu: the previous snapshot is of the same process.                 *)
SnapshotRate(p, previous) ==
  IF previous # None /\ p \in DOMAIN previous.births /\ previous.births[p] = proc[p].birth
  THEN [of |-> previous.births[p], read |-> proc[p].birth, since |-> previous.at, over |-> previous.at]
  ELSE None

(* update_info_from_collector.                                             *)
FilledRow(p, previous) ==
  [base |-> None, ppid |-> proc[p].parent, rate |-> SnapshotRate(p, previous)]

Begin ==
  /\ phase = "idle" /\ now < MaxRefreshes
  /\ now' = now + 1

StartFromCollector ==
  /\ Begin /\ source = "collector"
  /\ snapshots' = [current |-> Snapshot, previous |-> snapshots.current]
  /\ list' = Selected /\ unread' = {}
  /\ addition' = Selected \ DOMAIN table
  /\ table' = [p \in Selected \cup DOMAIN table |->
                  IF p \in Selected THEN FilledRow(p, snapshots.current) ELSE table[p]]
  /\ phase' = "read"
  /\ UNCHANGED <<machine, settings, tree, cpu_times, total>>

(* Asked for, or because the collector could not read.                     *)
StartFromLibgtop ==
  /\ Begin
  /\ snapshots' = IF source = "libgtop" THEN NoSnapshots ELSE snapshots
  /\ list' = Selected /\ unread' = Selected
  /\ addition' = {}
  /\ total' = [from |-> total.last, last |-> now']
  /\ phase' = "read"
  /\ UNCHANGED <<machine, settings, rows, cpu_times>>

(* gsm_cpu_baseline_carries.                                               *)
BaselineCarries_ByPid(kept, birth) == TRUE

BaselineCarries(kept, birth) == kept.start = birth

(* The baseline of a row: the start time it goes by, and the counter.  A   *)
(* new row (the constructor of ProcInfo) takes the counter that was kept.  *)
Baseline(p, birth) ==
  IF p \in DOMAIN table THEN table[p].base
  ELSE IF p \in DOMAIN cpu_times /\ BaselineCarries(cpu_times[p], birth)
  THEN [cpu_times[p] EXCEPT !.start = birth]
  ELSE None

(* gsm_cpu_rate.                                                           *)
CpuRate_AnyProcess(base, birth) ==
  IF base # None
  THEN [of |-> base.of, read |-> birth, since |-> base.at, over |-> total.from] ELSE None

CpuRate(base, birth) ==
  IF base # None /\ base.start = birth
  THEN [of |-> base.of, read |-> birth, since |-> base.at, over |-> total.from] ELSE None

FirstUnread == CHOOSE p \in unread : \A q \in unread : p <= q

(* update_info of a process that is still there.                           *)
ReadRow ==
  /\ phase = "read" /\ unread # {}
  /\ LET p == FirstUnread
         birth == proc[p].birth
         counter == [start |-> birth, of |-> birth, at |-> now]
     IN /\ proc[p] # None
        /\ table' = Put(table, p, [base |-> counter, ppid |-> proc[p].parent,
                                   rate |-> CpuRate(Baseline(p, birth), birth)])
        /\ cpu_times' = Put(cpu_times, p, counter)
        /\ addition' = IF p \in DOMAIN table THEN addition ELSE addition \cup {p}
        /\ unread' = unread \ {p}
  /\ UNCHANGED <<machine, settings, phase, now, list, tree, total, snapshots>>

(* It has exited: no counter, no parent, and no baseline from then on.     *)
ReadFails ==
  /\ phase = "read" /\ unread # {}
  /\ LET p == FirstUnread
     IN /\ proc[p] = None
        /\ table' = Put(table, p, [base |-> None, ppid |-> 0, rate |-> None])
        /\ addition' = IF p \in DOMAIN table THEN addition ELSE addition \cup {p}
        /\ unread' = unread \ {p}
  /\ UNCHANGED <<machine, settings, phase, now, list, tree, cpu_times, total, snapshots>>

-----------------------------------------------------------------------------
(* The rows of S and everything below them in the tree: what every set has *)
(* that has S and the children of its members.                             *)
HasChildren(T) == \A q \in DOMAIN tree : tree[q] \in T => q \in T

Below(S) ==
  {p \in Pids : \A T \in SUBSET Pids : S \subseteq T /\ HasChildren(T) => p \in T}

Without(f, S) == [p \in DOMAIN f \ S |-> f[p]]

(* Once nothing waits to be put into the tree.                             *)
Shown == phase' = IF addition' = {} THEN "idle" ELSE "insert"

(* The removal of dead rows (remove_info_from_tree, ProcList::erase): the  *)
(* rows below them leave the tree and are queued to be put back.           *)
Reap_ForgetsChildren ==
  /\ phase = "read" /\ unread = {}
  /\ LET dead == DOMAIN table \ list
     IN /\ table' = Without(table, dead)
        /\ cpu_times' = Without(cpu_times, dead)
        /\ tree' = Without(tree, Below(dead))
  /\ UNCHANGED addition
  /\ Shown
  /\ UNCHANGED <<machine, settings, now, list, unread, total, snapshots>>

Reap ==
  /\ phase = "read" /\ unread = {}
  /\ LET dead == DOMAIN table \ list
     IN /\ table' = Without(table, dead)
        /\ cpu_times' = Without(cpu_times, dead)
        /\ tree' = Without(tree, Below(dead))
        /\ addition' = (addition \cup Below(dead)) \ dead
  /\ Shown
  /\ UNCHANGED <<machine, settings, now, list, unread, total, snapshots>>

(* Without a parent in the list, or with one that is in the tree already.  *)
Placeable(p) ==
  \/ ~dependencies
  \/ table[p].ppid \notin DOMAIN table
  \/ table[p].ppid \in DOMAIN tree

(* insert_info_to_tree.                                                    *)
Insert(p) ==
  /\ phase = "insert"
  /\ p \in addition /\ Placeable(p)
  /\ tree' = Put(tree, p, IF dependencies /\ table[p].ppid \in DOMAIN table THEN table[p].ppid ELSE 0)
  /\ addition' = addition \ {p}
  /\ Shown
  /\ UNCHANGED <<machine, settings, now, list, unread, table, cpu_times, total, snapshots>>

(* cb_show_dependencies_changed, cb_show_whose_processes_changed: the      *)
(* table is rebuilt; cpu_times is kept.                                    *)
Change ==
  /\ phase = "idle" /\ changes < MaxSettings
  /\ changes' = changes + 1

ChangeView ==
  /\ Change
  /\ \/ /\ dependencies' = ~dependencies
        /\ UNCHANGED whose
     \/ /\ whose' \in Whose \ {whose}
        /\ UNCHANGED dependencies
  /\ table' = NoRows /\ tree' = NoRows
  /\ UNCHANGED <<machine, source, walk, cpu_times, total, snapshots>>

ChangeSource ==
  /\ Change
  /\ source' = IF source = "libgtop" THEN "collector" ELSE "libgtop"
  /\ UNCHANGED <<machine, whose, dependencies, walk, rows, cpu_times, total, snapshots>>

Next ==
  \/ \E p, parent \in Pids : Fork(p, parent)
  \/ \E p \in Pids : Exit(p) \/ Schedule(p) \/ Insert(p)
  \/ StartFromCollector
  \/ StartFromLibgtop
  \/ ReadRow
  \/ ReadFails
  \/ Reap
  \/ ChangeView
  \/ ChangeSource

Spec == Init /\ [][Next]_tableVars

-----------------------------------------------------------------------------
(* The comment "INVARIANT pid_list == ProcInfo::all + addition", to the    *)
(* end of the refresh: every listed process has one row, every row is in   *)
(* the tree, under a row, and no row is under itself; and the loop that    *)
(* waits for parents always finds a row to place.                          *)
TreeIsTheTable ==
  /\ phase = "insert" /\ addition # {} => \E p \in addition : Placeable(p)
  /\ phase = "insert" => DOMAIN table = list /\ DOMAIN tree \cup addition = list
  /\ phase = "idle" =>
       /\ DOMAIN tree = DOMAIN table
       /\ \A p \in DOMAIN tree :
            /\ tree[p] \in DOMAIN tree \cup {0}
            /\ p \notin Below({q \in DOMAIN tree : tree[q] = p})

(* gsm_cpu_rate, fill_cpu: a share is never made of the counters of two    *)
(* processes, whatever exits, is reused or cannot be read, and from        *)
(* whichever source the list comes.                                        *)
RatesAreOfOneProcess ==
  \A p \in DOMAIN table : table[p].rate # None => table[p].rate.of = table[p].rate.read

(* The comment in update_info on the baseline, "rather than spanning two   *)
(* intervals": a share is divided by the time between its two readings.    *)
RatesSpanOneInterval ==
  \A p \in DOMAIN table : table[p].rate # None => table[p].rate.since = table[p].rate.over

(* That holds until the user changes what is listed.                       *)
RatesSpanOneIntervalAtFirst == changes = 0 => RatesSpanOneInterval

-----------------------------------------------------------------------------
(* What is behind them.  Every process but init has a parent that runs and *)
(* is older.                                                               *)
Ancestry ==
  /\ births \in Nat /\ changes \in Nat
  /\ proc \in [Pids -> [birth : 0..births, parent : Nat, active : BOOLEAN] \cup {None}]
  /\ proc[1] # None /\ proc[1].birth = 0 /\ proc[1].parent = 0
  /\ \A p \in Running \ {1} :
       proc[p].parent \in Running /\ proc[proc[p].parent].birth < proc[p].birth

(* A row that was read names a parent older than itself, by the age the    *)
(* listed processes had when the list was made.                            *)
ReadParents(age) ==
  /\ \A p \in list \cap Running : age[p] = proc[p].birth
  /\ \A p \in list \ unread : table[p].ppid \in list => age[table[p].ppid] < age[p]

OlderParents == phase # "idle" => \E age \in [list -> 0..births] : ReadParents(age)

(* A row is in the tree or waits to be put there; which rows there are.    *)
RowsOfList ==
  /\ phase \in {"idle", "read", "insert"}
  /\ list \subseteq Pids /\ unread \subseteq list /\ DOMAIN table \subseteq Pids
  /\ DOMAIN tree \cup addition = DOMAIN table /\ DOMAIN tree \cap addition = {}
  /\ phase # "read" => unread = {} /\ DOMAIN table \subseteq list
  /\ phase # "idle" => list \ unread \subseteq DOMAIN table
  /\ phase = "idle" => addition = {}

(* Every part of the tree has a row whose parent is not in that part.      *)
Rooted ==
  /\ \A p \in DOMAIN tree : tree[p] \in DOMAIN tree \cup {0}
  /\ \A T \in SUBSET DOMAIN tree : T # {} => \E p \in T : tree[p] \notin T

(* A counter is of the process whose start it goes by; until the user      *)
(* changes what is listed, that of a row not read yet is of the list       *)
(* before, and none is kept without its row.                               *)
Counters ==
  /\ \A p \in DOMAIN cpu_times : LET c == cpu_times[p]
                                IN c = [start |-> c.of, of |-> c.of, at |-> c.at]
  /\ \A p \in DOMAIN table : table[p].base # None => table[p].base.of = table[p].base.start
  /\ unread # {} => total.last = now
  /\ changes = 0 =>
       /\ DOMAIN cpu_times \subseteq DOMAIN table
       /\ \A p \in DOMAIN table \cap list :
            table[p].base # None =>
              table[p].base.at = (IF p \in unread THEN total.from ELSE total.last)

Tabled ==
  /\ Ancestry /\ OlderParents /\ RowsOfList /\ Rooted /\ Counters
  /\ RatesAreOfOneProcess /\ RatesSpanOneIntervalAtFirst
=============================================================================
