----------------------------- MODULE UserWrites -----------------------------
(***************************************************************************)
(* src/src/health/gsm-sampler.c and gsm-procio.c: the bytes of the user's  *)
(* programs.  While io is delegated into the session the cgroup tracker    *)
(* has a row for each of them; before, it has one lump for user.slice,     *)
(* which is dropped in favour of the counters of /proc/<pid>/io.  Both     *)
(* views are read one after the other, and delegation may begin (the io    *)
(* accounting helper, a new login) at any time between.                    *)
(*                                                                         *)
(* A row is a number of bytes; which program and drive it names is left    *)
(* out.  The counters of two processes are read independently, so reading  *)
(* them all is one step.                                                   *)
(***************************************************************************)
EXTENDS Naturals, FiniteSets, Functions

CONSTANTS
  Pids,
  None,          \* model value: no process, no baseline
  TruncatesSeen, \* may a process drop pages that /proc has already counted?
  MaxBytes, MaxProcesses   \* bounds: bytes dirtied, processes of each pid

VARIABLES
  \* --- the machine ---
  writes,        \* write_bytes of the process at each pid, None without one
  cancelled,     \* its cancelled_write_bytes
  processes,     \* processes each pid has had
  delegated,     \* has user.slice a child with io.stat?
  lump,          \* bytes of user.slice since the tracker last read the tree
  \* --- the sampler ---
  reading,       \* "idle", or "procs" between its two views
  user_io_delegated,
  prev_proc,     \* last seen /proc counters, None without an entry
  \* --- history ---
  dirtied,       \* bytes all processes have dirtied
  credited,      \* bytes recorded for them, through either view
  throughProc,   \* of them, through /proc since the tree was last read
  overlap        \* bytes /proc had credited when the first tree read since
                 \* then was of a delegated session

machine == <<writes, cancelled, processes, delegated>>
sampler == <<reading, user_io_delegated, prev_proc>>
history == <<dirtied, credited, throughProc, overlap>>
userVars == <<machine, lump, sampler, history>>

Running == {p \in Pids : writes[p] # None}

(* read_io: what was truncated before it was written is taken off.         *)
Net(p) == IF writes[p] > cancelled[p] THEN writes[p] - cancelled[p] ELSE 0

(* gsm_proc_io_collect lists a process that has written something.         *)
Collected == {p \in Running : Net(p) > 0}

(* main takes both baselines.                                              *)
Init ==
  /\ writes \in [Pids -> {None, 0, 1}]
  /\ cancelled = [p \in Pids |-> 0]
  /\ processes = [p \in Pids |-> IF writes[p] = None THEN 0 ELSE 1]
  /\ delegated \in BOOLEAN /\ user_io_delegated = delegated
  /\ lump = 0
  /\ reading = "idle"
  /\ prev_proc = [p \in Pids |-> IF p \in Collected THEN Net(p) ELSE None]
  /\ dirtied = 0 /\ credited = 0 /\ throughProc = 0 /\ overlap = 0

-----------------------------------------------------------------------------
(* The machine.                                                            *)
Dirty(p) ==
  /\ p \in Running /\ dirtied < MaxBytes
  /\ writes' = [writes EXCEPT ![p] = writes[p] + 1]
  /\ dirtied' = dirtied + 1
  /\ lump' = lump + 1
  /\ UNCHANGED <<cancelled, processes, delegated, sampler, credited, throughProc, overlap>>

(* Pages dropped before they were written never reach the drive.           *)
Truncate(p) ==
  /\ p \in Running /\ cancelled[p] < writes[p] /\ lump > 0
  /\ (~TruncatesSeen /\ prev_proc[p] # None) => Net(p) > prev_proc[p]
  /\ cancelled' = [cancelled EXCEPT ![p] = cancelled[p] + 1]
  /\ lump' = lump - 1
  /\ UNCHANGED <<writes, processes, delegated, sampler, history>>

Exit(p) ==
  /\ p \in Running
  /\ writes' = [writes EXCEPT ![p] = None]
  /\ UNCHANGED <<cancelled, processes, delegated, lump, sampler, history>>

(* A pid may be used again.                                                *)
Start(p) ==
  /\ p \notin Running /\ processes[p] < MaxProcesses
  /\ processes' = [processes EXCEPT ![p] = processes[p] + 1]
  /\ writes' = [writes EXCEPT ![p] = 0]
  /\ cancelled' = [cancelled EXCEPT ![p] = 0]
  /\ UNCHANGED <<delegated, lump, sampler, history>>

Delegate ==
  /\ ~delegated
  /\ delegated' = TRUE
  /\ UNCHANGED <<writes, cancelled, processes, lump, sampler, history>>

-----------------------------------------------------------------------------
(* record_cgroup_deltas: rows of the programs and the rest of the lump     *)
(* when delegated; the lump alone, dropped, when not.                      *)
FromTree(seen) == IF seen THEN lump ELSE 0

ReadTree ==
  /\ reading = "idle"
  /\ reading' = "procs"
  /\ user_io_delegated' = delegated
  /\ credited' = credited + FromTree(delegated)
  /\ overlap' = IF delegated THEN overlap + throughProc ELSE overlap
  /\ throughProc' = 0
  /\ lump' = 0
  /\ UNCHANGED <<machine, prev_proc, dirtied>>

(* A read of the tree that fails says nothing: the next one covers both    *)
(* intervals, and delegation is what it was.                               *)
TreeUnreadable ==
  /\ reading = "idle"
  /\ reading' = "procs"
  /\ UNCHANGED <<machine, lump, user_io_delegated, prev_proc, history>>

(* delta_since: a counter that went down is a new process at that pid.     *)
DeltaSince(previous, current) ==
  IF previous = None \/ current < previous THEN current ELSE current - previous

(* sample_procfs: nothing when delegated.  known are the processes whose   *)
(* device is a tracked drive: the others keep the baseline they had.       *)
ReadProcs_AlsoWhenDelegated(known) ==
  LET delta == [p \in known |-> DeltaSince(prev_proc[p], Net(p))]
  IN /\ reading = "procs"
     /\ reading' = "idle"
     /\ known \subseteq Collected
     /\ prev_proc' = [p \in Pids |-> IF p \in known THEN Net(p) ELSE prev_proc[p]]
     /\ credited' = credited + SumFunction(delta)
     /\ throughProc' = throughProc + SumFunction(delta)
     /\ UNCHANGED <<machine, lump, user_io_delegated, dirtied, overlap>>

ReadProcs(known) ==
  LET delta == [p \in known |-> DeltaSince(prev_proc[p], Net(p))]
  IN /\ reading = "procs"
     /\ reading' = "idle"
     /\ known \subseteq Collected
     /\ user_io_delegated => known = {}
     /\ prev_proc' = [p \in Pids |-> IF p \in known THEN Net(p) ELSE prev_proc[p]]
     /\ credited' = credited + SumFunction(delta)
     /\ throughProc' = throughProc + SumFunction(delta)
     /\ UNCHANGED <<machine, lump, user_io_delegated, dirtied, overlap>>

(* prune: baselines of what /proc no longer lists.                         *)
Prune ==
  /\ reading = "idle"
  /\ prev_proc' = [p \in Pids |-> IF p \in Collected THEN prev_proc[p] ELSE None]
  /\ UNCHANGED <<machine, lump, reading, user_io_delegated, history>>

Next ==
  \/ \E p \in Pids : Dirty(p) \/ Truncate(p) \/ Exit(p) \/ Start(p)
  \/ Delegate
  \/ ReadTree
  \/ TreeUnreadable
  \/ \E known \in SUBSET Collected : ReadProcs(known)
  \/ Prune

Spec == Init /\ [][Next]_userVars

-----------------------------------------------------------------------------
(* "Counting both would double every app's contribution": when delegation  *)
(* begins, only bytes that were written after the tree was last read, and  *)
(* that /proc had credited by then, are credited a second time; whatever   *)
(* exits, reuses a pid, is pruned or cannot be read.                       *)
CreditedOnce == credited <= dirtied + overlap

(* delta_since: "cumulative counters only ever go up while the thing they  *)
(* belong to lives".  A counter less what was cancelled does not: when a   *)
(* process truncates pages all it ever wrote is credited again.            *)
NothingCreditedTwice == ~delegated => credited <= dirtied
=============================================================================
