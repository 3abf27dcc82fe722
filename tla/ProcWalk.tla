------------------------------ MODULE ProcWalk ------------------------------
(***************************************************************************)
(* The walk of src/src/collector/src/walk.zig: the directories of /proc,   *)
(* and five files of each process, every file opened and read by itself    *)
(* while processes start, end and take over identifiers.  A process is the *)
(* number of its start; what a file says is whose it is.                   *)
(***************************************************************************)
EXTENDS Integers, Sequences, FiniteSets

CONSTANTS
  Pids,
  None,             \* model value: no process, no handle; a file unreadable or malformed
  MaxStarts         \* bound

VARIABLES
  owner,            \* pid -> the process that has it, or None
  starts,           \* processes started so far
  listing,          \* the next step is the listing's
  entry,            \* the entry of /proc the walk is at; 0 before the first
  handle,           \* the process whose file is open, or None
  parts,            \* what was had of the files of the entry so far
  processes, exited, unkeyed, entries,  \* the snapshot, and counts of what is not in it
  lived,            \* history: pid -> the processes that had it during this walk
  throughout        \* history: pid -> its process, if it is the same since the walk began

walkVars == <<owner, starts, listing, entry, handle, parts, processes, exited, unkeyed,
              entries, lived, throughout>>

system == <<owner, starts, lived, throughout>>
snapshot == <<processes, exited, unkeyed, entries>>

Files == <<"stat", "status", "schedstat", "io", "cgroup">>
file == Files[Len(parts) + 1]

(* schedstat and io may be missing for a process that lives.               *)
AbsenceMeansExit_AllButIo(f) == f # "io"
AbsenceMeansExit(f) == f \notin {"schedstat", "io"}

Init ==
  /\ owner = [p \in Pids |-> None] /\ starts = 0
  /\ listing = FALSE /\ entry = 0 /\ handle = None /\ parts = <<>>
  /\ processes = {} /\ exited = 0 /\ unkeyed = 0 /\ entries = 0
  /\ lived = [p \in Pids |-> {}] /\ throughout = [p \in Pids |-> None]

Start(p) ==
  /\ owner[p] = None /\ starts < MaxStarts
  /\ starts' = starts + 1 /\ owner' = [owner EXCEPT ![p] = starts']
  /\ lived' = [lived EXCEPT ![p] = @ \cup {starts'}]
  /\ UNCHANGED <<listing, entry, handle, parts, snapshot, throughout>>

Exit(p) ==
  /\ owner[p] # None
  /\ owner' = [owner EXCEPT ![p] = None]
  /\ throughout' = [throughout EXCEPT ![p] = None]
  /\ UNCHANGED <<starts, listing, entry, handle, parts, snapshot, lived>>

-----------------------------------------------------------------------------
Walk ==
  /\ ~listing /\ entry = 0
  /\ listing' = TRUE
  /\ processes' = {} /\ exited' = 0 /\ unkeyed' = 0 /\ entries' = 0
  /\ lived' = [p \in Pids |-> {owner[p]} \ {None}] /\ throughout' = owner
  /\ UNCHANGED <<owner, starts, entry, handle, parts>>

(* The listing goes by number.  It holds every process that was there all  *)
(* the time, and may hold one that is no more.                             *)
NextEntry ==
  /\ listing
  /\ \E p \in Pids :
       /\ p > entry /\ lived[p] # {}
       /\ \A q \in Pids : entry < q /\ q < p => throughout[q] = None
       /\ entry' = p /\ entries' = entries + 1
  /\ listing' = FALSE
  /\ UNCHANGED <<system, handle, parts, processes, exited, unkeyed>>

Finish ==
  /\ listing /\ \A q \in Pids : q > entry => throughout[q] = None
  /\ listing' = FALSE /\ entry' = 0
  /\ UNCHANGED <<system, handle, parts, snapshot>>

(* Back to the listing, with or without a record.                          *)
Leave == listing' = TRUE /\ parts' = <<>> /\ handle' = None /\ UNCHANGED <<entry, entries>>

Vanished == Leave /\ exited' = exited + 1 /\ UNCHANGED <<processes, unkeyed>>

(* readProcess: without stat there is no record, with cgroup it is done.   *)
Keep(part) ==
  IF file = "stat" /\ part = None
  THEN Leave /\ unkeyed' = unkeyed + 1 /\ UNCHANGED <<processes, exited>>
  ELSE IF file = "cgroup"
       THEN /\ Leave /\ UNCHANGED <<exited, unkeyed>>
            /\ processes' = processes \cup
                 {[pid |-> entry, parts |-> Append(parts, part),
                   alive |-> owner[entry] = parts[1]]}
       ELSE /\ parts' = Append(parts, part) /\ handle' = None
            /\ UNCHANGED <<listing, entry, snapshot>>

NotThere == IF AbsenceMeansExit(file) THEN Vanished ELSE Keep(None)

(* readFile: openFile.                                                     *)
Open ==
  /\ ~listing /\ entry # 0 /\ handle = None
  /\ IF owner[entry] = None
     THEN NotThere
     ELSE \/ handle' = owner[entry] /\ UNCHANGED <<listing, entry, parts, snapshot>>
          \/ Keep(None)                                     \* refused
          \/ file \in {"schedstat", "io"} /\ NotThere             \* a kernel without it
  /\ UNCHANGED system

(* readFile: readPositional, and the parser.                               *)
Read ==
  /\ handle # None
  /\ IF owner[entry] = handle
     THEN \E part \in {handle, None} : Keep(part)
     ELSE NotThere
  /\ UNCHANGED system

Next ==
  \/ \E p \in Pids : Start(p) \/ Exit(p)
  \/ Walk \/ NextEntry \/ Finish \/ Open \/ Read

Spec == Init /\ [][Next]_walkVars

-----------------------------------------------------------------------------
TypeOK ==
  /\ owner \in [Pids -> 1..MaxStarts \cup {None}] /\ starts \in 0..MaxStarts
  /\ listing \in BOOLEAN /\ entry \in Pids \cup {0}
  /\ handle \in 1..MaxStarts \cup {None} /\ Len(parts) < Len(Files)
  /\ exited + unkeyed <= entries /\ entries <= Cardinality(Pids)

Done == ~listing /\ entry = 0

RecordsOf(p) == {r \in processes : r.pid = p}

(* A process that is there from the first entry to the last is in the      *)
(* snapshot, once, unless its stat could not be had, which is counted:     *)
(* whatever of its other files is refused, missing or cut short.           *)
LivingAreListed ==
  Done => \A p \in Pids : throughout[p] # None =>
            \/ \E r \in RecordsOf(p) : r.parts[1] = throughout[p] /\ RecordsOf(p) = {r}
            \/ RecordsOf(p) = {} /\ unkeyed > 0

(* A record is of a process that lived when the last of its files was      *)
(* read, unless another took its identifier in the middle of the walk; and *)
(* every entry ended in one of three ways.                                 *)
EndedHaveNoRecord ==
  /\ \A r \in processes : r.alive \/ Cardinality(lived[r.pid]) > 1
  /\ Done => entries = Cardinality(processes) + exited + unkeyed

(* The parts of a record are of the process that the record is keyed by,   *)
(* unless its identifier changed hands in the middle.                      *)
PartsAreOfOne ==
  \A r \in processes : \A i \in 1..Len(Files) :
    r.parts[i] \in {r.parts[1], None} \/ Cardinality(lived[r.pid]) > 1

(* What each step keeps.  Who lived during the walk is known; at an entry  *)
(* the parts are of one of those who had the identifier, and so are those  *)
(* of a record; every entry passed is accounted for.                       *)
AtEntry == ~listing /\ entry # 0
Past(p) == Done \/ p < entry \/ (listing /\ p = entry)

Lives ==
  /\ starts \in Nat /\ owner \in [Pids -> Nat \cup {None}]
  /\ lived \in [Pids -> SUBSET (1..starts)] /\ throughout \in [Pids -> Nat \cup {None}]
  /\ \A p \in Pids : owner[p] # None => owner[p] \in lived[p]
  /\ \A p \in Pids : throughout[p] # None => owner[p] = throughout[p] /\ lived[p] = {throughout[p]}

Place ==
  /\ listing \in BOOLEAN /\ entry \in Pids \cup {0}
  /\ parts \in Seq(Nat \cup {None}) /\ Len(parts) < Len(Files)
  /\ ~AtEntry => handle = None /\ parts = <<>>
  /\ AtEntry =>
       /\ handle \in lived[entry] \cup {None}
       /\ \A i \in 1..Len(parts) : parts[i] \in lived[entry] \cup {None}
       /\ Len(parts) > 0 => parts[1] # None

Counted ==
  /\ IsFiniteSet(processes) /\ exited \in Nat /\ unkeyed \in Nat
  /\ entries = Cardinality(processes) + exited + unkeyed + (IF AtEntry THEN 1 ELSE 0)

Recorded ==
  \A r \in processes :
    /\ r.pid \in Pids /\ Past(r.pid)
    /\ r.parts[1] \in lived[r.pid]
    /\ \A i \in 1..Len(Files) : r.parts[i] \in lived[r.pid] \cup {None}
    /\ r.alive \/ lived[r.pid] # {r.parts[1]}

Listed(p) ==
  throughout[p] # None =>
    \/ \E r \in RecordsOf(p) : r.parts[1] = throughout[p] /\ RecordsOf(p) = {r}
    \/ RecordsOf(p) = {} /\ unkeyed > 0

Walked == Lives /\ Place /\ Counted /\ Recorded /\ \A p \in Pids : Past(p) => Listed(p)
=============================================================================
