---------------------------- MODULE BlameTracker ----------------------------
(***************************************************************************)
(* src/src/health/gsm-blame.c: the tracker that turns reads of the cgroup  *)
(* tree into rows of bytes written since the read before.                  *)
(*                                                                         *)
(* The kernel adds a write to the counter of its cgroup and of every       *)
(* ancestor; cgroups come and go while the tracker walks the tree with     *)
(* one system call after another, and a counter dies with its cgroup.      *)
(* One device stands for all: the counters of two devices never meet.      *)
(* A cgroup's inode is the number of cgroups its path has had, itself      *)
(* included: no two cgroups of a path share one.                           *)
(* Saturation at 2^64 is left out: the counters are bounded far below it.  *)
(***************************************************************************)
EXTENDS Integers, FiniteSets, Functions

CONSTANTS
  Paths, Root,    \* the cgroup paths that may exist; the root exists always
  Parent,         \* [Paths \ {Root} -> Paths]
  Slices,         \* the paths named *.slice
  Existing,       \* the cgroups there are when the tracker is made
  ReadFailures,   \* may a read fail for a reason other than "gone"?
  RecreateInWalk, \* may a removed cgroup come back during a walk?
  Unread,         \* model value: not seen by this walk, no state
  MaxWrites, MaxCgroups, MaxUpdates   \* bounds: bytes, cgroups of each path, walks

ASSUME TreeAssumption ==
  /\ IsFiniteSet(Paths) /\ Root \in Paths
  /\ Parent \in [Paths \ {Root} -> Paths]
  /\ \A S \in SUBSET (Paths \ {Root}) :     \* no path is above itself
       S # {} => \E p \in S : Parent[p] \notin S
  /\ Slices \subseteq Paths
  /\ Root \in Existing /\ Existing \subseteq Paths
  /\ \A p \in Existing \ {Root} : Parent[p] \in Existing
  /\ ReadFailures \in BOOLEAN /\ RecreateInWalk \in BOOLEAN

ASSUME UnreadAssumption ==
  /\ Unread \notin Int /\ Unread \notin Paths
  /\ Unread \notin [ino : Nat, wbytes : Nat, carry : Nat]

ASSUME BoundsAssumption ==
  /\ MaxCgroups \in [Paths -> Nat \ {0}]
  /\ MaxWrites \in Nat /\ MaxUpdates \in Nat

VARIABLES
  \* --- the kernel ---
  inst,      \* the inode of the cgroup at a path, 0 when there is none
  count,     \* its wbytes
  born,      \* the cgroups each path has had
  \* --- the walk ---
  at,        \* the cgroup being visited, Unread between walks
  fd,        \* the cgroup each open io.stat belongs to
  ino,       \* the inode each listing gave
  todo,      \* listed and not yet visited
  seen,      \* the counters read
  \* --- the tracker ---
  state,     \* what the last complete walk saw: inode, wbytes and carry
  primed,
  \* --- history ---
  written,   \* bytes written by all
  racing,    \* of them, those written during a walk
  credited,  \* rows emitted for each path, in bytes
  exact,     \* of them, those of basis "kernel"
  base,      \* the root's counter when the tracker was primed
  high,      \* the highest counter a complete walk read of each cgroup
  unit,      \* what was read of each path since tracking began
  lostCarry, \* carry dropped with the state of a cgroup
  updates

kernel  == <<inst, count, born>>
walk    == <<at, fd, ino, todo, seen>>
tracker == <<state, primed>>
rows    == <<credited, exact, base, high, unit, lostCarry>>
writes  == <<written, racing>>
vars    == <<kernel, walk, tracker, writes, rows, updates>>

Children(p) == {c \in Paths \ {Root} : Parent[c] = p}

(* The path itself and those above it.                                     *)
Upward[p \in Paths] == IF p = Root THEN {Root} ELSE {p} \cup Upward[Parent[p]]

Subtree(p) == {q \in Paths : p \in Upward[q]}
Alive(p)   == inst[p] # 0
Walking    == at # Unread

Init ==
  /\ inst = [p \in Paths |-> IF p \in Existing THEN 1 ELSE 0]
  /\ count = [p \in Paths |-> 0]
  /\ born = inst
  /\ at = Unread
  /\ fd = [p \in Paths |-> 0] /\ ino = [p \in Paths |-> 0]
  /\ todo = {}
  /\ seen = [p \in Paths |-> Unread]
  /\ state = [p \in Paths |-> Unread]
  /\ primed = FALSE
  /\ written = 0 /\ racing = 0
  /\ credited = [p \in Paths |-> 0]
  /\ exact = [p \in Paths |-> 0]
  /\ high = [p \in Paths |-> [i \in 1..MaxCgroups[p] |-> 0]]
  /\ unit = [p \in Paths |-> 0]
  /\ base = 0 /\ lostCarry = 0
  /\ updates = 0

-----------------------------------------------------------------------------
(* The kernel.  A counter is a running sum over all that ever lived below. *)
Write(p) ==
  /\ Alive(p)
  /\ written < MaxWrites
  /\ count' = [q \in Paths |-> IF q \in Upward[p] THEN count[q] + 1 ELSE count[q]]
  /\ written' = written + 1
  /\ racing' = IF Walking THEN racing + 1 ELSE racing
  /\ UNCHANGED <<inst, born, walk, tracker, rows, updates>>

CreateCgroup(p) ==
  /\ p # Root /\ ~Alive(p) /\ Alive(Parent[p])
  /\ born[p] < MaxCgroups[p]
  /\ (Walking /\ ~RecreateInWalk) => ino[p] = 0
  /\ born' = [born EXCEPT ![p] = born[p] + 1]
  /\ inst' = [inst EXCEPT ![p] = born[p] + 1]
  /\ count' = [count EXCEPT ![p] = 0]
  /\ UNCHANGED <<walk, tracker, writes, rows, updates>>

RemoveCgroup(p) ==
  /\ p # Root /\ Alive(p)
  /\ \A c \in Children(p) : ~Alive(c)
  /\ inst' = [inst EXCEPT ![p] = 0]
  /\ count' = [count EXCEPT ![p] = 0]
  /\ UNCHANGED <<born, walk, tracker, writes, rows, updates>>

-----------------------------------------------------------------------------
(* The walk: io.stat is opened and the directory listed on the way down,   *)
(* the counter is read through that descriptor on the way up.              *)
List(p) ==
  LET listing == {c \in Children(p) : Alive(c)}
  IN /\ fd' = [fd EXCEPT ![p] = inst[p]]
     /\ ino' = [q \in Paths |-> IF q \in listing THEN inst[q] ELSE ino[q]]
     /\ todo' = (todo \ {p}) \cup listing
     /\ at' = p

StartWalk ==
  /\ ~Walking
  /\ updates < MaxUpdates
  /\ List(Root)
  /\ UNCHANGED <<seen, kernel, tracker, writes, rows, updates>>

(* A listed child is opened by name: whatever cgroup has the name now.     *)
Enter(c) ==
  /\ Walking
  /\ c \in todo \cap Children(at)
  /\ IF Alive(c)
     THEN List(c)
     ELSE todo' = todo \ {c} /\ UNCHANGED <<at, fd, ino>>
  /\ UNCHANGED <<seen, kernel, tracker, writes, rows, updates>>

AllVisited == Walking /\ todo \cap Children(at) = {}

(* A cgroup removed since it was opened takes what was read below it along.*)
Vanished == [q \in Paths |-> IF q \in Subtree(at) THEN Unread ELSE seen[q]]

ReadCounter ==
  /\ AllVisited
  /\ at # Root
  /\ seen' = IF fd[at] = inst[at] THEN [seen EXCEPT ![at] = count[at]] ELSE Vanished
  /\ at' = Parent[at]
  /\ UNCHANGED <<fd, ino, todo, kernel, tracker, writes, rows, updates>>

WalkOver ==
  /\ at' = Unread
  /\ todo' = {}
  /\ fd' = [p \in Paths |-> 0]
  /\ ino' = [p \in Paths |-> 0]
  /\ seen' = [p \in Paths |-> Unread]

(* Any other error says nothing about the cgroup: the update is abandoned. *)
ReadFails_DropsState ==
  /\ ReadFailures
  /\ Walking
  /\ WalkOver
  /\ state' = [p \in Paths |-> Unread]
  /\ updates' = updates + 1
  /\ UNCHANGED <<primed, kernel, writes, rows>>

ReadFails ==
  /\ ReadFailures
  /\ Walking
  /\ WalkOver
  /\ updates' = updates + 1
  /\ UNCHANGED <<kernel, tracker, writes, rows>>

-----------------------------------------------------------------------------
(***************************************************************************)
(* split_node, for every node of the tree read (nodes is its counters).    *)
(***************************************************************************)
(* The shortfall of an interval is held back from the residues to come.    *)
Split_ForgetsCarry(delta, childrenSum, carry) ==
  IF childrenSum > delta
  THEN [residue |-> 0, carry |-> 0]
  ELSE [residue |-> delta - childrenSum, carry |-> 0]

Split_BelowZero(delta, childrenSum, carry) ==
  [residue |-> delta - childrenSum, carry |-> carry]

Split(delta, childrenSum, carry) ==
  LET left  == delta - childrenSum
      repay == IF carry < left THEN carry ELSE left
  IN IF childrenSum > delta
     THEN [residue |-> 0, carry |-> carry + (childrenSum - delta)]
     ELSE [residue |-> left - repay, carry |-> carry - repay]

Before_ByPath(p, of) == state[p]

(* What is remembered of this cgroup: of this path, with this inode.       *)
Before(p, of) ==
  IF state[p] # Unread /\ state[p].ino = of THEN state[p] ELSE Unread

Delta_FreshUnlessGrown(p, read, of) ==
  LET before == Before(p, of)
  IN IF ~primed THEN 0
     ELSE IF before = Unread \/ read <= before.wbytes THEN read
     ELSE read - before.wbytes

Delta(p, read, of) ==
  LET before == Before(p, of)
  IN IF ~primed THEN 0
     ELSE IF before = Unread \/ read < before.wbytes THEN read
     ELSE read - before.wbytes

Update ==
  /\ AllVisited
  /\ at = Root
  /\ LET read  == [seen EXCEPT ![Root] = count[Root]]
         nodes == {p \in Paths : read[p] # Unread}
         delta == [p \in nodes |-> Delta(p, read[p], ino[p])]
         kids(p) == nodes \cap Children(p)
         split == [p \in nodes |->
                     Split(delta[p], SumFunctionOnSet(delta, kids(p)),
                           IF Before(p, ino[p]) = Unread THEN 0 ELSE Before(p, ino[p]).carry)]
         leaf(p) == kids(p) = {} /\ p # Root /\ p \notin Slices
         row   == [p \in Paths |-> IF p \in nodes THEN split[p].residue ELSE 0]
         forgotten == {p \in Paths : state[p] # Unread /\
                         ~(p \in nodes /\ Before(p, ino[p]) = state[p])}
     IN /\ state' = [p \in Paths |->
                       IF p \in nodes
                       THEN [ino |-> ino[p], wbytes |-> read[p], carry |-> split[p].carry]
                       ELSE Unread]
        /\ credited' = [p \in Paths |-> credited[p] + row[p]]
        /\ exact' = [p \in Paths |-> IF leaf(p) THEN exact[p] + row[p] ELSE exact[p]]
        /\ base' = IF primed THEN base ELSE read[Root]
        /\ high' = [p \in Paths |-> IF p \in nodes THEN [high[p] EXCEPT ![fd[p]] = read[p]]
                                    ELSE high[p]]
        /\ unit' = [p \in Paths |-> IF primed /\ p \in nodes
                                    THEN unit[p] + (read[p] - high[p][fd[p]])
                                    ELSE unit[p]]
        /\ lostCarry' = lostCarry + SumFunction([p \in forgotten |-> state[p].carry])
  /\ primed' = TRUE
  /\ WalkOver
  /\ updates' = updates + 1
  /\ UNCHANGED <<kernel, writes>>

Next ==
  \/ \E p \in Paths : Write(p) \/ CreateCgroup(p) \/ RemoveCgroup(p) \/ Enter(p)
  \/ StartWalk
  \/ ReadCounter
  \/ ReadFails
  \/ Update

Spec == Init /\ [][Next]_vars

-----------------------------------------------------------------------------
TypeOK ==
  /\ at \in Paths \cup {Unread}
  /\ todo \subseteq Paths
  /\ primed \in BOOLEAN
  /\ \A p \in Paths :
       /\ {inst[p], born[p], fd[p], ino[p]} \subseteq 0..MaxCgroups[p]
       /\ {count[p], unit[p]} \subseteq 0..MaxWrites
       /\ seen[p] \in 0..MaxWrites \cup {Unread}
       /\ state[p] \in [ino : 0..MaxCgroups[p], wbytes : 0..MaxWrites, carry : Nat] \cup {Unread}
       /\ high[p] \in [1..MaxCgroups[p] -> 0..MaxWrites]
       /\ credited[p] \in Nat /\ exact[p] \in Nat
  /\ {written, racing, base} \subseteq 0..MaxWrites
  /\ lostCarry \in Nat
  /\ updates \in 0..MaxUpdates

TotalCredited == SumFunction(credited)
RootGrowth    == IF primed THEN state[Root].wbytes - base ELSE 0
Carried       == LET known == {p \in Paths : state[p] # Unread}
                 IN SumFunction([p \in known |-> state[p].carry])

(* "Accounts for every byte once": whatever was created, removed or        *)
(* written during the walks and whatever reads failed, the rows of all     *)
(* updates come to the device's growth since tracking began plus the       *)
(* shortfall still to be held back or forgotten with its cgroup.  So no    *)
(* byte of the device goes uncredited.                                     *)
Conservation ==
  TotalCredited = RootGrowth + Carried + lostCarry

(* A row of basis "kernel" is what the cgroup (with those below it) wrote: *)
(* never is a unit charged more than was read of its cgroups since         *)
(* tracking began, each from zero, however it is restarted and whatever    *)
(* reads failed.                                                           *)
UnitsNotOvercharged == \A p \in Paths : exact[p] <= unit[p]

(* A unit that holds no others is credited exactly that: neither the bytes *)
(* of an earlier cgroup of that name nor fewer than its own.               *)
UnitsExact == \A p \in Paths \ Slices : Children(p) = {} => credited[p] = unit[p]

(* Only a byte written while the tree was being read can be credited in    *)
(* two places: if nothing is written during the walks the rows are exact.  *)
OnlyRacingWritesTwice == Carried + lostCarry <= racing
=============================================================================
