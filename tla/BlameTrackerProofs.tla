------------------------- MODULE BlameTrackerProofs -------------------------
(***************************************************************************)
(* What holds of every tree of cgroups, however many there are and however *)
(* long they are read: the rows of all updates come to the growth of the   *)
(* device, and, unless a cgroup comes back while it is read, each unit is  *)
(* credited what its own cgroups wrote.                                    *)
(***************************************************************************)
EXTENDS BlameTracker, SumTheorems

-----------------------------------------------------------------------------
(* The tree.                                                               *)

LEMMA TreeInduction ==
  ASSUME NEW Good, Root \in Good,
         \A p \in Paths \ {Root} : Parent[p] \in Good => p \in Good
  PROVE  Paths \subseteq Good
<1> DEFINE Bad == Paths \ Good
<1> SUFFICES ASSUME Bad # {} PROVE FALSE
  OBVIOUS
<1>1. PICK p \in Bad : Parent[p] \notin Bad
  BY TreeAssumption
<1> QED
  BY <1>1, TreeAssumption

(* That the recursion of Upward has a solution: what is in every set that  *)
(* has p and the parent of each of its paths.                              *)
LEMMA UpwardDef ==
  Upward = [p \in Paths |-> IF p = Root THEN {Root} ELSE {p} \cup Upward[Parent[p]]]
<1> DEFINE Closed(C) == \A c \in C \ {Root} : Parent[c] \in C
           Above(p) == {q \in Paths : \A C \in SUBSET Paths : p \in C /\ Closed(C) => q \in C}
           Solves(f) ==
             f = [p \in Paths |-> IF p = Root THEN {Root} ELSE {p} \cup f[Parent[p]]]
           f0 == [p \in Paths |-> Above(p)]
<1>1. Above(Root) = {Root}
  <2>1. Closed({Root}) /\ {Root} \in SUBSET Paths
    BY TreeAssumption
  <2> QED
    BY <2>1, TreeAssumption
<1>2. ASSUME NEW p \in Paths \ {Root} PROVE Above(p) = {p} \cup Above(Parent[p])
  <2>1. ASSUME NEW q \in Above(p), q # p, NEW C \in SUBSET Paths, Parent[p] \in C, Closed(C)
        PROVE  q \in C
    <3>1. C \cup {p} \in SUBSET Paths /\ Closed(C \cup {p})
      BY <2>1
    <3> QED
      BY <2>1, <3>1
  <2>2. Above(p) \subseteq {p} \cup Above(Parent[p])
    BY <2>1
  <2>3. ASSUME NEW C \in SUBSET Paths, p \in C, Closed(C) PROVE Parent[p] \in C
    BY <2>3
  <2>4. {p} \cup Above(Parent[p]) \subseteq Above(p)
    BY <2>3
  <2> QED
    BY <2>2, <2>4
<1>3. \A p \in Paths \ {Root} : Parent[p] \in Paths
  BY TreeAssumption
<1> HIDE DEF Above
<1>4. Solves(f0)
  BY <1>1, <1>2, <1>3
<1>5. \E f : Solves(f)
  BY <1>4
<1>6. Upward = CHOOSE f : Solves(f)
  BY DEF Upward
<1> HIDE DEF Solves
<1>7. Solves(Upward)
  BY <1>5, <1>6, Zenon
<1> QED
  BY <1>7 DEF Solves

LEMMA UpwardStep ==
  /\ Upward[Root] = {Root}
  /\ \A p \in Paths \ {Root} : Parent[p] \in Paths /\ Upward[p] = {p} \cup Upward[Parent[p]]
<1>1. \A p \in Paths : Upward[p] = IF p = Root THEN {Root} ELSE {p} \cup Upward[Parent[p]]
  <2>1. PICK f : f = Upward
    OBVIOUS
  <2>2. f = [p \in Paths |-> IF p = Root THEN {Root} ELSE {p} \cup f[Parent[p]]]
    BY ONLY <2>1, UpwardDef
  <2>3. \A p \in Paths : f[p] = IF p = Root THEN {Root} ELSE {p} \cup f[Parent[p]]
    BY ONLY <2>2
  <2> QED
    BY ONLY <2>1, <2>3
<1> QED
  BY <1>1, TreeAssumption

LEMMA UpwardIn == \A p \in Paths : p \in Upward[p] /\ Root \in Upward[p] /\ Upward[p] \subseteq Paths
<1> DEFINE Good == {p \in Paths : p \in Upward[p] /\ Root \in Upward[p] /\ Upward[p] \subseteq Paths}
<1>1. Root \in Good
  BY UpwardStep, TreeAssumption
<1>2. \A p \in Paths \ {Root} : Parent[p] \in Good => p \in Good
  BY UpwardStep
<1> HIDE DEF Good
<1>3. Paths \subseteq Good
  BY <1>1, <1>2, TreeInduction
<1> QED
  BY <1>3 DEF Good

(* With a path, its parent is above, and all above it.                     *)
LEMMA UpwardClosed ==
  ASSUME NEW p \in Paths, NEW q \in Upward[p]
  PROVE  /\ q # Root => Parent[q] \in Upward[p]
         /\ Upward[q] \subseteq Upward[p]
<1> DEFINE Good == {r \in Paths : \A s \in Upward[r] :
                      (s # Root => Parent[s] \in Upward[r]) /\ Upward[s] \subseteq Upward[r]}
<1>1. Root \in Good
  BY UpwardStep, TreeAssumption
<1>2. ASSUME NEW r \in Paths \ {Root}, Parent[r] \in Good PROVE r \in Good
  <2>1. Upward[r] = {r} \cup Upward[Parent[r]] /\ Parent[r] \in Upward[Parent[r]]
    BY UpwardStep, UpwardIn
  <2> QED
    BY <1>2, <2>1
<1> HIDE DEF Good
<1>3. Paths \subseteq Good
  BY <1>1, <1>2, TreeInduction
<1> QED
  BY <1>3 DEF Good

LEMMA NotAboveItself == \A p \in Paths \ {Root} : p \notin Upward[Parent[p]] /\ p # Parent[p]
<1> DEFINE Bad == {p \in Paths \ {Root} : p \in Upward[Parent[p]]}
<1>1. \A p \in Paths \ {Root} : Parent[p] \in Upward[Parent[p]]
  BY UpwardStep, UpwardIn
<1> SUFFICES ASSUME Bad # {} PROVE FALSE
  BY <1>1
<1>2. PICK p \in Bad : Parent[p] \notin Bad
  BY TreeAssumption
<1>3. PICK q : q = Parent[p]
  OBVIOUS
<1>4. q \in Paths \ {Root} /\ p \in Upward[q] /\ q \notin Upward[Parent[q]]
  BY <1>2, <1>3, UpwardStep
<1>5. p # q
  BY <1>2, <1>3
<1>6. p \in Upward[Parent[q]]
  BY <1>4, <1>5, UpwardStep
<1>7. Parent[p] \in Upward[Parent[q]]
  BY <1>4, <1>6, UpwardStep, UpwardClosed
<1> QED
  BY <1>3, <1>4, <1>7

-----------------------------------------------------------------------------
(* The inductive invariants.                                               *)

Remembered == [ino : Nat, wbytes : Nat, carry : Nat]

Shapes ==
  /\ inst \in [Paths -> Nat] /\ born \in [Paths -> Nat] /\ count \in [Paths -> Nat]
  /\ fd \in [Paths -> Nat] /\ ino \in [Paths -> Nat]
  /\ seen \in [Paths -> Nat \cup {Unread}]
  /\ state \in [Paths -> Remembered \cup {Unread}]
  /\ high = [p \in Paths |-> high[p]]
  /\ \A p \in Paths : high[p] \in [1..MaxCgroups[p] -> Nat]
  /\ credited \in [Paths -> Nat] /\ exact \in [Paths -> Nat] /\ unit \in [Paths -> Nat]
  /\ at \in Paths \cup {Unread}
  /\ todo \subseteq Paths \ {Root}
  /\ primed \in BOOLEAN
  /\ written \in Nat /\ racing \in Nat /\ base \in Nat /\ lostCarry \in Nat /\ updates \in Nat

(* A cgroup lives in one that lives; the root neither comes nor goes.      *)
Cgroups ==
  /\ inst[Root] = 1 /\ born[Root] = 1 /\ ino[Root] = 0
  /\ \A p \in Paths :
       /\ inst[p] <= born[p] /\ ino[p] <= born[p] /\ fd[p] <= born[p]
       /\ born[p] <= MaxCgroups[p]
       /\ p # Root /\ Alive(p) => Alive(Parent[p])
       /\ \A i \in 1..MaxCgroups[p] : i > born[p] => high[p][i] = 0

(* The walk holds the cgroups from the root to the one it visits open, has *)
(* yet to visit children of these, and has read children of these and of   *)
(* others it has read.                                                     *)
Listed(p) == (Walking /\ p \in Upward[at]) \/ seen[p] # Unread

WalkInv ==
  /\ Walking => updates < MaxUpdates
  /\ ~Walking => todo = {} /\ \A p \in Paths : fd[p] = 0 /\ ino[p] = 0 /\ seen[p] = Unread
  /\ \A p \in Paths :
       /\ Listed(p) => fd[p] # 0 /\ p \notin todo
       /\ Walking /\ p \in Upward[at] => seen[p] = Unread
       /\ seen[p] # Unread => p # Root /\ Listed(Parent[p])
       /\ p \in todo => Walking /\ Parent[p] \in Upward[at]

(* Read of a cgroup and not in the rows yet; and written, and not read yet.*)
Unaccounted(p) == IF seen[p] # Unread THEN seen[p] - high[p][fd[p]] ELSE 0
Unseen(p) ==
  IF ~Alive(p) THEN 0
  ELSE IF seen[p] # Unread /\ fd[p] = inst[p] THEN count[p] - seen[p]
  ELSE count[p] - high[p][inst[p]]

Metered(p) ==
  /\ count[p] <= written
  /\ Alive(p) => high[p][inst[p]] <= count[p]
  /\ seen[p] # Unread => high[p][fd[p]] <= seen[p] /\ seen[p] <= written
  /\ seen[p] # Unread /\ fd[p] = inst[p] => seen[p] <= count[p]
  /\ \A i \in 1..MaxCgroups[p] : high[p][i] <= written
  /\ unit[p] + Unaccounted(p) + Unseen(p) <= written
  /\ state[p] # Unread => state[p].ino <= born[p] /\ state[p].wbytes <= written

Meters ==
  /\ racing <= written /\ written <= MaxWrites /\ base <= written /\ updates <= MaxUpdates
  /\ \A p \in Paths : Metered(p)

TypeInv == Shapes /\ Cgroups /\ WalkInv /\ Meters

(* The state of the root is never dropped.                                 *)
RootKept ==
  IF primed
  THEN /\ state[Root] # Unread /\ state[Root].ino = 0
       /\ base <= state[Root].wbytes /\ state[Root].wbytes <= count[Root]
  ELSE /\ base = 0 /\ \A p \in Paths : state[p] = Unread

(* What is remembered of a cgroup is its highest counter, and a cgroup that*)
(* was read before and still is, or still is held open, is remembered.     *)
Known(p) == state[p] # Unread /\ state[p].ino = inst[p]

Remembers(p) ==
  /\ state[p] # Unread => state[p].ino # 0 /\ state[p].wbytes = high[p][state[p].ino]
  /\ \A i \in 1..MaxCgroups[p] :
       (inst[p] = i \/ fd[p] = i) /\ high[p][i] # 0
         => state[p] # Unread /\ state[p].ino = i
  /\ Known(p) /\ Parent[p] # Root => Known(Parent[p])

Memory ==
  /\ ~primed => \A p \in Paths : state[p] = Unread /\ unit[p] = 0
                  /\ \A i \in 1..MaxCgroups[p] : high[p][i] = 0
  /\ state[Root] # Unread => state[Root].ino = 0 /\ state[Root].wbytes = high[Root][1]
  /\ \A p \in Paths \ {Root} : Remembers(p)
  /\ \A p \in Paths : state[p] # Unread /\ Children(p) = {} => state[p].carry = 0

(* A walk finds every cgroup that is remembered and lives, under the name  *)
(* it was listed by.                                                       *)
Faithful(p) ==
  /\ ino[p] # 0 => inst[p] \in {0, ino[p]}
  /\ p \in todo => ino[p] # 0
  /\ Listed(p) => fd[p] = ino[p]
  /\ Known(p) /\ Listed(Parent[p]) => p \in todo \/ Listed(p)

WalkFaithful == \A p \in Paths \ {Root} : Faithful(p)

UnitsInv == TypeInv /\ RootKept /\ Memory /\ WalkFaithful

-----------------------------------------------------------------------------
(* An update, part by part.                                                *)

Read    == [seen EXCEPT ![Root] = count[Root]]
Nodes   == {p \in Paths : Read[p] # Unread}
Deltas  == [p \in Nodes |-> Delta(p, Read[p], ino[p])]
Kids(p) == Nodes \cap Children(p)
Carry(p) == IF Before(p, ino[p]) = Unread THEN 0 ELSE Before(p, ino[p]).carry
Part(p) == Split(Deltas[p], SumFunctionOnSet(Deltas, Kids(p)), Carry(p))
Leaf(p) == Kids(p) = {} /\ p # Root /\ p \notin Slices
Row(p)  == IF p \in Nodes THEN Part(p).residue ELSE 0
Forgotten == {p \in Paths : state[p] # Unread /\ ~(p \in Nodes /\ Before(p, ino[p]) = state[p])}

LEMMA UpdateParts ==
  ASSUME Update
  PROVE  /\ AllVisited /\ at = Root
         /\ state' = [p \in Paths |->
                        IF p \in Nodes
                        THEN [ino |-> ino[p], wbytes |-> Read[p], carry |-> Part(p).carry]
                        ELSE Unread]
         /\ credited' = [p \in Paths |-> credited[p] + Row(p)]
         /\ exact' = [p \in Paths |-> IF Leaf(p) THEN exact[p] + Row(p) ELSE exact[p]]
         /\ base' = (IF primed THEN base ELSE Read[Root])
         /\ high' = [p \in Paths |-> IF p \in Nodes THEN [high[p] EXCEPT ![fd[p]] = Read[p]]
                                     ELSE high[p]]
         /\ unit' = [p \in Paths |-> IF primed /\ p \in Nodes
                                     THEN unit[p] + (Read[p] - high[p][fd[p]])
                                     ELSE unit[p]]
         /\ lostCarry' = lostCarry + SumFunction([p \in Forgotten |-> state[p].carry])
         /\ primed' = TRUE
         /\ WalkOver
         /\ updates' = updates + 1
         /\ UNCHANGED <<kernel, writes>>
  BY DEF Update, Read, Nodes, Deltas, Kids, Carry, Part, Leaf, Row, Forgotten

(* What is read when the walk is back at the root: every counter seen, and *)
(* that of the root.                                                       *)
LEMMA NodesRead ==
  ASSUME TypeInv, at = Root
  PROVE  /\ IsFiniteSet(Nodes) /\ Root \in Nodes
         /\ \A p \in Nodes :
              /\ p \in Paths /\ Read[p] \in Nat /\ fd[p] \in 1..MaxCgroups[p]
              /\ high[p][fd[p]] \in Nat /\ high[p][fd[p]] <= Read[p] /\ Read[p] <= written
              /\ p # Root => Parent[p] \in Nodes
         /\ \A p \in Paths :
              /\ p # Root => Read[p] = seen[p] /\ (p \in Nodes <=> seen[p] # Unread)
              /\ p \in Nodes /\ fd[p] = inst[p] => Read[p] <= count[p]
<1>1. Nodes \subseteq Paths /\ IsFiniteSet(Nodes)
  BY TreeAssumption, FS_Subset DEF Nodes
<1>2. Read[Root] = count[Root] /\ Read[Root] \in Nat /\ Root \in Nodes /\ Unread \notin Nat
  BY TreeAssumption, UnreadAssumption DEF TypeInv, Shapes, Read, Nodes
<1>3. \A p \in Paths \ {Root} : Read[p] = seen[p] /\ (p \in Nodes <=> seen[p] # Unread)
  BY DEF TypeInv, Shapes, Read, Nodes
<1>4. Walking /\ Upward[at] = {Root}
  BY TreeAssumption, UnreadAssumption, UpwardStep DEF Walking
<1>5. fd[Root] = inst[Root] /\ fd[Root] = 1
  <2>1. fd[Root] # 0 /\ fd[Root] <= born[Root] /\ born[Root] = 1 /\ fd[Root] \in Nat
    BY <1>4, TreeAssumption DEF TypeInv, Shapes, Cgroups, WalkInv, Listed
  <2> QED
    BY <2>1 DEF TypeInv, Cgroups
<1>6. ASSUME NEW p \in Nodes
      PROVE  /\ p \in Paths /\ Read[p] \in Nat /\ fd[p] \in 1..MaxCgroups[p]
             /\ high[p][fd[p]] \in Nat /\ high[p][fd[p]] <= Read[p] /\ Read[p] <= written
             /\ p # Root => Parent[p] \in Nodes
             /\ fd[p] = inst[p] => Read[p] <= count[p]
  <2>0. p \in Paths /\ MaxCgroups[p] \in Nat
    BY <1>1, BoundsAssumption
  <2>1. CASE p = Root
    <3>1. MaxCgroups[Root] >= 1
      BY TreeAssumption, BoundsAssumption
    <3> QED
      BY <1>2, <1>5, <2>0, <2>1, <3>1 DEF TypeInv, Shapes, Cgroups, Meters, Metered, Alive
  <2>2. CASE p # Root
    <3>1. seen[p] # Unread /\ Read[p] = seen[p] /\ seen[p] \in Nat
      BY <1>3, <2>0, <2>2 DEF TypeInv, Shapes
    <3>2. fd[p] # 0 /\ fd[p] \in Nat /\ fd[p] <= born[p] /\ born[p] <= MaxCgroups[p] /\ born[p] \in Nat
      BY <2>0, <3>1 DEF TypeInv, Shapes, Cgroups, WalkInv, Listed
    <3>3. fd[p] \in 1..MaxCgroups[p]
      BY <2>0, <3>2
    <3>4. Parent[p] \in Nodes
      <4>1. Listed(Parent[p]) /\ Parent[p] \in Paths
        BY <2>0, <2>2, <3>1, TreeAssumption DEF TypeInv, WalkInv
      <4> QED
        BY <1>2, <1>3, <1>4, <4>1 DEF Listed
    <3> QED
      BY <2>0, <3>1, <3>3, <3>4 DEF TypeInv, Shapes, Meters, Metered
  <2> QED
    BY <2>1, <2>2
<1> QED
  BY <1>1, <1>2, <1>3, <1>6

LEMMA SplitFacts ==
  ASSUME NEW d \in Nat, NEW k \in Nat, NEW c \in Nat
  PROVE  /\ Split(d, k, c).residue \in Nat /\ Split(d, k, c).carry \in Nat
         /\ Split(d, k, c).residue <= d
         /\ Split(d, k, c).residue + c + k = Split(d, k, c).carry + d
         /\ k = 0 /\ c = 0 => Split(d, k, c).residue = d /\ Split(d, k, c).carry = 0
  BY DEF Split

LEMMA PartFacts ==
  ASSUME TypeInv, at = Root, NEW p \in Nodes
  PROVE  /\ Deltas[p] \in Nat /\ Carry(p) \in Nat
         /\ SumFunctionOnSet(Deltas, Kids(p)) \in Nat
         /\ Part(p).residue \in Nat /\ Part(p).carry \in Nat
         /\ Part(p).residue <= Deltas[p]
         /\ Part(p).residue + Carry(p) + SumFunctionOnSet(Deltas, Kids(p))
              = Part(p).carry + Deltas[p]
         /\ Kids(p) = {} /\ Carry(p) = 0 => Part(p).residue = Deltas[p] /\ Part(p).carry = 0
<1>1. ASSUME NEW q \in Nodes PROVE Deltas[q] \in Nat /\ Carry(q) \in Nat
  <2>1. Read[q] \in Nat /\ q \in Paths /\ state[q] \in Remembered \cup {Unread}
    BY NodesRead DEF TypeInv, Shapes
  <2>2. CASE Before(q, ino[q]) = Unread
    BY <2>1, <2>2 DEF Deltas, Delta, Carry
  <2>3. CASE Before(q, ino[q]) # Unread
    <3>1. Before(q, ino[q]) = state[q] /\ state[q] \in Remembered
      BY <2>1, <2>3 DEF Before
    <3>2. state[q].wbytes \in Nat /\ state[q].carry \in Nat
      BY <3>1 DEF Remembered
    <3>3. Deltas[q] = Delta(q, Read[q], ino[q])
      BY DEF Deltas
    <3> QED
      BY <2>1, <3>1, <3>2, <3>3 DEF Delta, Carry
  <2> QED
    BY <2>2, <2>3
<1>2. IsFiniteSet(Kids(p)) /\ Kids(p) \subseteq Nodes
  BY NodesRead, FS_Subset DEF Kids
<1>3. SumFunctionOnSet(Deltas, Kids(p)) \in Nat
  BY <1>1, <1>2, SumNat
<1>4. PICK d \in Nat, k \in Nat, c \in Nat :
        /\ d = Deltas[p] /\ k = SumFunctionOnSet(Deltas, Kids(p)) /\ c = Carry(p)
        /\ Part(p) = Split(d, k, c)
  BY <1>1, <1>3 DEF Part
<1>5. Kids(p) = {} => k = 0
  BY <1>4, SumEmpty
<1>6. /\ Split(d, k, c).residue \in Nat /\ Split(d, k, c).carry \in Nat
      /\ Split(d, k, c).residue <= d
      /\ Split(d, k, c).residue + c + k = Split(d, k, c).carry + d
      /\ k = 0 /\ c = 0 => Split(d, k, c).residue = d /\ Split(d, k, c).carry = 0
  BY ONLY SplitFacts, d \in Nat, k \in Nat, c \in Nat
<1> QED
  BY <1>4, <1>5, <1>6

-----------------------------------------------------------------------------
(* Types, and the walk.                                                    *)

LEMMA InitTypes == Init => TypeInv
<1> SUFFICES ASSUME Init PROVE TypeInv
  OBVIOUS
<1>0. ~Walking /\ \A p \in Paths : MaxCgroups[p] \in Nat /\ MaxCgroups[p] >= 1
  BY BoundsAssumption DEF Init, Walking
<1>1. Shapes
  BY TreeAssumption, BoundsAssumption DEF Init, Shapes
<1>2. Cgroups
  BY <1>0, TreeAssumption DEF Init, Cgroups, Alive
<1>3. WalkInv
  BY <1>0, BoundsAssumption DEF Init, WalkInv, Listed
<1>4. Meters
  BY <1>0, BoundsAssumption, TreeAssumption DEF Init, Meters, Metered, Alive, Unaccounted, Unseen
<1> QED
  BY <1>1, <1>2, <1>3, <1>4 DEF TypeInv

LEMMA ShapesKept == TypeInv /\ [Next]_vars => Shapes'
<1> SUFFICES ASSUME TypeInv, [Next]_vars PROVE Shapes'
  OBVIOUS
<1>0. /\ inst \in [Paths -> Nat] /\ born \in [Paths -> Nat] /\ count \in [Paths -> Nat]
      /\ credited \in [Paths -> Nat] /\ exact \in [Paths -> Nat] /\ unit \in [Paths -> Nat]
      /\ written \in Nat /\ racing \in Nat
  BY DEF TypeInv, Shapes
<1> USE DEF TypeInv
<1>1. ASSUME NEW p \in Paths, Write(p) PROVE Shapes'
  <2>1. count' \in [Paths -> Nat] /\ written' \in Nat /\ racing' \in Nat
    BY <1>0, <1>1 DEF Write
  <2> QED
    BY <1>1, <2>1 DEF Write, Shapes, walk, tracker, rows
<1>2. ASSUME NEW p \in Paths, CreateCgroup(p) PROVE Shapes'
  <2>1. inst' \in [Paths -> Nat] /\ born' \in [Paths -> Nat] /\ count' \in [Paths -> Nat]
    BY <1>0, <1>2 DEF CreateCgroup
  <2> QED
    BY <1>2, <2>1 DEF CreateCgroup, Shapes, walk, tracker, rows, writes
<1>3. ASSUME NEW p \in Paths, RemoveCgroup(p) PROVE Shapes'
  BY <1>3 DEF RemoveCgroup, Shapes, walk, tracker, rows, writes
<1>4. ASSUME NEW p \in Paths, Enter(p) PROVE Shapes'
  BY <1>4 DEF Enter, List, Children, Shapes, kernel, tracker, rows, writes
<1>5. ASSUME StartWalk PROVE Shapes'
  BY <1>5, TreeAssumption DEF StartWalk, List, Children, Shapes, kernel, tracker, rows, writes
<1>6. ASSUME ReadCounter PROVE Shapes'
  <2>1. at \in Paths \ {Root} /\ Parent[at] \in Paths
    BY <1>6, UpwardStep DEF ReadCounter, AllVisited, Walking, Shapes
  <2> QED
    BY <1>6, <2>1 DEF ReadCounter, Vanished, Shapes, kernel, tracker, rows, writes
<1>7. ASSUME ReadFails PROVE Shapes'
  <2>1. /\ fd' \in [Paths -> Nat] /\ ino' \in [Paths -> Nat] /\ seen' \in [Paths -> Nat \cup {Unread}]
        /\ at' \in Paths \cup {Unread} /\ todo' \subseteq Paths \ {Root} /\ updates' \in Nat
    BY <1>7 DEF ReadFails, WalkOver, Shapes
  <2> QED
    BY <1>7, <2>1 DEF ReadFails, Shapes, kernel, tracker, rows, writes
<1>8. ASSUME Update PROVE Shapes'
  <2>1. at = Root
    BY <1>8, UpdateParts
  <2>2. \A p \in Nodes : Read[p] \in Nat /\ fd[p] \in 1..MaxCgroups[p]
                        /\ Read[p] - high[p][fd[p]] \in Nat
    BY <2>1, NodesRead
  <2>3. \A p \in Nodes : Part(p).residue \in Nat /\ Part(p).carry \in Nat
    BY <2>1, PartFacts
  <2>4. state' \in [Paths -> Remembered \cup {Unread}]
    <3>1. state' = [p \in Paths |->
                     IF p \in Nodes
                     THEN [ino |-> ino[p], wbytes |-> Read[p], carry |-> Part(p).carry]
                     ELSE Unread]
      BY <1>8, UpdateParts
    <3>2. \A p \in Nodes :
            [ino |-> ino[p], wbytes |-> Read[p], carry |-> Part(p).carry] \in Remembered
      BY <2>2, <2>3 DEF Remembered, Nodes, Shapes
    <3> QED
      BY <3>1, <3>2
  <2>5. credited' \in [Paths -> Nat] /\ exact' \in [Paths -> Nat]
    <3>1. \A p \in Paths : Row(p) \in Nat
      BY <2>3 DEF Row
    <3>2. /\ credited' = [p \in Paths |-> credited[p] + Row(p)]
          /\ exact' = [p \in Paths |-> IF Leaf(p) THEN exact[p] + Row(p) ELSE exact[p]]
      BY <1>8, UpdateParts
    <3> QED
      BY <1>0, <3>1, <3>2
  <2>6. high' = [p \in Paths |-> high'[p]] /\ \A p \in Paths : high'[p] \in [1..MaxCgroups[p] -> Nat]
    <3>1. high' = [p \in Paths |-> IF p \in Nodes THEN [high[p] EXCEPT ![fd[p]] = Read[p]]
                                  ELSE high[p]]
      BY <1>8, UpdateParts
    <3>2. ASSUME NEW p \in Paths PROVE high'[p] \in [1..MaxCgroups[p] -> Nat]
      BY <2>2, <3>1 DEF Shapes
    <3>3. high' = [p \in Paths |-> high'[p]]
      BY <3>1
    <3> QED
      BY <3>2, <3>3
  <2>7. unit' \in [Paths -> Nat]
    <3>1. unit' = [p \in Paths |-> IF primed /\ p \in Nodes
                                  THEN unit[p] + (Read[p] - high[p][fd[p]])
                                  ELSE unit[p]]
      BY <1>8, UpdateParts
    <3>2. \A p \in Nodes : unit[p] + (Read[p] - high[p][fd[p]]) \in Nat
      BY <1>0, <2>2 DEF Nodes
    <3> QED
      BY <1>0, <3>1, <3>2
  <2>8. lostCarry' \in Nat
    <3> DEFINE f == [p \in Forgotten |-> state[p].carry]
    <3>1. \A p \in Forgotten : f[p] \in Nat
      BY DEF Forgotten, Shapes, Remembered
    <3>2. IsFiniteSet(Forgotten)
      BY TreeAssumption, FS_Subset DEF Forgotten
    <3>3. SumFunctionOnSet(f, Forgotten) \in Nat
      BY <3>1, <3>2, SumNat
    <3>4. lostCarry' = lostCarry + SumFunction(f)
      BY <1>8, UpdateParts
    <3>5. SumFunction(f) = SumFunctionOnSet(f, Forgotten)
      BY DEF SumFunction
    <3> HIDE DEF f
    <3> QED
      BY <3>3, <3>4, <3>5 DEF Shapes
  <2>9. base' \in Nat
    <3>1. base' = (IF primed THEN base ELSE Read[Root]) /\ Read[Root] \in Nat
      BY <1>8, <2>1, <2>2, UpdateParts, NodesRead
    <3> QED
      BY <3>1 DEF Shapes
  <2>10. /\ primed' = TRUE /\ updates' = updates + 1 /\ UNCHANGED <<kernel, writes>>
         /\ at' = Unread /\ todo' = {} /\ seen' = [p \in Paths |-> Unread]
         /\ fd' = [p \in Paths |-> 0] /\ ino' = [p \in Paths |-> 0]
    BY <1>8, UpdateParts DEF WalkOver
  <2>11. /\ fd' \in [Paths -> Nat] /\ ino' \in [Paths -> Nat] /\ seen' \in [Paths -> Nat \cup {Unread}]
         /\ at' \in Paths \cup {Unread} /\ todo' \subseteq Paths \ {Root}
         /\ updates' \in Nat /\ primed' \in BOOLEAN
    BY <2>10 DEF Shapes
  <2>12. /\ inst' \in [Paths -> Nat] /\ born' \in [Paths -> Nat] /\ count' \in [Paths -> Nat]
         /\ written' \in Nat /\ racing' \in Nat
    BY <2>10 DEF Shapes, kernel, writes
  <2> QED
    BY <2>4, <2>5, <2>6, <2>7, <2>8, <2>9, <2>11, <2>12 DEF Shapes
<1>9. ASSUME UNCHANGED vars PROVE Shapes'
  BY <1>9 DEF vars, kernel, walk, tracker, rows, writes, Shapes
<1> QED
  BY <1>1, <1>2, <1>3, <1>4, <1>5, <1>6, <1>7, <1>8, <1>9 DEF Next

LEMMA CgroupsKept == TypeInv /\ [Next]_vars => Cgroups'
<1> SUFFICES ASSUME TypeInv, [Next]_vars PROVE Cgroups'
  OBVIOUS
<1>0. /\ inst \in [Paths -> Nat] /\ born \in [Paths -> Nat]
      /\ fd \in [Paths -> Nat] /\ ino \in [Paths -> Nat]
      /\ \A p \in Paths : MaxCgroups[p] \in Nat
  BY BoundsAssumption DEF TypeInv, Shapes
<1> USE DEF TypeInv
<1>1. ASSUME NEW p \in Paths, Write(p) PROVE Cgroups'
  BY <1>1 DEF Write, Cgroups, Alive, walk, rows
<1>2. ASSUME NEW p \in Paths, CreateCgroup(p) PROVE Cgroups'
  <2>1. /\ p # Root /\ ~Alive(p) /\ Alive(Parent[p]) /\ born[p] < MaxCgroups[p]
        /\ born' = [born EXCEPT ![p] = born[p] + 1]
        /\ inst' = [inst EXCEPT ![p] = born[p] + 1]
        /\ UNCHANGED <<walk, rows>>
    BY <1>2 DEF CreateCgroup
  <2>2. Parent[p] # p
    BY <2>1, NotAboveItself
  <2>3. born'[Root] = born[Root] /\ inst'[Root] = inst[Root]
    BY <1>0, <2>1, TreeAssumption
  <2>4. ASSUME NEW q \in Paths
        PROVE  /\ born[q] <= born'[q] /\ inst'[q] <= born'[q] /\ born'[q] <= MaxCgroups[q]
               /\ q # Root /\ inst'[q] # 0 => inst'[Parent[q]] # 0
    BY <1>0, <2>1, <2>2, UpwardStep DEF Cgroups, Alive
  <2>5. ASSUME NEW q \in Paths, NEW i \in 1..MaxCgroups[q], i > born'[q] PROVE high'[q][i] = 0
    <3>1. i > born[q]
      BY <1>0, <2>1, <2>4, <2>5
    <3> QED
      BY <2>1, <3>1 DEF Cgroups, rows
  <2>6. \A q \in Paths : ino'[q] <= born'[q] /\ fd'[q] <= born'[q]
    <3>1. UNCHANGED <<ino, fd>>
      BY <2>1 DEF walk
    <3>2. \A q \in Paths : ino[q] <= born[q] /\ fd[q] <= born[q] /\ born'[q] \in Nat
      BY <1>0, <2>1 DEF Cgroups
    <3> QED
      BY <1>0, <2>4, <3>1, <3>2
  <2> QED
    BY <2>1, <2>3, <2>4, <2>5, <2>6 DEF Cgroups, Alive, walk
<1>3. ASSUME NEW p \in Paths, RemoveCgroup(p) PROVE Cgroups'
  <2>1. /\ p # Root /\ \A c \in Children(p) : ~Alive(c)
        /\ inst' = [inst EXCEPT ![p] = 0]
        /\ UNCHANGED <<born, walk, rows>>
    BY <1>3 DEF RemoveCgroup
  <2>2. ASSUME NEW q \in Paths \ {Root}, inst'[q] # 0 PROVE inst'[Parent[q]] # 0
    BY <1>0, <2>1, <2>2, UpwardStep DEF Cgroups, Alive, Children
  <2>3. inst'[Root] = 1 /\ \A q \in Paths : inst'[q] <= born[q]
    BY <1>0, <2>1, TreeAssumption DEF Cgroups
  <2> QED
    BY <2>1, <2>2, <2>3 DEF Cgroups, Alive, walk, rows
<1>4. ASSUME NEW p \in Paths, List(p), UNCHANGED <<kernel, rows>> PROVE Cgroups'
  <2>1. \A q \in Paths : fd'[q] <= born[q] /\ ino'[q] <= born[q]
    BY <1>0, <1>4 DEF List, Cgroups
  <2>2. ino'[Root] = 0
    BY <1>4, TreeAssumption DEF List, Cgroups, Children
  <2> QED
    BY <1>4, <2>1, <2>2 DEF Cgroups, Alive, kernel, rows
<1>5. ASSUME UNCHANGED <<fd, ino, kernel, rows>> PROVE Cgroups'
  BY <1>5 DEF Cgroups, Alive, kernel, rows
<1>6. ASSUME NEW p \in Paths, Enter(p) PROVE Cgroups'
  BY <1>4, <1>5, <1>6 DEF Enter
<1>7. ASSUME StartWalk PROVE Cgroups'
  BY <1>4, <1>7, TreeAssumption DEF StartWalk
<1>8. ASSUME ReadCounter PROVE Cgroups'
  BY <1>5, <1>8 DEF ReadCounter
<1>9. ASSUME ReadFails PROVE Cgroups'
  BY <1>0, <1>9, TreeAssumption DEF ReadFails, WalkOver, Cgroups, Alive, kernel, rows
<1>10. ASSUME Update PROVE Cgroups'
  <2>1. /\ at = Root /\ UNCHANGED kernel
        /\ fd' = [p \in Paths |-> 0] /\ ino' = [p \in Paths |-> 0]
        /\ high' = [p \in Paths |-> IF p \in Nodes THEN [high[p] EXCEPT ![fd[p]] = Read[p]]
                                    ELSE high[p]]
    BY <1>10, UpdateParts DEF WalkOver
  <2>2. ASSUME NEW p \in Paths, NEW i \in 1..MaxCgroups[p], i > born[p] PROVE high'[p][i] = 0
    <3>1. i # fd[p] /\ high[p][i] = 0
      BY <1>0, <2>2 DEF Cgroups
    <3>2. high[p] \in [1..MaxCgroups[p] -> Nat]
      BY DEF Shapes
    <3> QED
      BY <2>1, <3>1, <3>2
  <2> QED
    BY <1>0, <2>1, <2>2, TreeAssumption DEF Cgroups, Alive, kernel
<1>11. ASSUME UNCHANGED vars PROVE Cgroups'
  BY <1>5, <1>11 DEF vars, walk
<1> QED
  BY <1>1, <1>2, <1>3, <1>6, <1>7, <1>8, <1>9, <1>10, <1>11 DEF Next

(* Where the walk goes next.                                               *)
LEMMA Downward ==
  ASSUME TypeInv, NEW c \in Paths, Enter(c)
  PROVE  /\ Walking /\ at \in Paths /\ c # Root /\ Parent[c] = at /\ c \in todo
         /\ Upward[c] = {c} \cup Upward[at] /\ c \notin Upward[at]
         /\ ~Listed(c)
         /\ \A d \in Children(c) : d \notin Upward[c] /\ seen[d] = Unread
<1>1. Walking /\ at \in Paths /\ c # Root /\ Parent[c] = at /\ c \in todo
  BY DEF Enter, Children, TypeInv, Shapes, Walking
<1>2. Upward[c] = {c} \cup Upward[at] /\ c \notin Upward[at]
  BY <1>1, UpwardStep, NotAboveItself
<1>3. ~Listed(c)
  BY <1>1 DEF TypeInv, WalkInv
<1>4. ASSUME NEW d \in Children(c) PROVE d \notin Upward[c] /\ seen[d] = Unread
  BY <1>3, NotAboveItself DEF Children, TypeInv, WalkInv
<1> QED
  BY <1>1, <1>2, <1>3, <1>4

LEMMA Back ==
  ASSUME TypeInv, ReadCounter
  PROVE  /\ Walking /\ at \in Paths \ {Root} /\ Parent[at] \in Paths
         /\ Upward[at] = {at} \cup Upward[Parent[at]] /\ at \notin Upward[Parent[at]]
         /\ at' = Parent[at] /\ at' \in Paths /\ at' # Unread
         /\ \A p \in todo : Parent[p] # at
<1>1. Walking /\ at \in Paths \ {Root} /\ \A p \in todo : Parent[p] # at
  BY DEF ReadCounter, AllVisited, Walking, TypeInv, Shapes, Children
<1> QED
  BY <1>1, UpwardStep, NotAboveItself, UnreadAssumption DEF ReadCounter

LEMMA WalkKept == TypeInv /\ [Next]_vars => WalkInv'
<1> SUFFICES ASSUME TypeInv, [Next]_vars PROVE WalkInv'
  OBVIOUS
<1>0. /\ fd \in [Paths -> Nat] /\ inst \in [Paths -> Nat] /\ ino \in [Paths -> Nat]
      /\ seen \in [Paths -> Nat \cup {Unread}] /\ updates \in Nat /\ Unread \notin Nat
      /\ todo \subseteq Paths \ {Root} /\ WalkInv /\ Root \in Paths
  <2>1. Unread \notin Nat /\ Root \in Paths
    BY TreeAssumption, UnreadAssumption
  <2> QED
    BY <2>1 DEF TypeInv, Shapes
<1>1. ASSUME UNCHANGED <<walk, updates>> PROVE WalkInv'
  BY <1>0, <1>1 DEF walk, WalkInv, Walking, Listed
<1>2. ASSUME NEW p \in Paths, Write(p) \/ CreateCgroup(p) \/ RemoveCgroup(p) PROVE WalkInv'
  BY <1>1, <1>2 DEF Write, CreateCgroup, RemoveCgroup
<1>3. ASSUME StartWalk PROVE WalkInv'
  <2>1. /\ ~Walking /\ updates < MaxUpdates /\ UNCHANGED <<seen, updates>> /\ at' = Root
        /\ fd' = [fd EXCEPT ![Root] = inst[Root]]
        /\ todo' = (todo \ {Root}) \cup {c \in Children(Root) : Alive(c)}
    BY <1>3 DEF StartWalk, List
  <2>2. todo = {} /\ \A p \in Paths : seen[p] = Unread
    BY <1>0, <2>1 DEF WalkInv
  <2>3. Upward[Root] = {Root} /\ Root # Unread /\ inst[Root] = 1
    BY UpwardStep, TreeAssumption, UnreadAssumption DEF TypeInv, Cgroups
  <2>4. Walking' /\ \A p \in Paths : Listed(p)' <=> p = Root
    BY <2>1, <2>2, <2>3 DEF Walking, Listed
  <2>5. fd'[Root] = 1 /\ Root \notin todo'
    BY <1>0, <2>1, <2>2, <2>3 DEF Children
  <2>6. \A p \in todo' : Parent[p] \in Upward[at']
    BY <2>1, <2>2, <2>3 DEF Children
  <2> QED
    BY <2>1, <2>2, <2>3, <2>4, <2>5, <2>6 DEF WalkInv
<1>4. ASSUME NEW c \in Paths, Enter(c) PROVE WalkInv'
  <2>0. /\ Walking /\ at \in Paths /\ c # Root /\ Parent[c] = at /\ c \in todo
        /\ Upward[c] = {c} \cup Upward[at] /\ c \notin Upward[at]
        /\ ~Listed(c)
        /\ \A d \in Children(c) : d \notin Upward[c] /\ seen[d] = Unread
    BY <1>4, Downward
  <2>1. UNCHANGED <<seen, updates>>
    BY <1>4 DEF Enter
  <2>2. CASE Alive(c)
    <3>1. /\ at' = c /\ fd' = [fd EXCEPT ![c] = inst[c]]
          /\ todo' = (todo \ {c}) \cup {d \in Children(c) : Alive(d)}
      BY <1>4, <2>2 DEF Enter, List
    <3>2. Walking' /\ \A p \in Paths : Listed(p)' <=> Listed(p) \/ p = c
      BY <2>0, <2>1, <3>1, UnreadAssumption DEF Listed, Walking
    <3>3. ASSUME NEW p \in Paths, Listed(p)' PROVE fd'[p] # 0 /\ p \notin todo'
      <4>1. CASE p = c
        BY <1>0, <2>0, <2>2, <3>1, <4>1, UpwardIn DEF Alive
      <4>2. CASE p # c
        <5>1. Listed(p) /\ p \notin Children(c)
          BY <2>0, <3>2, <3>3, <4>2 DEF Listed
        <5> QED
          BY <1>0, <3>1, <4>2, <5>1 DEF WalkInv
      <4> QED
        BY <4>1, <4>2
    <3>4. ASSUME NEW p \in Paths, p \in Upward[c] PROVE seen[p] = Unread
      BY <1>0, <2>0, <3>4 DEF WalkInv, Listed
    <3>5. ASSUME NEW p \in Paths, seen[p] # Unread PROVE p # Root /\ Listed(Parent[p])'
      <4>1. p # Root /\ Listed(Parent[p]) /\ Parent[p] \in Paths
        BY <1>0, <3>5, UpwardStep DEF WalkInv
      <4> QED
        BY <3>2, <4>1
    <3>6. ASSUME NEW p \in Paths, p \in todo' PROVE Parent[p] \in Upward[c]
      BY <1>0, <2>0, <3>1, <3>6, UpwardIn DEF WalkInv, Children
    <3>7. updates < MaxUpdates
      BY <1>0, <2>0 DEF WalkInv
    <3> QED
      BY <2>1, <3>1, <3>2, <3>3, <3>4, <3>5, <3>6, <3>7 DEF WalkInv
  <2>3. CASE ~Alive(c)
    <3>1. todo' = todo \ {c} /\ UNCHANGED <<at, fd, ino>>
      BY <1>4, <2>3 DEF Enter
    <3>2. Walking' /\ \A p : Listed(p)' <=> Listed(p)
      BY <2>0, <2>1, <3>1 DEF Listed, Walking
    <3> QED
      BY <1>0, <2>0, <2>1, <3>1, <3>2 DEF WalkInv
  <2> QED
    BY <2>2, <2>3
<1>5. ASSUME ReadCounter PROVE WalkInv'
  <2>0. /\ Walking /\ at \in Paths \ {Root} /\ Parent[at] \in Paths
        /\ Upward[at] = {at} \cup Upward[Parent[at]] /\ at \notin Upward[Parent[at]]
        /\ at' = Parent[at] /\ at' \in Paths /\ at' # Unread
        /\ \A p \in todo : Parent[p] # at
    BY <1>5, Back
  <2>1. UNCHANGED <<fd, ino, todo, updates>>
    BY <1>5 DEF ReadCounter
  <2>2. Walking' /\ at \in Upward[at] /\ Parent[at] \in Upward[Parent[at]]
    BY <2>0, UpwardIn DEF Walking
  <2>3. ASSUME NEW p \in Paths, seen'[p] # Unread
        PROVE  /\ p # Root /\ p \notin Upward[at']
               /\ Listed(p) /\ Listed(Parent[p])'
    <3>1. CASE fd[at] = inst[at]
      <4>1. seen' = [seen EXCEPT ![at] = count[at]]
        BY <1>5, <3>1 DEF ReadCounter
      <4>2. CASE p = at
        <5>1. Parent[p] \in Upward[at']
          BY <2>0, <2>2, <4>2
        <5> QED
          BY <2>0, <2>2, <4>2, <5>1 DEF Listed
      <4>3. CASE p # at
        <5>1. seen[p] # Unread /\ p # Root /\ Listed(Parent[p]) /\ p \notin Upward[at]
          BY <1>0, <2>0, <2>3, <4>1, <4>3 DEF WalkInv
        <5>2. Parent[p] \in Paths
          BY <5>1, UpwardStep
        <5>3. seen'[at] # Unread
          BY <1>0, <2>0, <4>1 DEF TypeInv, Shapes
        <5>4. Listed(Parent[p])'
          <6>1. CASE seen[Parent[p]] # Unread
            <7>1. seen'[Parent[p]] # Unread
              BY <1>0, <4>1, <5>2, <5>3, <6>1
            <7> QED
              BY <7>1 DEF Listed
          <6>2. CASE Parent[p] = at
            BY <5>3, <6>2 DEF Listed
          <6>3. CASE Parent[p] \in Upward[Parent[at]]
            BY <2>0, <2>2, <6>3 DEF Listed
          <6> QED
            BY <2>0, <5>1, <6>1, <6>2, <6>3 DEF Listed
        <5> QED
          BY <2>0, <5>1, <5>4 DEF Listed
      <4> QED
        BY <4>2, <4>3
    <3>2. CASE fd[at] # inst[at]
      <4>1. seen' = [q \in Paths |-> IF q \in Subtree(at) THEN Unread ELSE seen[q]]
        BY <1>5, <3>2 DEF ReadCounter, Vanished
      <4>2. seen[p] # Unread /\ at \notin Upward[p]
        BY <2>3, <4>1 DEF Subtree
      <4>3. p # Root /\ Listed(Parent[p]) /\ Parent[p] \in Paths /\ p \notin Upward[at]
        BY <1>0, <2>0, <4>2, UpwardStep DEF WalkInv
      <4>4. at \notin Upward[Parent[p]] /\ Parent[p] # at
        <5>1. Upward[p] = {p} \cup Upward[Parent[p]] /\ Parent[p] \in Upward[Parent[p]]
          BY <4>3, UpwardStep, UpwardIn
        <5> QED
          BY <4>2, <5>1
      <4>5. Listed(Parent[p])'
        <5>1. CASE seen[Parent[p]] # Unread
          <6>1. seen'[Parent[p]] # Unread
            BY <4>1, <4>3, <4>4, <5>1 DEF Subtree
          <6> QED
            BY <6>1 DEF Listed
        <5>2. CASE Parent[p] \in Upward[at]
          <6>1. Parent[p] \in Upward[at']
            BY <2>0, <4>4, <5>2
          <6> QED
            BY <2>2, <6>1 DEF Listed
        <5> QED
          BY <4>3, <5>1, <5>2 DEF Listed
      <4> QED
        BY <2>0, <4>2, <4>3, <4>5 DEF Listed
    <3> QED
      BY <3>1, <3>2
  <2>4. ASSUME NEW p \in Paths, Listed(p)' PROVE Listed(p)
    BY <2>0, <2>3, <2>4 DEF Listed
  <2>5. ASSUME NEW p \in Paths, p \in todo PROVE Parent[p] \in Upward[at']
    BY <1>0, <2>0, <2>5 DEF WalkInv
  <2> QED
    BY <1>0, <2>0, <2>1, <2>2, <2>3, <2>4, <2>5 DEF WalkInv
<1>6. ASSUME WalkOver PROVE WalkInv'
  BY <1>6, UnreadAssumption DEF WalkOver, WalkInv, Walking, Listed
<1>7. ASSUME ReadFails PROVE WalkInv'
  BY <1>6, <1>7 DEF ReadFails
<1>8. ASSUME Update PROVE WalkInv'
  BY <1>6, <1>8, UpdateParts
<1>9. ASSUME UNCHANGED vars PROVE WalkInv'
  BY <1>1, <1>9 DEF vars
<1> QED
  BY <1>2, <1>3, <1>4, <1>5, <1>7, <1>8, <1>9 DEF Next

-----------------------------------------------------------------------------
(* Every byte of a unit is in its rows, read, or still to be read.         *)

LEMMA Ranges ==
  ASSUME TypeInv, NEW p \in Paths
  PROVE  /\ inst[p] \in Nat /\ born[p] \in Nat /\ fd[p] \in Nat /\ ino[p] \in Nat
         /\ count[p] \in Nat /\ unit[p] \in Nat /\ written \in Nat
         /\ MaxCgroups[p] \in Nat
         /\ \A i \in 1..MaxCgroups[p] : high[p][i] \in Nat
         /\ inst[p] <= born[p] /\ born[p] <= MaxCgroups[p]
         /\ Alive(p) => inst[p] \in 1..MaxCgroups[p] /\ high[p][inst[p]] \in Nat
         /\ seen[p] # Unread => /\ seen[p] \in Nat /\ fd[p] \in 1..MaxCgroups[p]
                               /\ high[p][fd[p]] \in Nat
<1>1. /\ inst[p] \in Nat /\ born[p] \in Nat /\ fd[p] \in Nat /\ ino[p] \in Nat
      /\ count[p] \in Nat /\ unit[p] \in Nat /\ written \in Nat
      /\ seen[p] \in Nat \cup {Unread}
  BY DEF TypeInv, Shapes
<1>2. MaxCgroups[p] \in Nat
  BY BoundsAssumption
<1>3. high[p] \in [1..MaxCgroups[p] -> Nat]
  BY DEF TypeInv, Shapes
<1>4. inst[p] <= born[p] /\ born[p] <= MaxCgroups[p] /\ fd[p] <= born[p]
  BY DEF TypeInv, Cgroups
<1>5. seen[p] # Unread => fd[p] # 0
  BY DEF TypeInv, WalkInv, Listed
<1> QED
  BY <1>1, <1>2, <1>3, <1>4, <1>5 DEF Alive

LEMMA MetersKept == TypeInv /\ [Next]_vars => Meters'
<1> SUFFICES ASSUME TypeInv, [Next]_vars PROVE Meters'
  OBVIOUS
<1>0. Meters /\ written \in Nat /\ racing \in Nat /\ base \in Nat /\ updates \in Nat /\ MaxWrites \in Nat
  BY BoundsAssumption DEF TypeInv, Shapes
<1>1. ASSUME NEW p \in Paths, Write(p) PROVE Meters'
  <2>1. /\ written < MaxWrites /\ written' = written + 1
        /\ racing' = (IF Walking THEN racing + 1 ELSE racing)
        /\ UNCHANGED <<inst, born, fd, seen, state, high, unit, base, updates>>
    BY <1>1 DEF Write, walk, rows, tracker
  <2>2. ASSUME NEW q \in Paths PROVE Metered(q)'
    <3>1. count'[q] \in {count[q], count[q] + 1} /\ count[q] \in Nat
      BY <1>1, Ranges DEF Write
    <3>2. state[q] # Unread => state[q].wbytes \in Nat
      BY DEF TypeInv, Shapes, Remembered
    <3>3. Metered(q)
      BY <1>0 DEF Meters
    <3> QED
      BY <1>0, <2>1, <3>1, <3>2, <3>3, Ranges DEF Metered, Unaccounted, Unseen, Alive
  <2> QED
    BY <1>0, <2>1, <2>2 DEF Meters
<1>2. ASSUME NEW p \in Paths, CreateCgroup(p) PROVE Meters'
  <2>1. /\ p # Root /\ ~Alive(p)
        /\ born' = [born EXCEPT ![p] = born[p] + 1]
        /\ inst' = [inst EXCEPT ![p] = born[p] + 1]
        /\ count' = [count EXCEPT ![p] = 0]
        /\ UNCHANGED <<fd, seen, state, high, unit, base, updates, written, racing>>
        /\ born[p] < MaxCgroups[p]
    BY <1>2 DEF CreateCgroup, walk, rows, tracker, writes
  <2>2. inst \in [Paths -> Nat] /\ born \in [Paths -> Nat] /\ count \in [Paths -> Nat]
    BY DEF TypeInv, Shapes
  <2>3. Metered(p)'
    <3>1. inst'[p] = born[p] + 1 /\ born'[p] = born[p] + 1 /\ count'[p] = 0 /\ born[p] \in Nat
      BY <2>1, <2>2
    <3>2. born[p] + 1 \in 1..MaxCgroups[p] /\ born[p] + 1 > born[p]
      BY <2>1, <2>2, BoundsAssumption
    <3>3. high[p][born[p] + 1] = 0 /\ fd[p] <= born[p]
      BY <3>2 DEF TypeInv, Cgroups
    <3>4. fd[p] # born[p] + 1
      BY <3>1, <3>3, Ranges
    <3>5. Metered(p)
      BY <1>0 DEF Meters
    <3>6. state[p] # Unread => state[p].ino \in Nat
      BY DEF TypeInv, Shapes, Remembered
    <3> QED
      BY <1>0, <2>1, <3>1, <3>3, <3>4, <3>5, <3>6, Ranges DEF Metered, Unaccounted, Unseen, Alive
  <2>4. ASSUME NEW q \in Paths, q # p PROVE Metered(q)'
    BY <1>0, <2>1, <2>2, <2>4 DEF Meters, Metered, Unaccounted, Unseen, Alive
  <2> QED
    BY <1>0, <2>1, <2>3, <2>4 DEF Meters
<1>3. ASSUME NEW p \in Paths, RemoveCgroup(p) PROVE Meters'
  <2>1. /\ p # Root /\ Alive(p)
        /\ inst' = [inst EXCEPT ![p] = 0]
        /\ count' = [count EXCEPT ![p] = 0]
        /\ UNCHANGED <<born, fd, seen, state, high, unit, base, updates, written, racing>>
    BY <1>3 DEF RemoveCgroup, walk, rows, tracker, writes
  <2>2. inst \in [Paths -> Nat] /\ count \in [Paths -> Nat]
    BY DEF TypeInv, Shapes
  <2>3. Metered(p)'
    <3>1. inst'[p] = 0 /\ count'[p] = 0
      BY <2>1, <2>2
    <3>2. Metered(p)
      BY <1>0 DEF Meters
    <3> QED
      BY <1>0, <2>1, <3>1, <3>2, Ranges DEF Metered, Unaccounted, Unseen, Alive
  <2>4. ASSUME NEW q \in Paths, q # p PROVE Metered(q)'
    BY <1>0, <2>1, <2>2, <2>4 DEF Meters, Metered, Unaccounted, Unseen, Alive
  <2> QED
    BY <1>0, <2>1, <2>3, <2>4 DEF Meters
<1>4. ASSUME NEW p \in Paths, seen[p] = Unread, List(p),
             UNCHANGED <<seen, kernel, tracker, rows, writes, updates>>
      PROVE  Meters'
  <2>1. fd' = [fd EXCEPT ![p] = inst[p]] /\ fd \in [Paths -> Nat]
    BY <1>4 DEF List, TypeInv, Shapes
  <2>2. ASSUME NEW q \in Paths PROVE Metered(q)'
    BY <1>0, <1>4, <2>1 DEF Meters, Metered, Unaccounted, Unseen, Alive, kernel, tracker, rows, writes
  <2> QED
    BY <1>0, <1>4, <2>2 DEF Meters, rows, writes
<1>5. ASSUME UNCHANGED <<fd, seen, kernel, tracker, rows, writes, updates>> PROVE Meters'
  BY <1>0, <1>5 DEF Meters, Metered, Unaccounted, Unseen, Alive, kernel, tracker, rows, writes
<1>6. ASSUME NEW c \in Paths, Enter(c) PROVE Meters'
  <2>1. seen[c] = Unread
    BY <1>6, Downward DEF Listed
  <2> QED
    BY <1>4, <1>5, <1>6, <2>1 DEF Enter
<1>7. ASSUME StartWalk PROVE Meters'
  <2>1. seen[Root] = Unread
    BY <1>7, TreeAssumption DEF StartWalk, TypeInv, WalkInv
  <2> QED
    BY <1>4, <1>7, <2>1, TreeAssumption DEF StartWalk
(* What the walk no longer holds may be read again, or is gone.            *)
<1>8. ASSUME NEW q \in Paths, seen'[q] = Unread,
             UNCHANGED <<kernel, state, unit, written>>, high'[q] = high[q]
      PROVE  Metered(q)'
  <2>1. Metered(q)
    BY <1>0 DEF Meters
  <2>2. Unseen(q)' = IF ~Alive(q) THEN 0 ELSE count[q] - high[q][inst[q]]
    BY <1>8 DEF Unseen, Alive, kernel
  <2>3. Unaccounted(q)' = 0
    BY <1>8 DEF Unaccounted
  <2>4. Unaccounted(q)' + Unseen(q)' <= Unaccounted(q) + Unseen(q)
    BY <2>1, <2>2, <2>3, Ranges DEF Metered, Unaccounted, Unseen
  <2>5. /\ Unaccounted(q) \in Int /\ Unseen(q) \in Int
        /\ Unaccounted(q)' \in Int /\ Unseen(q)' \in Int
    BY <2>2, <2>3, Ranges DEF Unaccounted, Unseen
  <2>6. (unit[q] + Unaccounted(q) + Unseen(q) <= written)'
    BY <1>0, <1>8, <2>1, <2>4, <2>5, Ranges DEF Metered
  <2> QED
    BY <1>8, <2>1, <2>6 DEF Metered, kernel, Alive
<1>9. ASSUME ReadCounter PROVE Meters'
  <2>0. at \in Paths \ {Root} /\ Walking /\ at \in Upward[at]
    BY <1>9, Back, UpwardIn
  <2>1. UNCHANGED <<fd, kernel, tracker, writes, rows, updates>>
    BY <1>9 DEF ReadCounter
  <2>2. ASSUME NEW q \in Paths PROVE Metered(q)'
    <3>1. CASE fd[at] = inst[at] /\ q = at
      <4>1. seen'[q] = count[q] /\ fd[q] = inst[q]
        BY <1>9, <2>0, <3>1 DEF ReadCounter, TypeInv, Shapes
      <4>2. seen[q] = Unread /\ Alive(q)
        BY <2>0, <3>1 DEF TypeInv, WalkInv, Listed, Alive
      <4>3. Metered(q)
        BY <1>0 DEF Meters
      <4>4. count[q] \in Nat /\ high[q][inst[q]] \in Nat /\ count[q] # Unread
        BY <4>2, Ranges, UnreadAssumption
      <4>5. UNCHANGED <<inst, born, count, fd, high, unit, state, written>>
        BY <2>1 DEF kernel, tracker, rows, writes
      <4>6. Unaccounted(q)' = count[q] - high[q][inst[q]] /\ Unseen(q)' = 0
        BY <4>1, <4>2, <4>4, <4>5 DEF Unaccounted, Unseen, Alive
      <4>7. Unaccounted(q) = 0 /\ Unseen(q) = count[q] - high[q][inst[q]]
        BY <4>2 DEF Unaccounted, Unseen
      <4>8. (unit[q] + Unaccounted(q) + Unseen(q) <= written)'
        BY <4>3, <4>4, <4>5, <4>6, <4>7, Ranges DEF Metered
      <4>9. (Alive(q) => high[q][inst[q]] <= count[q])'
        BY <4>3, <4>5 DEF Metered, Alive
      <4> QED
        BY <4>1, <4>2, <4>3, <4>4, <4>5, <4>8, <4>9, Ranges DEF Metered, Alive
    <3>2. CASE seen'[q] = seen[q]
      BY <1>0, <2>1, <3>2 DEF Meters, Metered, Unaccounted, Unseen, Alive, kernel, tracker, rows, writes
    <3>3. CASE seen'[q] = Unread
      BY <1>8, <2>1, <3>3 DEF tracker, rows, writes
    <3>4. (fd[at] = inst[at] /\ q = at) \/ seen'[q] = seen[q] \/ seen'[q] = Unread
      BY <1>9, <2>0 DEF ReadCounter, Vanished, TypeInv, Shapes
    <3> QED
      BY <3>1, <3>2, <3>3, <3>4
  <2> QED
    BY <1>0, <2>1, <2>2 DEF Meters, rows, writes
<1>10. ASSUME ReadFails PROVE Meters'
  <2>1. /\ Walking /\ seen' = [p \in Paths |-> Unread] /\ updates' = updates + 1
        /\ UNCHANGED <<kernel, tracker, writes, rows>>
    BY <1>10 DEF ReadFails, WalkOver
  <2>2. \A q \in Paths : Metered(q)'
    BY <1>8, <2>1 DEF tracker, rows, writes
  <2>3. updates < MaxUpdates /\ MaxUpdates \in Nat
    BY <2>1, BoundsAssumption DEF TypeInv, WalkInv
  <2> QED
    BY <1>0, <2>1, <2>2, <2>3 DEF Meters, rows, writes
<1>11. ASSUME Update PROVE Meters'
  <2>1. /\ at = Root /\ seen' = [p \in Paths |-> Unread] /\ updates' = updates + 1
        /\ UNCHANGED <<kernel, writes>>
        /\ state' = [p \in Paths |->
                       IF p \in Nodes
                       THEN [ino |-> ino[p], wbytes |-> Read[p], carry |-> Part(p).carry]
                       ELSE Unread]
        /\ base' = (IF primed THEN base ELSE Read[Root])
        /\ high' = [p \in Paths |-> IF p \in Nodes THEN [high[p] EXCEPT ![fd[p]] = Read[p]]
                                    ELSE high[p]]
        /\ unit' = [p \in Paths |-> IF primed /\ p \in Nodes
                                    THEN unit[p] + (Read[p] - high[p][fd[p]])
                                    ELSE unit[p]]
    BY <1>11, UpdateParts DEF WalkOver
  <2>2. ASSUME NEW q \in Nodes PROVE Metered(q)'
    <3>0. q \in Paths /\ Metered(q)
      BY <1>0 DEF Nodes, Meters
    <3>1. /\ Read[q] \in Nat /\ fd[q] \in 1..MaxCgroups[q] /\ high[q][fd[q]] \in Nat
          /\ high[q][fd[q]] <= Read[q] /\ Read[q] <= written
          /\ fd[q] = inst[q] => Read[q] <= count[q]
          /\ q # Root => Read[q] = seen[q] /\ seen[q] # Unread
      BY <2>1, NodesRead, <3>0
    <3>2. high'[q] = [high[q] EXCEPT ![fd[q]] = Read[q]] /\ high[q] \in [1..MaxCgroups[q] -> Nat]
      BY <2>1, <3>0 DEF TypeInv, Shapes
    <3>3. \A i \in 1..MaxCgroups[q] : high'[q][i] = IF i = fd[q] THEN Read[q] ELSE high[q][i]
      BY <3>1, <3>2
    <3>4. state'[q].ino = ino[q] /\ state'[q].wbytes = Read[q] /\ ino[q] <= born[q]
      BY <2>1, <3>0 DEF TypeInv, Cgroups
    <3>5. seen'[q] = Unread
      BY <2>1, <3>0
    <3>6. /\ UNCHANGED <<inst, born, count, written>>
          /\ unit'[q] = (IF primed THEN unit[q] + (Read[q] - high[q][fd[q]]) ELSE unit[q])
      BY <2>1, <3>0 DEF kernel, writes
    <3>7. Alive(q) => inst[q] \in 1..MaxCgroups[q] /\ high[q][inst[q]] \in Nat
                      /\ high'[q][inst[q]] = IF inst[q] = fd[q] THEN Read[q] ELSE high[q][inst[q]]
      BY <3>0, <3>3, Ranges
    <3>8. Alive(q)' <=> Alive(q)
      BY <3>6 DEF Alive
    <3>9. Unseen(q)' = IF ~Alive(q) THEN 0 ELSE count[q] - high'[q][inst[q]]
      BY <3>5, <3>6, <3>8 DEF Unseen
    <3>10. Unaccounted(q)' = 0
      BY <3>5 DEF Unaccounted
    <3>11. count[q] \in Nat /\ unit[q] \in Nat /\ written \in Nat
      BY <3>0, Ranges
    <3>12. /\ Unaccounted(q) + Unseen(q) >= (Read[q] - high[q][fd[q]]) + Unseen(q)'
           /\ Unaccounted(q) \in Int /\ Unseen(q) \in Int /\ Unseen(q)' \in Int
      <4>1. CASE q # Root
        BY <3>0, <3>1, <3>7, <3>9, <3>11, <4>1 DEF Unaccounted, Unseen, Metered
      <4>2. CASE q = Root
        <5>1. seen[Root] = Unread
          BY TreeAssumption DEF TypeInv, WalkInv
        <5>2. inst[Root] = 1 /\ fd[Root] = 1 /\ Read[Root] = count[Root]
          <6>1. fd[Root] <= born[Root] /\ born[Root] = 1 /\ inst[Root] = 1
            BY TreeAssumption DEF TypeInv, Cgroups
          <6>2. fd[Root] \in Nat /\ fd[Root] >= 1
            BY <3>0, <3>1, <4>2, Ranges
          <6> QED
            BY <6>1, <6>2, TreeAssumption DEF Read, TypeInv, Shapes
        <5> QED
          BY <3>1, <3>7, <3>9, <3>11, <4>2, <5>1, <5>2 DEF Unaccounted, Unseen, Alive
      <4> QED
        BY <4>1, <4>2
    <3>13. (unit[q] + Unaccounted(q) + Unseen(q) <= written)'
      <4>1. unit[q] + Unaccounted(q) + Unseen(q) <= written
        BY <3>0 DEF Metered
      <4> QED
        BY <3>1, <3>6, <3>10, <3>11, <3>12, <4>1
    <3>14. /\ (count[q] <= written)'
           /\ (Alive(q) => high[q][inst[q]] <= count[q])'
           /\ (\A i \in 1..MaxCgroups[q] : high[q][i] <= written)'
      BY <3>0, <3>1, <3>3, <3>6, <3>7, <3>8 DEF Metered
    <3> QED
      BY <3>1, <3>4, <3>5, <3>6, <3>13, <3>14 DEF Metered
  <2>3. ASSUME NEW q \in Paths, q \notin Nodes PROVE Metered(q)'
    <3>1. Metered(q) /\ seen'[q] = Unread /\ state'[q] = Unread /\ high'[q] = high[q] /\ unit'[q] = unit[q]
      BY <1>0, <2>1, <2>3 DEF Meters
    <3>2. UNCHANGED <<inst, born, count, written>>
      BY <2>1 DEF kernel, writes
    <3>3. (Alive(q)' <=> Alive(q)) /\ Unaccounted(q)' = 0
          /\ Unseen(q)' = IF ~Alive(q) THEN 0 ELSE count[q] - high[q][inst[q]]
      BY <3>1, <3>2 DEF Alive, Unaccounted, Unseen
    <3>4. (unit[q] + Unaccounted(q) + Unseen(q) <= written)'
      BY <3>1, <3>2, <3>3, Ranges DEF Metered, Unaccounted, Unseen
    <3> QED
      BY <3>1, <3>2, <3>3, <3>4 DEF Metered
  <2>4. updates < MaxUpdates /\ MaxUpdates \in Nat
    <3>1. Walking
      BY <1>11, UpdateParts DEF AllVisited
    <3> QED
      BY <3>1, BoundsAssumption DEF TypeInv, WalkInv
  <2>5. base' \in Nat /\ base' <= written
    BY <1>0, <2>1, NodesRead DEF Meters
  <2> QED
    BY <1>0, <2>1, <2>2, <2>3, <2>4, <2>5 DEF Meters, writes
<1>12. ASSUME UNCHANGED vars PROVE Meters'
  BY <1>5, <1>12 DEF vars, walk
<1> QED
  BY <1>1, <1>2, <1>3, <1>6, <1>7, <1>9, <1>10, <1>11, <1>12 DEF Next

LEMMA TypesKept == Spec => []TypeInv
<1>1. TypeInv /\ [Next]_vars => TypeInv'
  BY ShapesKept, CgroupsKept, WalkKept, MetersKept DEF TypeInv
<1> QED
  BY <1>1, InitTypes, PTL DEF Spec

(* Whatever a tree of cgroups does and however it is walked, the tracker   *)
(* stays within the types and bounds of TypeOK: no counter is taken for a  *)
(* cgroup that was not open, no share of an interval is below zero, and no *)
(* unit is read more than was written.                                     *)
THEOREM TypeCorrect == Spec => []TypeOK
<1>1. TypeInv => TypeOK
  <2> SUFFICES ASSUME TypeInv PROVE TypeOK
    OBVIOUS
  <2>1. /\ written \in 0..MaxWrites /\ racing \in 0..MaxWrites /\ base \in 0..MaxWrites
        /\ updates \in 0..MaxUpdates /\ written \in Nat /\ MaxWrites \in Nat
        /\ written <= MaxWrites
    BY BoundsAssumption DEF TypeInv, Shapes, Meters
  <2>2. ASSUME NEW p \in Paths
        PROVE  /\ {inst[p], born[p], fd[p], ino[p]} \subseteq 0..MaxCgroups[p]
               /\ {count[p], unit[p]} \subseteq 0..MaxWrites
               /\ seen[p] \in 0..MaxWrites \cup {Unread}
               /\ state[p] \in [ino : 0..MaxCgroups[p], wbytes : 0..MaxWrites, carry : Nat] \cup {Unread}
               /\ high[p] \in [1..MaxCgroups[p] -> 0..MaxWrites]
               /\ credited[p] \in Nat /\ exact[p] \in Nat
    <3>1. inst[p] <= born[p] /\ born[p] <= MaxCgroups[p] /\ fd[p] <= born[p] /\ ino[p] <= born[p]
      BY DEF TypeInv, Cgroups
    <3>2. Metered(p)
      BY DEF TypeInv, Meters
    <3>3. Unaccounted(p) \in Nat /\ Unseen(p) \in Nat
      BY <3>2, Ranges DEF Metered, Unaccounted, Unseen
    <3>4. count[p] <= written /\ unit[p] <= written
      BY <3>2, <3>3, Ranges DEF Metered
    <3>5. state[p] = Unread \/ (state[p] \in Remembered
                               /\ state[p].ino <= born[p] /\ state[p].wbytes <= written)
      BY <3>2 DEF Metered, TypeInv, Shapes
    <3>6. ASSUME state[p] \in Remembered, state[p].ino <= born[p], state[p].wbytes <= written
          PROVE  state[p] \in [ino : 0..MaxCgroups[p], wbytes : 0..MaxWrites, carry : Nat]
      <4>1. PICK r : r = state[p]
        OBVIOUS
      <4>2. r = [ino |-> r.ino, wbytes |-> r.wbytes, carry |-> r.carry]
            /\ r.ino \in Nat /\ r.wbytes \in Nat /\ r.carry \in Nat
        BY <3>6, <4>1 DEF Remembered
      <4>3. r.ino \in 0..MaxCgroups[p] /\ r.wbytes \in 0..MaxWrites
        BY <2>1, <3>1, <3>6, <4>1, <4>2, Ranges
      <4>4. PICK m : m = MaxCgroups[p]
        OBVIOUS
      <4>5. r \in [ino : 0..m, wbytes : 0..MaxWrites, carry : Nat]
        BY ONLY <4>2, <4>3, <4>4
      <4> QED
        BY ONLY <4>1, <4>4, <4>5
    <3>7. state[p] \in [ino : 0..MaxCgroups[p], wbytes : 0..MaxWrites, carry : Nat] \cup {Unread}
      BY <3>5, <3>6
    <3>8. high[p] \in [1..MaxCgroups[p] -> 0..MaxWrites]
      <4>1. high[p] \in [1..MaxCgroups[p] -> Nat]
        BY DEF TypeInv, Shapes
      <4>2. \A i \in 1..MaxCgroups[p] : high[p][i] \in 0..MaxWrites
        BY <2>1, <3>2, Ranges DEF Metered
      <4> QED
        BY <4>1, <4>2
    <3>9. credited[p] \in Nat /\ exact[p] \in Nat
      BY DEF TypeInv, Shapes
    <3>10. {inst[p], born[p], fd[p], ino[p]} \subseteq 0..MaxCgroups[p]
      BY <3>1, Ranges
    <3>11. {count[p], unit[p]} \subseteq 0..MaxWrites
      BY <2>1, <3>4, Ranges
    <3>12. seen[p] \in 0..MaxWrites \cup {Unread}
      BY <2>1, <3>2, Ranges DEF Metered
    <3> QED
      BY <3>7, <3>8, <3>9, <3>10, <3>11, <3>12
  <2> QED
    BY <2>1, <2>2 DEF TypeOK, TypeInv, Shapes
<1> QED
  BY <1>1, TypesKept, PTL

-----------------------------------------------------------------------------
(* Every byte of the device is in a row, held back or forgotten.           *)

(* The children of all are all but the root.                               *)
LEMMA SumOfChildren ==
  ASSUME NEW f, NEW g, \A p \in Paths : f[p] \in Int,
         \A p \in Paths : g[p] = SumFunctionOnSet(f, Children(p))
  PROVE  SumFunctionOnSet(g, Paths) = SumFunctionOnSet(f, Paths \ {Root})
<1> DEFINE of(T) == [p \in Paths |-> SumFunctionOnSet(f, Children(p) \cap T)]
           S == Paths \ {Root}
           Good == {T \in SUBSET S : SumFunctionOnSet(of(T), Paths) = SumFunctionOnSet(f, T)}
<1>0. IsFiniteSet(Paths) /\ IsFiniteSet(S) /\ \A p \in Paths : IsFiniteSet(Children(p))
  BY TreeAssumption, FS_Subset DEF Children
<1>1. \A T \in SUBSET S, p \in Paths : IsFiniteSet(Children(p) \cap T) /\ of(T)[p] \in Int
  <2>1. \A T \in SUBSET S, p \in Paths :
          IsFiniteSet(Children(p) \cap T) /\ Children(p) \cap T \subseteq Paths
    BY <1>0, FS_Subset DEF Children
  <2> QED
    BY <2>1, SumInt
<1>2. {} \in Good
  <2>1. \A p \in Paths : of({})[p] = 0
    BY SumEmpty, \A p : Children(p) \cap {} = {}
  <2> HIDE DEF of
  <2>2. SumFunctionOnSet(of({}), Paths) = 0
    BY <1>0, <2>1, SumZero
  <2> QED
    BY <2>2, SumEmpty
<1>3. ASSUME NEW T \in SUBSET S, T \in Good, NEW x \in S \ T PROVE T \cup {x} \in Good
  <2>1. Parent[x] \in Paths /\ x \in Children(Parent[x])
    BY UpwardStep DEF Children
  <2>2. PICK U : U = T \cup {x}
    OBVIOUS
  <2>3. ASSUME NEW p \in Paths \ {Parent[x]} PROVE of(U)[p] = of(T)[p]
    <3>1. Children(p) \cap U = Children(p) \cap T
      BY <2>2 DEF Children
    <3> QED
      BY <3>1
  <2>4. of(U)[Parent[x]] = f[x] + of(T)[Parent[x]]
    <3>1. PICK C : C = Children(Parent[x]) /\ x \in C /\ C \subseteq Paths
      BY <2>1 DEF Children
    <3>2. PICK V : V = C \cap T
      OBVIOUS
    <3>3. V \cup {x} = C \cap U
      BY ONLY <2>2, <3>1, <3>2
    <3>4. IsFiniteSet(V) /\ x \notin V /\ V \cup {x} \subseteq Paths
      BY <1>1, <2>1, <3>1, <3>2
    <3>5. SumFunctionOnSet(f, V \cup {x}) = f[x] + SumFunctionOnSet(f, V)
      BY <3>4, SumInsert
    <3> QED
      BY <2>1, <3>1, <3>2, <3>3, <3>5
  <2>5. SumFunctionOnSet(f, U) = f[x] + SumFunctionOnSet(f, T)
    <3>1. IsFiniteSet(T)
      BY <1>0, FS_Subset
    <3> QED
      BY <2>2, <3>1, SumInsert
  <2>6. U \in SUBSET S /\ SumFunctionOnSet(of(T), Paths) = SumFunctionOnSet(f, T)
    BY <1>3, <2>2
  <2> HIDE DEF of
  <2>7. SumFunctionOnSet(of(U), Paths)
          = SumFunctionOnSet(of(T), Paths) + (of(U)[Parent[x]] - of(T)[Parent[x]])
    <3>1. PICK h : h = of(T)
      OBVIOUS
    <3>2. PICK k : k = of(U)
      OBVIOUS
    <3>3. PICK y \in Paths : y = Parent[x]
      BY <2>1
    <3>4. /\ \A z \in Paths : h[z] \in Int /\ k[z] \in Int
          /\ \A z \in Paths \ {y} : k[z] = h[z]
      BY <1>1, <2>3, <2>6, <3>1, <3>2, <3>3
    <3>5. SumFunctionOnSet(k, Paths) = SumFunctionOnSet(h, Paths) + (k[y] - h[y])
      BY ONLY <1>0, <3>4, y \in Paths, SumChange
    <3> QED
      BY <3>1, <3>2, <3>3, <3>5
  <2>8. SumFunctionOnSet(of(T), Paths) \in Int /\ of(T)[Parent[x]] \in Int /\ f[x] \in Int
    BY <1>0, <1>1, <2>1, SumInt
  <2> QED
    BY <2>2, <2>4, <2>5, <2>6, <2>7, <2>8
<1>4. \A p \in Paths : g[p] = of(S)[p] /\ of(S)[p] \in Int
  <2>1. \A p \in Paths : Children(p) \cap S = Children(p)
    BY DEF Children
  <2> QED
    BY <1>1, <2>1
<1> HIDE DEF Good, of, S
<1>5. S \in Good
  BY <1>0, <1>2, <1>3, FiniteInduction
<1>6. SumFunctionOnSet(g, Paths) = SumFunctionOnSet(of(S), Paths)
  BY <1>0, <1>4, SumSame
<1> QED
  BY <1>5, <1>6 DEF Good, S

(* A sum over some of the paths is one over all, with 0 for the others.    *)
LEMMA SumOverAll ==
  ASSUME NEW st \in [Paths -> Remembered \cup {Unread}], NEW S \in SUBSET Paths,
         \A p \in S : st[p] # Unread
  PROVE  /\ SumFunction([p \in S |-> st[p].carry]) \in Nat
         /\ SumFunction([p \in S |-> st[p].carry])
              = SumFunctionOnSet([p \in Paths |-> IF p \in S THEN st[p].carry ELSE 0], Paths)
<1>1. PICK f : f = [p \in S |-> st[p].carry]
  OBVIOUS
<1>2. PICK g : g = [p \in Paths |-> IF p \in S THEN st[p].carry ELSE 0]
  OBVIOUS
<1>3. /\ \A p \in S : f[p] \in Nat /\ g[p] = f[p]
      /\ \A p \in Paths \ S : g[p] = 0
  BY <1>1, <1>2 DEF Remembered
<1>4. SumFunction(f) = SumFunctionOnSet(f, S)
  BY <1>1 DEF SumFunction
<1>5. IsFiniteSet(Paths) /\ IsFiniteSet(S)
  BY TreeAssumption, FS_Subset
<1>6. SumFunctionOnSet(f, S) \in Nat
  BY <1>3, <1>5, SumNat
<1>7. SumFunctionOnSet(g, Paths) = SumFunctionOnSet(f, S)
  BY ONLY <1>3, <1>5, S \in SUBSET Paths, SumExtend, Nat \subseteq Int
<1> QED
  BY <1>1, <1>2, <1>4, <1>6, <1>7

(* What an update credits: the growth of the root and what was held back,  *)
(* less what is held back now.                                             *)
LEMMA UpdateCredits ==
  ASSUME TypeInv, at = Root
  PROVE  LET held   == [p \in Paths |-> IF p \in Nodes THEN Carry(p) ELSE 0]
             toHold == [p \in Paths |-> IF p \in Nodes THEN Part(p).carry ELSE 0]
             row    == [p \in Paths |-> Row(p)]
         IN /\ SumFunctionOnSet(row, Paths) \in Int /\ SumFunctionOnSet(held, Paths) \in Int
            /\ SumFunctionOnSet(toHold, Paths) \in Int /\ Deltas[Root] \in Int
            /\ SumFunctionOnSet(row, Paths) + SumFunctionOnSet(held, Paths)
                 = SumFunctionOnSet(toHold, Paths) + Deltas[Root]
<1>1. PICK held : held = [p \in Paths |-> IF p \in Nodes THEN Carry(p) ELSE 0]
  OBVIOUS
<1>2. PICK toHold : toHold = [p \in Paths |-> IF p \in Nodes THEN Part(p).carry ELSE 0]
  OBVIOUS
<1>3. PICK row : row = [p \in Paths |-> Row(p)]
  OBVIOUS
<1>4. PICK delta : delta = [p \in Paths |-> IF p \in Nodes THEN Deltas[p] ELSE 0]
  OBVIOUS
<1>5. PICK below : below = [p \in Paths |-> SumFunctionOnSet(delta, Children(p))]
  OBVIOUS
<1>6. \A p \in Paths : delta[p] \in Int
  BY <1>4, PartFacts
<1>7. ASSUME NEW p \in Nodes
      PROVE  below[p] = SumFunctionOnSet(Deltas, Kids(p))
  <2>1. /\ p \in Paths /\ Kids(p) \in SUBSET Children(p) /\ IsFiniteSet(Children(p))
        /\ Children(p) \subseteq Paths
    BY TreeAssumption, FS_Subset DEF Nodes, Kids, Children
  <2>2. /\ \A q \in Kids(p) : Deltas[q] \in Int /\ delta[q] = Deltas[q]
        /\ \A q \in Children(p) \ Kids(p) : delta[q] = 0
    BY <1>4, <1>6, <2>1 DEF Kids
  <2>3. PICK D : D = Deltas
    OBVIOUS
  <2>4. PICK C : C = Children(p)
    OBVIOUS
  <2>5. PICK K : K = Kids(p)
    OBVIOUS
  <2>6. SumFunctionOnSet(delta, C) = SumFunctionOnSet(D, K)
    BY ONLY <2>1, <2>2, <2>3, <2>4, <2>5, SumExtend
  <2> QED
    BY <1>5, <2>1, <2>3, <2>4, <2>5, <2>6
<1>8. ASSUME NEW p \in Paths, p \notin Nodes PROVE below[p] = 0
  <2>1. \A q \in Children(p) : q \notin Nodes /\ q \in Paths
    BY <1>8, NodesRead DEF Children
  <2>2. IsFiniteSet(Children(p))
    BY TreeAssumption, FS_Subset DEF Children
  <2>3. SumFunctionOnSet(delta, Children(p)) = 0
    BY <1>4, <2>1, <2>2, SumZero
  <2> QED
    BY <1>5, <2>3
<1>9. ASSUME NEW p \in Paths
      PROVE  /\ row[p] \in Int /\ held[p] \in Int /\ toHold[p] \in Int /\ below[p] \in Int
             /\ row[p] + held[p] + below[p] = toHold[p] + delta[p]
  <2>1. CASE p \in Nodes
    BY <1>1, <1>2, <1>3, <1>4, <1>7, <2>1, PartFacts DEF Row
  <2>2. CASE p \notin Nodes
    BY <1>1, <1>2, <1>3, <1>4, <1>8, <2>2 DEF Row
  <2> QED
    BY <2>1, <2>2
<1>10. PICK x : x = [p \in Paths |-> row[p] + held[p]]
  OBVIOUS
<1>11. PICK y : y = [p \in Paths |-> x[p] + below[p]]
  OBVIOUS
<1>12. \A p \in Paths : /\ x[p] \in Int /\ x[p] = row[p] + held[p]
                        /\ y[p] = x[p] + below[p] /\ y[p] = toHold[p] + delta[p]
  BY <1>6, <1>9, <1>10, <1>11
<1>13. IsFiniteSet(Paths) /\ Root \in Paths
  BY TreeAssumption
<1>14. SumFunctionOnSet(x, Paths) = SumFunctionOnSet(row, Paths) + SumFunctionOnSet(held, Paths)
  BY ONLY <1>9, <1>12, <1>13, SumOfSums
<1>15. SumFunctionOnSet(y, Paths) = SumFunctionOnSet(x, Paths) + SumFunctionOnSet(below, Paths)
  BY ONLY <1>9, <1>12, <1>13, SumOfSums
<1>16. SumFunctionOnSet(y, Paths) = SumFunctionOnSet(toHold, Paths) + SumFunctionOnSet(delta, Paths)
  BY ONLY <1>6, <1>9, <1>12, <1>13, SumOfSums
<1>17. SumFunctionOnSet(below, Paths) = SumFunctionOnSet(delta, Paths \ {Root})
  <2>1. \A p \in Paths : below[p] = SumFunctionOnSet(delta, Children(p))
    BY <1>5
  <2> QED
    BY <1>6, <2>1, SumOfChildren
<1>18. SumFunctionOnSet(delta, Paths) = delta[Root] + SumFunctionOnSet(delta, Paths \ {Root})
  BY ONLY <1>6, <1>13, SumRemove
<1>19. delta[Root] = Deltas[Root] /\ Deltas[Root] \in Int
  BY <1>4, <1>6, <1>13, NodesRead
<1>20. /\ SumFunctionOnSet(row, Paths) \in Int /\ SumFunctionOnSet(held, Paths) \in Int
       /\ SumFunctionOnSet(toHold, Paths) \in Int /\ SumFunctionOnSet(delta, Paths) \in Int
       /\ SumFunctionOnSet(below, Paths) \in Int
  BY ONLY <1>6, <1>9, <1>13, SumInt
<1>21. /\ SumFunctionOnSet(row, Paths) + SumFunctionOnSet(held, Paths)
            = SumFunctionOnSet(toHold, Paths) + Deltas[Root]
  BY <1>14, <1>15, <1>16, <1>17, <1>18, <1>19, <1>20
<1> QED
  BY <1>1, <1>2, <1>3, <1>19, <1>20, <1>21

LEMMA RootKeptKept == TypeInv /\ RootKept /\ [Next]_vars => RootKept'
<1> SUFFICES ASSUME TypeInv, RootKept, [Next]_vars PROVE RootKept'
  OBVIOUS
<1>0. count \in [Paths -> Nat] /\ Root \in Paths
  BY TreeAssumption DEF TypeInv, Shapes
<1>1. ASSUME UNCHANGED <<primed, state, base>>, count'[Root] \in {count[Root], count[Root] + 1}
      PROVE  RootKept'
  <2>1. CASE primed
    <3>1. count[Root] \in Nat /\ state[Root] \in Remembered
      BY <1>0, <2>1 DEF RootKept, TypeInv, Shapes
    <3>2. state[Root].wbytes \in Nat
      BY <3>1 DEF Remembered
    <3> QED
      BY <1>1, <2>1, <3>1, <3>2 DEF RootKept
  <2>2. CASE ~primed
    BY <1>1, <2>2 DEF RootKept
  <2> QED
    BY <2>1, <2>2
<1>2. ASSUME NEW p \in Paths, Write(p) PROVE RootKept'
  BY <1>0, <1>1, <1>2 DEF Write, tracker, rows
<1>3. ASSUME NEW p \in Paths, CreateCgroup(p) \/ RemoveCgroup(p) PROVE RootKept'
  BY <1>0, <1>1, <1>3 DEF CreateCgroup, RemoveCgroup, tracker, rows
<1>4. ASSUME UNCHANGED <<kernel, tracker, rows>> PROVE RootKept'
  BY <1>1, <1>4 DEF kernel, tracker, rows
<1>5. ASSUME NEW c \in Paths, Enter(c) PROVE RootKept'
  BY <1>4, <1>5 DEF Enter
<1>6. ASSUME StartWalk \/ ReadCounter \/ ReadFails PROVE RootKept'
  BY <1>4, <1>6 DEF StartWalk, ReadCounter, ReadFails
<1>7. ASSUME Update PROVE RootKept'
  <2>1. /\ at = Root /\ primed' = TRUE /\ UNCHANGED kernel
        /\ state' = [p \in Paths |->
                       IF p \in Nodes
                       THEN [ino |-> ino[p], wbytes |-> Read[p], carry |-> Part(p).carry]
                       ELSE Unread]
        /\ base' = (IF primed THEN base ELSE Read[Root])
    BY <1>7, UpdateParts
  <2>2. Root \in Nodes /\ Read[Root] = count[Root]
    <3>1. Root \in Nodes
      BY <2>1, NodesRead
    <3> QED
      BY <1>0, <3>1 DEF Read, TypeInv, Shapes
  <2>3. PICK r : r = state'[Root]
    OBVIOUS
  <2>4. PICK c : c = Part(Root).carry /\ c \in Nat
    BY <2>1, <2>2, PartFacts
  <2>5. r = [ino |-> ino[Root], wbytes |-> count[Root], carry |-> c]
    BY <1>0, <2>1, <2>2, <2>3, <2>4
  <2>6. r.ino = 0 /\ r.wbytes = count[Root] /\ r # Unread /\ count[Root] \in Nat
    <3>1. ino[Root] = 0 /\ count[Root] \in Nat
      BY <1>0 DEF TypeInv, Cgroups
    <3>2. r \in Remembered
      BY <2>4, <2>5, <3>1 DEF Remembered
    <3> QED
      BY <2>5, <3>1, <3>2, UnreadAssumption DEF Remembered
  <2>7. base' <= count[Root]
    <3>1. CASE primed
      <4>1. state[Root] \in Remembered /\ base <= state[Root].wbytes /\ state[Root].wbytes <= count[Root]
        BY <1>0, <3>1 DEF RootKept, TypeInv, Shapes
      <4>2. state[Root].wbytes \in Nat /\ base \in Nat
        BY <4>1 DEF Remembered, TypeInv, Shapes
      <4> QED
        BY <2>1, <2>6, <3>1, <4>1, <4>2
    <3>2. CASE ~primed
      BY <2>1, <2>2, <2>6, <3>2
    <3> QED
      BY <3>1, <3>2
  <2> QED
    BY <2>1, <2>3, <2>6, <2>7 DEF RootKept, kernel
<1>8. ASSUME UNCHANGED vars PROVE RootKept'
  BY <1>4, <1>8 DEF vars
<1> QED
  BY <1>2, <1>3, <1>5, <1>6, <1>7, <1>8 DEF Next

(* What the root grew by.                                                  *)
LEMMA RootDelta ==
  ASSUME TypeInv, RootKept, at = Root
  PROVE  /\ Deltas[Root] = IF primed THEN count[Root] - state[Root].wbytes ELSE 0
         /\ Read[Root] = count[Root] /\ Root \in Nodes /\ count[Root] \in Nat
         /\ primed => state[Root].wbytes \in Nat
<1>1. Root \in Nodes /\ Read[Root] = count[Root] /\ count[Root] \in Nat /\ ino[Root] = 0
  <2>1. Root \in Nodes
    BY NodesRead
  <2>2. Read[Root] = count[Root]
    BY TreeAssumption DEF Read, TypeInv, Shapes
  <2> QED
    BY <2>1, <2>2, TreeAssumption DEF TypeInv, Shapes, Cgroups
<1>2. Deltas[Root] = Delta(Root, count[Root], 0)
  BY <1>1 DEF Deltas
<1>3. CASE primed
  <2>1. /\ state[Root] # Unread /\ state[Root].ino = 0 /\ state[Root] \in Remembered
        /\ state[Root].wbytes <= count[Root]
    BY <1>3, TreeAssumption DEF RootKept, TypeInv, Shapes
  <2>2. Before(Root, 0) = state[Root] /\ state[Root].wbytes \in Nat
    BY <2>1 DEF Before, Remembered
  <2> QED
    BY <1>1, <1>2, <1>3, <2>1, <2>2 DEF Delta
<1>4. CASE ~primed
  BY <1>1, <1>2, <1>4 DEF Delta
<1> QED
  BY <1>3, <1>4

(* What the carries of all nodes, and those forgotten, gain in an update.  *)
LEMMA UpdateCarries ==
  ASSUME TypeInv, Update
  PROVE  LET held   == [p \in Paths |-> IF p \in Nodes THEN Carry(p) ELSE 0]
             toHold == [p \in Paths |-> IF p \in Nodes THEN Part(p).carry ELSE 0]
         IN /\ Carried' + lostCarry' + SumFunctionOnSet(held, Paths)
                 = Carried + lostCarry + SumFunctionOnSet(toHold, Paths)
            /\ Carried \in Int /\ lostCarry \in Int /\ Carried' \in Int /\ lostCarry' \in Int
<1>1. /\ at = Root
      /\ state' = [p \in Paths |->
                     IF p \in Nodes
                     THEN [ino |-> ino[p], wbytes |-> Read[p], carry |-> Part(p).carry]
                     ELSE Unread]
      /\ lostCarry' = lostCarry + SumFunction([p \in Forgotten |-> state[p].carry])
  BY UpdateParts
<1>2. PICK held : held = [p \in Paths |-> IF p \in Nodes THEN Carry(p) ELSE 0]
  OBVIOUS
<1>3. PICK toHold : toHold = [p \in Paths |-> IF p \in Nodes THEN Part(p).carry ELSE 0]
  OBVIOUS
<1>4. IsFiniteSet(Paths) /\ Root \in Paths
  BY TreeAssumption
<1>5. SumFunctionOnSet(held, Paths) \in Int /\ SumFunctionOnSet(toHold, Paths) \in Int
  BY <1>1, <1>2, <1>3, UpdateCredits
<1>8. Carried' = SumFunctionOnSet(toHold, Paths)
  <2>1. PICK st : st = state'
    OBVIOUS
  <2>2. st \in [Paths -> Remembered \cup {Unread}]
    BY <2>1, ShapesKept DEF Shapes, Next
  <2>3. PICK S : S = {p \in Paths : st[p] # Unread}
    OBVIOUS
  <2>4. Carried' = SumFunction([p \in S |-> st[p].carry])
    BY <2>1, <2>3 DEF Carried
  <2>5. \A p \in Paths : /\ p \in S <=> p \in Nodes
                         /\ p \in Nodes => st[p].carry = Part(p).carry
    <3>1. ASSUME NEW p \in Nodes PROVE st[p] # Unread /\ st[p].carry = Part(p).carry
      <4>1. p \in Paths /\ Read[p] \in Nat /\ ino[p] \in Nat /\ Part(p).carry \in Nat
        BY <1>1, NodesRead, PartFacts, Ranges DEF Nodes
      <4>2. PICK c \in Nat : c = Part(p).carry
        BY <4>1
      <4>3. PICK r : r = st[p]
        OBVIOUS
      <4>4. r = [ino |-> ino[p], wbytes |-> Read[p], carry |-> c]
        BY <1>1, <2>1, <4>1, <4>2, <4>3
      <4>5. r \in [ino : Nat, wbytes : Nat, carry : Nat] /\ r.carry = c
        BY <4>1, <4>4
      <4> QED
        BY <4>2, <4>3, <4>5, UnreadAssumption
    <3>2. \A p \in Paths : p \notin Nodes => st[p] = Unread
      BY <1>1, <2>1
    <3> QED
      BY <2>3, <3>1, <3>2
  <2>6. [p \in Paths |-> IF p \in S THEN st[p].carry ELSE 0] = toHold
    BY <1>3, <2>5
  <2> QED
    BY <2>2, <2>3, <2>4, <2>6, SumOverAll
<1>9. /\ Carried = SumFunctionOnSet(held, Paths) + SumFunction([p \in Forgotten |-> state[p].carry])
      /\ SumFunction([p \in Forgotten |-> state[p].carry]) \in Int
  <2>1. PICK st \in [Paths -> Remembered \cup {Unread}] : st = state
    BY DEF TypeInv, Shapes
  <2>2. PICK S \in SUBSET Paths : S = {p \in Paths : st[p] # Unread}
    OBVIOUS
  <2>3. PICK F \in SUBSET Paths : F = Forgotten /\ \A p \in F : st[p] # Unread
    <3>1. Forgotten \in SUBSET Paths /\ \A p \in Forgotten : st[p] # Unread
      BY <2>1 DEF Forgotten
    <3> QED
      BY <3>1
  <2>4. PICK f : f = [p \in Paths |-> IF p \in F THEN st[p].carry ELSE 0]
    OBVIOUS
  <2>5. PICK s : s = [p \in Paths |-> IF p \in S THEN st[p].carry ELSE 0]
    OBVIOUS
  <2>6. /\ Carried = SumFunctionOnSet(s, Paths)
        /\ SumFunction([p \in Forgotten |-> state[p].carry]) = SumFunctionOnSet(f, Paths)
        /\ SumFunction([p \in Forgotten |-> state[p].carry]) \in Nat
    BY <2>1, <2>2, <2>3, <2>4, <2>5, SumOverAll DEF Carried
  <2>7. ASSUME NEW p \in Paths
        PROVE  s[p] = held[p] + f[p] /\ held[p] \in Int /\ f[p] \in Int
    <3>1. st[p] # Unread => st[p].carry \in Nat
      BY DEF Remembered
    <3>2. Before(p, ino[p]) = Unread \/ (Before(p, ino[p]) = st[p] /\ st[p] # Unread)
      BY <2>1 DEF Before
    <3>3. p \in F <=> st[p] # Unread /\ ~(p \in Nodes /\ Before(p, ino[p]) = st[p])
      BY <2>1, <2>3 DEF Forgotten
    <3> QED
      BY <1>2, <2>2, <2>4, <2>5, <3>1, <3>2, <3>3 DEF Carry
  <2>8. SumFunctionOnSet(s, Paths) = SumFunctionOnSet(held, Paths) + SumFunctionOnSet(f, Paths)
    BY <1>4, <2>7, SumOfSums
  <2> QED
    BY <2>6, <2>8
<1>10. lostCarry \in Nat
  BY DEF TypeInv, Shapes
<1> QED
  BY <1>1, <1>2, <1>3, <1>5, <1>8, <1>9, <1>10

(* Conservation: the rows of all updates come to the growth of the device  *)
(* since tracking began, plus what is held back from rows to come or was   *)
(* forgotten with its cgroup; for every tree, whatever is created, removed *)
(* or written while it is walked, and whatever reads fail.                 *)
THEOREM NoByteIsLost == Spec => []Conservation
<1>1. Init => RootKept /\ Conservation
  <2> SUFFICES ASSUME Init PROVE RootKept /\ Conservation
    OBVIOUS
  <2>1. RootKept
    BY DEF Init, RootKept
  <2>2. {p \in Paths : state[p] # Unread} = {}
    BY DEF Init
  <2>3. Carried = 0
    <3>1. PICK f : f = [p \in {} |-> state[p].carry]
      OBVIOUS
    <3>2. SumFunction(f) = 0
      BY <3>1, SumEmpty DEF SumFunction
    <3> QED
      BY <2>2, <3>1, <3>2 DEF Carried
  <2>4. TotalCredited = 0
    <3>1. DOMAIN credited = Paths /\ \A p \in Paths : credited[p] = 0
      BY DEF Init
    <3> QED
      BY <3>1, SumZero, TreeAssumption DEF TotalCredited, SumFunction
  <2> QED
    BY <2>1, <2>3, <2>4 DEF Conservation, RootGrowth, Init
<1>2. TypeInv /\ RootKept /\ Conservation /\ [Next]_vars => Conservation'
  <2> SUFFICES ASSUME TypeInv, RootKept, Conservation, [Next]_vars PROVE Conservation'
    OBVIOUS
  <2>1. ASSUME UNCHANGED <<tracker, rows>> PROVE Conservation'
    BY <2>1 DEF tracker, rows, Conservation, TotalCredited, RootGrowth, Carried
  <2>2. ASSUME Update PROVE Conservation'
    <3>1. /\ at = Root /\ primed' = TRUE
          /\ state' = [p \in Paths |->
                         IF p \in Nodes
                         THEN [ino |-> ino[p], wbytes |-> Read[p], carry |-> Part(p).carry]
                         ELSE Unread]
          /\ credited' = [p \in Paths |-> credited[p] + Row(p)]
          /\ base' = (IF primed THEN base ELSE Read[Root])
      BY <2>2, UpdateParts
    <3>2. PICK held : held = [p \in Paths |-> IF p \in Nodes THEN Carry(p) ELSE 0]
      OBVIOUS
    <3>3. PICK toHold : toHold = [p \in Paths |-> IF p \in Nodes THEN Part(p).carry ELSE 0]
      OBVIOUS
    <3>4. PICK row : row = [p \in Paths |-> Row(p)]
      OBVIOUS
    <3>5. /\ SumFunctionOnSet(row, Paths) \in Int /\ SumFunctionOnSet(held, Paths) \in Int
          /\ SumFunctionOnSet(toHold, Paths) \in Int /\ Deltas[Root] \in Int
          /\ SumFunctionOnSet(row, Paths) + SumFunctionOnSet(held, Paths)
               = SumFunctionOnSet(toHold, Paths) + Deltas[Root]
      BY <3>1, <3>2, <3>3, <3>4, UpdateCredits
    <3>6. IsFiniteSet(Paths) /\ Root \in Paths
      BY TreeAssumption
    <3>7. TotalCredited' = TotalCredited + SumFunctionOnSet(row, Paths) /\ TotalCredited \in Int
      <4>1. \A p \in Paths : /\ credited'[p] = credited[p] + row[p]
                             /\ credited[p] \in Int /\ row[p] \in Int
        <5>1. \A p \in Paths : Row(p) \in Int
          BY <3>1, PartFacts DEF Row
        <5> QED
          BY <3>1, <3>4, <5>1 DEF TypeInv, Shapes
      <4>2. TotalCredited = SumFunctionOnSet(credited, Paths)
            /\ TotalCredited' = SumFunctionOnSet(credited', Paths)
        BY <3>1 DEF TotalCredited, SumFunction, TypeInv, Shapes
      <4>3. PICK now, before : now = credited' /\ before = credited
        OBVIOUS
      <4>4. SumFunctionOnSet(now, Paths) = SumFunctionOnSet(before, Paths) + SumFunctionOnSet(row, Paths)
        BY <3>6, <4>1, <4>3, SumOfSums
      <4>5. SumFunctionOnSet(before, Paths) \in Int
        BY <3>6, <4>1, <4>3, SumInt
      <4> QED
        BY <4>2, <4>3, <4>4, <4>5
    <3>8. /\ Carried' + lostCarry' + SumFunctionOnSet(held, Paths)
               = Carried + lostCarry + SumFunctionOnSet(toHold, Paths)
          /\ Carried \in Int /\ lostCarry \in Int /\ Carried' \in Int /\ lostCarry' \in Int
      BY <2>2, <3>2, <3>3, UpdateCarries
    <3>10. RootGrowth' = RootGrowth + Deltas[Root] /\ RootGrowth \in Int
      <4>1. /\ Deltas[Root] = (IF primed THEN count[Root] - state[Root].wbytes ELSE 0)
            /\ Read[Root] = count[Root] /\ Root \in Nodes /\ count[Root] \in Nat
            /\ primed => state[Root].wbytes \in Nat
        BY <3>1, RootDelta
      <4>2. PICK c \in Nat : c = Part(Root).carry
        BY <3>1, <4>1, PartFacts
      <4>3. PICK r : r = state'[Root]
        OBVIOUS
      <4>4. r = [ino |-> ino[Root], wbytes |-> count[Root], carry |-> c]
        BY <3>1, <3>6, <4>1, <4>2, <4>3
      <4>5. state'[Root].wbytes = count[Root] /\ base \in Nat
        BY <4>3, <4>4 DEF TypeInv, Shapes
      <4> QED
        BY <3>1, <4>1, <4>5 DEF RootGrowth
    <3>9. TotalCredited = RootGrowth + Carried + lostCarry
      BY DEF Conservation
    <3>11. TotalCredited' = RootGrowth' + Carried' + lostCarry'
      BY <3>5, <3>7, <3>8, <3>9, <3>10
    <3> QED
      BY <3>11 DEF Conservation
  <2> QED
    BY <2>1, <2>2 DEF Next, Write, CreateCgroup, RemoveCgroup, Enter, StartWalk, ReadCounter,
                      ReadFails, vars
<1> QED
  BY <1>1, <1>2, TypesKept, RootKeptKept, PTL DEF Spec

-----------------------------------------------------------------------------
(* Unless a cgroup comes back while it is walked, a unit is credited what  *)
(* its own cgroups wrote.                                                  *)

LEMMA AliveAbove ==
  ASSUME Cgroups
  PROVE  \A p \in Paths : Alive(p) => \A q \in Upward[p] : Alive(q)
<1> DEFINE Good == {p \in Paths : Alive(p) => \A q \in Upward[p] : Alive(q)}
<1>1. Root \in Good
  BY UpwardStep, TreeAssumption
<1>2. \A p \in Paths \ {Root} : Parent[p] \in Good => p \in Good
  BY UpwardStep DEF Cgroups
<1> HIDE DEF Good
<1>3. Paths \subseteq Good
  BY <1>1, <1>2, TreeInduction
<1> QED
  BY <1>3 DEF Good

(* A known cgroup lives, and has had its turn or is still to be visited.   *)
LEMMA KnownAlive ==
  ASSUME Memory, NEW p \in Paths \ {Root}, Known(p)
  PROVE  Alive(p)
  BY DEF Memory, Remembers, Known, Alive

LEMMA KnownSeen ==
  ASSUME UnitsInv, AllVisited, at = Root
  PROVE  \A p \in Paths \ {Root} : Known(p) => seen[p] # Unread
<1> DEFINE Good == {p \in Paths : p = Root \/ (Known(p) => seen[p] # Unread)}
<1>0. Root \in Paths /\ Walking /\ Upward[at] = {Root}
  BY TreeAssumption, UpwardStep DEF AllVisited
<1>1. ASSUME NEW p \in todo PROVE FALSE
  <2>1. p \in Paths \ {Root} /\ Parent[p] \in Upward[at]
    BY DEF UnitsInv, TypeInv, Shapes, WalkInv
  <2>2. p \in Children(at)
    BY <1>0, <2>1 DEF Children
  <2> QED
    BY <2>2 DEF AllVisited
<1>2. ASSUME NEW p \in Paths \ {Root}, Parent[p] \in Good, Known(p) PROVE seen[p] # Unread
  <2>1. Listed(Parent[p])
    <3>1. CASE Parent[p] = Root
      BY <1>0, <3>1 DEF Listed
    <3>2. CASE Parent[p] # Root
      BY <1>2, <3>2 DEF UnitsInv, Memory, Remembers, Listed
    <3> QED
      BY <3>1, <3>2
  <2>2. Listed(p)
    BY <1>1, <1>2, <2>1 DEF UnitsInv, WalkFaithful, Faithful
  <2> QED
    BY <1>0, <2>2 DEF Listed
<1>3. Paths \subseteq Good
  <2>1. Root \in Good /\ \A p \in Paths \ {Root} : Parent[p] \in Good => p \in Good
    BY <1>0, <1>2
  <2> HIDE DEF Good
  <2> QED
    BY <2>1, TreeInduction
<1> QED
  BY <1>3

(* The walk of a tree nothing comes back to.                               *)
LEMMA FaithfulKept ==
  ASSUME RecreateInWalk = FALSE
  PROVE  UnitsInv /\ [Next]_vars => WalkFaithful'
<1> SUFFICES ASSUME UnitsInv, [Next]_vars PROVE WalkFaithful'
  OBVIOUS
<1>0. /\ TypeInv /\ Memory /\ WalkFaithful /\ Root \in Paths
      /\ inst \in [Paths -> Nat] /\ born \in [Paths -> Nat]
      /\ fd \in [Paths -> Nat] /\ ino \in [Paths -> Nat]
      /\ seen \in [Paths -> Nat \cup {Unread}]
  BY TreeAssumption DEF UnitsInv, TypeInv, Shapes
<1>1. ASSUME UNCHANGED <<inst, walk, state>> PROVE WalkFaithful'
  BY <1>0, <1>1 DEF WalkFaithful, Faithful, Listed, Walking, Known, walk
<1>2. ASSUME NEW p \in Paths, Write(p) PROVE WalkFaithful'
  BY <1>1, <1>2 DEF Write, tracker
<1>3. ASSUME NEW p \in Paths, CreateCgroup(p) PROVE WalkFaithful'
  <2>1. /\ p # Root /\ ~Alive(p) /\ inst' = [inst EXCEPT ![p] = born[p] + 1]
        /\ UNCHANGED <<walk, state>> /\ (Walking => ino[p] = 0)
    BY <1>3 DEF CreateCgroup, tracker
  <2>2. ino[p] = 0
    BY <1>0, <2>1 DEF TypeInv, WalkInv
  <2>3. \A q \in Paths : Listed(q)' <=> Listed(q)
    BY <2>1 DEF Listed, Walking, walk
  <2>4. ASSUME NEW q \in Paths \ {Root} PROVE Faithful(q)'
    <3>1. Faithful(q) /\ Parent[q] \in Paths
      BY <1>0, UpwardStep DEF WalkFaithful
    <3>2. CASE q = p
      <4>1. ~Known(p)'
        <5>1. inst'[p] = born[p] + 1 /\ born[p] \in Nat
          BY <1>0, <2>1
        <5>2. state[p] # Unread => state[p].ino <= born[p] /\ state[p].ino \in Nat
          BY <1>0 DEF TypeInv, Meters, Metered, Shapes, Remembered
        <5> QED
          BY <2>1, <5>1, <5>2 DEF Known
      <4> QED
        BY <2>1, <2>2, <2>3, <3>1, <3>2, <4>1 DEF Faithful, walk
    <3>3. CASE q # p
      <4>1. inst'[q] = inst[q] /\ (Known(q)' <=> Known(q))
        BY <1>0, <2>1, <3>3 DEF Known
      <4> QED
        BY <2>1, <2>3, <3>1, <4>1 DEF Faithful, walk
    <3> QED
      BY <3>2, <3>3
  <2> QED
    BY <2>4 DEF WalkFaithful
<1>4. ASSUME NEW p \in Paths, RemoveCgroup(p) PROVE WalkFaithful'
  <2>1. p # Root /\ inst' = [inst EXCEPT ![p] = 0] /\ UNCHANGED <<walk, state>>
    BY <1>4 DEF RemoveCgroup, tracker
  <2>2. \A q \in Paths : Listed(q)' <=> Listed(q)
    BY <2>1 DEF Listed, Walking, walk
  <2>3. ASSUME NEW q \in Paths \ {Root} PROVE Faithful(q)'
    <3>1. Faithful(q) /\ Parent[q] \in Paths
      BY <1>0, UpwardStep DEF WalkFaithful
    <3>2. inst'[q] \in {0, inst[q]}
      BY <1>0, <2>1
    <3>3. Known(q)' => Known(q)
      <4>1. state[q] # Unread => state[q].ino # 0
        BY <1>0 DEF Memory, Remembers
      <4> QED
        BY <2>1, <3>2, <4>1 DEF Known
    <3> QED
      BY <2>1, <2>2, <3>1, <3>2, <3>3 DEF Faithful, walk
  <2> QED
    BY <2>3 DEF WalkFaithful
<1>5. ASSUME NEW c \in Paths, Enter(c) PROVE WalkFaithful'
  <2>0. /\ Walking /\ at \in Paths /\ c # Root /\ Parent[c] = at /\ c \in todo
        /\ Upward[c] = {c} \cup Upward[at] /\ c \notin Upward[at]
        /\ ~Listed(c)
        /\ \A d \in Children(c) : d \notin Upward[c] /\ seen[d] = Unread
    BY <1>0, <1>5, Downward
  <2>1. UNCHANGED <<inst, seen, state>> /\ \A q : Known(q)' <=> Known(q)
    BY <1>5 DEF Enter, kernel, tracker, Known
  <2>2. CASE Alive(c)
    <3>1. /\ at' = c /\ fd' = [fd EXCEPT ![c] = inst[c]]
          /\ ino' = [q \in Paths |-> IF q \in Children(c) /\ Alive(q) THEN inst[q] ELSE ino[q]]
          /\ todo' = (todo \ {c}) \cup {d \in Children(c) : Alive(d)}
      BY <1>5, <2>2 DEF Enter, List
    <3>2. \A p \in Paths : Listed(p)' <=> Listed(p) \/ p = c
      BY <2>0, <2>1, <3>1, UnreadAssumption DEF Listed, Walking
    <3>3. ASSUME NEW q \in Paths \ {Root} PROVE Faithful(q)'
      <4>1. Faithful(q) /\ Parent[q] \in Paths /\ Faithful(c)
        BY <1>0, <2>0, UpwardStep DEF WalkFaithful
      <4>2. q \in Children(c) => ~Listed(q) /\ q # c
        BY <2>0, UpwardIn DEF Listed
      <4>3. ino'[q] = IF q \in Children(c) /\ Alive(q) THEN inst[q] ELSE ino[q]
        BY <3>1
      <4>4. q # c => fd'[q] = fd[q]
        BY <1>0, <3>1
      <4>5. fd'[c] = inst[c] /\ inst[c] = ino[c] /\ c \notin Children(c) /\ ino'[c] = ino[c]
        <5>1. ino[c] # 0 /\ inst[c] \in {0, ino[c]} /\ inst[c] # 0
          BY <2>0, <2>2, <4>1 DEF Faithful, Alive
        <5>2. c \notin Children(c)
          BY <2>0, UpwardIn
        <5> QED
          BY <1>0, <3>1, <5>1, <5>2
      <4>6. (ino[q] # 0 => inst[q] \in {0, ino[q]})' /\ (q \in todo => ino[q] # 0)'
        BY <2>1, <3>1, <4>1, <4>3 DEF Faithful, Alive
      <4>7. (Listed(q) => fd[q] = ino[q])'
        BY <3>2, <4>1, <4>2, <4>3, <4>4, <4>5 DEF Faithful
      <4>8. (Known(q) /\ Listed(Parent[q]) => q \in todo \/ Listed(q))'
        <5>1. CASE Parent[q] = c
          <6>1. q \in Children(c)
            BY <5>1 DEF Children
          <6> QED
            BY <1>0, <2>1, <3>1, <6>1, KnownAlive
        <5>2. CASE Parent[q] # c
          BY <2>1, <3>1, <3>2, <4>1, <5>2 DEF Faithful
        <5> QED
          BY <5>1, <5>2
      <4> QED
        BY <4>6, <4>7, <4>8 DEF Faithful
    <3> QED
      BY <3>3 DEF WalkFaithful
  <2>3. CASE ~Alive(c)
    <3>1. todo' = todo \ {c} /\ UNCHANGED <<at, fd, ino>>
      BY <1>5, <2>3 DEF Enter
    <3>2. \A p : Listed(p)' <=> Listed(p)
      BY <2>1, <3>1 DEF Listed, Walking
    <3>3. ASSUME NEW q \in Paths \ {Root} PROVE Faithful(q)'
      <4>1. Faithful(q)
        BY <1>0 DEF WalkFaithful
      <4>2. Known(q) => q # c
        BY <1>0, <2>3, KnownAlive
      <4> QED
        BY <2>1, <3>1, <3>2, <4>1, <4>2 DEF Faithful
    <3> QED
      BY <3>3 DEF WalkFaithful
  <2> QED
    BY <2>2, <2>3
<1>6. ASSUME StartWalk PROVE WalkFaithful'
  <2>1. /\ ~Walking /\ UNCHANGED <<inst, seen, state>> /\ at' = Root
        /\ ino' = [q \in Paths |-> IF q \in Children(Root) /\ Alive(q) THEN inst[q] ELSE ino[q]]
        /\ todo' = (todo \ {Root}) \cup {c \in Children(Root) : Alive(c)}
    BY <1>6 DEF StartWalk, List, kernel, tracker
  <2>2. todo = {} /\ \A p \in Paths : seen[p] = Unread /\ ino[p] = 0
    BY <1>0, <2>1 DEF TypeInv, WalkInv
  <2>3. \A p \in Paths : Listed(p)' => p = Root
    BY <2>1, <2>2, UpwardStep DEF Listed
  <2>4. ASSUME NEW q \in Paths \ {Root} PROVE Faithful(q)'
    <3>1. ~Listed(q)' /\ Parent[q] \in Paths
      BY <2>3, UpwardStep
    <3>2. (Known(q) /\ Listed(Parent[q]) => q \in todo)'
      <4>1. Known(q)' => Alive(q)
        BY <1>0, <2>1, KnownAlive DEF Known
      <4>2. Listed(Parent[q])' => q \in Children(Root)
        BY <2>3, <3>1 DEF Children
      <4> QED
        BY <2>1, <4>1, <4>2
    <3>3. (ino[q] # 0 => inst[q] \in {0, ino[q]})' /\ (q \in todo => ino[q] # 0)'
      BY <2>1, <2>2 DEF Alive
    <3> QED
      BY <3>1, <3>2, <3>3 DEF Faithful
  <2> QED
    BY <2>4 DEF WalkFaithful
<1>7. ASSUME ReadCounter PROVE WalkFaithful'
  <2>0. /\ Walking /\ at \in Paths \ {Root} /\ Parent[at] \in Paths
        /\ Upward[at] = {at} \cup Upward[Parent[at]] /\ at \notin Upward[Parent[at]]
        /\ at' = Parent[at] /\ at' \in Paths /\ at' # Unread
    BY <1>0, <1>7, Back
  <2>1. UNCHANGED <<inst, fd, ino, todo, state>> /\ Walking'
    BY <1>7, <2>0 DEF ReadCounter, kernel, tracker, Walking
  <2>2. Listed(at) /\ at \in Upward[at]
    BY <2>0, UpwardIn DEF Listed
  <2>3. ASSUME NEW p \in Paths, Listed(p)' PROVE Listed(p)
    BY <1>0, <1>7, <2>0, <2>2, <2>3 DEF Listed, ReadCounter, Vanished
  <2>4. ASSUME NEW p \in Paths \ {Root}, Known(p), Listed(p) PROVE Listed(p)'
    <3>1. CASE p # at /\ p \in Upward[at]
      BY <2>0, <2>1, <3>1 DEF Listed
    <3>2. CASE fd[at] = inst[at] /\ (p = at \/ seen[p] # Unread)
      <4>1. seen' = [seen EXCEPT ![at] = count[at]] /\ count[at] # Unread
        BY <1>0, <1>7, <2>0, <3>2, Ranges, UnreadAssumption DEF ReadCounter
      <4> QED
        BY <1>0, <3>2, <4>1 DEF Listed
    <3>3. CASE fd[at] # inst[at] /\ (p = at \/ seen[p] # Unread)
      <4>1. fd[at] = ino[at] /\ fd[at] # 0 /\ inst[at] \in {0, ino[at]}
        BY <1>0, <2>0, <2>2 DEF WalkFaithful, Faithful, TypeInv, WalkInv
      <4>2. ~Alive(at)
        BY <3>3, <4>1 DEF Alive
      <4>3. Alive(p)
        BY <1>0, <2>4, KnownAlive
      <4>4. at \notin Upward[p] /\ p # at
        BY <1>0, <4>2, <4>3, AliveAbove DEF TypeInv
      <4>5. seen'[p] = seen[p]
        BY <1>7, <3>3, <4>4 DEF ReadCounter, Vanished, Subtree
      <4> QED
        BY <3>3, <4>4, <4>5 DEF Listed
    <3> QED
      BY <2>0, <2>4, <3>1, <3>2, <3>3 DEF Listed
  <2>5. ASSUME NEW q \in Paths \ {Root} PROVE Faithful(q)'
    <3>1. Faithful(q) /\ Parent[q] \in Paths
      BY <1>0, UpwardStep DEF WalkFaithful
    <3>2. Known(q)' <=> Known(q)
      BY <2>1 DEF Known
    <3> QED
      BY <2>1, <2>3, <2>4, <3>1, <3>2 DEF Faithful
  <2> QED
    BY <2>5 DEF WalkFaithful
<1>8. ASSUME WalkOver PROVE WalkFaithful'
  <2>1. /\ at' = Unread /\ todo' = {} /\ \A p \in Paths : ino'[p] = 0 /\ seen'[p] = Unread
    BY <1>8 DEF WalkOver
  <2>2. \A p \in Paths : ~Listed(p)'
    BY <2>1 DEF Listed, Walking
  <2> QED
    BY <2>1, <2>2, UpwardStep DEF WalkFaithful, Faithful
<1>9. ASSUME ReadFails \/ Update PROVE WalkFaithful'
  BY <1>8, <1>9, UpdateParts DEF ReadFails
<1>10. ASSUME UNCHANGED vars PROVE WalkFaithful'
  BY <1>1, <1>10 DEF vars, kernel, tracker
<1> QED
  BY <1>2, <1>3, <1>4, <1>5, <1>6, <1>7, <1>9, <1>10 DEF Next

(* A complete walk leaves each cgroup it read remembered by what it read.  *)
LEMMA NodesFaithful ==
  ASSUME UnitsInv, at = Root, NEW p \in Nodes, p # Root
  PROVE  /\ fd[p] = ino[p] /\ fd[p] # 0 /\ fd[p] \in 1..MaxCgroups[p]
         /\ inst[p] \in {0, ino[p]} /\ Parent[p] \in Nodes
<1>1. p \in Paths /\ seen[p] # Unread /\ fd[p] \in 1..MaxCgroups[p] /\ Parent[p] \in Nodes
  BY NodesRead DEF UnitsInv
<1>2. Faithful(p) /\ Listed(p)
  BY <1>1 DEF UnitsInv, WalkFaithful, Listed
<1>3. fd[p] = ino[p] /\ fd[p] # 0
  BY <1>1, <1>2 DEF Faithful, UnitsInv, TypeInv, WalkInv
<1> QED
  BY <1>1, <1>2, <1>3 DEF Faithful

LEMMA RootRead ==
  ASSUME TypeInv, at = Root
  PROVE  Root \in Nodes /\ fd[Root] = 1 /\ ino[Root] = 0 /\ Root \in Paths
<1>1. Root \in Nodes /\ fd[Root] \in 1..MaxCgroups[Root]
  BY NodesRead
<1>2. fd[Root] <= born[Root] /\ born[Root] = 1 /\ ino[Root] = 0
  BY TreeAssumption DEF TypeInv, Cgroups
<1>3. MaxCgroups[Root] \in Nat /\ fd[Root] \in Nat
  BY TreeAssumption, Ranges
<1> QED
  BY <1>1, <1>2, <1>3, TreeAssumption

(* What is remembered of a cgroup read is the highest counter read of it.  *)
LEMMA DeltaIs ==
  ASSUME UnitsInv, at = Root, NEW p \in Nodes
  PROVE  Deltas[p] = IF primed THEN Read[p] - high[p][fd[p]] ELSE 0
<1>1. Deltas[p] = Delta(p, Read[p], ino[p])
  BY DEF Deltas
<1>2. /\ p \in Paths /\ Read[p] \in Nat /\ fd[p] \in 1..MaxCgroups[p]
      /\ high[p][fd[p]] \in Nat /\ high[p][fd[p]] <= Read[p]
  BY NodesRead DEF UnitsInv
<1>3. CASE ~primed
  BY <1>1, <1>3 DEF Delta
<1>4. CASE primed /\ p = Root
  <2>1. fd[p] = 1 /\ ino[p] = 0
    BY <1>4, RootRead DEF UnitsInv
  <2>2. state[p] # Unread /\ state[p].ino = 0 /\ state[p].wbytes = high[p][1]
    BY <1>4 DEF UnitsInv, RootKept, Memory
  <2>3. Before(p, ino[p]) = state[p]
    BY <2>1, <2>2 DEF Before
  <2> QED
    BY <1>1, <1>2, <1>4, <2>1, <2>2, <2>3 DEF Delta
<1>5. CASE primed /\ p # Root
  <2>1. fd[p] = ino[p] /\ Remembers(p)
    BY <1>2, <1>5, NodesFaithful DEF UnitsInv, Memory
  <2>2. CASE Before(p, ino[p]) = Unread
    <3>1. ~(state[p] # Unread /\ state[p].ino = fd[p])
      BY <2>1, <2>2 DEF Before
    <3>2. high[p][fd[p]] = 0
      BY <1>2, <2>1, <3>1 DEF Remembers
    <3> QED
      BY <1>1, <1>2, <1>5, <2>2, <3>2 DEF Delta
  <2>3. CASE Before(p, ino[p]) # Unread
    <3>1. Before(p, ino[p]) = state[p] /\ state[p] # Unread /\ state[p].ino = fd[p]
      BY <2>1, <2>3 DEF Before
    <3>2. state[p].wbytes = high[p][fd[p]]
      BY <2>1, <3>1 DEF Remembers
    <3> QED
      BY <1>1, <1>2, <1>5, <2>3, <3>1, <3>2 DEF Delta
  <2> QED
    BY <2>2, <2>3
<1> QED
  BY <1>3, <1>4, <1>5

LEMMA MemoryKept ==
  ASSUME RecreateInWalk = FALSE
  PROVE  UnitsInv /\ [Next]_vars => Memory'
<1> SUFFICES ASSUME UnitsInv, [Next]_vars PROVE Memory'
  OBVIOUS
<1>0. /\ TypeInv /\ Memory /\ Root \in Paths
      /\ inst \in [Paths -> Nat] /\ born \in [Paths -> Nat] /\ fd \in [Paths -> Nat]
      /\ \A p \in Paths \ {Root} : Remembers(p) /\ Parent[p] \in Paths
  BY TreeAssumption, UpwardStep DEF UnitsInv, TypeInv, Shapes, Memory
<1>1. ASSUME UNCHANGED <<tracker, rows>>, \A p \in Paths \ {Root} : Remembers(p)' PROVE Memory'
  BY <1>0, <1>1 DEF Memory, tracker, rows
<1>2. ASSUME UNCHANGED <<tracker, rows, inst, fd>> PROVE Memory'
  BY <1>0, <1>1, <1>2 DEF Remembers, Known, tracker, rows
<1>3. ASSUME NEW p \in Paths, Write(p) PROVE Memory'
  BY <1>2, <1>3 DEF Write, walk
<1>4. ASSUME NEW p \in Paths, CreateCgroup(p) PROVE Memory'
  <2>1. /\ p # Root /\ ~Alive(p) /\ inst' = [inst EXCEPT ![p] = born[p] + 1]
        /\ UNCHANGED <<walk, tracker, rows>> /\ born[p] < MaxCgroups[p]
    BY <1>4 DEF CreateCgroup
  <2>2. UNCHANGED <<fd, state, high>>
    BY <2>1 DEF walk, tracker, rows
  <2>3. ASSUME NEW q \in Paths \ {Root} PROVE Remembers(q)'
    <3>1. Remembers(q) /\ Parent[q] \in Paths
      BY <1>0
    <3>2. CASE q = p
      <4>1. born[p] + 1 \in 1..MaxCgroups[p] /\ born[p] + 1 > born[p] /\ inst'[p] = born[p] + 1
        <5>1. born[p] \in Nat /\ MaxCgroups[p] \in Nat
          BY <1>0, Ranges
        <5>2. inst'[p] = born[p] + 1
          BY <1>0, <2>1
        <5> QED
          BY <2>1, <5>1, <5>2
      <4>2. high[p][born[p] + 1] = 0
        BY <1>0, <4>1 DEF TypeInv, Cgroups
      <4>3. ~Known(p)'
        <5>1. state[p] # Unread => state[p].ino <= born[p] /\ state[p].ino \in Nat
          BY <1>0 DEF TypeInv, Meters, Metered, Shapes, Remembered
        <5>2. born[p] \in Nat
          BY <1>0
        <5> QED
          BY <2>2, <4>1, <5>1, <5>2 DEF Known
      <4> QED
        BY <2>2, <3>1, <3>2, <4>1, <4>2, <4>3 DEF Remembers
    <3>3. CASE q # p
      <4>1. inst'[q] = inst[q] /\ (Known(q)' <=> Known(q))
        BY <1>0, <2>1, <2>2, <3>3 DEF Known
      <4>2. Known(q) /\ Parent[q] # Root => Known(Parent[q])'
        <5>1. Known(q) => Parent[q] # p
          BY <1>0, <2>1, KnownAlive DEF TypeInv, Cgroups
        <5>2. Parent[q] # p => (Known(Parent[q])' <=> Known(Parent[q]))
          BY <1>0, <2>1, <2>2, <3>1 DEF Known
        <5> QED
          BY <3>1, <5>1, <5>2 DEF Remembers
      <4> QED
        BY <2>2, <3>1, <4>1, <4>2 DEF Remembers
    <3> QED
      BY <3>2, <3>3
  <2> QED
    BY <1>1, <2>1, <2>3
<1>5. ASSUME NEW p \in Paths, RemoveCgroup(p) PROVE Memory'
  <2>1. /\ p # Root /\ Alive(p) /\ \A c \in Children(p) : ~Alive(c)
        /\ inst' = [inst EXCEPT ![p] = 0] /\ UNCHANGED <<walk, tracker, rows>>
    BY <1>5 DEF RemoveCgroup
  <2>2. UNCHANGED <<fd, state, high>>
    BY <2>1 DEF walk, tracker, rows
  <2>3. ASSUME NEW q \in Paths \ {Root} PROVE Remembers(q)'
    <3>1. Remembers(q) /\ Parent[q] \in Paths
      BY <1>0
    <3>2. CASE q = p
      <4>1. inst'[p] = 0
        BY <1>0, <2>1
      <4>2. ~Known(p)'
        BY <2>2, <3>1, <3>2, <4>1 DEF Known, Remembers
      <4>3. \A i \in 1..MaxCgroups[q] : inst'[q] # i
        BY <3>2, <4>1, BoundsAssumption
      <4> QED
        BY <2>2, <3>1, <3>2, <4>2, <4>3 DEF Remembers
    <3>3. CASE q # p
      <4>1. inst'[q] = inst[q] /\ (Known(q)' <=> Known(q))
        BY <1>0, <2>1, <2>2, <3>3 DEF Known
      <4>2. Known(q) /\ Parent[q] # Root => Known(Parent[q])'
        <5>1. Known(q) => Parent[q] # p
          BY <1>0, <2>1, KnownAlive DEF Children
        <5>2. Parent[q] # p => (Known(Parent[q])' <=> Known(Parent[q]))
          BY <1>0, <2>1, <2>2, <3>1 DEF Known
        <5> QED
          BY <3>1, <5>1, <5>2 DEF Remembers
      <4> QED
        BY <2>2, <3>1, <4>1, <4>2 DEF Remembers
    <3> QED
      BY <3>2, <3>3
  <2> QED
    BY <1>1, <2>1, <2>3
<1>6. ASSUME \A p \in Paths : fd'[p] \in {0, fd[p], inst[p]}, UNCHANGED <<kernel, tracker, rows>>
      PROVE  Memory'
  <2>1. UNCHANGED <<inst, state, high>>
    BY <1>6 DEF kernel, tracker, rows
  <2>2. ASSUME NEW q \in Paths \ {Root} PROVE Remembers(q)'
    <3>1. Remembers(q) /\ Parent[q] \in Paths
      BY <1>0
    <3>2. \A i \in 1..MaxCgroups[q] : fd'[q] = i => inst[q] = i \/ fd[q] = i
      BY <1>6, BoundsAssumption
    <3>3. (Known(q)' <=> Known(q)) /\ (Known(Parent[q])' <=> Known(Parent[q]))
      BY <2>1 DEF Known
    <3> QED
      BY <2>1, <3>1, <3>2, <3>3 DEF Remembers
  <2> QED
    BY <1>1, <1>6, <2>2
<1>7. ASSUME NEW p \in Paths, List(p) PROVE \A q \in Paths : fd'[q] \in {fd[q], inst[q]}
  BY <1>0, <1>7 DEF List
<1>8. ASSUME NEW c \in Paths, Enter(c) PROVE Memory'
  BY <1>6, <1>7, <1>8 DEF Enter
<1>9. ASSUME StartWalk PROVE Memory'
  BY <1>0, <1>6, <1>7, <1>9 DEF StartWalk
<1>10. ASSUME ReadCounter PROVE Memory'
  BY <1>6, <1>10 DEF ReadCounter
<1>11. ASSUME ReadFails PROVE Memory'
  BY <1>6, <1>11 DEF ReadFails, WalkOver
<1>12. ASSUME Update PROVE Memory'
  <2>1. /\ at = Root /\ AllVisited /\ primed' = TRUE /\ UNCHANGED inst
        /\ fd' = [p \in Paths |-> 0]
        /\ state' = [p \in Paths |->
                       IF p \in Nodes
                       THEN [ino |-> ino[p], wbytes |-> Read[p], carry |-> Part(p).carry]
                       ELSE Unread]
        /\ high' = [p \in Paths |-> IF p \in Nodes THEN [high[p] EXCEPT ![fd[p]] = Read[p]]
                                    ELSE high[p]]
    BY <1>12, UpdateParts DEF WalkOver, kernel
  <2>2. ASSUME NEW p \in Nodes
        PROVE  /\ p \in Paths /\ state'[p] # Unread
               /\ state'[p].ino = ino[p] /\ state'[p].wbytes = Read[p]
               /\ state'[p].carry = Part(p).carry
               /\ fd[p] \in 1..MaxCgroups[p] /\ high'[p][fd[p]] = Read[p]
    <3>1. p \in Paths /\ Read[p] \in Nat /\ ino[p] \in Nat /\ fd[p] \in 1..MaxCgroups[p]
      BY <1>0, <2>1, NodesRead, Ranges DEF Nodes
    <3>2. PICK c \in Nat : c = Part(p).carry
      BY <1>0, <2>1, PartFacts
    <3>3. PICK r : r = state'[p]
      OBVIOUS
    <3>4. r = [ino |-> ino[p], wbytes |-> Read[p], carry |-> c]
      BY <2>1, <3>1, <3>2, <3>3
    <3>5. r \in [ino : Nat, wbytes : Nat, carry : Nat]
      BY <3>1, <3>4
    <3>6. high[p] \in [1..MaxCgroups[p] -> Nat]
      BY <1>0, <3>1 DEF TypeInv, Shapes
    <3>7. high'[p][fd[p]] = Read[p]
      BY <2>1, <3>1, <3>6
    <3> QED
      BY <3>1, <3>2, <3>3, <3>4, <3>5, <3>7, UnreadAssumption
  <2>3. \A p \in Paths : p \notin Nodes => state'[p] = Unread /\ high'[p] = high[p]
    BY <2>1
  <2>4. (state[Root] # Unread => state[Root].ino = 0 /\ state[Root].wbytes = high[Root][1])'
    BY <1>0, <2>1, <2>2, RootRead
  <2>5. ASSUME NEW p \in Paths, state'[p] # Unread, Children(p) = {} PROVE state'[p].carry = 0
    <3>1. p \in Nodes /\ Kids(p) = {}
      BY <2>3, <2>5 DEF Kids
    <3>2. Carry(p) = 0
      BY <1>0, <2>5 DEF Carry, Before, Memory
    <3> QED
      BY <1>0, <2>1, <2>2, <3>1, <3>2, PartFacts
  <2>6. ASSUME NEW p \in Paths \ {Root} PROVE Remembers(p)'
    <3>1. CASE p \in Nodes
      <4>1. /\ fd[p] = ino[p] /\ fd[p] # 0 /\ inst[p] \in {0, ino[p]} /\ Parent[p] \in Nodes
        BY <2>1, <3>1, NodesFaithful
      <4>2. \A i \in 1..MaxCgroups[p] : inst'[p] = i => ino[p] = i
        BY <2>1, <4>1, BoundsAssumption
      <4>3. \A i \in 1..MaxCgroups[p] : fd'[p] # i
        BY <2>1, BoundsAssumption
      <4>4. ASSUME Known(p)', Parent[p] # Root PROVE Known(Parent[p])'
        <5>1. Alive(p)
          BY <2>1, <2>2, <3>1, <4>1, <4>4 DEF Known, Alive
        <5>2. Alive(Parent[p])
          BY <1>0, <5>1 DEF TypeInv, Cgroups
        <5>3. inst[Parent[p]] \in {0, ino[Parent[p]]}
          BY <2>1, <4>1, <4>4, NodesFaithful
        <5> QED
          BY <2>1, <2>2, <4>1, <5>2, <5>3 DEF Known, Alive
      <4> QED
        BY <2>1, <2>2, <3>1, <4>1, <4>2, <4>3, <4>4 DEF Remembers
    <3>2. CASE p \notin Nodes
      <4>1. state'[p] = Unread /\ high'[p] = high[p] /\ seen[p] = Unread
        BY <1>0, <2>1, <2>3, <3>2, NodesRead
      <4>2. ~Known(p)
        BY <2>1, <4>1, KnownSeen
      <4>3. \A i \in 1..MaxCgroups[p] : inst[p] = i => high[p][i] = 0
        BY <1>0, <4>2 DEF Remembers, Known
      <4>4. \A i \in 1..MaxCgroups[p] : fd'[p] # i
        BY <2>1, BoundsAssumption
      <4> QED
        BY <2>1, <4>1, <4>3, <4>4 DEF Remembers, Known
    <3> QED
      BY <3>1, <3>2
  <2> QED
    BY <2>1, <2>4, <2>5, <2>6 DEF Memory
<1>13. ASSUME UNCHANGED vars PROVE Memory'
  BY <1>2, <1>13 DEF vars, kernel, walk
<1> QED
  BY <1>3, <1>4, <1>5, <1>8, <1>9, <1>10, <1>11, <1>12, <1>13 DEF Next

LEMMA UnitsKept ==
  ASSUME RecreateInWalk = FALSE
  PROVE  Spec => []UnitsInv
<1>1. Init => UnitsInv
  <2> SUFFICES ASSUME Init PROVE RootKept /\ Memory /\ WalkFaithful
    BY InitTypes DEF UnitsInv
  <2>1. RootKept
    BY DEF Init, RootKept
  <2>2. \A p \in Paths : ~Listed(p) /\ state[p] = Unread /\ ino[p] = 0
                       /\ \A i \in 1..MaxCgroups[p] : high[p][i] = 0
    BY DEF Init, Listed, Walking
  <2>3. Memory
    BY <2>2, TreeAssumption DEF Init, Memory, Remembers, Known
  <2>4. WalkFaithful
    BY <2>2, UpwardStep DEF Init, WalkFaithful, Faithful
  <2> QED
    BY <2>1, <2>3, <2>4
<1>2. UnitsInv /\ [Next]_vars => UnitsInv'
  <2>1. TypeInv /\ [Next]_vars => TypeInv'
    BY ShapesKept, CgroupsKept, WalkKept, MetersKept DEF TypeInv
  <2> QED
    BY <2>1, RootKeptKept, MemoryKept, FaithfulKept DEF UnitsInv
<1> QED
  BY <1>1, <1>2, PTL DEF Spec

(* What an update does to the rows of one path.                            *)
LEMMA RowsOfUpdate ==
  ASSUME UnitsInv, Update, NEW p \in Paths
  PROVE  /\ credited'[p] = credited[p] + Row(p) /\ credited[p] \in Nat
         /\ exact'[p] = (IF Leaf(p) THEN exact[p] + Row(p) ELSE exact[p]) /\ exact[p] \in Nat
         /\ \E d \in Nat : /\ unit'[p] = unit[p] + d /\ unit[p] \in Nat
                           /\ Row(p) \in Nat /\ (Kids(p) = {} => Row(p) <= d)
                           /\ Children(p) = {} => Row(p) = d
<1>1. /\ at = Root
      /\ credited' = [q \in Paths |-> credited[q] + Row(q)]
      /\ exact' = [q \in Paths |-> IF Leaf(q) THEN exact[q] + Row(q) ELSE exact[q]]
      /\ unit' = [q \in Paths |-> IF primed /\ q \in Nodes
                                  THEN unit[q] + (Read[q] - high[q][fd[q]])
                                  ELSE unit[q]]
  BY UpdateParts
<1>2. credited[p] \in Nat /\ exact[p] \in Nat /\ unit[p] \in Nat
  BY DEF UnitsInv, TypeInv, Shapes
<1>3. CASE p \in Nodes
  <2>1. Deltas[p] \in Nat /\ Deltas[p] = IF primed THEN Read[p] - high[p][fd[p]] ELSE 0
    BY <1>1, <1>3, DeltaIs, PartFacts DEF UnitsInv
  <2>2. unit'[p] = unit[p] + Deltas[p]
    BY <1>1, <1>2, <1>3, <2>1
  <2>3. Row(p) = Part(p).residue
    BY <1>3 DEF Row
  <2>4. Row(p) \in Nat /\ Row(p) <= Deltas[p]
    BY <1>1, <1>3, <2>3, PartFacts DEF UnitsInv
  <2>5. ASSUME Children(p) = {} PROVE Row(p) = Deltas[p]
    <3>1. Kids(p) = {} /\ Carry(p) = 0
      BY <2>5 DEF Kids, Carry, Before, UnitsInv, Memory
    <3> QED
      BY <1>1, <1>3, <2>3, <3>1, PartFacts DEF UnitsInv
  <2> QED
    BY <1>1, <1>2, <2>1, <2>2, <2>4, <2>5
<1>4. CASE p \notin Nodes
  <2>1. Row(p) = 0 /\ unit'[p] = unit[p] + 0
    BY <1>1, <1>2, <1>4 DEF Row
  <2> QED
    BY <1>1, <1>2, <2>1
<1> QED
  BY <1>3, <1>4

(* UnitsExact: a unit that holds no others is credited exactly what was    *)
(* read of its own cgroups since tracking began, each from zero; for every *)
(* tree and any number of walks, provided no cgroup comes back between     *)
(* its listing and the end of the walk (restart_in_walk shows what happens *)
(* when one does).                                                         *)
THEOREM UnitsAreExact ==
  ASSUME RecreateInWalk = FALSE
  PROVE  Spec => []UnitsExact
<1>1. Init => UnitsExact
  BY DEF Init, UnitsExact
<1>2. UnitsInv /\ UnitsExact /\ [Next]_vars => UnitsExact'
  <2> SUFFICES ASSUME UnitsInv, UnitsExact, [Next]_vars PROVE UnitsExact'
    OBVIOUS
  <2>1. ASSUME UNCHANGED rows PROVE UnitsExact'
    BY <2>1 DEF rows, UnitsExact
  <2>2. ASSUME Update, NEW p \in Paths \ Slices, Children(p) = {} PROVE credited'[p] = unit'[p]
    <3>1. credited[p] = unit[p]
      BY <2>2 DEF UnitsExact
    <3> QED
      BY <2>2, <3>1, RowsOfUpdate
  <2> QED
    BY <2>1, <2>2 DEF UnitsExact, Next, Write, CreateCgroup, RemoveCgroup, Enter, StartWalk,
                      ReadCounter, ReadFails, vars
<1> QED
  BY <1>1, <1>2, UnitsKept, PTL DEF Spec

(* UnitsNotOvercharged: under the same condition no unit is charged, in    *)
(* rows of basis "kernel", more than was read of its cgroups since         *)
(* tracking began; for every tree, whatever reads fail.                    *)
THEOREM UnitsAreNotOvercharged ==
  ASSUME RecreateInWalk = FALSE
  PROVE  Spec => []UnitsNotOvercharged
<1>1. Init => UnitsNotOvercharged
  BY DEF Init, UnitsNotOvercharged
<1>2. UnitsInv /\ UnitsNotOvercharged /\ [Next]_vars => UnitsNotOvercharged'
  <2> SUFFICES ASSUME UnitsInv, UnitsNotOvercharged, [Next]_vars PROVE UnitsNotOvercharged'
    OBVIOUS
  <2>1. ASSUME UNCHANGED rows PROVE UnitsNotOvercharged'
    BY <2>1 DEF rows, UnitsNotOvercharged
  <2>2. ASSUME Update, NEW p \in Paths PROVE exact'[p] <= unit'[p]
    <3>1. exact[p] <= unit[p] /\ (Leaf(p) => Kids(p) = {})
      BY DEF UnitsNotOvercharged, Leaf
    <3> QED
      BY <2>2, <3>1, RowsOfUpdate
  <2> QED
    BY <2>1, <2>2 DEF UnitsNotOvercharged, Next, Write, CreateCgroup, RemoveCgroup, Enter,
                      StartWalk, ReadCounter, ReadFails, vars
<1> QED
  BY <1>1, <1>2, UnitsKept, PTL DEF Spec
-----------------------------------------------------------------------------
(***************************************************************************)
(* Only a byte written during a walk is credited twice.  What is held back *)
(* is bounded by what may still be: were no more written during walks, a   *)
(* node would be short of what its children have in the update under way,  *)
(* and in the one after it.                                                *)
(***************************************************************************)
(* The walk may yet read this cgroup.                                      *)
Pending(c) == ~Walking \/ c \in Upward[at] \/ Upward[c] \cap todo # {}

(* What the next update will have of a cgroup, as far as is written, and   *)
(* what is left for the one after it.                                      *)
DueOf(c)  == Unaccounted(c) + (IF Pending(c) THEN Unseen(c) ELSE 0)
LateOf(c) == IF Pending(c) THEN 0 ELSE Unseen(c)
Due(p)    == SumFunctionOnSet([c \in Paths |-> DueOf(c)], Children(p))
Late(p)   == SumFunctionOnSet([c \in Paths |-> LateOf(c)], Children(p))

Excess(a, b) == IF a > b THEN a - b ELSE 0

ToHold(p) ==
  IF Alive(p) \/ seen[p] # Unread
  THEN Excess(Due(p), DueOf(p)) + Excess(Late(p), LateOf(p))
  ELSE 0
ToHoldAll == SumFunctionOnSet([p \in Paths |-> ToHold(p)], Paths)

Amounts ==
  /\ \A p \in Paths :
       /\ Unaccounted(p) \in Nat /\ Unseen(p) \in Nat
       /\ DueOf(p) \in Nat /\ LateOf(p) \in Nat
       /\ Due(p) \in Nat /\ Late(p) \in Nat /\ ToHold(p) \in Nat
  /\ ToHoldAll \in Nat

LEMMA ExcessNat == \A a, b \in Nat : Excess(a, b) \in Nat
  BY DEF Excess

LEMMA ChildrenFinite ==
  ASSUME NEW p \in Paths
  PROVE  IsFiniteSet(Children(p)) /\ Children(p) \subseteq Paths
  BY TreeAssumption, FS_Subset DEF Children

LEMMA AmountsNat == UnitsInv => Amounts
<1> SUFFICES ASSUME UnitsInv PROVE Amounts
  OBVIOUS
<1>1. ASSUME NEW p \in Paths
      PROVE  Unaccounted(p) \in Nat /\ Unseen(p) \in Nat /\ DueOf(p) \in Nat /\ LateOf(p) \in Nat
  <2>1. Metered(p) /\ count[p] \in Nat
    BY DEF UnitsInv, TypeInv, Meters, Shapes
  <2>2. /\ Alive(p) => high[p][inst[p]] \in Nat
        /\ seen[p] # Unread => seen[p] \in Nat /\ high[p][fd[p]] \in Nat
    BY Ranges DEF UnitsInv
  <2>3. Unaccounted(p) \in Nat
    BY <2>1, <2>2 DEF Metered, Unaccounted
  <2>4. Unseen(p) \in Nat
    BY <2>1, <2>2 DEF Metered, Unseen
  <2> QED
    BY <2>3, <2>4 DEF DueOf, LateOf
<1>2. PICK due, late : due = [c \in Paths |-> DueOf(c)] /\ late = [c \in Paths |-> LateOf(c)]
  BY Zenon
<1>3. ASSUME NEW p \in Paths PROVE Due(p) \in Nat /\ Late(p) \in Nat
  <2>1. IsFiniteSet(Children(p)) /\ \A c \in Children(p) : due[c] \in Nat /\ late[c] \in Nat
    BY <1>1, <1>2, ChildrenFinite
  <2> QED
    BY <1>2, <2>1, SumNat DEF Due, Late
<1>4. ASSUME NEW p \in Paths PROVE ToHold(p) \in Nat
  <2>1. /\ Excess(Due(p), DueOf(p)) \in Nat
        /\ Excess(Late(p), LateOf(p)) \in Nat
    BY <1>1, <1>3, ExcessNat
  <2> QED
    BY <2>1 DEF ToHold
<1>5. PICK hold : hold = [p \in Paths |-> ToHold(p)]
  BY Zenon
<1>6. SumFunctionOnSet(hold, Paths) \in Nat
  BY <1>4, <1>5, SumNat, TreeAssumption
<1> QED
  BY <1>1, <1>3, <1>4, <1>5, <1>6 DEF Amounts, ToHoldAll

LEMMA AmountsBoth ==
  ASSUME UnitsInv, UnitsInv'
  PROVE  Amounts /\ Amounts'
  BY AmountsNat, PTL

LEMMA ExcessNoMore ==
  ASSUME NEW a \in Nat, NEW b \in Nat, NEW c \in Nat, a <= c
  PROVE  Excess(a, b) <= Excess(c, b)
  BY DEF Excess

LEMMA ExcessOfSums ==
  ASSUME NEW f, NEW g, NEW S, IsFiniteSet(S), NEW a \in Nat, NEW b \in Nat,
         \A x \in S : f[x] \in Nat /\ g[x] \in Nat /\ f[x] <= g[x],
         a = b \/ \A x \in S : f[x] = 0
  PROVE  Excess(SumFunctionOnSet(f, S), a) <= Excess(SumFunctionOnSet(g, S), b)
<1>1. PICK m, n \in Nat : m = SumFunctionOnSet(f, S) /\ n = SumFunctionOnSet(g, S)
  BY SumNat
<1>2. m <= n
  BY <1>1, SumAtMost
<1>3. a = b \/ m = 0
  BY <1>1, SumZero
<1>4. Excess(m, a) <= Excess(n, b)
  BY <1>2, <1>3 DEF Excess
<1> QED
  BY <1>1, <1>4

(* A node that stands still and whose children have no more, holds no more.*)
LEMMA HoldsNoMore ==
  ASSUME UnitsInv, UnitsInv', NEW p \in Paths,
         (Alive(p) \/ seen[p] # Unread)' =>
           /\ Alive(p) \/ seen[p] # Unread
           /\ DueOf(p)' = DueOf(p)
           /\ LateOf(p)' = LateOf(p) \/ \A c \in Children(p) : LateOf(c)' = 0
           /\ \A c \in Children(p) : DueOf(c)' <= DueOf(c) /\ LateOf(c)' <= LateOf(c)
  PROVE  ToHold(p)' <= ToHold(p)
<1>1. Amounts /\ Amounts'
  BY AmountsBoth
<1>2. CASE ~(Alive(p) \/ seen[p] # Unread)'
  <2>1. ToHold(p)' = 0 /\ ToHold(p) \in Nat
    BY <1>1, <1>2 DEF ToHold, Amounts
  <2> QED
    BY <2>1
<1>3. CASE (Alive(p) \/ seen[p] # Unread)'
  <2>1. PICK due, late : due = [c \in Paths |-> DueOf(c)] /\ late = [c \in Paths |-> LateOf(c)]
    BY Zenon
  <2>2. PICK due2, late2 : due2 = [c \in Paths |-> DueOf(c)'] /\ late2 = [c \in Paths |-> LateOf(c)']
    BY Zenon
  <2>3. PICK d, l, d2, l2 \in Nat :
          d = DueOf(p) /\ l = LateOf(p) /\ d2 = DueOf(p)' /\ l2 = LateOf(p)'
    BY <1>1 DEF Amounts
  <2>4. IsFiniteSet(Children(p)) /\ \A c \in Children(p) :
          /\ due[c] \in Nat /\ late[c] \in Nat /\ due2[c] \in Nat /\ late2[c] \in Nat
          /\ due2[c] <= due[c] /\ late2[c] <= late[c]
    BY <1>1, <1>3, <2>1, <2>2, ChildrenFinite DEF Amounts
  <2>5. d2 = d /\ (l2 = l \/ \A c \in Children(p) : late2[c] = 0)
    BY <1>3, <2>2, <2>3, ChildrenFinite
  <2>6. /\ Excess(SumFunctionOnSet(due2, Children(p)), d2)
             <= Excess(SumFunctionOnSet(due, Children(p)), d)
        /\ Excess(SumFunctionOnSet(late2, Children(p)), l2)
             <= Excess(SumFunctionOnSet(late, Children(p)), l)
    <3>1. /\ \A c \in Children(p) : due2[c] \in Nat /\ due[c] \in Nat /\ due2[c] <= due[c]
          /\ \A c \in Children(p) : late2[c] \in Nat /\ late[c] \in Nat /\ late2[c] <= late[c]
      BY <2>4
    <3> QED
      BY <2>4, <2>5, <3>1, ExcessOfSums
  <2>7. /\ SumFunctionOnSet(due2, Children(p)) = Due(p)'
        /\ SumFunctionOnSet(due, Children(p)) = Due(p)
        /\ SumFunctionOnSet(late2, Children(p)) = Late(p)'
        /\ SumFunctionOnSet(late, Children(p)) = Late(p)
    BY <2>1, <2>2 DEF Due, Late
  <2>8. /\ ToHold(p)' = Excess(Due(p)', d2) + Excess(Late(p)', l2)
        /\ ToHold(p) = Excess(Due(p), d) + Excess(Late(p), l)
    <3>1. ToHold(p)' = Excess(Due(p), DueOf(p))' + Excess(Late(p), LateOf(p))'
      BY <1>3 DEF ToHold
    <3> QED
      BY <1>3, <2>3, <3>1 DEF ToHold, Excess
  <2>9. /\ Excess(Due(p)', d2) \in Nat /\ Excess(Late(p)', l2) \in Nat
        /\ Excess(Due(p), d) \in Nat /\ Excess(Late(p), l) \in Nat
    BY <1>1, ExcessNat DEF Amounts
  <2> QED
    BY <2>6, <2>7, <2>8, <2>9
<1> QED
  BY <1>2, <1>3

Barren(p) == \A c \in Children(p) : DueOf(c) = 0 /\ LateOf(c) = 0
BarrenHoldNone == \A p \in Paths : Barren(p) => ToHold(p) = 0

LEMMA HoldsNone == UnitsInv => BarrenHoldNone
<1> SUFFICES ASSUME UnitsInv, NEW p \in Paths, Barren(p) PROVE ToHold(p) = 0
  BY DEF BarrenHoldNone
<1>1. PICK d, l \in Nat : d = DueOf(p) /\ l = LateOf(p)
  BY AmountsNat DEF Amounts
<1>2. PICK due, late : due = [c \in Paths |-> DueOf(c)] /\ late = [c \in Paths |-> LateOf(c)]
  BY Zenon
<1>3. IsFiniteSet(Children(p)) /\ \A c \in Children(p) : due[c] = 0 /\ late[c] = 0
  BY <1>2, ChildrenFinite DEF Barren
<1>4. Due(p) = 0 /\ Late(p) = 0
  BY <1>2, <1>3, SumZero DEF Due, Late
<1>5. Excess(0, d) = 0 /\ Excess(0, l) = 0
  BY DEF Excess
<1> QED
  BY <1>1, <1>4, <1>5 DEF ToHold

LEMMA AllHoldNoMore ==
  ASSUME UnitsInv, UnitsInv', \A p \in Paths : ToHold(p)' <= ToHold(p)
  PROVE  ToHoldAll' <= ToHoldAll
<1>1. Amounts /\ Amounts'
  BY AmountsBoth
<1>2. PICK hold, hold2 : hold = [p \in Paths |-> ToHold(p)] /\ hold2 = [p \in Paths |-> ToHold(p)']
  OBVIOUS
<1>3. \A p \in Paths : hold[p] \in Int /\ hold2[p] \in Int /\ hold2[p] <= hold[p]
  BY <1>1, <1>2 DEF Amounts
<1>4. SumFunctionOnSet(hold2, Paths) <= SumFunctionOnSet(hold, Paths)
  BY <1>3, SumAtMost, TreeAssumption
<1> QED
  BY <1>2, <1>4 DEF ToHoldAll

(* Two paths above a third: one is above the other.                        *)
LEMMA OneWayUp ==
  \A x \in Paths : \A q, c \in Upward[x] : q \in Upward[c] \/ c \in Upward[q]
<1> DEFINE Good == {x \in Paths : \A q, c \in Upward[x] : q \in Upward[c] \/ c \in Upward[q]}
<1>1. Root \in Good
  BY UpwardStep, TreeAssumption
<1>2. ASSUME NEW x \in Paths \ {Root}, Parent[x] \in Good PROVE x \in Good
  <2>1. Upward[x] = {x} \cup Upward[Parent[x]]
    BY UpwardStep
  <2>2. ASSUME NEW q \in Upward[x], NEW c \in Upward[x] PROVE q \in Upward[c] \/ c \in Upward[q]
    BY <1>2, <2>1
  <2> QED
    BY <2>2
<1> HIDE DEF Good
<1>3. Paths \subseteq Good
  BY <1>1, <1>2, TreeInduction
<1> QED
  BY <1>3 DEF Good

LEMMA AboveEachOther ==
  ASSUME NEW p \in Paths, NEW q \in Upward[p], p \in Upward[q]
  PROVE  p = q
<1> SUFFICES ASSUME p # q PROVE FALSE
  OBVIOUS
<1>1. q \in Paths /\ Upward[q] \subseteq Upward[p]
  BY UpwardIn, UpwardClosed
<1>2. p # Root
  BY <1>1, UpwardStep
<1>3. q \in Upward[Parent[p]] /\ Parent[p] \in Paths
  BY <1>2, UpwardStep
<1>4. p \in Upward[Parent[p]]
  BY <1>3, UpwardClosed
<1> QED
  BY <1>2, <1>4, NotAboveItself

(* Below a path on the way to another there is a child on the way.         *)
LEMMA ChildToward ==
  \A x \in Paths : \A a \in Upward[x] \ {x} : \E d \in Children(a) : d \in Upward[x]
<1> DEFINE Good == {x \in Paths : \A a \in Upward[x] \ {x} : \E d \in Children(a) : d \in Upward[x]}
<1>1. Root \in Good
  BY UpwardStep, TreeAssumption
<1>2. ASSUME NEW x \in Paths \ {Root}, Parent[x] \in Good PROVE x \in Good
  <2>1. Upward[x] = {x} \cup Upward[Parent[x]] /\ x \in Children(Parent[x])
    BY UpwardStep DEF Children
  <2>2. ASSUME NEW a \in Upward[x] \ {x} PROVE \E d \in Children(a) : d \in Upward[x]
    BY <1>2, <2>1
  <2> QED
    BY <2>2
<1> HIDE DEF Good
<1>3. Paths \subseteq Good
  BY <1>1, <1>2, TreeInduction
<1> QED
  BY <1>3 DEF Good

(* There is but one.                                                       *)
LEMMA OneChildToward ==
  ASSUME NEW x \in Paths, NEW a \in Paths, NEW d \in Children(a), NEW e \in Children(a),
         d \in Upward[x], e \in Upward[x]
  PROVE  d = e
<1>1. d \in Paths \ {Root} /\ e \in Paths \ {Root} /\ Parent[d] = a /\ Parent[e] = a
  BY DEF Children
<1>2. Upward[d] = {d} \cup Upward[a] /\ Upward[e] = {e} \cup Upward[a]
  BY <1>1, UpwardStep
<1>3. d \notin Upward[a] /\ e \notin Upward[a]
  BY <1>1, NotAboveItself
<1>4. d \in Upward[e] \/ e \in Upward[d]
  BY OneWayUp
<1> QED
  BY <1>2, <1>3, <1>4

LEMMA PendingAbove ==
  ASSUME TypeInv, NEW x \in Paths, Pending(x), NEW c \in Upward[x]
  PROVE  Pending(c)
<1> SUFFICES ASSUME Walking PROVE Pending(c)
  BY DEF Pending
<1>1. at \in Paths
  BY UnreadAssumption DEF TypeInv, Shapes, Walking
<1>2. CASE x \in Upward[at]
  BY <1>1, <1>2, UpwardClosed DEF Pending
<1>3. CASE \E q \in Upward[x] : q \in todo
  <2>1. PICK q \in Upward[x] : q \in todo
    BY <1>3
  <2>2. q \in Paths \ {Root} /\ Parent[q] \in Upward[at]
    BY <2>1 DEF TypeInv, Shapes, WalkInv
  <2>3. CASE q \in Upward[c]
    BY <2>1, <2>3 DEF Pending
  <2>4. CASE c \in Upward[q] /\ c # q
    <3>1. c \in Upward[Parent[q]]
      BY <2>2, <2>4, UpwardStep
    <3> QED
      BY <1>1, <2>2, <3>1, UpwardClosed DEF Pending
  <2> QED
    BY <2>1, <2>3, <2>4, OneWayUp
<1> QED
  BY <1>2, <1>3 DEF Pending
(* What lives is visited in turn: nothing changes when it is.              *)
LEMMA HoldsSame ==
  ASSUME UnitsInv, UnitsInv',
         UNCHANGED <<inst, count, high, seen>>,
         \A c \in Paths : seen[c] # Unread => fd'[c] = fd[c],
         \A c \in Paths : Alive(c) => (Pending(c)' <=> Pending(c))
  PROVE  \A p \in Paths : ToHold(p)' <= ToHold(p)
<1>1. Amounts
  BY AmountsNat
<1>2. ASSUME NEW c \in Paths
      PROVE  /\ DueOf(c)' = DueOf(c) /\ LateOf(c)' = LateOf(c)
             /\ (Alive(c) \/ seen[c] # Unread)' => Alive(c) \/ seen[c] # Unread
  <2>1. Unaccounted(c)' = Unaccounted(c)
    BY DEF Unaccounted
  <2>2. Unseen(c)' = Unseen(c) /\ (~Alive(c) => Unseen(c) = 0)
    BY DEF Unseen, Alive
  <2>3. Alive(c)' <=> Alive(c)
    BY DEF Alive
  <2>4. CASE Alive(c)
    <3>1. Pending(c)' <=> Pending(c)
      BY <2>4
    <3>2. DueOf(c)' = DueOf(c) /\ LateOf(c)' = LateOf(c)
      BY <2>1, <2>2, <3>1 DEF DueOf, LateOf
    <3> QED
      BY <2>3, <3>2
  <2>5. CASE ~Alive(c)
    <3>1. Unseen(c)' = 0 /\ Unseen(c) = 0
      BY <2>2, <2>5
    <3>2. DueOf(c) = Unaccounted(c) /\ LateOf(c) = 0
      BY <1>1, <3>1 DEF DueOf, LateOf, Amounts
    <3>3. Unaccounted(c)' \in Nat
      BY <1>1, <2>1 DEF Amounts
    <3>4. DueOf(c)' = Unaccounted(c)' /\ LateOf(c)' = 0
      BY <3>1, <3>3 DEF DueOf, LateOf
    <3> QED
      BY <2>1, <2>3, <3>2, <3>4
  <2> QED
    BY <2>4, <2>5
<1>3. ASSUME NEW p \in Paths PROVE ToHold(p)' <= ToHold(p)
  <2>1. \A c \in Children(p) : DueOf(c)' <= DueOf(c) /\ LateOf(c)' <= LateOf(c)
    <3> SUFFICES ASSUME NEW c \in Children(p) PROVE DueOf(c)' <= DueOf(c) /\ LateOf(c)' <= LateOf(c)
      OBVIOUS
    <3>1. c \in Paths
      BY ChildrenFinite
    <3>2. DueOf(c) \in Nat /\ LateOf(c) \in Nat
      BY <1>1, <3>1 DEF Amounts
    <3> QED
      BY <1>2, <3>1, <3>2
  <2> QED
    BY <1>2, <2>1, HoldsNoMore
<1> QED
  BY <1>3

LEMMA StartHolds ==
  ASSUME UnitsInv, UnitsInv', StartWalk
  PROVE  \A p \in Paths : ToHold(p)' <= ToHold(p)
<1>1. /\ UNCHANGED <<inst, count, high, seen>> /\ at' = Root
      /\ todo' = (todo \ {Root}) \cup {c \in Children(Root) : Alive(c)}
      /\ \A c \in Paths : seen[c] = Unread
  BY DEF StartWalk, List, UnitsInv, TypeInv, WalkInv, kernel, rows
<1>2. ASSUME NEW c \in Paths, Alive(c) PROVE Pending(c) /\ Pending(c)'
  <2>1. Pending(c)
    BY DEF StartWalk, Pending
  <2>2. CASE c = Root
    BY <1>1, <2>1, <2>2, UpwardStep DEF Pending
  <2>3. CASE c # Root
    <3>1. PICK d \in Children(Root) : d \in Upward[c]
      BY <2>3, UpwardIn, ChildToward
    <3>2. Alive(d)
      BY <1>2, <3>1, AliveAbove DEF UnitsInv, TypeInv
    <3>3. d \in todo'
      BY <1>1, <3>1, <3>2
    <3>4. Upward[c] \cap todo' # {}
      BY <3>1, <3>3
    <3> QED
      BY <2>1, <3>4 DEF Pending
  <2> QED
    BY <2>1, <2>2, <2>3
<1> QED
  BY <1>1, <1>2, HoldsSame

LEMMA EnterHolds ==
  ASSUME UnitsInv, UnitsInv', NEW n \in Paths, Enter(n)
  PROVE  \A p \in Paths : ToHold(p)' <= ToHold(p)
<1>1. /\ Walking /\ at \in Paths /\ n # Root /\ Parent[n] = at /\ n \in todo
      /\ Upward[n] = {n} \cup Upward[at] /\ ~Listed(n)
  BY Downward DEF UnitsInv
<1>2. UNCHANGED <<inst, count, high, seen>>
  BY DEF Enter, kernel, rows
<1>3. \A c \in Paths : seen[c] # Unread => fd'[c] = fd[c]
  BY <1>1 DEF Enter, List, Listed, UnitsInv, TypeInv, Shapes
<1>4. ASSUME NEW c \in Paths, Alive(c) PROVE Pending(c)' <=> Pending(c)
  <2>1. n \in Upward[c] => Alive(n)
    BY <1>4, AliveAbove DEF UnitsInv, TypeInv
  <2>2. CASE ~Alive(n)
    <3>1. n \notin Upward[c] /\ todo' = todo \ {n} /\ at' = at
      BY <2>1, <2>2 DEF Enter
    <3>2. Upward[c] \cap todo' = Upward[c] \cap todo
      BY <3>1
    <3> QED
      BY <3>1, <3>2 DEF Pending, Walking
  <2>3. CASE Alive(n)
    <3>1. todo' = (todo \ {n}) \cup {d \in Children(n) : Alive(d)} /\ at' = n /\ n # Unread
      BY <2>3, UnreadAssumption DEF Enter, List
    <3>2. ASSUME Pending(c) PROVE Pending(c)'
      <4>1. CASE c \in Upward[at]
        BY <1>1, <3>1, <4>1 DEF Pending
      <4>2. CASE \E q \in Upward[c] : q \in todo /\ q # n
        BY <3>1, <4>2 DEF Pending
      <4>3. CASE n \in Upward[c]
        <5>1. CASE c = n
          BY <1>1, <3>1, <5>1 DEF Pending
        <5>2. CASE c # n
          <6>1. PICK d \in Children(n) : d \in Upward[c]
            BY <4>3, <5>2, ChildToward
          <6>2. Alive(d)
            BY <1>4, <6>1, AliveAbove DEF UnitsInv, TypeInv
          <6> QED
            BY <3>1, <6>1, <6>2 DEF Pending
        <5> QED
          BY <5>1, <5>2
      <4> QED
        BY <1>1, <3>2, <4>1, <4>2, <4>3 DEF Pending
    <3>3. ASSUME Pending(c)' PROVE Pending(c)
      <4>1. CASE c \in Upward[n]
        <5>1. c = n \/ c \in Upward[at]
          BY <1>1, <4>1
        <5> QED
          BY <1>1, <5>1, UpwardIn DEF Pending
      <4>2. CASE \E q \in Upward[c] : q \in todo
        BY <4>2 DEF Pending
      <4>3. CASE \E q \in Upward[c] : q \in Children(n)
        <5>1. PICK q \in Upward[c] : q \in Children(n)
          BY <4>3
        <5>2. q \in Paths \ {Root} /\ Parent[q] = n
          BY <5>1 DEF Children
        <5>3. n \in Upward[c]
          BY <5>1, <5>2, UpwardClosed
        <5> QED
          BY <1>1, <5>3 DEF Pending
      <4> QED
        BY <3>1, <3>3, <4>1, <4>2, <4>3 DEF Pending, Walking
    <3> QED
      BY <3>2, <3>3
  <2> QED
    BY <2>2, <2>3
<1> QED
  BY <1>2, <1>3, <1>4, HoldsSame
(* A cgroup listed or read hangs below others that are.                    *)
LEMMA ListedAbove ==
  ASSUME TypeInv
  PROVE  \A x \in Paths : Listed(x) => \A q \in Upward[x] : Listed(q)
<1> DEFINE Good == {x \in Paths : Listed(x) => \A q \in Upward[x] : Listed(q)}
<1>1. Root \in Good
  BY UpwardStep, TreeAssumption
<1>2. ASSUME NEW x \in Paths \ {Root}, Parent[x] \in Good PROVE x \in Good
  <2>1. Upward[x] = {x} \cup Upward[Parent[x]]
    BY UpwardStep
  <2>2. Listed(x) => Listed(Parent[x])
    <3>1. CASE seen[x] # Unread
      BY <3>1 DEF TypeInv, WalkInv
    <3>2. CASE Walking /\ x \in Upward[at]
      <4>1. at \in Paths
        BY <3>2, UnreadAssumption DEF TypeInv, Shapes, Walking
      <4> QED
        BY <3>2, <4>1, UpwardClosed DEF Listed
    <3> QED
      BY <3>1, <3>2 DEF Listed
  <2> QED
    BY <1>2, <2>1, <2>2
<1> HIDE DEF Good
<1>3. Paths \subseteq Good
  BY <1>1, <1>2, TreeInduction
<1> QED
  BY <1>3 DEF Good

LEMMA ReadNotPending ==
  ASSUME TypeInv, NEW p \in Paths, seen[p] # Unread
  PROVE  ~Pending(p) /\ \A c \in Children(p) : ~Pending(c)
<1>1. Walking /\ Listed(p) /\ p \notin Upward[at]
  BY DEF TypeInv, WalkInv, Listed
<1>2. \A q \in Upward[p] : q \notin todo
  BY <1>1, ListedAbove, UpwardIn DEF TypeInv, WalkInv
<1>3. ~Pending(p)
  BY <1>1, <1>2 DEF Pending
<1>4. ASSUME NEW c \in Children(p), Pending(c) PROVE FALSE
  <2>1. c \in Paths /\ p \in Upward[c]
    BY UpwardStep, UpwardIn DEF Children
  <2> QED
    BY <1>3, <1>4, <2>1, PendingAbove
<1> QED
  BY <1>3, <1>4

LEMMA CreateHolds ==
  ASSUME RecreateInWalk = FALSE, UnitsInv, UnitsInv', NEW n \in Paths, CreateCgroup(n)
  PROVE  \A p \in Paths : ToHold(p)' <= ToHold(p)
<1>1. /\ n # Root /\ ~Alive(n) /\ born[n] \in Nat /\ born[n] + 1 \in 1..MaxCgroups[n]
      /\ inst' = [inst EXCEPT ![n] = born[n] + 1] /\ inst'[n] # 0
      /\ count' = [count EXCEPT ![n] = 0]
      /\ UNCHANGED <<walk, rows>>
  <2>1. born[n] \in Nat /\ MaxCgroups[n] \in Nat /\ inst \in [Paths -> Nat]
    BY BoundsAssumption DEF UnitsInv, TypeInv, Shapes
  <2> QED
    BY <2>1 DEF CreateCgroup
<1>2. ~Listed(n)
  <2>1. Faithful(n)
    BY <1>1 DEF UnitsInv, WalkFaithful
  <2>2. Walking => ino[n] = 0
    BY DEF CreateCgroup
  <2>3. Listed(n) => fd[n] # 0 /\ Walking
    BY DEF UnitsInv, TypeInv, WalkInv, Listed
  <2> QED
    BY <2>1, <2>2, <2>3 DEF Faithful
<1>3. Amounts /\ Amounts'
  BY AmountsBoth
<1>4. Unseen(n) = 0 /\ Unseen(n)' = 0 /\ seen[n] = Unread
  <2>1. high[n][born[n] + 1] = 0
    BY <1>1 DEF UnitsInv, TypeInv, Cgroups
  <2>2. count'[n] = 0 /\ inst'[n] = born[n] + 1 /\ high' = high /\ seen' = seen /\ seen[n] = Unread
    BY <1>1, <1>2 DEF UnitsInv, TypeInv, Shapes, walk, rows, Listed
  <2>3. Unseen(n) = 0
    BY <1>1 DEF Unseen
  <2>4. Unseen(n)' = 0
    BY <1>1, <2>1, <2>2 DEF Unseen
  <2> QED
    BY <2>2, <2>3, <2>4
<1>5. ASSUME NEW c \in Paths PROVE DueOf(c)' = DueOf(c) /\ LateOf(c)' = LateOf(c)
  <2>1. Unaccounted(c)' = Unaccounted(c) /\ (Pending(c)' <=> Pending(c))
    BY <1>1 DEF Unaccounted, Pending, Walking, walk, rows
  <2>2. Unseen(c)' = Unseen(c)
    <3>1. CASE c = n
      BY <1>4, <3>1
    <3>2. CASE c # n
      <4>1. inst'[c] = inst[c] /\ count'[c] = count[c] /\ seen' = seen /\ high' = high /\ fd' = fd
        BY <1>1, <3>2 DEF UnitsInv, TypeInv, Shapes, walk, rows
      <4> QED
        BY <4>1 DEF Unseen, Alive
    <3> QED
      BY <3>1, <3>2
  <2> QED
    BY <2>1, <2>2 DEF DueOf, LateOf
<1>6. ASSUME NEW p \in Paths PROVE ToHold(p)' <= ToHold(p)
  <2>1. \A c \in Children(p) : DueOf(c)' <= DueOf(c) /\ LateOf(c)' <= LateOf(c)
    <3> SUFFICES ASSUME NEW c \in Children(p) PROVE DueOf(c)' <= DueOf(c) /\ LateOf(c)' <= LateOf(c)
      OBVIOUS
    <3>1. c \in Paths
      BY ChildrenFinite
    <3>2. DueOf(c) \in Nat /\ LateOf(c) \in Nat
      BY <1>3, <3>1 DEF Amounts
    <3> QED
      BY <1>5, <3>1, <3>2
  <2>2. CASE p # n
    <3>1. (Alive(p) \/ seen[p] # Unread)' => Alive(p) \/ seen[p] # Unread
      BY <1>1, <2>2 DEF Alive, walk, UnitsInv, TypeInv, Shapes
    <3> QED
      BY <1>5, <2>1, <3>1, HoldsNoMore
  <2>3. CASE p = n
    <3>1. ASSUME NEW c \in Children(n) PROVE DueOf(c) = 0 /\ LateOf(c) = 0 /\ c \in Paths
      <4>1. c \in Paths \ {Root} /\ Parent[c] = n
        BY DEF Children
      <4>2. ~Alive(c) /\ seen[c] = Unread
        BY <1>1, <1>2, <4>1 DEF UnitsInv, TypeInv, Cgroups, WalkInv
      <4>3. Unseen(c) = 0 /\ Unaccounted(c) = 0
        BY <4>2 DEF Unseen, Unaccounted
      <4> QED
        BY <4>1, <4>3 DEF DueOf, LateOf
    <3>2. Barren(n)'
      BY <1>5, <3>1 DEF Barren
    <3>3. BarrenHoldNone'
      BY HoldsNone, PTL
    <3>4. ToHold(n)' = 0 /\ ToHold(n) \in Nat
      BY <1>3, <3>2, <3>3 DEF BarrenHoldNone, Amounts
    <3> QED
      BY <2>3, <3>4
  <2> QED
    BY <2>2, <2>3
<1> QED
  BY <1>6
LEMMA RemoveHolds ==
  ASSUME UnitsInv, UnitsInv', NEW n \in Paths, RemoveCgroup(n)
  PROVE  \A p \in Paths : ToHold(p)' <= ToHold(p)
<1>1. /\ Alive(n) /\ \A c \in Children(n) : ~Alive(c)
      /\ inst' = [inst EXCEPT ![n] = 0] /\ inst'[n] = 0
      /\ UNCHANGED <<walk, rows>>
      /\ \A c \in Paths \ {n} : inst'[c] = inst[c] /\ count'[c] = count[c]
  BY DEF RemoveCgroup, UnitsInv, TypeInv, Shapes
<1>2. Amounts /\ Amounts'
  BY AmountsBoth
<1>3. ASSUME NEW c \in Paths
      PROVE  /\ Unaccounted(c)' = Unaccounted(c) /\ (Pending(c)' <=> Pending(c))
             /\ Unseen(c)' = IF c = n THEN 0 ELSE Unseen(c)
  <2>1. Unaccounted(c)' = Unaccounted(c) /\ (Pending(c)' <=> Pending(c))
    BY <1>1 DEF Unaccounted, Pending, Walking, walk, rows
  <2>2. Unseen(c)' = IF c = n THEN 0 ELSE Unseen(c)
    <3>1. CASE c = n
      BY <1>1, <3>1 DEF Unseen, Alive
    <3>2. CASE c # n
      <4>1. inst'[c] = inst[c] /\ count'[c] = count[c] /\ seen' = seen /\ high' = high /\ fd' = fd
        BY <1>1, <3>2 DEF walk, rows
      <4> QED
        BY <3>2, <4>1 DEF Unseen, Alive
    <3> QED
      BY <3>1, <3>2
  <2> QED
    BY <2>1, <2>2
<1>4. ASSUME NEW c \in Paths
      PROVE  /\ DueOf(c)' <= DueOf(c) /\ LateOf(c)' <= LateOf(c)
             /\ c # n => DueOf(c)' = DueOf(c) /\ LateOf(c)' = LateOf(c)
  <2>1. Unaccounted(c) \in Nat /\ Unseen(c) \in Nat
    BY <1>2 DEF Amounts
  <2>2. CASE c = n
    BY <1>3, <2>1, <2>2 DEF DueOf, LateOf
  <2>3. CASE c # n
    <3>1. DueOf(c)' = DueOf(c) /\ LateOf(c)' = LateOf(c)
      BY <1>3, <2>3 DEF DueOf, LateOf
    <3>2. DueOf(c) \in Nat /\ LateOf(c) \in Nat
      BY <1>2 DEF Amounts
    <3> QED
      BY <3>1, <3>2
  <2> QED
    BY <2>2, <2>3
<1>5. ASSUME NEW p \in Paths PROVE ToHold(p)' <= ToHold(p)
  <2>1. \A c \in Children(p) : DueOf(c)' <= DueOf(c) /\ LateOf(c)' <= LateOf(c)
    BY <1>4, ChildrenFinite
  <2>2. CASE p # n
    <3>1. (Alive(p) \/ seen[p] # Unread)' => Alive(p) \/ seen[p] # Unread
      BY <1>1, <2>2 DEF Alive, walk
    <3> QED
      BY <1>4, <2>1, <2>2, <3>1, HoldsNoMore
  <2>3. CASE p = n
    <3>1. CASE seen[n] = Unread
      <4>1. ~(Alive(p) \/ seen[p] # Unread)'
        BY <1>1, <2>3, <3>1 DEF Alive, walk
      <4> QED
        BY <4>1, HoldsNoMore
    <3>2. CASE seen[n] # Unread
      <4>1. ~Pending(n)
        BY <3>2, ReadNotPending DEF UnitsInv
      <4>2. DueOf(n)' = DueOf(n)
        BY <1>3, <4>1 DEF DueOf
      <4>3. ASSUME NEW c \in Children(n) PROVE LateOf(c)' = 0
        <5>1. c \in Paths /\ Unseen(c) = 0
          BY <1>1, ChildrenFinite DEF Unseen
        <5>2. Unseen(c)' = 0
          BY <1>3, <5>1
        <5> QED
          BY <5>2 DEF LateOf
      <4> QED
        BY <1>1, <2>1, <2>3, <4>2, <4>3, HoldsNoMore
    <3> QED
      BY <3>1, <3>2
  <2> QED
    BY <2>2, <2>3
<1> QED
  BY <1>5

(* Nothing is left to visit below a cgroup whose turn is over.             *)
LEMMA BackPending ==
  ASSUME UnitsInv, ReadCounter
  PROVE  /\ \A c \in Paths : Pending(c)' <=> Pending(c) /\ c # at
         /\ Pending(at) /\ seen[at] = Unread /\ fd[at] # 0
<1>1. /\ Walking /\ at \in Paths \ {Root} /\ Parent[at] \in Paths
      /\ Upward[at] = {at} \cup Upward[Parent[at]] /\ at \notin Upward[Parent[at]]
      /\ at' = Parent[at] /\ at' # Unread /\ \A p \in todo : Parent[p] # at
  BY Back DEF UnitsInv
<1>2. todo' = todo
  BY DEF ReadCounter
<1>3. Listed(at) /\ at \in Upward[at]
  BY <1>1, UpwardIn DEF Listed
<1>4. Pending(at) /\ seen[at] = Unread /\ fd[at] # 0
  BY <1>1, <1>3 DEF Pending, UnitsInv, TypeInv, WalkInv
<1>5. \A q \in Upward[at] : q \notin todo
  BY <1>1, <1>3, ListedAbove, UpwardIn DEF UnitsInv, TypeInv, WalkInv
<1>6. ASSUME NEW c \in Paths, Pending(c) /\ c # at PROVE Pending(c)'
  BY <1>1, <1>2, <1>6 DEF Pending
<1>7. ASSUME NEW c \in Paths, Pending(c)' PROVE Pending(c) /\ c # at
  BY <1>1, <1>2, <1>5, <1>7 DEF Pending, Walking
<1> QED
  BY <1>4, <1>6, <1>7

LEMMA ReadHolds ==
  ASSUME UnitsInv, UnitsInv', ReadCounter, fd[at] = inst[at]
  PROVE  \A p \in Paths : ToHold(p)' <= ToHold(p)
<1>0. PICK m \in Paths : m = at
  BY Back DEF UnitsInv
<1>1. /\ Alive(m) /\ seen[m] = Unread /\ Pending(m) /\ ~Pending(m)' /\ fd[m] = inst[m]
      /\ seen' = [seen EXCEPT ![m] = count[m]] /\ seen'[m] = count[m]
      /\ UNCHANGED <<fd, inst, count, high>>
  <2>1. fd[at] # 0 /\ seen[m] = Unread /\ Pending(m) /\ ~Pending(m)'
    BY <1>0, BackPending
  <2>2. seen' = [seen EXCEPT ![m] = count[m]] /\ UNCHANGED <<fd, inst, count, high>>
    BY <1>0 DEF ReadCounter, kernel, rows
  <2> QED
    BY <1>0, <2>1, <2>2 DEF Alive, UnitsInv, TypeInv, Shapes
<1>2. Amounts /\ Amounts'
  BY AmountsBoth
<1>3. ASSUME NEW c \in Paths
      PROVE  /\ DueOf(c)' = DueOf(c) /\ LateOf(c)' = LateOf(c)
             /\ (Alive(c) \/ seen[c] # Unread)' => Alive(c) \/ seen[c] # Unread
  <2>1. CASE c = m
    <3>1. PICK n, h \in Nat : n = count[m] /\ h = high[m][inst[m]] /\ h <= n
      BY <1>1, Ranges DEF UnitsInv, TypeInv, Meters, Metered
    <3>2. Unaccounted(m) = 0 /\ Unseen(m) = n - h
      BY <1>1, <3>1 DEF Unaccounted, Unseen
    <3>3. Unaccounted(m)' = n - h /\ Unseen(m)' = 0
      BY <1>1, <3>1, UnreadAssumption DEF Unaccounted, Unseen, Alive
    <3>4. DueOf(m) = n - h /\ LateOf(m) = 0
      BY <1>1, <3>1, <3>2 DEF DueOf, LateOf
    <3>5. DueOf(m)' = n - h /\ LateOf(m)' = 0
      BY <1>1, <3>1, <3>3 DEF DueOf, LateOf
    <3> QED
      BY <1>1, <2>1, <3>4, <3>5
  <2>2. CASE c # m
    <3>1. seen'[c] = seen[c]
      BY <1>1, <2>2 DEF UnitsInv, TypeInv, Shapes
    <3>2. Pending(c)' <=> Pending(c)
      BY <1>0, <2>2, BackPending
    <3>3. Unaccounted(c)' = Unaccounted(c) /\ Unseen(c)' = Unseen(c)
      BY <1>1, <3>1 DEF Unaccounted, Unseen, Alive
    <3> QED
      BY <1>1, <3>1, <3>2, <3>3 DEF DueOf, LateOf, Alive
  <2> QED
    BY <2>1, <2>2
<1>4. \A c \in Paths : DueOf(c) \in Nat /\ LateOf(c) \in Nat
  BY <1>2 DEF Amounts
<1>5. ASSUME NEW p \in Paths PROVE ToHold(p)' <= ToHold(p)
  <2>1. \A c \in Children(p) : DueOf(c)' <= DueOf(c) /\ LateOf(c)' <= LateOf(c)
    <3> SUFFICES ASSUME NEW c \in Children(p) PROVE DueOf(c)' <= DueOf(c) /\ LateOf(c)' <= LateOf(c)
      OBVIOUS
    <3> QED
      BY <1>3, <1>4, ChildrenFinite
  <2> QED
    BY <1>3, <2>1, HoldsNoMore
<1> QED
  BY <1>5

LEMMA VanishedHolds ==
  ASSUME UnitsInv, UnitsInv', ReadCounter, fd[at] # inst[at]
  PROVE  \A p \in Paths : ToHold(p)' <= ToHold(p)
<1>1. /\ at \in Paths \ {Root} /\ at \in Upward[at]
      /\ seen' = Vanished /\ UNCHANGED <<fd, inst, count, high>>
  <2>1. at \in Paths \ {Root}
    BY Back DEF UnitsInv
  <2> QED
    BY <2>1, UpwardIn DEF ReadCounter, kernel, rows
<1>2. ~Alive(at)
  <2>1. Faithful(at) /\ Listed(at)
    BY <1>1, Back DEF UnitsInv, WalkFaithful, Listed
  <2> QED
    BY <2>1, BackPending DEF Faithful, Alive
<1>3. ASSUME NEW c \in Subtree(at)
      PROVE  c \in Paths /\ ~Alive(c) /\ ~Alive(c)' /\ seen'[c] = Unread
  <2>1. c \in Paths /\ at \in Upward[c] /\ seen'[c] = Unread
    BY <1>1 DEF Subtree, Vanished
  <2>2. ~Alive(c)
    BY <1>2, <2>1, AliveAbove DEF UnitsInv, TypeInv
  <2> QED
    BY <1>1, <2>1, <2>2 DEF Alive
<1>4. ASSUME NEW c \in Paths \ Subtree(at)
      PROVE  /\ DueOf(c)' = DueOf(c) /\ LateOf(c)' = LateOf(c)
             /\ (Alive(c) \/ seen[c] # Unread)' => Alive(c) \/ seen[c] # Unread
  <2>1. seen'[c] = seen[c] /\ c # at
    BY <1>1 DEF Vanished, Subtree
  <2>2. Pending(c)' <=> Pending(c)
    BY <2>1, BackPending
  <2>3. Unaccounted(c)' = Unaccounted(c) /\ Unseen(c)' = Unseen(c)
    BY <1>1, <2>1 DEF Unaccounted, Unseen, Alive
  <2> QED
    BY <1>1, <2>1, <2>2, <2>3 DEF DueOf, LateOf, Alive
<1>5. ASSUME NEW c \in Paths PROVE DueOf(c)' <= DueOf(c) /\ LateOf(c)' <= LateOf(c)
  <2>1. DueOf(c) \in Nat /\ LateOf(c) \in Nat
    BY AmountsNat DEF Amounts
  <2>2. CASE c \in Subtree(at)
    <3>1. Unaccounted(c)' = 0 /\ Unseen(c)' = 0
      BY <1>3, <2>2 DEF Unaccounted, Unseen
    <3>2. DueOf(c)' = 0 /\ LateOf(c)' = 0
      BY <3>1 DEF DueOf, LateOf
    <3> QED
      BY <2>1, <3>2
  <2>3. CASE c \notin Subtree(at)
    BY <1>4, <2>1, <2>3
  <2> QED
    BY <2>2, <2>3
<1>6. ASSUME NEW p \in Paths PROVE ToHold(p)' <= ToHold(p)
  <2>1. \A c \in Children(p) : DueOf(c)' <= DueOf(c) /\ LateOf(c)' <= LateOf(c)
    BY <1>5, ChildrenFinite
  <2>2. CASE p \in Subtree(at)
    <3>1. ~(Alive(p) \/ seen[p] # Unread)'
      BY <1>3, <2>2
    <3> QED
      BY <3>1, HoldsNoMore
  <2>3. CASE p \notin Subtree(at)
    BY <1>4, <2>1, <2>3, HoldsNoMore
  <2> QED
    BY <2>2, <2>3
<1> QED
  BY <1>6
LEMMA ExcessTogether ==
  \A m, n, a, b \in Nat : Excess(m + n, a + b) <= Excess(m, a) + Excess(n, b)
  BY DEF Excess

(* A walk abandoned leaves all to the next one.                            *)
LEMMA FailsHolds ==
  ASSUME UnitsInv, UnitsInv', ReadFails
  PROVE  \A p \in Paths : ToHold(p)' <= ToHold(p)
<1>1. /\ UNCHANGED <<inst, count, high>> /\ at' = Unread
      /\ \A c \in Paths : seen'[c] = Unread
  BY DEF ReadFails, WalkOver, kernel, rows
<1>2. Amounts /\ Amounts'
  BY AmountsBoth
<1>3. ASSUME NEW c \in Paths
      PROVE  /\ LateOf(c)' = 0
             /\ DueOf(c)' = IF Alive(c) THEN DueOf(c) + LateOf(c) ELSE 0
  <2>1. Pending(c)' /\ Unaccounted(c)' = 0 /\ (Alive(c)' <=> Alive(c))
    BY <1>1 DEF Pending, Walking, Unaccounted, Alive
  <2>2. LateOf(c)' = 0 /\ DueOf(c)' = Unseen(c)'
    <3>1. Unseen(c)' \in Nat
      BY <1>2 DEF Amounts
    <3> QED
      BY <2>1, <3>1 DEF LateOf, DueOf
  <2>3. CASE ~Alive(c)
    BY <2>1, <2>2, <2>3 DEF Unseen
  <2>4. CASE Alive(c)
    <3>1. PICK n, h \in Nat : n = count[c] /\ h = high[c][inst[c]]
      BY <2>4, Ranges DEF UnitsInv
    <3>2. Unseen(c)' = n - h
      BY <1>1, <2>1, <2>4, <3>1 DEF Unseen
    <3>3. DueOf(c) + LateOf(c) = Unaccounted(c) + Unseen(c)
      BY <1>2 DEF DueOf, LateOf, Amounts
    <3>4. Unaccounted(c) + Unseen(c) = n - h
      <4>1. CASE seen[c] = Unread
        BY <2>4, <3>1, <4>1 DEF Unaccounted, Unseen
      <4>2. CASE seen[c] # Unread
        <5>1. c # Root /\ Listed(c)
          BY <4>2 DEF UnitsInv, TypeInv, WalkInv, Listed
        <5>2. fd[c] = inst[c]
          BY <2>4, <5>1 DEF UnitsInv, TypeInv, WalkInv, WalkFaithful, Faithful, Alive
        <5>3. seen[c] \in Nat
          BY <4>2, Ranges DEF UnitsInv
        <5> QED
          BY <2>4, <3>1, <4>2, <5>2, <5>3 DEF Unaccounted, Unseen
      <4> QED
        BY <4>1, <4>2
    <3> QED
      BY <2>2, <2>4, <3>2, <3>3, <3>4
  <2> QED
    BY <2>3, <2>4
<1>4. ASSUME NEW p \in Paths PROVE ToHold(p)' <= ToHold(p)
  <2>1. CASE ~Alive(p)
    <3>1. ~(Alive(p) \/ seen[p] # Unread)'
      BY <1>1, <2>1 DEF Alive
    <3> QED
      BY <3>1, HoldsNoMore
  <2>2. CASE Alive(p)
    <3>1. PICK due, late : due = [c \in Paths |-> DueOf(c)] /\ late = [c \in Paths |-> LateOf(c)]
      BY Zenon
    <3>2. PICK due2, late2 : due2 = [c \in Paths |-> DueOf(c)'] /\ late2 = [c \in Paths |-> LateOf(c)']
      BY Zenon
    <3>3. PICK both : both = [c \in Paths |-> due[c] + late[c]]
      OBVIOUS
    <3>4. IsFiniteSet(Children(p)) /\ \A c \in Children(p) :
            /\ due[c] \in Int /\ late[c] \in Int /\ due2[c] \in Int /\ late2[c] = 0
            /\ both[c] \in Int /\ both[c] = due[c] + late[c] /\ due2[c] <= both[c]
      <4>1. \A c \in Paths : DueOf(c) \in Nat /\ LateOf(c) \in Nat
        BY <1>2 DEF Amounts
      <4> QED
        BY <1>3, <3>1, <3>2, <3>3, <4>1, ChildrenFinite
    <3>5. SumFunctionOnSet(due2, Children(p)) <= SumFunctionOnSet(both, Children(p))
      BY <3>4, SumAtMost
    <3>6. SumFunctionOnSet(both, Children(p))
            = SumFunctionOnSet(due, Children(p)) + SumFunctionOnSet(late, Children(p))
      BY <3>4, SumOfSums
    <3>7. SumFunctionOnSet(late2, Children(p)) = 0
      BY <3>4, SumZero
    <3>8. Due(p)' <= Due(p) + Late(p) /\ Late(p)' = 0
      BY <3>1, <3>2, <3>5, <3>6, <3>7 DEF Due, Late
    <3>9. PICK m, n, d, l, m2 \in Nat :
            m = Due(p) /\ n = Late(p) /\ d = DueOf(p) /\ l = LateOf(p) /\ m2 = Due(p)'
      BY <1>2 DEF Amounts
    <3>10. DueOf(p)' = d + l /\ LateOf(p)' = 0 /\ Alive(p)'
      BY <1>1, <1>3, <2>2, <3>9 DEF Alive
    <3>11. ToHold(p)' = Excess(m2, d + l) + Excess(0, 0)
      <4>1. ToHold(p)' = Excess(Due(p), DueOf(p))' + Excess(Late(p), LateOf(p))'
        BY <3>10 DEF ToHold
      <4> QED
        BY <3>8, <3>9, <3>10, <4>1 DEF Excess
    <3>12. ToHold(p) = Excess(m, d) + Excess(n, l)
      BY <2>2, <3>9 DEF ToHold
    <3>13. Excess(m2, d + l) <= Excess(m + n, d + l)
      BY <3>8, <3>9, ExcessNoMore
    <3>14. Excess(m + n, d + l) <= Excess(m, d) + Excess(n, l)
      BY ExcessTogether
    <3>15. /\ Excess(m2, d + l) \in Nat /\ Excess(m + n, d + l) \in Nat /\ Excess(0, 0) = 0
           /\ Excess(m, d) \in Nat /\ Excess(n, l) \in Nat
      BY DEF Excess
    <3> QED
      BY <3>11, <3>12, <3>13, <3>14, <3>15
  <2> QED
    BY <2>1, <2>2
<1> QED
  BY <1>4
LEMMA ExcessMoves ==
  \A m, n \in Nat : /\ Excess(m, n + 1) <= Excess(m, n)
                    /\ Excess(m + 1, n + 1) = Excess(m, n)
                    /\ Excess(m + 1, n) <= Excess(m, n) + 1
  BY DEF Excess

(* A write is read with every cgroup above it: of those, what is yet to be *)
(* read has it in this update, and what is not, in the next.               *)
LEMMA WriteAmounts ==
  ASSUME UnitsInv, UnitsInv', NEW w \in Paths, Write(w), NEW c \in Paths
  PROVE  /\ (Alive(c)' <=> Alive(c)) /\ seen'[c] = seen[c]
         /\ DueOf(c)' = DueOf(c) + IF c \in Upward[w] /\ Pending(c) THEN 1 ELSE 0
         /\ LateOf(c)' = LateOf(c) + IF c \in Upward[w] /\ ~Pending(c) THEN 1 ELSE 0
<1>1. /\ UNCHANGED <<inst, seen, fd, high, at, todo>> /\ Alive(w)
      /\ count'[c] = IF c \in Upward[w] THEN count[c] + 1 ELSE count[c]
  BY DEF Write, walk, rows
<1>2. Unaccounted(c)' = Unaccounted(c) /\ (Pending(c)' <=> Pending(c)) /\ (Alive(c)' <=> Alive(c))
  BY <1>1 DEF Unaccounted, Pending, Walking, Alive
<1>3. Unseen(c)' = Unseen(c) + IF c \in Upward[w] THEN 1 ELSE 0
  <2>1. CASE ~Alive(c)
    <3>1. c \notin Upward[w]
      BY <1>1, <2>1, AliveAbove DEF UnitsInv, TypeInv
    <3> QED
      BY <1>2, <2>1, <3>1 DEF Unseen
  <2>2. CASE Alive(c)
    <3>1. PICK n, h \in Nat : n = count[c] /\ h = high[c][inst[c]]
      BY <2>2, Ranges DEF UnitsInv
    <3>2. seen[c] # Unread => seen[c] \in Nat
      BY Ranges DEF UnitsInv
    <3>3. CASE seen[c] # Unread /\ fd[c] = inst[c]
      <4>1. Unseen(c) = n - seen[c] /\ Unseen(c)' = count'[c] - seen[c]
        BY <1>1, <1>2, <2>2, <3>1, <3>3 DEF Unseen
      <4> QED
        BY <1>1, <3>1, <3>2, <3>3, <4>1
    <3>4. CASE ~(seen[c] # Unread /\ fd[c] = inst[c])
      <4>1. Unseen(c) = n - h /\ Unseen(c)' = count'[c] - h
        BY <1>1, <1>2, <2>2, <3>1, <3>4 DEF Unseen
      <4> QED
        BY <1>1, <3>1, <4>1
    <3> QED
      BY <3>3, <3>4
  <2> QED
    BY <2>1, <2>2
<1>4. Unaccounted(c) \in Nat /\ Unseen(c) \in Nat
  BY AmountsNat DEF Amounts
<1>5. CASE Pending(c)
  BY <1>1, <1>2, <1>3, <1>4, <1>5 DEF DueOf, LateOf
<1>6. CASE ~Pending(c)
  BY <1>1, <1>2, <1>3, <1>4, <1>6 DEF DueOf, LateOf
<1> QED
  BY <1>5, <1>6

(* Only at one node is a write due that its child has missed: the lowest   *)
(* one on the way that the walk has yet to read.                           *)
Misses(p, w) == p \in Upward[w] /\ Pending(p) /\ \E c \in Children(p) : c \in Upward[w] /\ ~Pending(c)

LEMMA MissedOnce ==
  ASSUME TypeInv, NEW w \in Paths, NEW p \in Paths, NEW q \in Paths, Misses(p, w), Misses(q, w)
  PROVE  p = q
<1>1. ASSUME NEW x \in Paths, NEW y \in Paths, Misses(x, w), Misses(y, w), x \in Upward[y]
      PROVE  x = y
  <2>1. PICK c \in Children(x) : c \in Upward[w] /\ ~Pending(c)
    BY <1>1 DEF Misses
  <2>2. c \in Paths \ {Root} /\ Upward[c] = {c} \cup Upward[x]
    BY <2>1, UpwardStep DEF Children
  <2>3. c \notin Upward[y]
    BY <1>1, <2>1, PendingAbove DEF Misses
  <2>4. y \in Upward[c]
    BY <1>1, <2>1, <2>3, OneWayUp DEF Misses
  <2>5. y \in Upward[x]
    BY <1>1, <2>1, <2>2, <2>4 DEF Misses
  <2> QED
    BY <1>1, <2>5, AboveEachOther
<1>2. p \in Upward[q] \/ q \in Upward[p]
  BY OneWayUp DEF Misses
<1> QED
  BY <1>1, <1>2

LEMMA WriteHoldsAt ==
  ASSUME UnitsInv, UnitsInv', NEW w \in Paths, Write(w), NEW p \in Paths
  PROVE  ToHold(p)' <= ToHold(p) + IF Misses(p, w) THEN 1 ELSE 0
<1>1. Amounts /\ Amounts'
  BY AmountsBoth
<1>2. ASSUME NEW c \in Paths
      PROVE  /\ (Alive(c)' <=> Alive(c)) /\ seen'[c] = seen[c]
             /\ DueOf(c) \in Nat /\ LateOf(c) \in Nat
             /\ DueOf(c)' = DueOf(c) + IF c \in Upward[w] /\ Pending(c) THEN 1 ELSE 0
             /\ LateOf(c)' = LateOf(c) + IF c \in Upward[w] /\ ~Pending(c) THEN 1 ELSE 0
  BY <1>1, WriteAmounts DEF Amounts
<1>3. PICK m, n, d, l, m2, n2, d2, l2 \in Nat :
        /\ m = Due(p) /\ n = Late(p) /\ d = DueOf(p) /\ l = LateOf(p)
        /\ m2 = Due(p)' /\ n2 = Late(p)' /\ d2 = DueOf(p)' /\ l2 = LateOf(p)'
  BY <1>1 DEF Amounts
<1>4. /\ d2 = d + (IF p \in Upward[w] /\ Pending(p) THEN 1 ELSE 0)
      /\ l2 = l + (IF p \in Upward[w] /\ ~Pending(p) THEN 1 ELSE 0)
  BY <1>2, <1>3
<1>5. PICK due, late : due = [c \in Paths |-> DueOf(c)] /\ late = [c \in Paths |-> LateOf(c)]
  BY Zenon
<1>6. PICK due2, late2 : due2 = [c \in Paths |-> DueOf(c)'] /\ late2 = [c \in Paths |-> LateOf(c)']
  BY Zenon
<1>7. /\ m = SumFunctionOnSet(due, Children(p)) /\ m2 = SumFunctionOnSet(due2, Children(p))
      /\ n = SumFunctionOnSet(late, Children(p)) /\ n2 = SumFunctionOnSet(late2, Children(p))
  BY <1>3, <1>5, <1>6 DEF Due, Late
<1>8. IsFiniteSet(Children(p)) /\ \A c \in Children(p) :
        /\ due[c] \in Int /\ late[c] \in Int /\ due2[c] \in Int /\ late2[c] \in Int
        /\ due2[c] = due[c] + (IF c \in Upward[w] /\ Pending(c) THEN 1 ELSE 0)
        /\ late2[c] = late[c] + (IF c \in Upward[w] /\ ~Pending(c) THEN 1 ELSE 0)
  <2>1. \A c \in Paths : DueOf(c)' \in Nat /\ LateOf(c)' \in Nat
    BY <1>1 DEF Amounts
  <2> QED
    BY <1>2, <1>5, <1>6, <2>1, ChildrenFinite
<1>9. /\ ToHold(p) = IF Alive(p) \/ seen[p] # Unread THEN Excess(m, d) + Excess(n, l) ELSE 0
      /\ ToHold(p)' = IF Alive(p) \/ seen[p] # Unread THEN Excess(m2, d2) + Excess(n2, l2) ELSE 0
  <2>1. ToHold(p)' = IF Alive(p)' \/ seen'[p] # Unread
                     THEN Excess(Due(p), DueOf(p))' + Excess(Late(p), LateOf(p))' ELSE 0
    BY DEF ToHold
  <2>2. Excess(Due(p), DueOf(p))' = Excess(m2, d2) /\ Excess(Late(p), LateOf(p))' = Excess(n2, l2)
    BY <1>3 DEF Excess
  <2> QED
    BY <1>2, <1>3, <2>1, <2>2 DEF ToHold
<1>10. ToHold(p) \in Nat /\ Excess(m, d) \in Nat /\ Excess(n, l) \in Nat
  BY <1>1, ExcessNat DEF Amounts
<1>11. CASE \A c \in Children(p) : c \notin Upward[w]
  <2>1. \A c \in Children(p) : due2[c] = due[c] /\ late2[c] = late[c]
    BY <1>8, <1>11
  <2>2. m2 = m /\ n2 = n
    BY <1>7, <1>8, <2>1, SumSame
  <2>3. Excess(m2, d2) <= Excess(m, d) /\ Excess(n2, l2) <= Excess(n, l)
    <3>1. (d2 = d \/ d2 = d + 1) /\ (l2 = l \/ l2 = l + 1)
      BY <1>4
    <3>2. Excess(m, d2) <= Excess(m, d)
      BY <1>10, <3>1, ExcessMoves
    <3>3. Excess(n, l2) <= Excess(n, l)
      BY <1>10, <3>1, ExcessMoves
    <3> QED
      BY <2>2, <3>2, <3>3
  <2>4. Excess(m2, d2) \in Nat /\ Excess(n2, l2) \in Nat
    BY ExcessNat
  <2> QED
    BY <1>9, <1>10, <2>3, <2>4
<1>12. CASE \E c \in Children(p) : c \in Upward[w]
  <2>1. PICK c \in Children(p) : c \in Upward[w]
    BY <1>12
  <2>2. c \in Paths \ {Root} /\ Parent[c] = p /\ p \in Upward[w] /\ p \in Upward[c]
    BY <2>1, UpwardClosed, UpwardIn, UpwardStep DEF Children
  <2>3. \A e \in Children(p) \ {c} : due2[e] = due[e] /\ late2[e] = late[e]
    <3>1. \A e \in Children(p) \ {c} : e \notin Upward[w]
      BY <2>1, OneChildToward
    <3> QED
      BY <1>8, <3>1
  <2>4. m2 = m + (due2[c] - due[c]) /\ n2 = n + (late2[c] - late[c])
    <3>1. /\ \A e \in Children(p) : due[e] \in Int /\ due2[e] \in Int
          /\ \A e \in Children(p) \ {c} : due2[e] = due[e]
      BY <1>8, <2>3
    <3>2. /\ \A e \in Children(p) : late[e] \in Int /\ late2[e] \in Int
          /\ \A e \in Children(p) \ {c} : late2[e] = late[e]
      BY <1>8, <2>3
    <3>3. SumFunctionOnSet(due2, Children(p)) = SumFunctionOnSet(due, Children(p)) + (due2[c] - due[c])
      BY <1>8, <2>1, <3>1, SumChange
    <3>4. SumFunctionOnSet(late2, Children(p)) = SumFunctionOnSet(late, Children(p)) + (late2[c] - late[c])
      BY <1>8, <2>1, <3>2, SumChange
    <3> QED
      BY <1>7, <3>3, <3>4
  <2>5. /\ m2 = m + (IF Pending(c) THEN 1 ELSE 0) /\ n2 = n + (IF Pending(c) THEN 0 ELSE 1)
        /\ d2 = d + (IF Pending(p) THEN 1 ELSE 0) /\ l2 = l + (IF Pending(p) THEN 0 ELSE 1)
    BY <1>4, <1>8, <2>1, <2>2, <2>4
  <2>6. Pending(c) => Pending(p)
    BY <2>2, PendingAbove DEF UnitsInv
  <2>7. Excess(m2, d2) \in Nat /\ Excess(n2, l2) \in Nat
    BY ExcessNat
  <2>8. CASE Pending(c)
    <3>1. Excess(m2, d2) = Excess(m, d) /\ Excess(n2, l2) = Excess(n, l)
      BY <2>5, <2>6, <2>8, ExcessMoves
    <3> QED
      BY <1>9, <1>10, <3>1
  <2>9. CASE ~Pending(c) /\ ~Pending(p)
    <3>1. Excess(m2, d2) = Excess(m, d) /\ Excess(n2, l2) = Excess(n, l)
      BY <2>5, <2>9, ExcessMoves
    <3> QED
      BY <1>9, <1>10, <3>1
  <2>10. CASE ~Pending(c) /\ Pending(p)
    <3>1. Excess(m2, d2) <= Excess(m, d) /\ Excess(n2, l2) <= Excess(n, l) + 1
      BY <2>5, <2>10, ExcessMoves
    <3>2. Misses(p, w)
      BY <2>1, <2>2, <2>10 DEF Misses
    <3> QED
      BY <1>9, <1>10, <2>7, <3>1, <3>2
  <2> QED
    BY <2>8, <2>9, <2>10
<1> QED
  BY <1>11, <1>12

LEMMA WriteHolds ==
  ASSUME UnitsInv, UnitsInv', NEW w \in Paths, Write(w)
  PROVE  ToHoldAll' <= ToHoldAll + (racing' - racing)
<1>1. racing \in Nat /\ racing' = racing + IF Walking THEN 1 ELSE 0
  BY DEF Write, UnitsInv, TypeInv, Shapes
<1>2. Amounts /\ Amounts'
  BY AmountsBoth
<1>3. CASE \A p \in Paths : ~Misses(p, w)
  <2>1. \A p \in Paths : ToHold(p)' <= ToHold(p)
    <3> SUFFICES ASSUME NEW p \in Paths PROVE ToHold(p)' <= ToHold(p)
      OBVIOUS
    <3>1. ToHold(p)' <= ToHold(p) + 0 /\ ToHold(p) \in Nat
      BY <1>2, <1>3, WriteHoldsAt DEF Amounts
    <3> QED
      BY <3>1
  <2>2. ToHoldAll' <= ToHoldAll /\ ToHoldAll \in Nat /\ ToHoldAll' \in Nat
    BY <1>2, <2>1, AllHoldNoMore DEF Amounts
  <2> QED
    BY <1>1, <2>2
<1>4. CASE \E p \in Paths : Misses(p, w)
  <2>1. PICK b \in Paths : Misses(b, w)
    BY <1>4
  <2>2. Walking
    BY <2>1 DEF Misses, Pending
  <2>3. PICK hold, hold2 : hold = [p \in Paths |-> ToHold(p)] /\ hold2 = [p \in Paths |-> ToHold(p)']
    BY Zenon
  <2>4. \A p \in Paths : hold[p] \in Int /\ hold2[p] \in Int
    BY <1>2, <2>3 DEF Amounts
  <2>5. \A p \in Paths \ {b} : hold2[p] <= hold[p]
    <3> SUFFICES ASSUME NEW p \in Paths \ {b} PROVE ToHold(p)' <= ToHold(p)
      BY <2>3
    <3>1. ~Misses(p, w)
      BY <2>1, MissedOnce DEF UnitsInv
    <3>2. ToHold(p)' <= ToHold(p) + 0 /\ ToHold(p) \in Nat
      BY <1>2, <3>1, WriteHoldsAt DEF Amounts
    <3> QED
      BY <3>2
  <2>6. hold2[b] <= hold[b] + 1
    BY <2>1, <2>3, WriteHoldsAt
  <2>7. SumFunctionOnSet(hold2, Paths) <= SumFunctionOnSet(hold, Paths) + 1
    BY <2>4, <2>5, <2>6, SumOneMore, TreeAssumption
  <2>8. ToHoldAll' <= ToHoldAll + 1
    BY <2>3, <2>7 DEF ToHoldAll
  <2> QED
    BY <1>1, <1>2, <2>2, <2>8 DEF Amounts
<1> QED
  BY <1>3, <1>4
(* An update: what was due is read, and what was late is due.              *)
LEMMA SplitHolds ==
  ASSUME NEW d \in Nat, NEW k \in Nat, NEW c \in Nat
  PROVE  Split(d, k, c).carry <= c + Excess(k, d)
  BY DEF Split, Excess

LEMMA UpdateAmounts ==
  ASSUME UnitsInv, UnitsInv', Update, NEW c \in Paths
  PROVE  /\ Alive(c)' <=> Alive(c)
         /\ seen'[c] = Unread /\ LateOf(c)' = 0
         /\ c # Root => DueOf(c)' = LateOf(c) /\ DueOf(c) = Unaccounted(c)
         /\ c = Root => /\ DueOf(c)' = 0 /\ LateOf(c) = 0 /\ Alive(c)
                        /\ DueOf(c) = count[Root] - high[Root][fd[Root]]
<1>1. /\ AllVisited /\ at = Root /\ Walking
      /\ high' = [p \in Paths |-> IF p \in Nodes THEN [high[p] EXCEPT ![fd[p]] = Read[p]] ELSE high[p]]
      /\ UNCHANGED <<inst, count>> /\ at' = Unread /\ seen'[c] = Unread
  BY UpdateParts DEF Update, AllVisited, WalkOver, kernel
<1>2. Root \in Nodes /\ fd[Root] = 1 /\ inst[Root] = 1 /\ Root \in Paths
  BY <1>1, RootRead DEF UnitsInv, TypeInv, Cgroups
<1>3. Amounts /\ Amounts'
  BY AmountsBoth
<1>4. Pending(c) <=> c = Root
  <2>1. ASSUME NEW q \in todo PROVE FALSE
    <3>1. q \in Paths \ {Root} /\ Parent[q] \in Upward[Root]
      BY <1>1 DEF UnitsInv, TypeInv, Shapes, WalkInv
    <3>2. Parent[q] = Root
      BY <3>1, UpwardStep
    <3> QED
      BY <1>1, <3>1, <3>2 DEF AllVisited, Children
  <2>2. c \in Upward[Root] <=> c = Root
    BY UpwardStep
  <2>3. Upward[c] \cap todo = {}
    BY <2>1
  <2> QED
    BY <1>1, <2>2, <2>3 DEF Pending
<1>5. Pending(c)' /\ Unaccounted(c)' = 0 /\ (Alive(c)' <=> Alive(c))
  BY <1>1 DEF Pending, Walking, Unaccounted, Alive
<1>6. LateOf(c)' = 0 /\ DueOf(c)' = Unseen(c)'
  <2>1. Unseen(c)' \in Nat
    BY <1>3 DEF Amounts
  <2> QED
    BY <1>5, <2>1 DEF LateOf, DueOf
<1>7. Unseen(c)' = IF Alive(c) THEN count[c] - high'[c][inst[c]] ELSE 0
  BY <1>1, <1>5 DEF Unseen
<1>8. CASE c # Root
  <2>1. DueOf(c) = Unaccounted(c) /\ LateOf(c) = Unseen(c)
    BY <1>3, <1>4, <1>8 DEF DueOf, LateOf, Amounts
  <2>2. Unseen(c)' = Unseen(c)
    <3>1. CASE ~Alive(c)
      BY <1>7, <3>1 DEF Unseen
    <3>2. CASE Alive(c) /\ seen[c] = Unread
      <4>1. c \notin Nodes
        BY <1>1, <1>8, <3>2, NodesRead DEF UnitsInv
      <4>2. high'[c] = high[c]
        BY <1>1, <4>1
      <4> QED
        BY <1>7, <3>2, <4>2 DEF Unseen
    <3>3. CASE Alive(c) /\ seen[c] # Unread
      <4>1. c \in Nodes /\ Read[c] = seen[c]
        BY <1>1, <1>8, <3>3, NodesRead DEF UnitsInv
      <4>2. fd[c] = inst[c] /\ fd[c] \in 1..MaxCgroups[c]
        BY <1>1, <1>8, <3>3, <4>1, NodesFaithful DEF Alive
      <4>3. high[c] \in [1..MaxCgroups[c] -> Nat]
        BY DEF UnitsInv, TypeInv, Shapes
      <4>4. high'[c] = [high[c] EXCEPT ![inst[c]] = seen[c]]
        BY <1>1, <4>1, <4>2
      <4>5. high'[c][inst[c]] = seen[c]
        BY <4>2, <4>3, <4>4
      <4> QED
        BY <1>7, <3>3, <4>2, <4>5 DEF Unseen
    <3> QED
      BY <3>1, <3>2, <3>3
  <2> QED
    BY <1>1, <1>5, <1>6, <1>8, <2>1, <2>2
<1>9. CASE c = Root
  <2>1. seen[Root] = Unread /\ Alive(Root)
    BY <1>2 DEF UnitsInv, TypeInv, WalkInv, Alive
  <2>2. Unaccounted(Root) = 0 /\ Unseen(Root) = count[Root] - high[Root][1]
    BY <1>2, <2>1 DEF Unaccounted, Unseen
  <2>3. count[Root] \in Nat /\ high[Root][1] \in Nat /\ high[Root] \in [1..MaxCgroups[Root] -> Nat]
    BY <1>2, <2>1, Ranges DEF UnitsInv, TypeInv, Shapes
  <2>4. DueOf(Root) = count[Root] - high[Root][1] /\ LateOf(Root) = 0
    BY <1>4, <1>9, <2>2, <2>3 DEF DueOf, LateOf
  <2>5. high'[Root][1] = count[Root]
    <3>1. Read[Root] = count[Root] /\ fd[Root] \in 1..MaxCgroups[Root]
      <4>1. seen \in [Paths -> Nat \cup {Unread}]
        BY DEF UnitsInv, TypeInv, Shapes
      <4> QED
        BY <1>1, <1>2, <4>1, NodesRead DEF Read, UnitsInv
    <3>2. high'[Root] = [high[Root] EXCEPT ![1] = count[Root]]
      BY <1>1, <1>2, <3>1
    <3> QED
      BY <1>2, <2>3, <3>1, <3>2
  <2>6. DueOf(Root)' = 0
    BY <1>2, <1>6, <1>7, <1>9, <2>1, <2>3, <2>5
  <2> QED
    BY <1>1, <1>2, <1>5, <1>6, <1>9, <2>1, <2>4, <2>6
<1> QED
  BY <1>8, <1>9

LEMMA UpdateHoldsAt ==
  ASSUME UnitsInv, UnitsInv', Update, NEW p \in Paths
  PROVE  /\ ToHold(p)' = IF Alive(p) THEN Excess(Late(p), LateOf(p)) ELSE 0
         /\ Due(p)' = Late(p)
<1>1. Amounts /\ Amounts'
  BY AmountsBoth
<1>2. PICK late : late = [c \in Paths |-> LateOf(c)]
  BY Zenon
<1>3. PICK due2, late2 : due2 = [c \in Paths |-> DueOf(c)'] /\ late2 = [c \in Paths |-> LateOf(c)']
  BY Zenon
<1>4. IsFiniteSet(Children(p)) /\ \A c \in Children(p) :
        late[c] \in Int /\ due2[c] = late[c] /\ due2[c] \in Int /\ late2[c] = 0
  <2>1. \A c \in Children(p) : c \in Paths /\ c # Root
    BY DEF Children
  <2>2. \A c \in Paths : LateOf(c) \in Nat
    BY <1>1 DEF Amounts
  <2> QED
    BY <1>2, <1>3, <2>1, <2>2, ChildrenFinite, UpdateAmounts
<1>5. SumFunctionOnSet(due2, Children(p)) = SumFunctionOnSet(late, Children(p))
  BY <1>4, SumSame
<1>6. SumFunctionOnSet(late2, Children(p)) = 0
  BY <1>4, SumZero
<1>7. Due(p)' = Late(p) /\ Late(p)' = 0
  BY <1>2, <1>3, <1>5, <1>6 DEF Due, Late
<1>8. LateOf(p)' = 0 /\ DueOf(p)' = LateOf(p) /\ (Alive(p)' <=> Alive(p)) /\ seen'[p] = Unread
  BY UpdateAmounts
<1>9. ToHold(p)' = IF Alive(p)' \/ seen'[p] # Unread
                   THEN Excess(Due(p), DueOf(p))' + Excess(Late(p), LateOf(p))' ELSE 0
  BY DEF ToHold
<1>10. Excess(Due(p), DueOf(p))' = Excess(Late(p), LateOf(p)) /\ Excess(Late(p), LateOf(p))' = 0
  BY <1>7, <1>8 DEF Excess
<1>11. Excess(Late(p), LateOf(p)) \in Nat
  BY <1>1, ExcessNat DEF Amounts
<1> QED
  BY <1>7, <1>8, <1>9, <1>10, <1>11

LEMMA UpdateShort ==
  ASSUME UnitsInv, UnitsInv', Update, NEW p \in Nodes
  PROVE  Excess(SumFunctionOnSet(Deltas, Kids(p)), Deltas[p]) <= Excess(Due(p), DueOf(p))
<1>1. at = Root /\ p \in Paths
  BY UpdateParts DEF Nodes
<1>2. Amounts
  BY AmountsNat
<1>3. IsFiniteSet(Kids(p)) /\ Kids(p) \subseteq Children(p) /\ IsFiniteSet(Children(p))
  BY <1>1, ChildrenFinite, FS_Subset DEF Kids
<1>4. PICK d, e \in Nat : d = Due(p) /\ e = DueOf(p)
  BY <1>1, <1>2 DEF Amounts
<1>5. Excess(d, e) \in Nat
  BY ExcessNat
<1>6. CASE ~primed
  <2>1. \A c \in Kids(p) : Deltas[c] = 0
    BY <1>1, <1>6, DeltaIs DEF Kids
  <2>2. SumFunctionOnSet(Deltas, Kids(p)) = 0 /\ Deltas[p] = 0
    BY <1>1, <1>3, <1>6, <2>1, SumZero, DeltaIs
  <2>3. Excess(0, 0) = 0
    BY DEF Excess
  <2> QED
    BY <1>4, <1>5, <2>2, <2>3
<1>7. CASE primed
  <2>1. ASSUME NEW c \in Nodes PROVE Deltas[c] = DueOf(c)
    <3>1. Deltas[c] = Read[c] - high[c][fd[c]] /\ c \in Paths
      BY <1>1, <1>7, DeltaIs DEF Nodes
    <3>2. CASE c # Root
      <4>1. Read[c] = seen[c] /\ seen[c] # Unread
        BY <1>1, <3>1, <3>2, NodesRead DEF UnitsInv
      <4>2. DueOf(c) = Unaccounted(c)
        BY <3>1, <3>2, UpdateAmounts
      <4> QED
        BY <3>1, <4>1, <4>2 DEF Unaccounted
    <3>3. CASE c = Root
      <4>1. seen \in [Paths -> Nat \cup {Unread}]
        BY DEF UnitsInv, TypeInv, Shapes
      <4>2. Read[Root] = count[Root]
        BY <3>1, <3>3, <4>1 DEF Read
      <4> QED
        BY <3>1, <3>3, <4>2, UpdateAmounts
    <3> QED
      BY <3>2, <3>3
  <2>2. PICK deltas : deltas = Deltas
    OBVIOUS
  <2>3. PICK due : due = [c \in Paths |-> DueOf(c)]
    BY Zenon
  <2>4. \A c \in Kids(p) : deltas[c] \in Int /\ due[c] = deltas[c]
    <3>1. \A c \in Paths : DueOf(c) \in Nat
      BY <1>2 DEF Amounts
    <3>2. \A c \in Kids(p) : c \in Nodes /\ c \in Paths
      BY <1>1, <1>3, ChildrenFinite DEF Kids
    <3> QED
      BY <2>1, <2>2, <2>3, <3>1, <3>2
  <2>5. \A c \in Children(p) \ Kids(p) : due[c] = 0
    <3> SUFFICES ASSUME NEW c \in Children(p) \ Kids(p) PROVE DueOf(c) = 0 /\ c \in Paths
      BY <2>3
    <3>1. c \in Paths /\ c # Root /\ c \notin Nodes
      BY DEF Children, Kids
    <3>2. seen[c] = Unread
      BY <1>1, <3>1, NodesRead DEF UnitsInv
    <3>3. Unaccounted(c) = 0
      BY <3>2 DEF Unaccounted
    <3> QED
      BY <3>1, <3>3, UpdateAmounts
  <2>6. SumFunctionOnSet(due, Children(p)) = SumFunctionOnSet(deltas, Kids(p))
    BY <1>3, <2>4, <2>5, SumExtend
  <2>7. SumFunctionOnSet(Deltas, Kids(p)) = d /\ Deltas[p] = e
    BY <1>4, <2>1, <2>2, <2>3, <2>6 DEF Due
  <2> QED
    BY <1>4, <1>5, <2>7
<1> QED
  BY <1>6, <1>7

LEMMA UpdateHolds ==
  ASSUME UnitsInv, UnitsInv', Update
  PROVE  Carried' + lostCarry' + ToHoldAll' <= Carried + lostCarry + ToHoldAll
<1>1. PICK held : held = [p \in Paths |-> IF p \in Nodes THEN Carry(p) ELSE 0]
  BY Zenon
<1>2. PICK toHold : toHold = [p \in Paths |-> IF p \in Nodes THEN Part(p).carry ELSE 0]
  BY Zenon
<1>3. /\ Carried' + lostCarry' + SumFunctionOnSet(held, Paths)
           = Carried + lostCarry + SumFunctionOnSet(toHold, Paths)
      /\ Carried \in Int /\ lostCarry \in Int /\ Carried' \in Int /\ lostCarry' \in Int
  BY <1>1, <1>2, UpdateCarries DEF UnitsInv
<1>4. Amounts /\ Amounts'
  BY AmountsBoth
<1>5. PICK hold : hold = [p \in Paths |-> ToHold(p)]
  BY Zenon
<1>6. PICK hold2 : hold2 = [p \in Paths |-> ToHold(p)']
  BY Zenon
<1>7. ASSUME NEW p \in Paths
      PROVE  /\ held[p] \in Int /\ toHold[p] \in Int /\ hold[p] \in Int /\ hold2[p] \in Int
             /\ toHold[p] + hold2[p] <= held[p] + hold[p]
  <2>1. at = Root
    BY UpdateParts
  <2>2. ToHold(p) \in Nat /\ ToHold(p)' \in Nat /\ Due(p) \in Nat /\ DueOf(p) \in Nat
        /\ Late(p) \in Nat /\ LateOf(p) \in Nat
    BY <1>4 DEF Amounts
  <2>3. PICK a, b \in Nat : a = Excess(Due(p), DueOf(p)) /\ b = Excess(Late(p), LateOf(p))
    BY <2>2, ExcessNat
  <2>4. ToHold(p)' <= b /\ ToHold(p)' = IF Alive(p) THEN b ELSE 0
    BY <2>3, UpdateHoldsAt
  <2>5. CASE p \in Nodes
    <3>1. ToHold(p) = a + b
      <4>1. Alive(p) \/ seen[p] # Unread
        <5>1. CASE p = Root
          BY <5>1, UpdateAmounts
        <5>2. CASE p # Root
          BY <2>1, <2>5, <5>2, NodesRead DEF UnitsInv
        <5> QED
          BY <5>1, <5>2
      <4> QED
        BY <2>3, <4>1 DEF ToHold
    <3>2. PICK k, d, c \in Nat : k = SumFunctionOnSet(Deltas, Kids(p)) /\ d = Deltas[p] /\ c = Carry(p)
      BY <2>1, <2>5, PartFacts DEF UnitsInv
    <3>3. Part(p).carry \in Nat
      BY <2>1, <2>5, PartFacts DEF UnitsInv
    <3>4. Part(p).carry <= c + Excess(k, d)
      BY <3>2, SplitHolds DEF Part
    <3>5. Excess(k, d) <= a
      BY <2>3, <2>5, <3>2, UpdateShort
    <3>6. Excess(k, d) \in Nat
      BY ExcessNat
    <3>7. Part(p).carry + ToHold(p)' <= c + ToHold(p)
      BY <2>2, <2>4, <3>1, <3>3, <3>4, <3>5, <3>6
    <3> QED
      BY <1>1, <1>2, <1>5, <1>6, <2>2, <2>5, <3>2, <3>3, <3>7
  <2>6. CASE p \notin Nodes
    <3>1. ToHold(p)' <= ToHold(p)
      <4>1. Alive(p) => ToHold(p) = a + b
        BY <2>3 DEF ToHold
      <4> QED
        BY <2>2, <2>4, <4>1
    <3> QED
      BY <1>1, <1>2, <1>5, <1>6, <2>2, <2>6, <3>1
  <2> QED
    BY <2>5, <2>6
<1>8. PICK before : before = [p \in Paths |-> held[p] + hold[p]]
  OBVIOUS
<1>9. PICK after : after = [p \in Paths |-> toHold[p] + hold2[p]]
  OBVIOUS
<1>10. \A p \in Paths : /\ before[p] = held[p] + hold[p] /\ after[p] = toHold[p] + hold2[p]
                        /\ before[p] \in Int /\ after[p] \in Int /\ after[p] <= before[p]
  BY <1>7, <1>8, <1>9
<1>11. SumFunctionOnSet(after, Paths) <= SumFunctionOnSet(before, Paths)
  BY <1>10, SumAtMost, TreeAssumption
<1>12. SumFunctionOnSet(before, Paths) = SumFunctionOnSet(held, Paths) + SumFunctionOnSet(hold, Paths)
  BY <1>7, <1>10, SumOfSums, TreeAssumption
<1>13. SumFunctionOnSet(after, Paths) = SumFunctionOnSet(toHold, Paths) + SumFunctionOnSet(hold2, Paths)
  BY <1>7, <1>10, SumOfSums, TreeAssumption
<1>14. /\ SumFunctionOnSet(held, Paths) \in Int /\ SumFunctionOnSet(toHold, Paths) \in Int
       /\ SumFunctionOnSet(hold, Paths) \in Int /\ SumFunctionOnSet(hold2, Paths) \in Int
  BY <1>7, SumInt, TreeAssumption
<1>15. ToHoldAll = SumFunctionOnSet(hold, Paths) /\ ToHoldAll' = SumFunctionOnSet(hold2, Paths)
  BY <1>5, <1>6 DEF ToHoldAll
<1> QED
  BY <1>3, <1>11, <1>12, <1>13, <1>14, <1>15
LEMMA CarriedNat == TypeInv => Carried \in Nat
<1> SUFFICES ASSUME TypeInv PROVE Carried \in Nat
  OBVIOUS
<1>1. PICK st \in [Paths -> Remembered \cup {Unread}] : st = state
  BY DEF TypeInv, Shapes
<1>2. PICK S \in SUBSET Paths : S = {p \in Paths : st[p] # Unread}
  OBVIOUS
<1>3. SumFunction([p \in S |-> st[p].carry]) \in Nat
  BY <1>2, SumOverAll
<1> QED
  BY <1>1, <1>2, <1>3 DEF Carried

CarriedCounts == Carried \in Nat

LEMMA CarriedUnits == UnitsInv => CarriedCounts
  BY CarriedNat DEF UnitsInv, CarriedCounts

LEMMA CarriedCountsBoth ==
  ASSUME UnitsInv, UnitsInv'
  PROVE  CarriedCounts /\ CarriedCounts'
  BY CarriedUnits, PTL

LEMMA CarriedBoth ==
  ASSUME UnitsInv, UnitsInv'
  PROVE  Carried \in Nat /\ Carried' \in Nat
  BY CarriedCountsBoth DEF CarriedCounts

RacingBound == Carried + lostCarry + ToHoldAll <= racing

(* What is spent on one side of a sum is paid for on the other.            *)
LEMMA BoundMoved ==
  ASSUME NEW c \in Nat, NEW l \in Nat, NEW h \in Nat, NEW h2 \in Nat,
         NEW r \in Nat, NEW r2 \in Nat,
         c + l + h <= r, h2 <= h + (r2 - r)
  PROVE  c + l + h2 <= r2
  OBVIOUS

LEMMA StillHolds ==
  ASSUME UnitsInv, UnitsInv', RacingBound, UNCHANGED <<state, lostCarry, racing>>,
         \A p \in Paths : ToHold(p)' <= ToHold(p)
  PROVE  RacingBound'
<1>1. Carried' = Carried
  BY DEF Carried
<1>2. ToHoldAll' <= ToHoldAll
  BY AllHoldNoMore
<1>3. Carried \in Nat /\ lostCarry \in Nat /\ racing \in Nat
  BY CarriedNat DEF UnitsInv, TypeInv, Shapes
<1>4. ToHoldAll \in Nat /\ ToHoldAll' \in Nat
  BY AmountsBoth DEF Amounts
<1>5. Carried + lostCarry + ToHoldAll <= racing
  BY DEF RacingBound
<1>6. PICK c, l, h, h2, r \in Nat :
        c = Carried /\ l = lostCarry /\ h = ToHoldAll /\ h2 = ToHoldAll' /\ r = racing
  BY <1>3, <1>4
<1>7. c + l + h <= r /\ h2 <= h + (r - r)
  BY <1>2, <1>5, <1>6
<1>8. c + l + h2 <= r
  BY <1>7, BoundMoved
<1>9. Carried' = c /\ lostCarry' = l /\ racing' = r
  BY <1>1, <1>6
<1> QED
  BY <1>6, <1>8, <1>9 DEF RacingBound

LEMMA RacingBoundKept ==
  ASSUME RecreateInWalk = FALSE, UnitsInv, UnitsInv', RacingBound, [Next]_vars
  PROVE  RacingBound'
<1>1. CASE UNCHANGED vars
  <2>1. UNCHANGED <<state, lostCarry, racing>> /\ UNCHANGED <<inst, count, high, seen, fd, at, todo>>
    BY <1>1 DEF vars, kernel, walk, tracker, writes, rows
  <2>2. \A c \in Paths : Pending(c)' <=> Pending(c)
    BY <2>1 DEF Pending, Walking
  <2>3. \A p \in Paths : ToHold(p)' <= ToHold(p)
    BY <2>1, <2>2, HoldsSame
  <2> QED
    BY <2>1, <2>3, StillHolds
<1>2. ASSUME NEW w \in Paths, Write(w) PROVE RacingBound'
  <2>1. UNCHANGED <<state, lostCarry>> /\ racing' \in Nat
    BY <1>2 DEF Write, tracker, rows, UnitsInv, TypeInv, Shapes
  <2>2. Carried' = Carried
    BY <2>1 DEF Carried
  <2>3. Carried \in Nat /\ lostCarry \in Nat /\ racing \in Nat
    BY CarriedNat DEF UnitsInv, TypeInv, Shapes
  <2>4. ToHoldAll \in Nat /\ ToHoldAll' \in Nat
    BY AmountsBoth DEF Amounts
  <2>5. ToHoldAll' <= ToHoldAll + (racing' - racing)
    BY <1>2, WriteHolds
  <2>6. Carried + lostCarry + ToHoldAll <= racing
    BY DEF RacingBound
  <2>7. PICK c, l, h, h2, r, r2 \in Nat :
          /\ c = Carried /\ l = lostCarry /\ h = ToHoldAll /\ h2 = ToHoldAll'
          /\ r = racing /\ r2 = racing'
    BY <2>1, <2>3, <2>4
  <2>8. c + l + h <= r /\ h2 <= h + (r2 - r)
    BY <2>5, <2>6, <2>7
  <2>9. c + l + h2 <= r2
    BY <2>8, BoundMoved
  <2>10. Carried' = c /\ lostCarry' = l
    BY <2>1, <2>2, <2>7
  <2> QED
    BY <2>7, <2>9, <2>10 DEF RacingBound
<1>3. ASSUME NEW n \in Paths, CreateCgroup(n) PROVE RacingBound'
  <2>1. UNCHANGED <<state, lostCarry, racing>>
    BY <1>3 DEF CreateCgroup, tracker, writes, rows
  <2> QED
    BY <1>3, <2>1, CreateHolds, StillHolds
<1>4. ASSUME NEW n \in Paths, RemoveCgroup(n) PROVE RacingBound'
  <2>1. UNCHANGED <<state, lostCarry, racing>>
    BY <1>4 DEF RemoveCgroup, tracker, writes, rows
  <2> QED
    BY <1>4, <2>1, RemoveHolds, StillHolds
<1>5. ASSUME NEW n \in Paths, Enter(n) PROVE RacingBound'
  <2>1. UNCHANGED <<state, lostCarry, racing>>
    BY <1>5 DEF Enter, tracker, writes, rows
  <2> QED
    BY <1>5, <2>1, EnterHolds, StillHolds
<1>6. ASSUME StartWalk PROVE RacingBound'
  <2>1. UNCHANGED <<state, lostCarry, racing>>
    BY <1>6 DEF StartWalk, tracker, writes, rows
  <2> QED
    BY <1>6, <2>1, StartHolds, StillHolds
<1>7. ASSUME ReadCounter PROVE RacingBound'
  <2>1. UNCHANGED <<state, lostCarry, racing>>
    BY <1>7 DEF ReadCounter, tracker, writes, rows
  <2>2. \A p \in Paths : ToHold(p)' <= ToHold(p)
    BY <1>7, ReadHolds, VanishedHolds
  <2> QED
    BY <2>1, <2>2, StillHolds
<1>8. ASSUME ReadFails PROVE RacingBound'
  <2>1. UNCHANGED <<state, lostCarry, racing>>
    BY <1>8 DEF ReadFails, tracker, writes, rows
  <2> QED
    BY <1>8, <2>1, FailsHolds, StillHolds
<1>9. ASSUME Update PROVE RacingBound'
  <2>1. racing' = racing
    BY <1>9 DEF Update, writes
  <2>2. Carried' + lostCarry' + ToHoldAll' <= Carried + lostCarry + ToHoldAll
    BY <1>9, UpdateHolds
  <2>3. TypeInv /\ TypeInv'
    BY DEF UnitsInv
  <2>4. Carried \in Nat /\ Carried' \in Nat
    BY CarriedBoth
  <2>5. /\ lostCarry \in Nat /\ racing \in Nat /\ lostCarry' \in Nat
        /\ ToHoldAll \in Nat /\ ToHoldAll' \in Nat
    BY <2>3, AmountsBoth DEF TypeInv, Shapes, Amounts
  <2>6. Carried + lostCarry + ToHoldAll <= racing
    BY DEF RacingBound
  <2>7. PICK c, l, h, r \in Nat : c = Carried /\ l = lostCarry /\ h = ToHoldAll /\ r = racing
    BY <2>4, <2>5
  <2>8. PICK c2, l2, h2 \in Nat : c2 = Carried' /\ l2 = lostCarry' /\ h2 = ToHoldAll'
    BY <2>4, <2>5
  <2>9. c + l + h <= r /\ c2 + l2 + h2 <= c + l + h
    BY <2>2, <2>6, <2>7, <2>8
  <2>10. c2 + l2 + h2 <= r
    BY <2>9
  <2> QED
    BY <2>1, <2>7, <2>8, <2>10 DEF RacingBound
<1> QED
  BY <1>1, <1>2, <1>3, <1>4, <1>5, <1>6, <1>7, <1>8, <1>9 DEF Next

LEMMA RacingBoundInit ==
  ASSUME Init, UnitsInv
  PROVE  RacingBound
<1>1. /\ \A p \in Paths : /\ count[p] = 0 /\ seen[p] = Unread /\ state[p] = Unread
                          /\ \A i \in 1..MaxCgroups[p] : high[p][i] = 0
      /\ lostCarry = 0 /\ racing = 0
  BY DEF Init
<1>2. ASSUME NEW c \in Paths PROVE DueOf(c) = 0 /\ LateOf(c) = 0
  <2>1. Unaccounted(c) = 0
    BY <1>1 DEF Unaccounted
  <2>2. Alive(c) => high[c][inst[c]] = 0
    BY <1>1, Ranges DEF UnitsInv
  <2>3. Unseen(c) = 0
    BY <1>1, <2>2 DEF Unseen
  <2> QED
    BY <2>1, <2>3 DEF DueOf, LateOf
<1>3. \A p \in Paths : Barren(p)
  BY <1>2, ChildrenFinite DEF Barren
<1>4. \A p \in Paths : ToHold(p) = 0
  BY <1>3, HoldsNone DEF BarrenHoldNone
<1>5. PICK hold : hold = [p \in Paths |-> ToHold(p)]
  BY Zenon
<1>6. SumFunctionOnSet(hold, Paths) = 0
  BY <1>4, <1>5, SumZero, TreeAssumption
<1>7. ToHoldAll = 0
  BY <1>5, <1>6 DEF ToHoldAll
<1>8. Carried = 0
  <2>1. {p \in Paths : state[p] # Unread} = {}
    BY <1>1
  <2>2. PICK f : f = [p \in {} |-> state[p].carry]
    OBVIOUS
  <2>3. SumFunction(f) = 0
    BY <2>2, SumEmpty DEF SumFunction
  <2> QED
    BY <2>1, <2>2, <2>3 DEF Carried
<1> QED
  BY <1>1, <1>7, <1>8 DEF RacingBound

(* gsm_blame_update: what is credited in two places, and so is held back   *)
(* or was forgotten with its cgroup, was written while the tree was being  *)
(* read; bytes written between the walks are credited exactly, in any tree *)
(* and whatever reads fail.                                                *)
THEOREM OnlyRacingBytesTwice ==
  ASSUME RecreateInWalk = FALSE
  PROVE  Spec => []OnlyRacingWritesTwice
<1>1. Init /\ UnitsInv => RacingBound
  BY RacingBoundInit
<1>2. UnitsInv /\ UnitsInv' /\ RacingBound /\ [Next]_vars => RacingBound'
  <2> SUFFICES ASSUME UnitsInv, UnitsInv', RacingBound, [Next]_vars PROVE RacingBound'
    OBVIOUS
  <2> QED
    BY RacingBoundKept, Zenon
<1>3. UnitsInv /\ RacingBound => OnlyRacingWritesTwice
  <2> SUFFICES ASSUME UnitsInv, RacingBound PROVE OnlyRacingWritesTwice
    OBVIOUS
  <2>1. Carried \in Nat /\ lostCarry \in Nat /\ racing \in Nat /\ ToHoldAll \in Nat
    BY CarriedNat, AmountsNat DEF UnitsInv, TypeInv, Shapes, Amounts
  <2>2. Carried + lostCarry + ToHoldAll <= racing
    BY DEF RacingBound
  <2>3. Carried + lostCarry <= racing
    BY <2>1, <2>2
  <2> QED
    BY <2>3 DEF OnlyRacingWritesTwice
<1> QED
  BY <1>1, <1>2, <1>3, UnitsKept, PTL DEF Spec
=============================================================================
