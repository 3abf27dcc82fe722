----------------------------- MODULE WalkProofs -----------------------------
(***************************************************************************)
(* Theorems about what MCAppParts reads: the walks of /proc and of the     *)
(* cgroup tree, for any processes, cgroups and bounds, and the figures     *)
(* that are made of readings, for every input.  Each walk keeps an         *)
(* invariant that its module states; the variables have the names that     *)
(* MCAppParts gives them in the instance of the part.                      *)
(***************************************************************************)
EXTENDS MCAppParts, SumTheorems, SequenceTheorems

partsVars == <<part, v1, v2, v3, v4, v5, from6>>
-----------------------------------------------------------------------------
(***************************************************************************)
(* ProcWalk: owner v1, starts v2, listing v3, entry v4, handle v5, parts   *)
(* v6, processes v7, exited v8, unkeyed v9, entries v10, lived v11,        *)
(* throughout v12.                                                         *)
(***************************************************************************)
WalkInv == part = "procwalk" => Walk!Walked

LEMMA FiveFiles == Len(Walk!Files) = 5
  BY DEF Walk!Files

(* Finite sets are those of the module that has them.                      *)
LEMMA FiniteInWalk ==
  \A S : (Walk!IsFiniteSet(S) <=> IsFiniteSet(S)) /\ Walk!Cardinality(S) = Cardinality(S)
  BY DEF Walk!IsFiniteSet, IsFiniteSet, Walk!Cardinality, Cardinality

(* A set with a member and another has more than one.                      *)
LEMMA TwoInSet ==
  ASSUME NEW S, IsFiniteSet(S), NEW x \in S, S # {x}
  PROVE  Cardinality(S) > 1
<1>1. IsFiniteSet({x}) /\ Cardinality({x}) = 1
  BY FS_Singleton
<1>2. {x} \subseteq S
  OBVIOUS
<1>3. Cardinality({x}) <= Cardinality(S) /\ (Cardinality({x}) = Cardinality(S) => {x} = S)
  BY <1>2, FS_Subset
<1>4. Cardinality(S) \in Nat
  BY FS_CardinalityType
<1> QED
  BY <1>1, <1>3, <1>4

LEMMA LivedIsFinite ==
  ASSUME Walk!Lives
  PROVE  \A p \in WalkedPids : IsFiniteSet(v11[p])
<1>1. IsFiniteSet(1..v2)
  BY FS_Interval DEF Walk!Lives
<1>2. \A p \in WalkedPids : v11[p] \subseteq 1..v2
  BY DEF Walk!Lives
<1> QED
  BY <1>1, <1>2, FS_Subset

(* The count of the entries, as numbers.                                   *)
EntriesAdd ==
  /\ IsFiniteSet(v7) /\ v8 \in Nat /\ v9 \in Nat
  /\ Walk!AtEntry => v10 = Cardinality(v7) + v8 + v9 + 1
  /\ ~Walk!AtEntry => v10 = Cardinality(v7) + v8 + v9

LEMMA CountedAs == Walk!Counted <=> EntriesAdd
<1>1. ASSUME IsFiniteSet(v7), v8 \in Nat, v9 \in Nat
      PROVE  /\ Walk!AtEntry => /\ Walk!Counted <=> v10 = Cardinality(v7) + v8 + v9 + 1
             /\ ~Walk!AtEntry => /\ Walk!Counted <=> v10 = Cardinality(v7) + v8 + v9
  <2>1. PICK n : n = Cardinality(v7)
    OBVIOUS
  <2>2. n \in Nat
    BY <1>1, <2>1, FS_CardinalityType
  <2>3. Walk!IsFiniteSet(v7) /\ Walk!Cardinality(v7) = n
    BY <1>1, <2>1, FiniteInWalk
  <2>4. Walk!Counted <=> v10 = n + v8 + v9 + (IF Walk!AtEntry THEN 1 ELSE 0)
    BY <1>1, <2>3 DEF Walk!Counted
  <2> QED
    BY <1>1, <2>1, <2>2, <2>4
<1>2. Walk!Counted => IsFiniteSet(v7) /\ v8 \in Nat /\ v9 \in Nat
  BY FiniteInWalk DEF Walk!Counted
<1> QED
  BY <1>1, <1>2 DEF EntriesAdd

LEMMA CountedAsPrimed == Walk!Counted' <=> EntriesAdd'
  BY CountedAs, PTL

LEMMA WalkInvInit == Init => WalkInv
<1> SUFFICES ASSUME Walk!Init PROVE Walk!Walked
  BY DEF Init, WalkInv, Pure, Readings, Cards, Reader
<1>1. /\ v1 = [p \in WalkedPids |-> None] /\ v2 = 0 /\ v3 = FALSE /\ v4 = 0 /\ v5 = None
      /\ v6 = <<>> /\ v7 = {} /\ v8 = 0 /\ v9 = 0 /\ v10 = 0
      /\ v11 = [p \in WalkedPids |-> {}] /\ v12 = [p \in WalkedPids |-> None]
  BY DEF Walk!Init
<1>2. Walk!Lives
  BY <1>1 DEF Walk!Lives
<1>3. Walk!Place
  <2>1. v6 \in Seq(Nat \cup {None}) /\ Len(v6) = 0
    BY <1>1, EmptySeq
  <2>2. ~Walk!AtEntry
    BY <1>1 DEF Walk!AtEntry
  <2>3. Len(v6) < Len(Walk!Files)
    BY <2>1, FiveFiles
  <2>4. v3 \in BOOLEAN /\ v4 \in WalkedPids \cup {0}
    BY <1>1
  <2> QED
    BY <1>1, <2>1, <2>2, <2>3, <2>4 DEF Walk!Place
<1>4. Walk!Counted
  <2>1. IsFiniteSet(v7) /\ Cardinality(v7) = 0
    BY <1>1, FS_EmptySet
  <2>2. ~Walk!AtEntry
    BY <1>1 DEF Walk!AtEntry
  <2> QED
    BY <1>1, <2>1, <2>2, CountedAs DEF EntriesAdd
<1>5. Walk!Recorded
  BY <1>1 DEF Walk!Recorded
<1>6. \A p \in WalkedPids : Walk!Listed(p)
  BY <1>1 DEF Walk!Listed
<1> QED
  BY <1>2, <1>3, <1>4, <1>5, <1>6 DEF Walk!Walked

(* While the walk stands still, who lived can only become more, and who    *)
(* lived throughout fewer.                                                 *)
LEMMA SnapshotStands ==
  ASSUME Walk!Walked, Walk!Lives', UNCHANGED <<v3, v4, v5, v6, v7, v8, v9, v10>>,
         \A p \in WalkedPids : v11[p] \subseteq v11'[p] /\ v12'[p] \in {v12[p], None}
  PROVE  Walk!Walked'
<1>1. Walk!Place'
  BY DEF Walk!Walked, Walk!Place, Walk!AtEntry
<1>2. Walk!Counted'
  BY DEF Walk!Walked, Walk!Counted, Walk!AtEntry
<1>3. Walk!Recorded'
  BY DEF Walk!Walked, Walk!Recorded, Walk!Past, Walk!Done
<1>4. \A p \in WalkedPids : Walk!Past(p)' => Walk!Listed(p)'
  BY DEF Walk!Walked, Walk!Past, Walk!Done, Walk!Listed, Walk!RecordsOf
<1> QED
  BY <1>1, <1>2, <1>3, <1>4 DEF Walk!Walked

LEMMA StartKeepsWalk ==
  ASSUME Walk!Walked, NEW p \in WalkedPids, Walk!Start(p)
  PROVE  Walk!Walked'
<1>1. /\ v1[p] = None /\ v2' = v2 + 1 /\ v1' = [v1 EXCEPT ![p] = v2']
      /\ v11' = [v11 EXCEPT ![p] = @ \cup {v2'}]
      /\ UNCHANGED <<v3, v4, v5, v6, v7, v8, v9, v10, v12>>
  BY DEF Walk!Start, Walk!snapshot
<1>2. PICK n \in Nat : n = v2
  BY DEF Walk!Walked, Walk!Lives
<1>3. v2' = n + 1 /\ n + 1 \in Nat /\ n + 1 \in 1..(n + 1) /\ 1..n \subseteq 1..(n + 1)
  BY <1>1, <1>2
<1>4. v12[p] = None
  BY <1>1 DEF Walk!Walked, Walk!Lives
<1>5. v11' \in [WalkedPids -> SUBSET (1..v2')]
  BY <1>1, <1>2, <1>3 DEF Walk!Walked, Walk!Lives
<1>6. Walk!Lives'
  BY <1>1, <1>3, <1>4, <1>5 DEF Walk!Walked, Walk!Lives
<1>7. \A q \in WalkedPids : v11[q] \subseteq v11'[q]
  BY <1>1 DEF Walk!Walked, Walk!Lives
<1> QED
  BY <1>1, <1>6, <1>7, SnapshotStands

LEMMA ExitKeepsWalk ==
  ASSUME Walk!Walked, NEW p \in WalkedPids, Walk!Exit(p)
  PROVE  Walk!Walked'
<1>1. /\ v1' = [v1 EXCEPT ![p] = None] /\ v12' = [v12 EXCEPT ![p] = None]
      /\ UNCHANGED <<v2, v3, v4, v5, v6, v7, v8, v9, v10, v11>>
  BY DEF Walk!Exit, Walk!snapshot
<1>2. Walk!Lives'
  BY <1>1 DEF Walk!Walked, Walk!Lives
<1>3. \A q \in WalkedPids : v12'[q] \in {v12[q], None}
  BY <1>1 DEF Walk!Walked, Walk!Lives
<1> QED
  BY <1>1, <1>2, <1>3, SnapshotStands

LEMMA WalkBegins ==
  ASSUME Walk!Walked, Walk!Walk
  PROVE  Walk!Walked'
<1>1. /\ v3' = TRUE /\ v4 = 0 /\ v4' = 0 /\ v3 = FALSE
      /\ v7' = {} /\ v8' = 0 /\ v9' = 0 /\ v10' = 0
      /\ v11' = [p \in WalkedPids |-> {v1[p]} \ {None}] /\ v12' = v1
      /\ UNCHANGED <<v1, v2, v5, v6>>
  BY DEF Walk!Walk, Walk!Walked, Walk!Place
<1>2. Walk!Lives'
  <2>1. \A p \in WalkedPids : {v1[p]} \ {None} \subseteq 1..v2
    BY DEF Walk!Walked, Walk!Lives
  <2> QED
    BY <1>1, <2>1, WalkedPidsAssumption DEF Walk!Walked, Walk!Lives
<1>3. Walk!Place'
  BY <1>1 DEF Walk!Walked, Walk!Place, Walk!AtEntry
<1>4. Walk!Counted'
  <2>1. IsFiniteSet(v7') /\ Cardinality(v7') = 0
    BY <1>1, FS_EmptySet
  <2>2. ~Walk!AtEntry'
    BY <1>1 DEF Walk!AtEntry
  <2> QED
    BY <1>1, <2>1, <2>2, CountedAsPrimed DEF EntriesAdd
<1>5. Walk!Recorded'
  BY <1>1 DEF Walk!Recorded
<1>6. \A p \in WalkedPids : ~Walk!Past(p)'
  BY <1>1, WalkedPidsAssumption DEF Walk!Past, Walk!Done
<1> QED
  BY <1>2, <1>3, <1>4, <1>5, <1>6 DEF Walk!Walked

LEMMA PidsAreNumbers ==
  ASSUME Walk!Walked
  PROVE  v4 \in Nat /\ \A q \in WalkedPids : q \in Nat /\ q # 0
<1>1. Walk!Place
  BY DEF Walk!Walked
<1>2. v4 \in WalkedPids \cup {0}
  BY <1>1 DEF Walk!Place
<1> QED
  BY <1>2, WalkedPidsAssumption

(* An entry left out of the listing has nobody who lives throughout.       *)
LEMMA NextEntryKeepsWalk ==
  ASSUME Walk!Walked, Walk!NextEntry
  PROVE  Walk!Walked'
<1>1. PICK p \in WalkedPids :
        /\ p > v4 /\ \A q \in WalkedPids : v4 < q /\ q < p => v12[q] = None
        /\ v3 /\ ~v3' /\ v3' \in BOOLEAN /\ v4' = p /\ v10' = v10 + 1
        /\ UNCHANGED <<v1, v2, v5, v6, v7, v8, v9, v11, v12>>
  BY DEF Walk!NextEntry, Walk!system
<1>2. p \in Nat /\ p # 0 /\ v4 \in Nat /\ \A q \in WalkedPids : q \in Nat
  BY PidsAreNumbers
<1>3. Walk!Lives'
  BY <1>1 DEF Walk!Walked, Walk!Lives
<1>4. v5 = None /\ v6 = <<>>
  BY <1>1 DEF Walk!Walked, Walk!Place, Walk!AtEntry
<1>5. Walk!Place'
  <2>1. v6' \in Seq(Nat \cup {None}) /\ Len(v6') = 0
    BY <1>1, <1>4, EmptySeq
  <2>2. Walk!AtEntry'
    BY <1>1, <1>2 DEF Walk!AtEntry
  <2> QED
    BY <1>1, <1>2, <1>4, <2>1, <2>2, FiveFiles DEF Walk!Place
<1>6. \A q \in WalkedPids : Walk!Past(q)' => Walk!Past(q) \/ v12[q] = None
  BY <1>1, <1>2 DEF Walk!Past, Walk!Done
<1>7. \A q \in WalkedPids : Walk!Past(q) => Walk!Past(q)'
  BY <1>1, <1>2 DEF Walk!Past, Walk!Done
<1>8. Walk!Counted'
  <2>1. ~Walk!AtEntry /\ Walk!AtEntry'
    BY <1>1, <1>2 DEF Walk!AtEntry
  <2>2. v10 = Cardinality(v7) + v8 + v9
    BY <2>1, CountedAs DEF Walk!Walked, EntriesAdd
  <2>3. v10' = Cardinality(v7') + v8' + v9' + 1
    BY <1>1, <2>2
  <2> QED
    BY <1>1, <2>1, <2>3, CountedAs, CountedAsPrimed DEF Walk!Walked, EntriesAdd
<1>9. Walk!Recorded'
  BY <1>1, <1>7 DEF Walk!Walked, Walk!Recorded
<1>10. \A q \in WalkedPids : Walk!Past(q)' => Walk!Listed(q)'
  BY <1>1, <1>6 DEF Walk!Walked, Walk!Listed, Walk!RecordsOf
<1> QED
  BY <1>3, <1>5, <1>8, <1>9, <1>10 DEF Walk!Walked

LEMMA FinishKeepsWalk ==
  ASSUME Walk!Walked, Walk!Finish
  PROVE  Walk!Walked'
<1>1. /\ v3 /\ v3' = FALSE /\ v4' = 0 /\ \A q \in WalkedPids : q > v4 => v12[q] = None
      /\ UNCHANGED <<v1, v2, v5, v6, v7, v8, v9, v10, v11, v12>>
  BY DEF Walk!Finish, Walk!system, Walk!snapshot
<1>2. v4 \in Nat /\ \A q \in WalkedPids : q \in Nat
  BY PidsAreNumbers
<1>3. Walk!Lives'
  BY <1>1 DEF Walk!Walked, Walk!Lives
<1>4. Walk!Place'
  BY <1>1 DEF Walk!Walked, Walk!Place, Walk!AtEntry
<1>5. Walk!Counted'
  BY <1>1 DEF Walk!Walked, Walk!Counted, Walk!AtEntry
<1>6. Walk!Recorded'
  BY <1>1 DEF Walk!Walked, Walk!Recorded, Walk!Past, Walk!Done
<1>7. \A q \in WalkedPids : Walk!Past(q) \/ v12[q] = None
  BY <1>1, <1>2 DEF Walk!Past, Walk!Done
<1>8. \A q \in WalkedPids : Walk!Listed(q)'
  BY <1>1, <1>7 DEF Walk!Walked, Walk!Listed, Walk!RecordsOf
<1> QED
  BY <1>3, <1>4, <1>5, <1>6, <1>8 DEF Walk!Walked
(* Where an entry ends: all before it have been passed, it has no record   *)
(* yet, and afterwards it has been passed as well.                         *)
LEMMA AtTheEntry ==
  ASSUME Walk!Walked, Walk!AtEntry
  PROVE  /\ v3 = FALSE /\ v4 \in WalkedPids /\ v4 \in Nat /\ v4 # 0
         /\ \A q \in WalkedPids : Walk!Past(q) <=> q < v4
         /\ Walk!RecordsOf(v4) = {}
<1>1. v3 = FALSE /\ v4 \in WalkedPids /\ v4 \in Nat /\ v4 # 0
  BY WalkedPidsAssumption DEF Walk!Walked, Walk!Place, Walk!AtEntry
<1>2. \A q \in WalkedPids : Walk!Past(q) <=> q < v4
  BY <1>1 DEF Walk!Past, Walk!Done
<1>3. ~Walk!Past(v4)
  BY <1>1, <1>2
<1>4. \A r \in v7 : r.pid # v4
  BY <1>3 DEF Walk!Walked, Walk!Recorded
<1> QED
  BY <1>1, <1>2, <1>4 DEF Walk!RecordsOf

LEMMA PassedAfterwards ==
  ASSUME Walk!Walked, Walk!AtEntry, v3' = TRUE, v4' = v4
  PROVE  \A q \in WalkedPids : Walk!Past(q)' <=> (Walk!Past(q) \/ q = v4)
<1>1. v4 \in Nat /\ \A q \in WalkedPids : q \in Nat /\ (Walk!Past(q) <=> q < v4)
  BY AtTheEntry, WalkedPidsAssumption
<1> QED
  BY <1>1 DEF Walk!Past, Walk!Done

(* The place and the processes after an entry.                             *)
LEMMA LeaveKeepsPlace ==
  ASSUME Walk!Walked, Walk!AtEntry, Walk!Leave, UNCHANGED Walk!system
  PROVE  /\ Walk!Lives' /\ Walk!Place' /\ ~Walk!AtEntry'
         /\ v3' = TRUE /\ UNCHANGED <<v1, v2, v4, v10, v11, v12>>
<1>1. v3' = TRUE /\ v6' = <<>> /\ v5' = None /\ UNCHANGED <<v1, v2, v4, v10, v11, v12>>
  BY DEF Walk!Leave, Walk!system
<1>2. Walk!Lives'
  BY <1>1 DEF Walk!Walked, Walk!Lives
<1>3. ~Walk!AtEntry'
  BY <1>1 DEF Walk!AtEntry
<1>4. v6' \in Seq(Nat \cup {None}) /\ Len(v6') < Len(Walk!Files)
  BY <1>1, EmptySeq, FiveFiles
<1>5. v3' \in BOOLEAN /\ v4' \in WalkedPids \cup {0}
  BY <1>1 DEF Walk!Walked, Walk!Place
<1>6. Walk!Place'
  BY <1>1, <1>3, <1>4, <1>5 DEF Walk!Place
<1> QED
  BY <1>1, <1>2, <1>3, <1>6

(* An entry without a record: its process did not live throughout, or its  *)
(* stat could not be had.                                                  *)
LEMMA LeavesWithout ==
  ASSUME Walk!Walked, Walk!AtEntry, Walk!Leave, UNCHANGED Walk!system, v7' = v7,
         \/ v8' = v8 + 1 /\ v9' = v9 /\ v12[v4] = None
         \/ v8' = v8 /\ v9' = v9 + 1
  PROVE  Walk!Walked'
<1>1. /\ Walk!Lives' /\ Walk!Place' /\ ~Walk!AtEntry'
      /\ v3' = TRUE /\ UNCHANGED <<v1, v2, v4, v10, v11, v12>>
  BY LeaveKeepsPlace
<1>2. v8 \in Nat /\ v9 \in Nat /\ v10 = Cardinality(v7) + v8 + v9 + 1 /\ IsFiniteSet(v7)
  BY CountedAs DEF Walk!Walked, EntriesAdd
<1>3. Walk!Counted'
  <2>1. PICK n : n = Cardinality(v7)
    OBVIOUS
  <2>2. n \in Nat
    BY <1>2, <2>1, FS_CardinalityType
  <2>3. v10 = n + v8 + v9 + 1
    BY <1>2, <2>1
  <2>4. v8' \in Nat /\ v9' \in Nat /\ v10' = n + v8' + v9'
    BY <1>1, <1>2, <2>2, <2>3
  <2>5. Cardinality(v7') = n
    BY <2>1
  <2> QED
    BY <1>1, <1>2, <2>4, <2>5, CountedAsPrimed DEF EntriesAdd
<1>4. \A q \in WalkedPids : Walk!Past(q)' <=> (Walk!Past(q) \/ q = v4)
  BY <1>1, PassedAfterwards
<1>5. Walk!Recorded'
  BY <1>1, <1>4 DEF Walk!Walked, Walk!Recorded
<1>6. \A q \in WalkedPids : Walk!Past(q) => Walk!Listed(q)'
  BY <1>1, <1>2 DEF Walk!Walked, Walk!Listed, Walk!RecordsOf
<1>7. Walk!Listed(v4)'
  <2>1. Walk!RecordsOf(v4) = {}
    BY AtTheEntry
  <2> QED
    BY <1>1, <1>2, <2>1 DEF Walk!Listed, Walk!RecordsOf
<1>8. \A q \in WalkedPids : Walk!Past(q)' => Walk!Listed(q)'
  BY <1>1, <1>4, <1>6, <1>7
<1> QED
  BY <1>1, <1>3, <1>5, <1>8 DEF Walk!Walked

(* An entry with a record, whose last file was read while somebody had the *)
(* identifier.                                                             *)
LEMMA LeavesRecord ==
  ASSUME Walk!Walked, Walk!AtEntry, Walk!Leave, UNCHANGED Walk!system, v8' = v8, v9' = v9,
         NEW r, v7' = v7 \cup {r}, r.pid = v4, r.parts[1] \in v11[v4],
         \A i \in 1..5 : r.parts[i] \in v11[v4] \cup {None},
         v1[v4] # None, r.alive <=> v1[v4] = r.parts[1]
  PROVE  Walk!Walked'
<1>1. /\ Walk!Lives' /\ Walk!Place' /\ ~Walk!AtEntry'
      /\ v3' = TRUE /\ UNCHANGED <<v1, v2, v4, v10, v11, v12>>
  BY LeaveKeepsPlace
<1>2. v8 \in Nat /\ v9 \in Nat /\ v10 = Cardinality(v7) + v8 + v9 + 1 /\ IsFiniteSet(v7)
  BY CountedAs DEF Walk!Walked, EntriesAdd
<1>3. v4 \in WalkedPids /\ Walk!RecordsOf(v4) = {}
  BY AtTheEntry
<1>4. r \notin v7
  BY <1>3 DEF Walk!RecordsOf
<1>5. Walk!Counted'
  <2>1. PICK n : n = Cardinality(v7)
    OBVIOUS
  <2>2. n \in Nat
    BY <1>2, <2>1, FS_CardinalityType
  <2>3. v10 = n + v8 + v9 + 1
    BY <1>2, <2>1
  <2>4. IsFiniteSet(v7') /\ Cardinality(v7') = n + 1
    BY <1>2, <1>4, <2>1, FS_AddElement
  <2>5. v10' = (n + 1) + v8' + v9'
    BY <1>1, <1>2, <2>2, <2>3
  <2> QED
    BY <1>1, <1>2, <2>4, <2>5, CountedAsPrimed DEF EntriesAdd
<1>6. \A q \in WalkedPids : Walk!Past(q)' <=> (Walk!Past(q) \/ q = v4)
  BY <1>1, PassedAfterwards
<1>7. v1[v4] \in v11[v4] /\ (v12[v4] # None => v11[v4] = {v12[v4]})
  BY <1>3 DEF Walk!Walked, Walk!Lives
<1>8. Walk!Recorded'
  <2>1. \A s \in v7 :
          /\ s.pid \in WalkedPids /\ Walk!Past(s.pid)
          /\ s.parts[1] \in v11[s.pid]
          /\ \A i \in 1..5 : s.parts[i] \in v11[s.pid] \cup {None}
          /\ s.alive \/ v11[s.pid] # {s.parts[1]}
    BY FiveFiles DEF Walk!Walked, Walk!Recorded
  <2>2. r.alive \/ v11[r.pid] # {r.parts[1]}
    BY <1>7
  <2> QED
    BY <1>1, <1>3, <1>6, <2>1, <2>2, FiveFiles DEF Walk!Recorded
<1>9. \A q \in WalkedPids : q # v4 => Walk!RecordsOf(q)' = Walk!RecordsOf(q)
  BY DEF Walk!RecordsOf
<1>10. Walk!RecordsOf(v4)' = {r}
  BY <1>1, <1>3 DEF Walk!RecordsOf
<1>11. \A q \in WalkedPids : q # v4 /\ Walk!Past(q) => Walk!Listed(q)'
  BY <1>1, <1>9 DEF Walk!Walked, Walk!Listed
<1>12. Walk!Listed(v4)'
  BY <1>1, <1>7, <1>10 DEF Walk!Listed
<1>13. \A q \in WalkedPids : Walk!Past(q)' => Walk!Listed(q)'
  BY <1>1, <1>6, <1>11, <1>12
<1> QED
  BY <1>1, <1>5, <1>8, <1>13 DEF Walk!Walked

(* Which file is read, by how many have been.                              *)
LEMMA FileByCount ==
  ASSUME NEW n \in Nat, Len(v6) = n, n < 5
  PROVE  /\ Walk!file = "stat" <=> n = 0
         /\ Walk!file = "cgroup" <=> n = 4
         /\ Walk!file \in {"schedstat", "io"} <=> n \in {2, 3}
         /\ Walk!AbsenceMeansExit(Walk!file) <=> n \notin {2, 3}
<1>1. n = 0 \/ n = 1 \/ n = 2 \/ n = 3 \/ n = 4
  OBVIOUS
<1>2. Walk!file = Walk!Files[n + 1]
  BY DEF Walk!file
<1>3. CASE n = 0
  BY <1>2, <1>3 DEF Walk!Files, Walk!AbsenceMeansExit
<1>4. CASE n = 1
  BY <1>2, <1>4 DEF Walk!Files, Walk!AbsenceMeansExit
<1>5. CASE n = 2
  BY <1>2, <1>5 DEF Walk!Files, Walk!AbsenceMeansExit
<1>6. CASE n = 3
  BY <1>2, <1>6 DEF Walk!Files, Walk!AbsenceMeansExit
<1>7. CASE n = 4
  BY <1>2, <1>7 DEF Walk!Files, Walk!AbsenceMeansExit
<1> QED
  BY <1>1, <1>3, <1>4, <1>5, <1>6, <1>7

(* What is had of a file is kept: the entry goes on, ends without a record *)
(* or ends with one.                                                       *)
LEMMA KeepKeepsWalk ==
  ASSUME Walk!Walked, Walk!AtEntry, UNCHANGED Walk!system,
         NEW x \in v11[v4] \cup {None}, Walk!Keep(x),
         v1[v4] = None => Walk!file \in {"schedstat", "io"}
  PROVE  Walk!Walked'
<1>1. PICK n \in Nat : n = Len(v6)
  BY LenProperties DEF Walk!Walked, Walk!Place
<1>2. n < 5 /\ n \in Nat
  BY <1>1, FiveFiles DEF Walk!Walked, Walk!Place
<1>3. /\ Walk!file = "stat" <=> n = 0
      /\ Walk!file = "cgroup" <=> n = 4
      /\ Walk!file \in {"schedstat", "io"} <=> n \in {2, 3}
  BY <1>1, <1>2, FileByCount
<1>4. /\ v3 = FALSE /\ v4 \in WalkedPids /\ v4 # 0
      /\ v6 \in Seq(Nat \cup {None}) /\ (n > 0 => v6[1] # None)
      /\ \A i \in 1..n : v6[i] \in v11[v4] \cup {None}
  BY <1>1, AtTheEntry DEF Walk!Walked, Walk!Place
<1>5. x \in Nat \cup {None}
  BY <1>4 DEF Walk!Walked, Walk!Lives
<1>6. PICK s : s = Append(v6, x)
  OBVIOUS
<1>7. s \in Seq(Nat \cup {None}) /\ Len(s) = n + 1 /\ s[n + 1] = x /\ \A i \in 1..n : s[i] = v6[i]
  BY <1>1, <1>4, <1>5, <1>6, AppendProperties
<1>8. \A i \in 1..(n + 1) : s[i] \in v11[v4] \cup {None}
  BY <1>2, <1>4, <1>7
<1>9. CASE n = 0 /\ x = None
  <2>1. Walk!Leave /\ v9' = v9 + 1 /\ UNCHANGED <<v7, v8>>
    BY <1>3, <1>9 DEF Walk!Keep
  <2> QED
    BY <2>1, LeavesWithout
<1>10. CASE n = 4
  <2>1. PICK r : r = [pid |-> v4, parts |-> s, alive |-> v1[v4] = s[1]]
    OBVIOUS
  <2>2. Walk!Leave /\ v8' = v8 /\ v9' = v9
    BY <1>3, <1>10 DEF Walk!Keep
  <2>3. Append(v6, x)[1] = v6[1]
    BY <1>6, <1>7, <1>10
  <2>4. s[1] = v6[1]
    BY <1>7, <1>10
  <2>5. v7' = v7 \cup {[pid |-> v4, parts |-> Append(v6, x), alive |-> v1[v4] = Append(v6, x)[1]]}
    BY <1>3, <1>10, <2>3 DEF Walk!Keep
  <2>6. v7' = v7 \cup {r}
    BY <1>6, <2>1, <2>5
  <2>7. s[1] \in v11[v4]
    BY <1>4, <1>8, <1>10, <2>4
  <2>8. r.pid = v4 /\ r.parts = s /\ (r.alive <=> v1[v4] = r.parts[1])
    BY <2>1
  <2>9. r.parts[1] \in v11[v4] /\ \A i \in 1..5 : r.parts[i] \in v11[v4] \cup {None}
    BY <1>8, <1>10, <2>7, <2>8
  <2>10. v1[v4] # None
    BY <1>3, <1>10
  <2> QED
    BY <2>2, <2>6, <2>8, <2>9, <2>10, LeavesRecord
<1>11. CASE n # 4 /\ ~(n = 0 /\ x = None)
  <2>1. /\ v6' = s /\ v5' = None
        /\ UNCHANGED <<v1, v2, v3, v4, v7, v8, v9, v10, v11, v12>>
    BY <1>3, <1>6, <1>11 DEF Walk!Keep, Walk!snapshot, Walk!system
  <2>2. Walk!Lives'
    BY <2>1 DEF Walk!Walked, Walk!Lives
  <2>3. Walk!AtEntry' /\ v4' = v4 /\ v11' = v11
    BY <2>1 DEF Walk!AtEntry
  <2>4. Walk!Place'
    <3>1. v6' \in Seq(Nat \cup {None}) /\ Len(v6') = n + 1 /\ n + 1 < 5
      BY <1>2, <1>7, <1>11, <2>1
    <3>2. v6'[1] # None
      <4>1. CASE n = 0
        BY <1>7, <1>11, <2>1, <4>1
      <4>2. CASE n > 0
        BY <1>4, <1>7, <2>1, <4>2
      <4> QED
        BY <1>2, <4>1, <4>2
    <3>3. \A i \in 1..Len(v6') : v6'[i] \in v11'[v4'] \cup {None}
      BY <1>8, <2>1, <2>3, <3>1
    <3>4. v3' \in BOOLEAN /\ v4' \in WalkedPids \cup {0} /\ v5' = None
      BY <1>4, <2>1
    <3> QED
      BY <2>3, <3>1, <3>2, <3>3, <3>4, FiveFiles DEF Walk!Place
  <2>5. Walk!Counted'
    BY <2>1, <2>3 DEF Walk!Walked, Walk!Counted
  <2>6. Walk!Recorded'
    BY <2>1 DEF Walk!Walked, Walk!Recorded, Walk!Past, Walk!Done
  <2>7. \A p \in WalkedPids : Walk!Past(p)' => Walk!Listed(p)'
    BY <2>1 DEF Walk!Walked, Walk!Listed, Walk!RecordsOf, Walk!Past, Walk!Done
  <2> QED
    BY <2>2, <2>4, <2>5, <2>6, <2>7 DEF Walk!Walked
<1> QED
  BY <1>2, <1>9, <1>10, <1>11

(* A file that is not there means an exit where it cannot be missing, and  *)
(* then the process did not live throughout.                               *)
LEMMA AbsenceKeepsWalk ==
  ASSUME Walk!Walked, Walk!AtEntry, UNCHANGED Walk!system, Walk!NotThere,
         v12[v4] = None \/ Walk!file \in {"schedstat", "io"}
  PROVE  Walk!Walked'
<1>1. PICK n \in Nat : n = Len(v6) /\ n < 5
  BY LenProperties, FiveFiles DEF Walk!Walked, Walk!Place
<1>2. Walk!AbsenceMeansExit(Walk!file) <=> ~(Walk!file \in {"schedstat", "io"})
  BY <1>1, FileByCount
<1>3. CASE Walk!file \in {"schedstat", "io"}
  <2>1. Walk!Keep(None)
    BY <1>2, <1>3 DEF Walk!NotThere
  <2> QED
    BY <1>3, <2>1, KeepKeepsWalk
<1>4. CASE ~(Walk!file \in {"schedstat", "io"})
  <2>1. Walk!Leave /\ v8' = v8 + 1 /\ UNCHANGED <<v7, v9>>
    BY <1>2, <1>4 DEF Walk!NotThere, Walk!Vanished
  <2> QED
    BY <1>4, <2>1, LeavesWithout
<1> QED
  BY <1>3, <1>4

LEMMA OpenKeepsWalk ==
  ASSUME Walk!Walked, Walk!Open
  PROVE  Walk!Walked'
<1>1. Walk!AtEntry /\ v5 = None /\ UNCHANGED Walk!system
  BY DEF Walk!Open, Walk!AtEntry
<1>2. v4 \in WalkedPids
  BY <1>1, AtTheEntry
<1>3. CASE v1[v4] = None
  <2>1. Walk!NotThere
    BY <1>3 DEF Walk!Open
  <2>2. v12[v4] = None
    BY <1>2, <1>3 DEF Walk!Walked, Walk!Lives
  <2> QED
    BY <1>1, <2>1, <2>2, AbsenceKeepsWalk
<1>4. CASE v1[v4] # None
  <2>1. \/ v5' = v1[v4] /\ UNCHANGED <<v3, v4, v6, Walk!snapshot>>
        \/ Walk!Keep(None)
        \/ Walk!file \in {"schedstat", "io"} /\ Walk!NotThere
    BY <1>4 DEF Walk!Open
  <2>2. CASE v5' = v1[v4] /\ UNCHANGED <<v3, v4, v6, Walk!snapshot>>
    <3>1. v5' = v1[v4] /\ UNCHANGED <<v1, v2, v3, v4, v6, v7, v8, v9, v10, v11, v12>>
      BY <1>1, <2>2 DEF Walk!snapshot, Walk!system
    <3>2. Walk!Lives'
      BY <3>1 DEF Walk!Walked, Walk!Lives
    <3>3. v1[v4] \in v11[v4]
      BY <1>2, <1>4 DEF Walk!Walked, Walk!Lives
    <3>4. Walk!Place'
      BY <1>1, <3>1, <3>3 DEF Walk!Walked, Walk!Place, Walk!AtEntry
    <3>5. Walk!Counted'
      BY <3>1 DEF Walk!Walked, Walk!Counted, Walk!AtEntry
    <3>6. Walk!Recorded'
      BY <3>1 DEF Walk!Walked, Walk!Recorded, Walk!Past, Walk!Done
    <3>7. \A p \in WalkedPids : Walk!Past(p)' => Walk!Listed(p)'
      BY <3>1 DEF Walk!Walked, Walk!Listed, Walk!RecordsOf, Walk!Past, Walk!Done
    <3> QED
      BY <3>2, <3>4, <3>5, <3>6, <3>7 DEF Walk!Walked
  <2>3. CASE Walk!Keep(None)
    BY <1>1, <1>4, <2>3, KeepKeepsWalk
  <2>4. CASE Walk!file \in {"schedstat", "io"} /\ Walk!NotThere
    BY <1>1, <2>4, AbsenceKeepsWalk
  <2> QED
    BY <2>1, <2>2, <2>3, <2>4
<1> QED
  BY <1>3, <1>4

LEMMA ReadKeepsWalk ==
  ASSUME Walk!Walked, Walk!Read
  PROVE  Walk!Walked'
<1>1. Walk!AtEntry /\ v5 # None /\ UNCHANGED Walk!system /\ v5 \in v11[v4]
  BY DEF Walk!Read, Walk!Walked, Walk!Place
<1>2. v4 \in WalkedPids
  BY <1>1, AtTheEntry
<1>3. CASE v1[v4] = v5
  <2>1. PICK x \in {v5, None} : Walk!Keep(x)
    BY <1>3 DEF Walk!Read
  <2> QED
    BY <1>1, <1>3, <2>1, KeepKeepsWalk
<1>4. CASE v1[v4] # v5
  <2>1. Walk!NotThere
    BY <1>4 DEF Walk!Read
  <2>2. v12[v4] = None
    BY <1>1, <1>2, <1>4 DEF Walk!Walked, Walk!Lives
  <2> QED
    BY <1>1, <2>1, <2>2, AbsenceKeepsWalk
<1> QED
  BY <1>3, <1>4

LEMMA WalkInvNext == WalkInv /\ [Next]_partsVars => WalkInv'
<1> SUFFICES ASSUME part = "procwalk", Walk!Walked, [Next]_partsVars, part' = "procwalk"
             PROVE  Walk!Walked'
  BY DEF WalkInv, Next, partsVars
<1>1. CASE UNCHANGED partsVars
  <2>1. UNCHANGED <<v1, v2, v3, v4, v5, v6, v7, v8, v9, v10, v11, v12>>
    BY <1>1 DEF partsVars, from6
  <2>2. Walk!Lives'
    BY <2>1 DEF Walk!Walked, Walk!Lives
  <2> QED
    BY <2>1, <2>2, SnapshotStands
<1>2. CASE Walk!Next
  <2>1. ASSUME NEW p \in WalkedPids, Walk!Start(p) PROVE Walk!Walked'
    BY <2>1, StartKeepsWalk
  <2>2. ASSUME NEW p \in WalkedPids, Walk!Exit(p) PROVE Walk!Walked'
    BY <2>2, ExitKeepsWalk
  <2>3. CASE Walk!Walk
    BY <2>3, WalkBegins
  <2>4. CASE Walk!NextEntry
    BY <2>4, NextEntryKeepsWalk
  <2>5. CASE Walk!Finish
    BY <2>5, FinishKeepsWalk
  <2>6. CASE Walk!Open
    BY <2>6, OpenKeepsWalk
  <2>7. CASE Walk!Read
    BY <2>7, ReadKeepsWalk
  <2> QED
    BY <1>2, <2>1, <2>2, <2>3, <2>4, <2>5, <2>6, <2>7 DEF Walk!Next
<1> QED
  BY <1>1, <1>2 DEF Next, Pure, Readings, Cards, Reader, ReadInput

LEMMA WalkedIsSound ==
  Walk!Walked => Walk!LivingAreListed /\ Walk!EndedHaveNoRecord /\ Walk!PartsAreOfOne
<1> SUFFICES ASSUME Walk!Walked
             PROVE  Walk!LivingAreListed /\ Walk!EndedHaveNoRecord /\ Walk!PartsAreOfOne
  OBVIOUS
<1>1. \A p \in WalkedPids : \A x \in v11[p] : v11[p] # {x} => Walk!Cardinality(v11[p]) > 1
  BY LivedIsFinite, TwoInSet, FiniteInWalk DEF Walk!Walked
<1>2. Walk!LivingAreListed
  BY DEF Walk!LivingAreListed, Walk!Walked, Walk!Listed, Walk!Past
<1>3. Walk!EndedHaveNoRecord
  <2>1. \A r \in v7 : r.alive \/ Walk!Cardinality(v11[r.pid]) > 1
    BY <1>1 DEF Walk!Walked, Walk!Recorded
  <2>2. Walk!Done => v10 = Walk!Cardinality(v7) + v8 + v9
    BY CountedAs, FiniteInWalk DEF Walk!Walked, EntriesAdd, Walk!Done, Walk!AtEntry
  <2> QED
    BY <2>1, <2>2 DEF Walk!EndedHaveNoRecord
<1>4. Walk!PartsAreOfOne
  <2> SUFFICES ASSUME NEW r \in v7, NEW i \in 1..Len(Walk!Files)
               PROVE  r.parts[i] \in {r.parts[1], None} \/ Walk!Cardinality(v11[r.pid]) > 1
    BY DEF Walk!PartsAreOfOne
  <2>1. /\ r.pid \in WalkedPids /\ r.parts[1] \in v11[r.pid]
        /\ r.parts[i] \in v11[r.pid] \cup {None}
    BY DEF Walk!Walked, Walk!Recorded
  <2>2. CASE v11[r.pid] = {r.parts[1]}
    BY <2>1, <2>2
  <2>3. CASE v11[r.pid] # {r.parts[1]}
    BY <1>1, <2>1, <2>3
  <2> QED
    BY <2>2, <2>3
<1> QED
  BY <1>2, <1>3, <1>4

-----------------------------------------------------------------------------
(***************************************************************************)
(* CgroupWalk: inode v1, made v2, frames v3, doubt v4, groups v5, vanished *)
(* v6, too_deep v7, directory_errors v8, throughout v9.                    *)
(***************************************************************************)
TreeInv == part = "cgroupwalk" => Tree!Walked

(* Of some cgroups there is a first in the order of names.                 *)
LEMMA FirstByRank ==
  ASSUME NEW S \in SUBSET Cgroups, S # {}
  PROVE  \E p \in S : \A q \in S : CgroupRank[p] <= CgroupRank[q]
<1>1. \A p \in S : CgroupRank[p] \in Nat
  BY CgroupsAssumption
<1> QED
  BY <1>1, LeastByRank

(* What a parent is, for the constants.                                    *)
LEMMA ParentIsBefore ==
  ASSUME NEW p \in Cgroups, p # RootCgroup
  PROVE  CgroupAbove[p] \in Cgroups /\ CgroupAbove[p] # p
         /\ CgroupRank[CgroupAbove[p]] < CgroupRank[p]
<1>1. \A q \in Cgroups : CgroupRank[q] \in Nat
  BY CgroupsAssumption
<1>2. CgroupAbove[p] \in Cgroups /\ CgroupRank[CgroupAbove[p]] < CgroupRank[p]
  BY CgroupsAssumption
<1> QED
  BY <1>1, <1>2

(* The world may change under a visit where nothing lived throughout.      *)
LEMMA VisitStands ==
  ASSUME NEW f, Tree!VisitSound(f), v5' = v5, v9' \subseteq v9, \A p \in v9' : v1'[p] = v1[p]
  PROVE  Tree!VisitSound(f)'
  BY DEF Tree!VisitSound, Tree!Index, Tree!Recorded

LEMMA StackStands ==
  ASSUME Tree!Stacked, v3' = v3, v5' = v5, v9' \subseteq v9, \A p \in v9' : v1'[p] = v1[p]
  PROVE  Tree!Stacked'
<1>1. PICK s : s = v3
  OBVIOUS
<1>2. \A k \in 1..Len(s) : Tree!VisitSound(s[k])
  BY <1>1 DEF Tree!Stacked
<1>3. \A k \in 1..Len(s) : Tree!VisitSound(s[k])'
  BY <1>2, VisitStands
<1> QED
  BY <1>1, <1>3 DEF Tree!Stacked, Tree!Visits, Tree!Waits, Tree!Children

LEMMA TreeStands ==
  ASSUME Tree!Walked, Tree!World', UNCHANGED <<v3, v5, v7, v8>>,
         v9' \subseteq v9, \A p \in v9' : v1'[p] = v1[p]
  PROVE  Tree!Walked'
<1>1. Tree!Stacked'
  BY StackStands DEF Tree!Walked
<1>2. Tree!TreeIsOrdered'
  BY DEF Tree!Walked, Tree!TreeIsOrdered, Tree!Index
<1>3. \A p : Tree!Covered(p) => Tree!Covered(p)'
  BY DEF Tree!Covered, Tree!Recorded, Tree!Index, Tree!here, Tree!At, Tree!Waits
<1> QED
  BY <1>1, <1>2, <1>3 DEF Tree!Walked, Tree!Numbers

LEMMA MakeKeepsTree ==
  ASSUME Tree!Walked, NEW p \in Cgroups \ {RootCgroup}, Tree!Make(p)
  PROVE  Tree!Walked'
<1>1. /\ v1[p] = None /\ CgroupAbove[p] \in Tree!Live
      /\ v2' = v2 + 1 /\ v1' = [v1 EXCEPT ![p] = v2']
      /\ UNCHANGED <<v3, v5, v7, v8, v9>>
  BY DEF Tree!Make
<1>2. v2' \in Nat /\ v2' # None
  BY <1>1, WalkedPidsAssumption DEF Tree!Walked, Tree!World
<1>3. p \notin v9 /\ v9 \subseteq Cgroups
  BY <1>1 DEF Tree!Walked, Tree!World, Tree!Live
<1>4. Tree!Live' = Tree!Live \cup {p}
  BY <1>1, <1>2 DEF Tree!Live, Tree!Walked, Tree!World
<1>5. Tree!World'
  BY <1>1, <1>2, <1>3, <1>4 DEF Tree!Walked, Tree!World
<1>6. \A q \in v9' : v1'[q] = v1[q]
  BY <1>1, <1>3 DEF Tree!Walked, Tree!World
<1> QED
  BY <1>1, <1>5, <1>6, TreeStands

LEMMA UnmakeKeepsTree ==
  ASSUME Tree!Walked, NEW p \in Cgroups \ {RootCgroup}, Tree!Unmake(p)
  PROVE  Tree!Walked'
<1>1. /\ Tree!Children(p) \cap Tree!Live = {}
      /\ v1' = [v1 EXCEPT ![p] = None] /\ v9' = v9 \ {p}
      /\ UNCHANGED <<v2, v3, v5, v7, v8>>
  BY DEF Tree!Unmake
<1>2. Tree!Live' = Tree!Live \ {p} /\ Tree!Live \subseteq Cgroups
  BY <1>1 DEF Tree!Live, Tree!Walked, Tree!World
<1>3. \A q \in Tree!Live \ {RootCgroup} : CgroupAbove[q] # p
  BY <1>1, <1>2 DEF Tree!Children
<1>4. Tree!World'
  BY <1>1, <1>2, <1>3 DEF Tree!Walked, Tree!World, Tree!Numbers
<1>5. \A q \in v9' : v1'[q] = v1[q]
  BY <1>1, <1>2 DEF Tree!Walked, Tree!World
<1> QED
  BY <1>1, <1>4, <1>5, TreeStands

LEMMA TreeWalkBegins ==
  ASSUME Tree!Walked, Tree!Walk
  PROVE  Tree!Walked'
<1>1. PICK f : f = Tree!Visit(RootCgroup, v1[RootCgroup], None, 0, 0)
  OBVIOUS
<1>2. /\ v3 = <<>> /\ v5 = <<>> /\ v3' = <<f>> /\ v9' = Tree!Live
      /\ UNCHANGED <<v1, v2, v5, v6, v7, v8>>
  BY <1>1 DEF Tree!Walk
<1>3. /\ f.path = RootCgroup /\ f.handle = v1[RootCgroup] /\ f.step = "read" /\ f.todo = {}
      /\ f.parent = 0 /\ f.depth = 0 /\ f.index = 0 /\ f.listed = None
  BY <1>1 DEF Tree!Visit
<1>4. f \in Tree!Visits
  BY <1>1, CgroupsAssumption DEF Tree!Visit, Tree!Visits, Tree!Numbers, Tree!Walked, Tree!World
<1>5. v5' = <<>> /\ Len(v5') = 0
  BY <1>2
<1>6. \A p : ~Tree!Recorded(p)'
  BY <1>5 DEF Tree!Recorded, Tree!Index
<1>7. Tree!World'
  BY <1>2 DEF Tree!Walked, Tree!World, Tree!Live, Tree!Numbers
<1>8. Tree!VisitSound(f)'
  BY <1>2, <1>3, <1>6 DEF Tree!VisitSound
<1>9. Tree!Stacked'
  <2>1. v3' \in Seq(Tree!Visits) /\ Len(v3') = 1 /\ v3'[1] = f
    BY <1>2, <1>4
  <2>2. \A k \in 1..Len(v3') : k = 1
    BY <2>1
  <2>3. \A k \in 1..Len(v3') : \A j \in 1..(k - 1) : FALSE
    BY <2>1
  <2>4. \A k \in 2..Len(v3') : FALSE
    BY <2>1
  <2> QED
    BY <1>8, <2>1, <2>2, <2>3, <2>4 DEF Tree!Stacked, Tree!Visits
<1>10. Tree!TreeIsOrdered'
  BY <1>5 DEF Tree!TreeIsOrdered, Tree!Index
<1>11. \A p \in v9' : Tree!Covered(p)'
  <2> SUFFICES ASSUME NEW p \in v9' PROVE Tree!Covered(p)'
    OBVIOUS
  <2>1. CASE p = RootCgroup
    <3>1. v3' # <<>> /\ v3'[1] = f
      BY <1>2
    <3> QED
      BY <1>3, <2>1, <3>1 DEF Tree!Covered, Tree!here
  <2>2. CASE p # RootCgroup
    BY <1>6, <2>2 DEF Tree!Covered, Tree!Recorded, Tree!Index
  <2> QED
    BY <2>1, <2>2
<1> QED
  BY <1>2, <1>7, <1>9, <1>10, <1>11 DEF Tree!Walked, Tree!Numbers

(* The visit at hand, and those it is part of.                             *)
LEMMA AtVisit ==
  ASSUME Tree!Walked, v3 # <<>>
  PROVE  /\ Len(v3) \in Nat /\ Len(v3) >= 1 /\ Tree!here = v3[1]
         /\ \A k \in 1..Len(v3) : v3[k] \in Tree!Visits /\ Tree!VisitSound(v3[k])
         /\ \A k \in 2..Len(v3) : v3[k].step = "open" /\ v3[k].path # v3[1].path
<1>1. Len(v3) \in Nat /\ Len(v3) >= 1
  BY LenProperties, EmptySeq DEF Tree!Walked, Tree!Stacked
<1>2. \A k \in 1..Len(v3) : v3[k] \in Tree!Visits
  BY ElementOfSeq DEF Tree!Walked, Tree!Stacked
<1>3. \A k \in 1..Len(v3) : v3[k].path \in Cgroups /\ CgroupRank[v3[k].path] \in Nat
  BY <1>2, CgroupsAssumption DEF Tree!Visits
<1>4. \A k \in 2..Len(v3) : CgroupRank[v3[k].path] < CgroupRank[v3[1].path]
  BY <1>1 DEF Tree!Walked, Tree!Stacked
<1>5. \A k \in 2..Len(v3) : v3[k].path # v3[1].path
  BY <1>1, <1>3, <1>4
<1> QED
  BY <1>1, <1>2, <1>5 DEF Tree!Walked, Tree!Stacked, Tree!here

(* The visit at hand goes on as another of the same path.                  *)
LEMMA StackSteps ==
  ASSUME Tree!Walked, v3 # <<>>, NEW s, s = v3, NEW f \in Tree!Visits, v3' = [v3 EXCEPT ![1] = f],
         f.path = s[1].path, Tree!VisitSound(f)',
         \A k \in 2..Len(s) : Tree!VisitSound(s[k])'
  PROVE  Tree!Stacked' /\ Len(v3') = Len(v3) /\ v3' # <<>> /\ v3'[1] = f
         /\ \A k \in 2..Len(v3) : v3'[k] = v3[k]
<1>1. s = v3 /\ s \in Seq(Tree!Visits)
  BY DEF Tree!Walked, Tree!Stacked
<1>2. PICK n \in Nat : n = Len(s) /\ n >= 1
  BY <1>1, AtVisit
<1>3. PICK t : t = v3'
  OBVIOUS
<1>4. /\ t \in Seq(Tree!Visits) /\ Len(t) = n /\ t[1] = f
      /\ \A k \in 2..n : t[k] = s[k]
  BY <1>1, <1>2, <1>3, ExceptSeq
<1>5. t # <<>>
  BY <1>2, <1>4
<1>6. \A k \in 1..n : t[k].path = s[k].path
  BY <1>1, <1>2, <1>4
<1>7. \A k \in 1..n : Tree!VisitSound(t[k])' /\ (k > 1 => t[k].step = "open")
  BY <1>1, <1>2, <1>4 DEF Tree!Walked, Tree!Stacked
<1>8. \A k \in 1..n : \A j \in 1..(k - 1) : CgroupRank[t[k].path] < CgroupRank[t[j].path]
  <2> SUFFICES ASSUME NEW k \in 1..n, NEW j \in 1..(k - 1)
               PROVE  CgroupRank[t[k].path] < CgroupRank[t[j].path]
    OBVIOUS
  <2>1. t[k].path = s[k].path /\ t[j].path = s[j].path
    BY <1>2, <1>6
  <2> QED
    BY <1>1, <1>2, <2>1 DEF Tree!Walked, Tree!Stacked
<1>9. \A k \in 2..n :
        t[k - 1].path \in Tree!Children(t[k].path) /\ ~Tree!Waits(t[k], t[k - 1].path)
  <2> SUFFICES ASSUME NEW k \in 2..n
               PROVE  t[k - 1].path \in Tree!Children(t[k].path) /\ ~Tree!Waits(t[k], t[k - 1].path)
    OBVIOUS
  <2>1. k \in 1..n /\ k - 1 \in 1..n /\ t[k] = s[k]
    BY <1>2, <1>4
  <2>2. s[k - 1].path \in Tree!Children(s[k].path) /\ ~Tree!Waits(s[k], s[k - 1].path)
    BY <1>1, <1>2 DEF Tree!Walked, Tree!Stacked
  <2> QED
    BY <1>6, <2>1, <2>2
<1>10. Tree!Stacked'
  <2>1. v3' = t /\ Len(v3') = n
    BY <1>3, <1>4
  <2>2. v3' \in Seq(Tree!Visits)
    BY <1>4, <2>1
  <2> QED
    BY <2>1, <2>2, <1>7, <1>8, <1>9 DEF Tree!Stacked, Tree!Visits, Tree!Children, Tree!Waits, Tree!Numbers
<1> QED
  BY <1>1, <1>2, <1>3, <1>4, <1>5, <1>10

(* It ends.                                                                *)
LEMMA StackReturns ==
  ASSUME Tree!Walked, v3 # <<>>, NEW s, s = v3, v3' = Tail(v3),
         \A k \in 2..Len(s) : Tree!VisitSound(s[k])'
  PROVE  Tree!Stacked' /\ Len(v3') = Len(v3) - 1
         /\ \A k \in 1..Len(v3') : v3'[k] = v3[k + 1]
<1>1. s = v3 /\ s \in Seq(Tree!Visits)
  BY DEF Tree!Walked, Tree!Stacked
<1>2. PICK n \in Nat : n = Len(s) /\ n >= 1
  BY <1>1, AtVisit
<1>3. PICK t : t = v3'
  OBVIOUS
<1>4. /\ t \in Seq(Tree!Visits) /\ Len(t) = n - 1
      /\ \A k \in 1..(n - 1) : t[k] = s[k + 1]
  BY <1>1, <1>2, <1>3, HeadTailProperties
<1>5. \A k \in 1..(n - 1) : Tree!VisitSound(t[k])' /\ t[k].step = "open"
  <2> SUFFICES ASSUME NEW k \in 1..(n - 1) PROVE Tree!VisitSound(t[k])' /\ t[k].step = "open"
    OBVIOUS
  <2>1. k + 1 \in 2..n /\ t[k] = s[k + 1]
    BY <1>2, <1>4
  <2> QED
    BY <1>1, <1>2, <2>1, AtVisit
<1>6. \A k \in 1..(n - 1) : \A j \in 1..(k - 1) : CgroupRank[t[k].path] < CgroupRank[t[j].path]
  <2> SUFFICES ASSUME NEW k \in 1..(n - 1), NEW j \in 1..(k - 1)
               PROVE  CgroupRank[t[k].path] < CgroupRank[t[j].path]
    OBVIOUS
  <2>1. k + 1 \in 1..n /\ j + 1 \in 1..((k + 1) - 1) /\ j \in 1..(n - 1)
    BY <1>2
  <2>2. CgroupRank[s[k + 1].path] < CgroupRank[s[j + 1].path]
    BY <1>1, <1>2, <2>1 DEF Tree!Walked, Tree!Stacked
  <2> QED
    BY <1>4, <2>1, <2>2
<1>7. \A k \in 2..(n - 1) :
        t[k - 1].path \in Tree!Children(t[k].path) /\ ~Tree!Waits(t[k], t[k - 1].path)
  <2> SUFFICES ASSUME NEW k \in 2..(n - 1)
               PROVE  t[k - 1].path \in Tree!Children(t[k].path) /\ ~Tree!Waits(t[k], t[k - 1].path)
    OBVIOUS
  <2>1. k + 1 \in 2..n /\ (k + 1) - 1 = k /\ k - 1 \in 1..(n - 1) /\ (k - 1) + 1 = k
    BY <1>2
  <2>3. t[k] = s[k + 1] /\ t[k - 1] = s[k]
    BY <1>4, <2>1
  <2>2. s[(k + 1) - 1].path \in Tree!Children(s[k + 1].path) /\ ~Tree!Waits(s[k + 1], s[(k + 1) - 1].path)
    BY <1>1, <1>2, <2>1 DEF Tree!Walked, Tree!Stacked
  <2> QED
    BY <2>1, <2>2, <2>3
<1>8. Tree!Stacked'
  BY <1>3, <1>4, <1>5, <1>6, <1>7
     DEF Tree!Stacked, Tree!Visits, Tree!Children, Tree!Waits, Tree!Numbers
<1> QED
  BY <1>1, <1>2, <1>3, <1>4, <1>8

(* A visit of a child begins.                                              *)
LEMMA StackCalls ==
  ASSUME Tree!Walked, v3 # <<>>, NEW s, s = v3, NEW f \in Tree!Visits, NEW g \in Tree!Visits,
         v3' = <<f, g>> \o Tail(v3), g.path = s[1].path, g.step = "open",
         f.path \in Tree!Children(g.path), ~Tree!Waits(g, f.path),
         Tree!VisitSound(f)', Tree!VisitSound(g)',
         \A k \in 2..Len(s) : Tree!VisitSound(s[k])'
  PROVE  Tree!Stacked' /\ Len(v3') = Len(v3) + 1 /\ v3' # <<>> /\ v3'[1] = f /\ v3'[2] = g
         /\ \A k \in 3..Len(v3') : v3'[k] = v3[k - 1]
<1>1. s = v3 /\ s \in Seq(Tree!Visits)
  BY DEF Tree!Walked, Tree!Stacked
<1>2. PICK n \in Nat : n = Len(s) /\ n >= 1
  BY <1>1, AtVisit
<1>3. PICK t : t = v3'
  OBVIOUS
<1>4. PICK r : r = Tail(s)
  OBVIOUS
<1>5. r \in Seq(Tree!Visits) /\ Len(r) = n - 1 /\ \A k \in 1..(n - 1) : r[k] = s[k + 1]
  BY <1>1, <1>2, <1>4, HeadTailProperties
<1>6. PICK two : two = <<f, g>>
  OBVIOUS
<1>7. two \in Seq(Tree!Visits) /\ Len(two) = 2 /\ two[1] = f /\ two[2] = g
  BY <1>6
<1>8. t = two \o r
  BY <1>1, <1>3, <1>4, <1>6
<1>9. /\ t \in Seq(Tree!Visits) /\ Len(t) = Len(two) + Len(r)
      /\ \A i \in 1..(Len(two) + Len(r)) : t[i] = IF i <= Len(two) THEN two[i] ELSE r[i - Len(two)]
  BY <1>5, <1>7, <1>8, ConcatProperties
<1>10. Len(t) = n + 1 /\ t[1] = f /\ t[2] = g
  BY <1>2, <1>5, <1>7, <1>9
<1>11. \A k \in 3..(n + 1) : t[k] = s[k - 1]
  <2> SUFFICES ASSUME NEW k \in 3..(n + 1) PROVE t[k] = s[k - 1]
    OBVIOUS
  <2>1. k \in 1..(2 + (n - 1)) /\ ~(k <= 2) /\ k - 2 \in 1..(n - 1) /\ (k - 2) + 1 = k - 1
    BY <1>2
  <2>2. t[k] = r[k - 2]
    BY <1>5, <1>7, <1>9, <2>1
  <2> QED
    BY <1>5, <2>1, <2>2
<1>12. t # <<>>
  BY <1>2, <1>10
<1>13. \A k \in 2..(n + 1) : t[k].path = s[k - 1].path
  <2> SUFFICES ASSUME NEW k \in 2..(n + 1) PROVE t[k].path = s[k - 1].path
    OBVIOUS
  <2>1. k = 2 \/ k \in 3..(n + 1)
    BY <1>2
  <2>2. s[2 - 1] = s[1]
    OBVIOUS
  <2> QED
    BY <1>10, <1>11, <2>1, <2>2
<1>14. \A k \in 1..(n + 1) : Tree!VisitSound(t[k])' /\ (k > 1 => t[k].step = "open")
  <2> SUFFICES ASSUME NEW k \in 1..(n + 1) PROVE Tree!VisitSound(t[k])' /\ (k > 1 => t[k].step = "open")
    OBVIOUS
  <2>1. CASE k = 1
    BY <1>10, <2>1
  <2>2. CASE k = 2
    BY <1>10, <2>2
  <2>3. CASE k \in 3..(n + 1)
    <3>1. k - 1 \in 2..n /\ t[k] = s[k - 1]
      BY <1>2, <1>11, <2>3
    <3> QED
      BY <1>1, <1>2, <3>1, AtVisit
  <2> QED
    BY <1>2, <2>1, <2>2, <2>3
<1>15. \A k \in 1..n : s[k].path \in Cgroups /\ CgroupRank[s[k].path] \in Nat
  BY <1>1, <1>2, AtVisit, CgroupsAssumption DEF Tree!Visits
<1>16. CgroupRank[g.path] < CgroupRank[f.path] /\ CgroupRank[f.path] \in Nat
  BY CgroupsAssumption DEF Tree!Children
<1>17. \A k \in 2..n : CgroupRank[s[k].path] < CgroupRank[s[1].path]
  <2>1. \A k \in 2..n : k \in 1..n /\ 1 \in 1..(k - 1)
    BY <1>2
  <2> QED
    BY <1>1, <1>2, <2>1 DEF Tree!Walked, Tree!Stacked
<1>18. \A k \in 1..(n + 1) : \A j \in 1..(k - 1) : CgroupRank[t[k].path] < CgroupRank[t[j].path]
  <2> SUFFICES ASSUME NEW k \in 1..(n + 1), NEW j \in 1..(k - 1)
               PROVE  CgroupRank[t[k].path] < CgroupRank[t[j].path]
    OBVIOUS
  <2>1. k \in 2..(n + 1) /\ k - 1 \in 1..n /\ t[k].path = s[k - 1].path
    BY <1>2, <1>13
  <2>2. CASE j = 1
    <3>1. CASE k = 2
      BY <1>1, <1>10, <1>16, <2>1, <2>2, <3>1
    <3>2. CASE k # 2
      <4>1. k - 1 \in 2..n
        BY <2>1, <3>2
      <4>2. CgroupRank[s[k - 1].path] < CgroupRank[g.path]
        BY <1>1, <1>17, <4>1
      <4>3. CgroupRank[g.path] \in Nat /\ CgroupRank[s[k - 1].path] \in Nat
        BY <1>1, <1>2, <1>15, <2>1
      <4> QED
        BY <1>10, <1>16, <2>1, <2>2, <4>2, <4>3
    <3> QED
      BY <3>1, <3>2
  <2>3. CASE j # 1
    <3>1. j \in 2..(n + 1) /\ j - 1 \in 1..((k - 1) - 1) /\ t[j].path = s[j - 1].path
      BY <1>2, <1>13, <2>1, <2>3
    <3>2. CgroupRank[s[k - 1].path] < CgroupRank[s[j - 1].path]
      BY <1>1, <1>2, <2>1, <3>1 DEF Tree!Walked, Tree!Stacked
    <3> QED
      BY <2>1, <3>1, <3>2
  <2> QED
    BY <2>2, <2>3
<1>19. \A k \in 2..(n + 1) :
         t[k - 1].path \in Tree!Children(t[k].path) /\ ~Tree!Waits(t[k], t[k - 1].path)
  <2> SUFFICES ASSUME NEW k \in 2..(n + 1)
               PROVE  t[k - 1].path \in Tree!Children(t[k].path) /\ ~Tree!Waits(t[k], t[k - 1].path)
    OBVIOUS
  <2>1. CASE k = 2
    BY <1>10, <2>1
  <2>2. CASE k # 2
    <3>1. k - 1 \in 2..n /\ (k - 1) - 1 \in 1..n /\ t[k] = s[k - 1] /\ t[k - 1].path = s[(k - 1) - 1].path
      BY <1>2, <1>11, <1>13, <2>2
    <3>2. /\ s[(k - 1) - 1].path \in Tree!Children(s[k - 1].path)
          /\ ~Tree!Waits(s[k - 1], s[(k - 1) - 1].path)
      BY <1>1, <1>2, <3>1 DEF Tree!Walked, Tree!Stacked
    <3> QED
      BY <3>1, <3>2
  <2> QED
    BY <2>1, <2>2
<1>20. Tree!Stacked'
  BY <1>3, <1>9, <1>10, <1>14, <1>18, <1>19
     DEF Tree!Stacked, Tree!Visits, Tree!Children, Tree!Waits, Tree!Numbers
<1> QED
  BY <1>1, <1>2, <1>3, <1>10, <1>11, <1>12, <1>20

GroupRecords == [path : Cgroups, parent : Nat, inode : Tree!Numbers, there : BOOLEAN]

(* One record more.                                                        *)
LEMMA RecordAppended ==
  ASSUME v5 \in Seq(GroupRecords), NEW r \in GroupRecords, v5' = Append(v5, r)
  PROVE  /\ v5' \in Seq(GroupRecords) /\ Len(v5') = Len(v5) + 1 /\ Len(v5) \in Nat
         /\ v5'[Len(v5) + 1] = r /\ Len(v5) + 1 \in 1..Len(v5')
         /\ \A i \in 1..Len(v5) : i \in 1..Len(v5') /\ v5'[i] = v5[i]
         /\ \A p : Tree!Recorded(p)' <=> (Tree!Recorded(p) \/ p = r.path)
<1>1. PICK s \in Seq(GroupRecords) : s = v5
  OBVIOUS
<1>2. PICK n \in Nat : n = Len(s)
  BY LenProperties
<1>3. PICK t : t = v5'
  OBVIOUS
<1>4. t \in Seq(GroupRecords) /\ Len(t) = n + 1 /\ t[n + 1] = r /\ \A i \in 1..n : t[i] = s[i]
  BY <1>1, <1>2, <1>3, AppendProperties
<1>5. n + 1 \in 1..(n + 1) /\ \A i \in 1..n : i \in 1..(n + 1)
  OBVIOUS
<1>6. ASSUME NEW p PROVE Tree!Recorded(p)' <=> (Tree!Recorded(p) \/ p = r.path)
  <2>1. \A i \in 1..(n + 1) : i \in 1..n \/ i = n + 1
    OBVIOUS
  <2>2. Tree!Recorded(p)' <=> \E i \in 1..(n + 1) : t[i].path = p
    BY <1>3, <1>4 DEF Tree!Recorded, Tree!Index
  <2>3. Tree!Recorded(p) <=> \E i \in 1..n : s[i].path = p
    BY <1>1, <1>2 DEF Tree!Recorded, Tree!Index
  <2> QED
    BY <1>4, <1>5, <2>1, <2>2, <2>3
<1> QED
  BY <1>1, <1>2, <1>3, <1>4, <1>5, <1>6

(* A visit that neither is of the new record's path, nor waits for it.     *)
LEMMA VisitOutlivesRecord ==
  ASSUME v5 \in Seq(GroupRecords), NEW r \in GroupRecords, v5' = Append(v5, r), UNCHANGED <<v1, v9>>,
         NEW f, Tree!VisitSound(f), f.step = "open", ~Tree!Waits(f, r.path)
  PROVE  Tree!VisitSound(f)'
<1>1. /\ \A i \in 1..Len(v5) : i \in 1..Len(v5') /\ v5'[i] = v5[i]
      /\ \A p : Tree!Recorded(p)' <=> (Tree!Recorded(p) \/ p = r.path)
  BY RecordAppended
<1>2. \A c \in f.todo : c.path \in Tree!Children(f.path) /\ ~Tree!Recorded(c.path)'
  BY <1>1 DEF Tree!VisitSound, Tree!Waits
<1>3. f.index \in Tree!Index' /\ v5'[f.index].path = f.path
  BY <1>1 DEF Tree!VisitSound, Tree!Index
<1>4. f.path # RootCgroup => f.parent \in Tree!Index' /\ v5'[f.parent].path = CgroupAbove[f.path]
  BY <1>1 DEF Tree!VisitSound, Tree!Index
<1> QED
  BY <1>2, <1>3, <1>4 DEF Tree!VisitSound

(* No visit waits for the one at hand.                                     *)
LEMMA NoneWaitsForHere ==
  ASSUME Tree!Walked, v3 # <<>>, NEW s, s = v3
  PROVE  \A k \in 2..Len(s) : ~Tree!Waits(s[k], s[1].path)
<1> SUFFICES ASSUME NEW k \in 2..Len(s), NEW c \in s[k].todo, c.path = s[1].path PROVE FALSE
  BY DEF Tree!Waits
<1>1. PICK n \in Nat : n = Len(s) /\ n >= 1
  BY AtVisit
<1>2. /\ s[1].path \in Tree!Children(s[2].path) /\ ~Tree!Waits(s[2], s[1].path)
  <2>1. 2 \in 2..Len(s) /\ 2 - 1 = 1
    BY <1>1
  <2> QED
    BY <2>1 DEF Tree!Walked, Tree!Stacked
<1>3. k # 2
  BY <1>2 DEF Tree!Waits
<1>4. s[k].path \in Cgroups /\ s[2].path \in Cgroups /\ CgroupRank[s[k].path] < CgroupRank[s[2].path]
  <2>1. k \in 1..n /\ 2 \in 1..n /\ 2 \in 1..(k - 1)
    BY <1>1, <1>3
  <2>2. s[k] \in Tree!Visits /\ s[2] \in Tree!Visits
    BY <1>1, <2>1, AtVisit
  <2> QED
    BY <1>1, <2>1, <2>2 DEF Tree!Walked, Tree!Stacked, Tree!Visits
<1>5. CgroupRank[s[2].path] \in Nat /\ CgroupRank[s[k].path] \in Nat
  BY <1>4, CgroupsAssumption
<1>6. s[k].path # s[2].path
  BY <1>4, <1>5
<1>7. c.path \in Tree!Children(s[k].path)
  <2>1. Tree!VisitSound(s[k])
    BY <1>1, AtVisit
  <2> QED
    BY <2>1 DEF Tree!VisitSound
<1> QED
  BY <1>2, <1>6, <1>7 DEF Tree!Children

(* Nothing below a cgroup is recorded before it.                           *)
LEMMA NoneBelowUnrecorded ==
  ASSUME Tree!Walked, NEW p, ~Tree!Recorded(p)
  PROVE  \A c \in Tree!Children(p) : ~Tree!Recorded(c)
<1> SUFFICES ASSUME NEW c \in Tree!Children(p), NEW i \in 1..Len(v5), v5[i].path = c PROVE FALSE
  BY DEF Tree!Recorded, Tree!Index
<1>1. c # RootCgroup /\ CgroupAbove[c] = p
  BY DEF Tree!Children
<1>2. v5[i].parent \in 1..(i - 1) /\ v5[v5[i].parent].path = p
  BY <1>1 DEF Tree!Walked, Tree!TreeIsOrdered, Tree!Index
<1>3. Len(v5) \in Nat
  BY LenProperties DEF Tree!Walked
<1>4. v5[i].parent \in 1..Len(v5)
  BY <1>2, <1>3
<1> QED
  BY <1>2, <1>4 DEF Tree!Recorded, Tree!Index

LEMMA RecordKeepsOrder ==
  ASSUME Tree!Walked, NEW r \in GroupRecords, v5' = Append(v5, r), r.there,
         ~Tree!Recorded(r.path),
         r.path # RootCgroup => r.parent \in Tree!Index /\ v5[r.parent].path = CgroupAbove[r.path]
  PROVE  Tree!TreeIsOrdered'
<1>1. v5 \in Seq(GroupRecords)
  BY DEF Tree!Walked, GroupRecords
<1>2. PICK n \in Nat : n = Len(v5)
  BY <1>1, LenProperties
<1>3. PICK t : t = v5'
  OBVIOUS
<1>4. PICK s : s = v5
  OBVIOUS
<1>5. Len(t) = n + 1 /\ t[n + 1] = r /\ \A i \in 1..n : t[i] = s[i]
  BY <1>1, <1>2, <1>3, <1>4, RecordAppended
<1>6. \A i \in 1..(n + 1) : i \in 1..n \/ i = n + 1
  OBVIOUS
<1>7. \A i \in 1..n :
        /\ s[i].there
        /\ s[i].path # RootCgroup =>
             s[i].parent \in 1..(i - 1) /\ s[s[i].parent].path = CgroupAbove[s[i].path]
        /\ \A j \in 1..n : s[i].path = s[j].path => i = j
  BY <1>2, <1>4 DEF Tree!Walked, Tree!TreeIsOrdered, Tree!Index
<1>8. \A i \in 1..n : s[i].path # r.path
  BY <1>2, <1>4 DEF Tree!Recorded, Tree!Index
<1>9. \A i \in 1..n : t[i].there /\ (t[i].path # RootCgroup =>
             t[i].parent \in 1..(i - 1) /\ t[t[i].parent].path = CgroupAbove[t[i].path])
  <2> SUFFICES ASSUME NEW i \in 1..n
               PROVE  t[i].there /\ (t[i].path # RootCgroup =>
                        t[i].parent \in 1..(i - 1) /\ t[t[i].parent].path = CgroupAbove[t[i].path])
    OBVIOUS
  <2>1. t[i] = s[i] /\ \A j \in 1..(i - 1) : j \in 1..n /\ t[j] = s[j]
    BY <1>5
  <2> QED
    BY <1>7, <2>1
<1>10. r.path # RootCgroup => r.parent \in 1..n /\ t[r.parent].path = CgroupAbove[r.path]
  BY <1>2, <1>4, <1>5 DEF Tree!Index
<1>11. (n + 1) - 1 = n
  OBVIOUS
<1>12. \A i \in 1..(n + 1) : t[i].there /\ (t[i].path # RootCgroup =>
             t[i].parent \in 1..(i - 1) /\ t[t[i].parent].path = CgroupAbove[t[i].path])
  <2> SUFFICES ASSUME NEW i \in 1..(n + 1)
               PROVE  t[i].there /\ (t[i].path # RootCgroup =>
                        t[i].parent \in 1..(i - 1) /\ t[t[i].parent].path = CgroupAbove[t[i].path])
    OBVIOUS
  <2>1. CASE i \in 1..n
    BY <1>9, <2>1
  <2>2. CASE i = n + 1
    BY <1>5, <1>10, <1>11, <2>2
  <2> QED
    BY <1>6, <2>1, <2>2
<1>13. \A i, j \in 1..(n + 1) : t[i].path = t[j].path => i = j
  <2> SUFFICES ASSUME NEW i \in 1..(n + 1), NEW j \in 1..(n + 1), t[i].path = t[j].path PROVE i = j
    OBVIOUS
  <2>1. CASE i \in 1..n /\ j \in 1..n
    BY <1>5, <1>7, <2>1
  <2>2. CASE i \in 1..n /\ j = n + 1
    BY <1>5, <1>8, <2>2
  <2>3. CASE j \in 1..n /\ i = n + 1
    BY <1>5, <1>8, <2>3
  <2> QED
    BY <1>6, <2>1, <2>2, <2>3
<1> QED
  BY <1>3, <1>5, <1>12, <1>13 DEF Tree!TreeIsOrdered, Tree!Index

LEMMA RecordKeepsTree ==
  ASSUME Tree!Walked, v3 # <<>>, v3[1].step \in {"read", "alive"}, Tree!There, Tree!Record,
         UNCHANGED <<v1, v2, v7, v8, v9>>
  PROVE  Tree!Walked'
<1>1. PICK s : s = v3
  OBVIOUS
<1>2. PICK h \in Tree!Visits : h = s[1] /\ Tree!VisitSound(h)
  BY <1>1, AtVisit
<1>3. h.step \in {"read", "alive"} /\ Tree!here = h
  BY <1>1, <1>2, AtVisit
<1>4. PICK r : r = [path |-> h.path, parent |-> h.parent, inode |-> h.listed, there |-> TRUE]
  OBVIOUS
<1>5. r \in GroupRecords
  BY <1>2, <1>4 DEF GroupRecords, Tree!Visits
<1>6. v5' = Append(v5, r)
  <2>1. Tree!There = TRUE
    BY DEF Tree!There
  <2> QED
    BY <1>3, <1>4, <2>1 DEF Tree!Record
<1>7. v5 \in Seq(GroupRecords) /\ v5' \in Seq(GroupRecords)
  BY <1>5, <1>6, RecordAppended DEF Tree!Walked, GroupRecords
<1>8. PICK m \in Nat : m = Len(v5')
  BY <1>7, LenProperties
<1>9. PICK f : f = [h EXCEPT !.step = "list", !.index = m]
  OBVIOUS
<1>10. /\ f \in Tree!Visits /\ f.path = h.path /\ f.handle = h.handle /\ f.parent = h.parent
       /\ f.step = "list" /\ f.index = m /\ f.todo = h.todo
  BY <1>2, <1>9 DEF Tree!Visits
<1>11. v3' = [v3 EXCEPT ![1] = f]
  BY <1>3, <1>8, <1>9 DEF Tree!Record, Tree!Step
<1>12. ~Tree!Recorded(h.path) /\ h.todo = {}
  BY <1>2, <1>3 DEF Tree!VisitSound
<1>13. r.path = h.path /\ r.parent = h.parent /\ r.there
  BY <1>4
<1>14. /\ Len(v5') = Len(v5) + 1 /\ v5'[m] = r /\ m \in Tree!Index'
       /\ \A i \in 1..Len(v5) : i \in 1..Len(v5') /\ v5'[i] = v5[i]
       /\ \A p : Tree!Recorded(p)' <=> (Tree!Recorded(p) \/ p = h.path)
  BY <1>5, <1>6, <1>7, <1>8, <1>13, RecordAppended DEF Tree!Index
<1>15. h.path # RootCgroup => h.parent \in Tree!Index /\ v5[h.parent].path = CgroupAbove[h.path]
  BY <1>2 DEF Tree!VisitSound
<1>16. \A c \in Tree!Children(h.path) : ~Tree!Recorded(c)'
  <2>1. \A c \in Tree!Children(h.path) : c # h.path
    BY ParentIsBefore DEF Tree!Children
  <2> QED
    BY <1>12, <1>14, <2>1, NoneBelowUnrecorded
<1>17. Tree!VisitSound(f)'
  <2>1. f.path \in v9' => f.handle = v1'[f.path]
    BY <1>2, <1>10 DEF Tree!VisitSound
  <2>2. f.path # RootCgroup => f.parent \in Tree!Index' /\ v5'[f.parent].path = CgroupAbove[f.path]
    BY <1>10, <1>14, <1>15 DEF Tree!Index
  <2>3. f.index \in Tree!Index' /\ v5'[f.index].path = f.path
    BY <1>10, <1>13, <1>14
  <2> QED
    BY <1>10, <1>12, <1>16, <2>1, <2>2, <2>3 DEF Tree!VisitSound
<1>18. \A k \in 2..Len(s) : Tree!VisitSound(s[k])'
  <2> SUFFICES ASSUME NEW k \in 2..Len(s) PROVE Tree!VisitSound(s[k])'
    OBVIOUS
  <2>1. Tree!VisitSound(s[k]) /\ s[k].step = "open"
    BY <1>1, AtVisit
  <2>2. ~Tree!Waits(s[k], h.path)
    BY <1>1, <1>2, NoneWaitsForHere
  <2> QED
    BY <1>5, <1>6, <1>7, <1>13, <2>1, <2>2, VisitOutlivesRecord
<1>19. /\ Tree!Stacked' /\ Len(v3') = Len(v3) /\ v3' # <<>> /\ v3'[1] = f
       /\ \A k \in 2..Len(v3) : v3'[k] = v3[k]
  BY <1>1, <1>2, <1>10, <1>11, <1>17, <1>18, StackSteps
<1>20. Tree!TreeIsOrdered'
  BY <1>5, <1>6, <1>12, <1>13, <1>15, RecordKeepsOrder
<1>21. Tree!World'
  BY DEF Tree!Walked, Tree!World, Tree!Live, Tree!Numbers
<1>22. Tree!At("list")' /\ Tree!here' = f
  BY <1>10, <1>19 DEF Tree!At, Tree!here
<1>23. ASSUME NEW p, Tree!Covered(p) PROVE Tree!Covered(p)'
  <2>1. CASE Tree!Recorded(p) \/ p = h.path
    BY <1>14, <2>1 DEF Tree!Covered
  <2>2. CASE \E k \in 1..Len(v3) : Tree!Waits(v3[k], p)
    <3>1. PICK k \in 1..Len(v3) : Tree!Waits(v3[k], p)
      BY <2>2
    <3>2. k # 1
      BY <1>1, <1>2, <1>12, <3>1 DEF Tree!Waits
    <3>3. k \in 2..Len(v3) /\ k \in 1..Len(v3')
      BY <1>19, <3>1, <3>2
    <3>4. PICK d : d = v3[k]
      OBVIOUS
    <3>5. v3'[k] = d /\ Tree!Waits(d, p)
      BY <1>19, <3>1, <3>3, <3>4
    <3>6. \E j \in 1..Len(v3') : Tree!Waits(v3'[j], p)
      BY <3>3, <3>5
    <3> QED
      BY <3>6 DEF Tree!Covered, Tree!Waits
  <2>3. CASE p # RootCgroup /\ ~Tree!Recorded(CgroupAbove[p])
    BY <1>10, <1>14, <1>22, <2>3 DEF Tree!Covered
  <2>4. ~Tree!At("list")
    BY <1>3 DEF Tree!At
  <2> QED
    BY <1>3, <1>23, <2>1, <2>2, <2>3, <2>4 DEF Tree!Covered
<1> QED
  BY <1>7, <1>19, <1>20, <1>21, <1>23 DEF Tree!Walked, GroupRecords, Tree!Numbers

(* Whatever the visits under way, the world is as it was.                  *)
LEMMA WorldStands ==
  ASSUME Tree!Walked, UNCHANGED <<v1, v2, v9>>
  PROVE  Tree!World'
  BY DEF Tree!Walked, Tree!World, Tree!Live, Tree!Numbers

(* Visits that stay in a step that records nothing.                        *)
LEMMA OthersStand ==
  ASSUME Tree!Walked, v3 # <<>>, NEW s, s = v3, UNCHANGED <<v1, v5, v9>>
  PROVE  \A k \in 2..Len(s) : Tree!VisitSound(s[k])'
<1> SUFFICES ASSUME NEW k \in 2..Len(s) PROVE Tree!VisitSound(s[k])'
  OBVIOUS
<1>1. Tree!VisitSound(s[k])
  BY AtVisit
<1> QED
  BY <1>1, VisitStands

(* A visit in doubt whether its group is alive.                            *)
LEMMA DoubtKeepsTree ==
  ASSUME Tree!Walked, v3 # <<>>, v3[1].step = "read",
         Tree!Step([v3[1] EXCEPT !.step = "alive"]), UNCHANGED <<v1, v2, v5, v7, v8, v9>>
  PROVE  Tree!Walked'
<1>1. PICK s : s = v3
  OBVIOUS
<1>2. PICK h \in Tree!Visits : h = s[1] /\ Tree!VisitSound(h)
  BY <1>1, AtVisit
<1>3. PICK f : f = [h EXCEPT !.step = "alive"]
  OBVIOUS
<1>4. /\ f \in Tree!Visits /\ f.path = h.path /\ f.handle = h.handle /\ f.parent = h.parent
      /\ f.step = "alive" /\ f.todo = h.todo
  BY <1>2, <1>3 DEF Tree!Visits
<1>5. v3' = [v3 EXCEPT ![1] = f] /\ h.step = "read"
  BY <1>1, <1>2, <1>3 DEF Tree!Step
<1>6. Tree!VisitSound(f)'
  <2>1. Tree!VisitSound(f)
    BY <1>2, <1>4, <1>5 DEF Tree!VisitSound
  <2> QED
    BY <2>1, VisitStands
<1>7. /\ Tree!Stacked' /\ Len(v3') = Len(v3) /\ v3' # <<>> /\ v3'[1] = f
      /\ \A k \in 2..Len(v3) : v3'[k] = v3[k]
  BY <1>1, <1>2, <1>4, <1>5, <1>6, OthersStand, StackSteps
<1>8. ASSUME NEW p, Tree!Covered(p) PROVE Tree!Covered(p)'
  <2>1. CASE Tree!Recorded(p)
    BY <2>1 DEF Tree!Covered, Tree!Recorded, Tree!Index
  <2>2. CASE p = h.path
    BY <1>4, <1>7, <2>2 DEF Tree!Covered, Tree!here
  <2>3. CASE \E k \in 1..Len(v3) : Tree!Waits(v3[k], p)
    <3>1. PICK k \in 1..Len(v3) : Tree!Waits(v3[k], p)
      BY <2>3
    <3>2. k # 1
      BY <1>1, <1>2, <1>5, <3>1 DEF Tree!Waits, Tree!VisitSound
    <3>3. k \in 2..Len(v3) /\ k \in 1..Len(v3')
      BY <1>7, <3>1, <3>2
    <3>4. PICK d : d = v3[k]
      OBVIOUS
    <3>5. v3'[k] = d /\ Tree!Waits(d, p)
      BY <1>7, <3>1, <3>3, <3>4
    <3>6. \E j \in 1..Len(v3') : Tree!Waits(v3'[j], p)
      BY <3>3, <3>5
    <3> QED
      BY <3>6 DEF Tree!Covered, Tree!Waits
  <2>4. CASE p # RootCgroup /\ ~Tree!Recorded(CgroupAbove[p])
    BY <2>4 DEF Tree!Covered, Tree!Recorded, Tree!Index
  <2>5. ~Tree!At("list") /\ Tree!here = h
    BY <1>1, <1>2, <1>5, AtVisit DEF Tree!At
  <2> QED
    BY <1>8, <2>1, <2>2, <2>3, <2>4, <2>5 DEF Tree!Covered
<1>9. Tree!TreeIsOrdered'
  BY DEF Tree!Walked, Tree!TreeIsOrdered, Tree!Index
<1> QED
  BY <1>7, <1>8, <1>9, WorldStands DEF Tree!Walked, Tree!Numbers

(* The visit at hand ends, where it leaves nothing uncovered.              *)
LEMMA ReturnKeepsTree ==
  ASSUME Tree!Walked, v3 # <<>>, Tree!Return, UNCHANGED <<v1, v2, v5, v9>>,
         v7' \in Nat, v8' \in Nat,
         v7' = 0 /\ v8' = 0 =>
           /\ v7 = 0 /\ v8 = 0 /\ v3[1].todo = {} /\ v3[1].step # "list"
           /\ v3[1].step \in {"read", "alive"} => v3[1].path \notin v9
  PROVE  Tree!Walked'
<1>1. PICK s : s = v3
  OBVIOUS
<1>2. PICK h \in Tree!Visits : h = s[1] /\ Tree!VisitSound(h)
  BY <1>1, AtVisit
<1>3. v3' = Tail(v3)
  BY DEF Tree!Return
<1>4. /\ Tree!Stacked' /\ Len(v3') = Len(v3) - 1
      /\ \A k \in 1..Len(v3') : v3'[k] = v3[k + 1]
  BY <1>1, <1>3, OthersStand, StackReturns
<1>5. ASSUME NEW p \in v9, Tree!Covered(p), v7' = 0, v8' = 0 PROVE Tree!Covered(p)'
  <2>1. CASE Tree!Recorded(p)
    BY <2>1 DEF Tree!Covered, Tree!Recorded, Tree!Index
  <2>2. ~(Tree!here.path = p /\ Tree!here.step \in {"read", "alive"}) /\ ~Tree!At("list")
    BY <1>5, AtVisit DEF Tree!At
  <2>3. CASE \E k \in 1..Len(v3) : Tree!Waits(v3[k], p)
    <3>1. PICK k \in 1..Len(v3) : Tree!Waits(v3[k], p)
      BY <2>3
    <3>2. k # 1
      BY <1>5, <3>1 DEF Tree!Waits
    <3>3. k - 1 \in 1..Len(v3') /\ (k - 1) + 1 = k
      BY <1>4, <3>1, <3>2, AtVisit
    <3>4. PICK d : d = v3[k]
      OBVIOUS
    <3>5. v3'[k - 1] = d /\ Tree!Waits(d, p)
      BY <1>4, <3>1, <3>3, <3>4
    <3>6. \E j \in 1..Len(v3') : Tree!Waits(v3'[j], p)
      BY <3>3, <3>5
    <3> QED
      BY <3>6 DEF Tree!Covered, Tree!Waits
  <2>4. CASE p # RootCgroup /\ ~Tree!Recorded(CgroupAbove[p])
    BY <2>4 DEF Tree!Covered, Tree!Recorded, Tree!Index
  <2> QED
    BY <1>5, <2>1, <2>2, <2>3, <2>4 DEF Tree!Covered
<1>6. Tree!TreeIsOrdered'
  BY DEF Tree!Walked, Tree!TreeIsOrdered, Tree!Index
<1>7. v7' = 0 /\ v8' = 0 => \A p \in v9' : Tree!Covered(p)'
  BY <1>5 DEF Tree!Walked
<1> QED
  BY <1>4, <1>6, <1>7, WorldStands DEF Tree!Walked, Tree!Numbers

LEMMA ReadGroupKeepsTree ==
  ASSUME Tree!Walked, Tree!ReadGroup
  PROVE  Tree!Walked'
<1>1. v3 # <<>> /\ v3[1].step = "read" /\ UNCHANGED <<v1, v2, v7, v8, v9>>
  BY DEF Tree!ReadGroup, Tree!At, Tree!here, Tree!system
<1>2. CASE Tree!There /\ Tree!Record
  BY <1>1, <1>2, RecordKeepsTree
<1>3. CASE Tree!Step([Tree!here EXCEPT !.step = "alive"]) /\ v5' = v5
  BY <1>1, <1>3, DoubtKeepsTree DEF Tree!here
<1> QED
  BY <1>2, <1>3 DEF Tree!ReadGroup

LEMMA CheckAliveKeepsTree ==
  ASSUME Tree!Walked, Tree!CheckAlive
  PROVE  Tree!Walked'
<1>1. v3 # <<>> /\ v3[1].step = "alive" /\ UNCHANGED <<v1, v2, v7, v8, v9>>
  BY DEF Tree!CheckAlive, Tree!At, Tree!here, Tree!system
<1>2. CASE Tree!There
  BY <1>1, <1>2, RecordKeepsTree DEF Tree!CheckAlive
<1>3. CASE ~Tree!There
  <2>1. Tree!Return /\ v5' = v5
    BY <1>3 DEF Tree!CheckAlive
  <2>2. Tree!VisitSound(v3[1]) /\ Tree!here = v3[1]
    BY <1>1, AtVisit
  <2>3. v3[1].todo = {} /\ v3[1].path \notin v9
    BY <1>1, <1>3, <2>2 DEF Tree!VisitSound, Tree!There
  <2>4. v7' \in Nat /\ v8' \in Nat
    BY <1>1 DEF Tree!Walked
  <2> QED
    BY <1>1, <2>1, <2>3, <2>4, ReturnKeepsTree
<1> QED
  BY <1>2, <1>3

LEMMA LeaveKeepsTree ==
  ASSUME Tree!Walked, Tree!Leave
  PROVE  Tree!Walked'
<1>1. /\ v3 # <<>> /\ v3[1].step = "open" /\ v3[1].todo = {} /\ Tree!Return
      /\ UNCHANGED <<v1, v2, v5, v7, v8, v9>>
  BY DEF Tree!Leave, Tree!At, Tree!here, Tree!system
<1>2. v7' \in Nat /\ v8' \in Nat
  BY <1>1 DEF Tree!Walked
<1> QED
  BY <1>1, <1>2, ReturnKeepsTree

(* The children found are those that live, unless the listing failed.      *)
LEMMA ListKeepsTree ==
  ASSUME Tree!Walked, Tree!List
  PROVE  Tree!Walked'
<1>1. v3 # <<>> /\ v3[1].step = "list" /\ UNCHANGED <<v1, v2, v5, v9>>
  BY DEF Tree!List, Tree!At, Tree!here, Tree!system
<1>2. PICK s : s = v3
  OBVIOUS
<1>3. PICK h \in Tree!Visits : h = s[1] /\ Tree!VisitSound(h) /\ Tree!here = h
  BY <1>1, <1>2, AtVisit
<1>4. PICK found \in SUBSET (Tree!Children(h.path) \cap Tree!Live) :
        /\ \/ /\ Tree!There => found = Tree!Children(h.path) \cap Tree!Live
              /\ v8' = v8
           \/ v8' = v8 + 1
        /\ IF found # {} /\ h.depth >= WalkDepth
           THEN v7' = v7 + 1 /\ Tree!Return
           ELSE /\ v7' = v7
                /\ Tree!Step([h EXCEPT !.step = "open",
                                !.todo = {[path |-> c, inode |-> v1[c]] : c \in found}])
  BY <1>3 DEF Tree!List
<1>5. v7 \in Nat /\ v8 \in Nat /\ v7' \in Nat /\ v8' \in Nat
  BY <1>4 DEF Tree!Walked
<1>6. CASE found # {} /\ h.depth >= WalkDepth
  <2>1. v7' # 0 /\ Tree!Return
    BY <1>4, <1>5, <1>6
  <2> QED
    BY <1>1, <1>5, <2>1, ReturnKeepsTree
<1>7. CASE ~(found # {} /\ h.depth >= WalkDepth)
  <2>1. PICK todo : todo = {[path |-> c, inode |-> v1[c]] : c \in found}
    OBVIOUS
  <2>2. \A c \in todo : c.path \in found /\ c.inode = v1[c.path]
    BY <2>1
  <2>3. todo \in SUBSET [path : Cgroups, inode : Tree!Numbers]
    BY <2>1 DEF Tree!Live, Tree!Numbers, Tree!Walked, Tree!World
  <2>4. \A c, d \in todo : c.path = d.path => c = d
    BY <2>1
  <2>5. PICK f : f = [h EXCEPT !.step = "open", !.todo = todo]
    OBVIOUS
  <2>6. /\ f \in Tree!Visits /\ f.path = h.path /\ f.handle = h.handle /\ f.parent = h.parent
        /\ f.step = "open" /\ f.todo = todo /\ f.index = h.index
    BY <1>3, <2>3, <2>5 DEF Tree!Visits
  <2>7. v3' = [v3 EXCEPT ![1] = f] /\ v7' = v7 /\ h.step = "list"
    BY <1>1, <1>2, <1>3, <1>4, <1>7, <2>1, <2>5 DEF Tree!Step
  <2>8. Tree!VisitSound(f)'
    <3>1. Tree!VisitSound(f)
      BY <1>3, <2>2, <2>4, <2>6, <2>7 DEF Tree!VisitSound
    <3> QED
      BY <1>1, <3>1, VisitStands
  <2>9. /\ Tree!Stacked' /\ Len(v3') = Len(v3) /\ v3' # <<>> /\ v3'[1] = f
        /\ \A k \in 2..Len(v3) : v3'[k] = v3[k]
    BY <1>1, <1>2, <1>3, <2>6, <2>7, <2>8, OthersStand, StackSteps
  <2>10. \A p : Tree!Waits(f, p) => \E k \in 1..Len(v3') : Tree!Waits(v3'[k], p)
    <3>1. 1 \in 1..Len(v3')
      BY <1>1, <2>9, AtVisit
    <3> QED
      BY <2>9, <3>1
  <2>11. ASSUME NEW p \in v9, Tree!Covered(p), v7' = 0, v8' = 0 PROVE Tree!Covered(p)'
    <3>1. CASE Tree!Recorded(p)
      BY <1>1, <3>1 DEF Tree!Covered, Tree!Recorded, Tree!Index
    <3>2. CASE \E k \in 1..Len(v3) : Tree!Waits(v3[k], p)
      <4>1. PICK k \in 1..Len(v3) : Tree!Waits(v3[k], p)
        BY <3>2
      <4>2. k # 1
        BY <1>2, <1>3, <2>7, <4>1 DEF Tree!Waits, Tree!VisitSound
      <4>3. k \in 2..Len(v3) /\ k \in 1..Len(v3')
        BY <1>1, <2>9, <4>1, <4>2, AtVisit
      <4>4. PICK d : d = v3[k]
        OBVIOUS
      <4>5. v3'[k] = d /\ Tree!Waits(d, p)
        BY <2>9, <4>1, <4>3, <4>4
      <4>6. \E j \in 1..Len(v3') : Tree!Waits(v3'[j], p)
        BY <4>3, <4>5
      <4> QED
        BY <4>6 DEF Tree!Covered, Tree!Waits
    <3>3. CASE p # RootCgroup /\ ~Tree!Recorded(CgroupAbove[p])
      BY <1>1, <3>3 DEF Tree!Covered, Tree!Recorded, Tree!Index
    <3>4. CASE p # RootCgroup /\ h.path = CgroupAbove[p]
      <4>1. h.path \in v9 /\ p \in Tree!Live /\ p \in Cgroups
        BY <3>4 DEF Tree!Walked, Tree!World, Tree!Live
      <4>2. Tree!There
        BY <1>3, <4>1 DEF Tree!There, Tree!VisitSound
      <4>3. p \in Tree!Children(h.path)
        BY <3>4, <4>1 DEF Tree!Children
      <4>4. v8' # v8 + 1
        BY <1>5, <2>11
      <4>5. p \in found
        BY <1>4, <4>1, <4>2, <4>3, <4>4
      <4>6. Tree!Waits(f, p)
        <5>1. PICK c : c = [path |-> p, inode |-> v1[p]]
          OBVIOUS
        <5>2. c \in todo /\ c.path = p
          BY <2>1, <4>5, <5>1
        <5> QED
          BY <2>6, <5>2 DEF Tree!Waits
      <4> QED
        BY <2>10, <4>6 DEF Tree!Covered, Tree!Waits
    <3>5. Tree!here.step = "list"
      BY <1>3, <2>7
    <3> QED
      BY <1>3, <2>11, <3>1, <3>2, <3>3, <3>4, <3>5 DEF Tree!Covered
  <2>12. Tree!TreeIsOrdered'
    BY <1>1 DEF Tree!Walked, Tree!TreeIsOrdered, Tree!Index
  <2>13. v7' = 0 /\ v8' = 0 => \A p \in v9' : Tree!Covered(p)'
    <3> SUFFICES ASSUME v7' = 0, v8' = 0, NEW p \in v9 PROVE Tree!Covered(p)'
      BY <1>1
    <3>1. v7 = 0 /\ v8 = 0
      BY <1>4, <1>5, <2>7
    <3> QED
      BY <2>11, <3>1 DEF Tree!Walked
  <2> QED
    BY <1>1, <1>5, <2>9, <2>12, <2>13, WorldStands DEF Tree!Walked, Tree!Numbers
<1> QED
  BY <1>6, <1>7

(* The next child to be opened is one of those that wait.                  *)
LEMMA NextChild ==
  ASSUME NEW todo \in SUBSET [path : Cgroups, inode : Tree!Numbers], todo # {}
  PROVE  (CHOOSE c \in todo : \A d \in todo : CgroupRank[c.path] <= CgroupRank[d.path]) \in todo
<1>1. PICK S : S = {c.path : c \in todo}
  OBVIOUS
<1>2. S \in SUBSET Cgroups /\ S # {}
  BY <1>1
<1>3. PICK p \in S : \A q \in S : CgroupRank[p] <= CgroupRank[q]
  BY <1>2, FirstByRank
<1>4. PICK c \in todo : c.path = p
  BY <1>1
<1>5. \A d \in todo : CgroupRank[c.path] <= CgroupRank[d.path]
  BY <1>1, <1>3, <1>4
<1> QED
  BY <1>5

(* A child that is passed over: it was not there, or it was an error.      *)
LEMMA PassKeepsTree ==
  ASSUME Tree!Walked, v3 # <<>>, v3[1].step = "open", NEW next \in v3[1].todo,
         Tree!Step([v3[1] EXCEPT !.todo = @ \ {next}]), UNCHANGED <<v1, v2, v5, v7, v9>>,
         \/ v8' = v8 /\ ~(Tree!There /\ next.path \in Tree!Live)
         \/ v8' = v8 + 1
  PROVE  Tree!Walked'
<1>1. PICK s : s = v3
  OBVIOUS
<1>2. PICK h \in Tree!Visits : h = s[1] /\ Tree!VisitSound(h) /\ Tree!here = h
  BY <1>1, AtVisit
<1>3. PICK f : f = [h EXCEPT !.todo = h.todo \ {next}]
  OBVIOUS
<1>4. /\ f \in Tree!Visits /\ f.path = h.path /\ f.handle = h.handle /\ f.parent = h.parent
      /\ f.step = h.step /\ f.todo = h.todo \ {next} /\ f.index = h.index
  BY <1>2, <1>3 DEF Tree!Visits
<1>5. v3' = [v3 EXCEPT ![1] = f] /\ h.step = "open" /\ next \in h.todo
  BY <1>1, <1>2, <1>3 DEF Tree!Step
<1>6. Tree!VisitSound(f)'
  <2>1. Tree!VisitSound(f)
    BY <1>2, <1>4, <1>5 DEF Tree!VisitSound
  <2> QED
    BY <2>1, VisitStands
<1>7. /\ Tree!Stacked' /\ Len(v3') = Len(v3) /\ v3' # <<>> /\ v3'[1] = f
      /\ \A k \in 2..Len(v3) : v3'[k] = v3[k]
  BY <1>1, <1>2, <1>4, <1>5, <1>6, OthersStand, StackSteps
<1>8. v7 \in Nat /\ v8 \in Nat /\ v8' \in Nat
  BY DEF Tree!Walked
<1>9. ASSUME NEW p \in v9, Tree!Covered(p), v8' = 0 PROVE Tree!Covered(p)'
  <2>1. CASE Tree!Recorded(p)
    BY <2>1 DEF Tree!Covered, Tree!Recorded, Tree!Index
  <2>2. CASE \E k \in 1..Len(v3) : Tree!Waits(v3[k], p)
    <3>1. PICK k \in 1..Len(v3) : Tree!Waits(v3[k], p)
      BY <2>2
    <3>2. k \in 1..Len(v3')
      BY <1>7, <3>1
    <3>3. CASE k = 1
      <4>1. Tree!Waits(h, p)
        BY <1>1, <1>2, <3>1, <3>3
      <4>2. p # next.path
        <5> SUFFICES ASSUME p = next.path PROVE FALSE
          OBVIOUS
        <5>1. next.path \in Tree!Children(h.path) /\ p \in Tree!Live
          BY <1>2, <1>5 DEF Tree!VisitSound, Tree!Walked, Tree!World
        <5>2. h.path \in v9
          BY <5>1 DEF Tree!Children, Tree!Walked, Tree!World
        <5>3. Tree!There
          BY <1>2, <5>2 DEF Tree!There, Tree!VisitSound
        <5>4. v8' # v8 + 1
          BY <1>8, <1>9
        <5> QED
          BY <5>1, <5>3, <5>4
      <4>3. Tree!Waits(f, p)
        BY <1>4, <4>1, <4>2 DEF Tree!Waits
      <4>4. \E j \in 1..Len(v3') : Tree!Waits(v3'[j], p)
        BY <1>7, <3>2, <3>3, <4>3
      <4> QED
        BY <4>4 DEF Tree!Covered, Tree!Waits
    <3>4. CASE k # 1
      <4>1. k \in 2..Len(v3)
        BY <3>1, <3>4, AtVisit
      <4>2. PICK d : d = v3[k]
        OBVIOUS
      <4>3. v3'[k] = d /\ Tree!Waits(d, p)
        BY <1>7, <3>1, <4>1, <4>2
      <4>4. \E j \in 1..Len(v3') : Tree!Waits(v3'[j], p)
        BY <3>2, <4>3
      <4> QED
        BY <4>4 DEF Tree!Covered, Tree!Waits
    <3> QED
      BY <3>3, <3>4
  <2>3. CASE p # RootCgroup /\ ~Tree!Recorded(CgroupAbove[p])
    BY <2>3 DEF Tree!Covered, Tree!Recorded, Tree!Index
  <2>4. Tree!here.step = "open"
    BY <1>2, <1>5
  <2> QED
    BY <1>9, <2>1, <2>2, <2>3, <2>4 DEF Tree!Covered, Tree!At
<1>10. Tree!TreeIsOrdered'
  BY DEF Tree!Walked, Tree!TreeIsOrdered, Tree!Index
<1>11. v8' = 0 /\ v7' = 0 => \A p \in v9' : Tree!Covered(p)'
  <2> SUFFICES ASSUME v7' = 0, v8' = 0, NEW p \in v9 PROVE Tree!Covered(p)'
    OBVIOUS
  <2>1. v7 = 0 /\ v8 = 0
    BY <1>8
  <2> QED
    BY <1>9, <2>1 DEF Tree!Walked
<1> QED
  BY <1>7, <1>8, <1>10, <1>11, WorldStands DEF Tree!Walked, Tree!Numbers

(* A child that is opened.                                                 *)
LEMMA CallKeepsTree ==
  ASSUME Tree!Walked, v3 # <<>>, v3[1].step = "open", NEW next \in v3[1].todo,
         Tree!There, next.path \in Tree!Live,
         v3' = <<Tree!Visit(next.path, v1[next.path], next.inode, v3[1].index, v3[1].depth + 1),
                 [v3[1] EXCEPT !.todo = @ \ {next}]>> \o Tail(v3),
         UNCHANGED <<v1, v2, v5, v7, v8, v9>>
  PROVE  Tree!Walked'
<1>1. PICK s : s = v3
  OBVIOUS
<1>2. PICK h \in Tree!Visits : h = s[1] /\ Tree!VisitSound(h) /\ Tree!here = h
  BY <1>1, AtVisit
<1>3. PICK g : g = [h EXCEPT !.todo = h.todo \ {next}]
  OBVIOUS
<1>4. /\ g \in Tree!Visits /\ g.path = h.path /\ g.handle = h.handle /\ g.parent = h.parent
      /\ g.step = "open" /\ g.todo = h.todo \ {next} /\ g.index = h.index /\ h.step = "open"
      /\ next \in h.todo
  BY <1>1, <1>2, <1>3 DEF Tree!Visits
<1>5. PICK f : f = Tree!Visit(next.path, v1[next.path], next.inode, h.index, h.depth + 1)
  OBVIOUS
<1>6. next \in [path : Cgroups, inode : Tree!Numbers] /\ h.index \in Nat /\ h.depth \in Nat
  BY <1>2, <1>4 DEF Tree!Visits
<1>7. v1[next.path] \in Tree!Numbers
  BY <1>6 DEF Tree!Walked, Tree!World, Tree!Numbers
<1>8. /\ f \in Tree!Visits /\ f.path = next.path /\ f.handle = v1[next.path] /\ f.parent = h.index
      /\ f.step = "read" /\ f.todo = {}
  BY <1>5, <1>6, <1>7 DEF Tree!Visits, Tree!Visit
<1>9. v3' = <<f, g>> \o Tail(v3)
  BY <1>1, <1>2, <1>3, <1>5
<1>10. /\ next.path \in Tree!Children(h.path) /\ ~Tree!Recorded(next.path)
       /\ h.index \in Tree!Index /\ v5[h.index].path = h.path
       /\ \A c, d \in h.todo : c.path = d.path => c = d
  BY <1>2, <1>4 DEF Tree!VisitSound
<1>11. ~Tree!Waits(g, f.path)
  BY <1>4, <1>8, <1>10 DEF Tree!Waits
<1>12. Tree!VisitSound(g)'
  <2>1. Tree!VisitSound(g)
    BY <1>2, <1>4 DEF Tree!VisitSound
  <2> QED
    BY <2>1, VisitStands
<1>13. Tree!VisitSound(f)'
  <2>1. CgroupAbove[next.path] = h.path
    BY <1>10 DEF Tree!Children
  <2>2. Tree!VisitSound(f)
    BY <1>8, <1>10, <2>1 DEF Tree!VisitSound
  <2> QED
    BY <2>2, VisitStands
<1>14. /\ Tree!Stacked' /\ Len(v3') = Len(v3) + 1 /\ v3' # <<>> /\ v3'[1] = f /\ v3'[2] = g
       /\ \A k \in 3..Len(v3') : v3'[k] = v3[k - 1]
  BY <1>1, <1>2, <1>4, <1>8, <1>9, <1>10, <1>11, <1>12, <1>13, OthersStand, StackCalls
<1>15. ASSUME NEW p \in v9, Tree!Covered(p) PROVE Tree!Covered(p)'
  <2>1. CASE Tree!Recorded(p)
    BY <2>1 DEF Tree!Covered, Tree!Recorded, Tree!Index
  <2>2. CASE p = next.path
    BY <1>8, <1>14, <2>2 DEF Tree!Covered, Tree!here
  <2>3. CASE p # next.path /\ \E k \in 1..Len(v3) : Tree!Waits(v3[k], p)
    <3>1. PICK k \in 1..Len(v3) : Tree!Waits(v3[k], p)
      BY <2>3
    <3>2. k \in Nat /\ k + 1 \in 1..Len(v3') /\ (k + 1) - 1 = k
      BY <1>14, <3>1, AtVisit
    <3>3. CASE k = 1
      <4>1. Tree!Waits(h, p)
        BY <1>1, <1>2, <3>1, <3>3
      <4>2. Tree!Waits(g, p)
        BY <1>4, <2>3, <4>1 DEF Tree!Waits
      <4>3. 2 \in 1..Len(v3')
        BY <3>2, <3>3
      <4>4. \E j \in 1..Len(v3') : Tree!Waits(v3'[j], p)
        BY <1>14, <4>2, <4>3
      <4> QED
        BY <4>4 DEF Tree!Covered, Tree!Waits
    <3>4. CASE k # 1
      <4>1. k + 1 \in 3..Len(v3')
        BY <1>14, <3>1, <3>2, <3>4, AtVisit
      <4>2. PICK d : d = v3[k]
        OBVIOUS
      <4>3. v3'[k + 1] = d /\ Tree!Waits(d, p)
        BY <1>14, <3>1, <3>2, <4>1, <4>2
      <4>4. \E j \in 1..Len(v3') : Tree!Waits(v3'[j], p)
        BY <3>2, <4>3
      <4> QED
        BY <4>4 DEF Tree!Covered, Tree!Waits
    <3> QED
      BY <3>3, <3>4
  <2>4. CASE p # RootCgroup /\ ~Tree!Recorded(CgroupAbove[p])
    BY <2>4 DEF Tree!Covered, Tree!Recorded, Tree!Index
  <2>5. Tree!here.step = "open"
    BY <1>2, <1>4
  <2> QED
    BY <1>15, <2>1, <2>2, <2>3, <2>4, <2>5 DEF Tree!Covered, Tree!At
<1>16. Tree!TreeIsOrdered'
  BY DEF Tree!Walked, Tree!TreeIsOrdered, Tree!Index
<1> QED
  BY <1>14, <1>15, <1>16, WorldStands DEF Tree!Walked, Tree!Numbers

LEMMA OpenChildKeepsTree ==
  ASSUME Tree!Walked, Tree!OpenChild
  PROVE  Tree!Walked'
<1>1. v3 # <<>> /\ v3[1].step = "open" /\ v3[1].todo # {} /\ UNCHANGED <<v1, v2, v5, v7, v9>>
  BY DEF Tree!OpenChild, Tree!At, Tree!here, Tree!system
<1>2. v3[1] \in Tree!Visits /\ Tree!here = v3[1]
  BY <1>1, AtVisit
<1>3. PICK next : next = CHOOSE c \in v3[1].todo :
                           \A d \in v3[1].todo : CgroupRank[c.path] <= CgroupRank[d.path]
  OBVIOUS
<1>4. v3[1].todo \in SUBSET [path : Cgroups, inode : Tree!Numbers]
  BY <1>2 DEF Tree!Visits
<1>5. next \in v3[1].todo
  BY <1>1, <1>3, <1>4, NextChild
<1>6. \/ /\ Tree!There /\ next.path \in Tree!Live
         /\ v3' = <<Tree!Visit(next.path, v1[next.path], next.inode, v3[1].index, v3[1].depth + 1),
                    [v3[1] EXCEPT !.todo = @ \ {next}]>> \o Tail(v3)
         /\ v8' = v8
      \/ /\ ~(Tree!There /\ next.path \in Tree!Live)
         /\ Tree!Step([v3[1] EXCEPT !.todo = @ \ {next}]) /\ v8' = v8
      \/ v8' = v8 + 1 /\ Tree!Step([v3[1] EXCEPT !.todo = @ \ {next}])
  BY <1>2, <1>3 DEF Tree!OpenChild
<1> QED
  BY <1>1, <1>5, <1>6, CallKeepsTree, PassKeepsTree

LEMMA FiniteInTree ==
  \A S : (Tree!IsFiniteSet(S) <=> IsFiniteSet(S)) /\ Tree!Cardinality(S) = Cardinality(S)
  BY DEF Tree!IsFiniteSet, IsFiniteSet, Tree!Cardinality, Cardinality

LEMMA TreeInvInit == Init => TreeInv
<1> SUFFICES ASSUME Tree!Init PROVE Tree!Walked
  BY DEF Init, TreeInv, Pure, Readings, Cards, Reader
<1>1. /\ v2 = Tree!Cardinality(Cgroups) /\ v3 = <<>> /\ v5 = <<>> /\ v7 = 0 /\ v8 = 0 /\ v9 = {}
  BY DEF Tree!Init
<1>2. PICK live \in SUBSET Cgroups :
        /\ \A p \in live \ {RootCgroup} : CgroupAbove[p] \in live
        /\ v1 = [p \in Cgroups |-> IF p \in live THEN CgroupRank[p] ELSE None]
  BY DEF Tree!Init
<1>3. \A p \in Cgroups : CgroupRank[p] \in Nat /\ CgroupRank[p] # None
  BY CgroupsAssumption, WalkedPidsAssumption
<1>4. v2 \in Nat
  BY <1>1, CgroupsAssumption, FS_CardinalityType, FiniteInTree
<1>5. Tree!Live = live
  BY <1>2, <1>3 DEF Tree!Live
<1>6. Tree!World
  BY <1>1, <1>2, <1>3, <1>4, <1>5 DEF Tree!World
<1>7. v3 \in Seq(Tree!Visits) /\ Len(v3) = 0
  BY <1>1, EmptySeq
<1>8. Tree!Stacked
  BY <1>7 DEF Tree!Stacked
<1>9. v5 \in Seq(GroupRecords) /\ Len(v5) = 0
  BY <1>1, EmptySeq
<1>10. Tree!TreeIsOrdered
  BY <1>9 DEF Tree!TreeIsOrdered, Tree!Index
<1> QED
  BY <1>1, <1>6, <1>8, <1>9, <1>10 DEF Tree!Walked, GroupRecords

LEMMA TreeInvNext == TreeInv /\ [Next]_partsVars => TreeInv'
<1> SUFFICES ASSUME part = "cgroupwalk", Tree!Walked, [Next]_partsVars, part' = "cgroupwalk"
             PROVE  Tree!Walked'
  BY DEF TreeInv, Next, partsVars
<1>1. CASE UNCHANGED partsVars
  <2>1. UNCHANGED <<v1, v2, v3, v5, v7, v8, v9>>
    BY <1>1 DEF partsVars, from6
  <2> QED
    BY <2>1, WorldStands, TreeStands
<1>2. CASE Tree!Next
  <2>1. ASSUME NEW p \in Cgroups \ {RootCgroup}, Tree!Make(p) PROVE Tree!Walked'
    BY <2>1, MakeKeepsTree
  <2>2. ASSUME NEW p \in Cgroups \ {RootCgroup}, Tree!Unmake(p) PROVE Tree!Walked'
    BY <2>2, UnmakeKeepsTree
  <2>3. CASE Tree!Walk
    BY <2>3, TreeWalkBegins
  <2>4. CASE Tree!ReadGroup
    BY <2>4, ReadGroupKeepsTree
  <2>5. CASE Tree!CheckAlive
    BY <2>5, CheckAliveKeepsTree
  <2>6. CASE Tree!List
    BY <2>6, ListKeepsTree
  <2>7. CASE Tree!OpenChild
    BY <2>7, OpenChildKeepsTree
  <2>8. CASE Tree!Leave
    BY <2>8, LeaveKeepsTree
  <2> QED
    BY <1>2, <2>1, <2>2, <2>3, <2>4, <2>5, <2>6, <2>7, <2>8 DEF Tree!Next
<1> QED
  BY <1>1, <1>2 DEF Next, Pure, Readings, Cards, Reader, ReadInput

(* When the walk is done, the first path without a record would be below   *)
(* one that has none either.                                               *)
LEMMA WalkedTreeIsSound ==
  Tree!Walked => Tree!LivingAreListed /\ Tree!TreeIsOrdered
<1> SUFFICES ASSUME Tree!Walked, Tree!Done, v7 = 0, v8 = 0
             PROVE  \A p \in v9 : Tree!Recorded(p)
  BY DEF Tree!LivingAreListed, Tree!Walked, Tree!Recorded
<1>1. PICK S : S = {p \in v9 : ~Tree!Recorded(p)}
  OBVIOUS
<1>2. S \in SUBSET Cgroups
  BY <1>1 DEF Tree!Walked, Tree!World, Tree!Live
<1> SUFFICES ASSUME S # {} PROVE FALSE
  BY <1>1
<1>3. PICK p \in S : \A q \in S : CgroupRank[p] <= CgroupRank[q]
  BY <1>2, FirstByRank
<1>4. v3 = <<>> /\ Len(v3) = 0
  BY DEF Tree!Done
<1>5. \A k \in 1..Len(v3) : FALSE
  BY <1>4
<1>6. Tree!Covered(p)
  BY <1>1 DEF Tree!Walked
<1>7. p # RootCgroup /\ ~Tree!Recorded(CgroupAbove[p])
  BY <1>1, <1>4, <1>5, <1>6 DEF Tree!Covered, Tree!At
<1>8. CgroupAbove[p] \in S
  BY <1>1, <1>7 DEF Tree!Walked, Tree!World
<1>9. CgroupRank[CgroupAbove[p]] < CgroupRank[p]
  BY <1>2, <1>7, ParentIsBefore
<1>10. CgroupRank[CgroupAbove[p]] \in Nat /\ CgroupRank[p] \in Nat
  BY <1>2, <1>8, CgroupsAssumption
<1> QED
  BY <1>3, <1>8, <1>9, <1>10

(* The walks of the collector (walk.zig, cgroup_tree.zig): whatever starts *)
(* and exits, is made and removed between two of their reads, a process    *)
(* or a cgroup that is there throughout is listed, one that ended is not,  *)
(* the parts of a record are of one process, and parents come first.       *)
THEOREM WalksHaveTheLiving == Spec => []WalksSound
<1>1. WalkInv /\ TreeInv => WalksSound
  BY WalkedIsSound, WalkedTreeIsSound DEF WalkInv, TreeInv, WalksSound
<1> QED
  BY <1>1, WalkInvInit, WalkInvNext, TreeInvInit, TreeInvNext, PTL DEF Spec, partsVars

-----------------------------------------------------------------------------
(***************************************************************************)
(* The functions that make figures of what was read, for every input and   *)
(* not only those of MCFigures: memory, the wear of a drive and what it    *)
(* can still write, batteries, ages, and the reader of USB disks.          *)
(***************************************************************************)
CONSTANTS
  Missing,          \* whatever number stands for a field /proc/meminfo has not
  Widest, UnitBytes \* any width of a counter, and any unit it counts in

Memo == INSTANCE Readings WITH MISSING <- Missing
Nvme64 == INSTANCE SmartCommands
  WITH Zero <- None, Refused <- Malformed, UINT64_MAX <- Widest, NVME_DATA_UNIT_BYTES <- UnitBytes

(* A quotient and its remainder.                                           *)
LEMMA Quotient ==
  ASSUME NEW a \in Nat, NEW b \in Nat \ {0}
  PROVE  /\ a \div b \in Nat /\ a % b \in 0..(b - 1)
         /\ a = b * (a \div b) + (a % b)
  BY SMT

(* A quotient is the number between whose multiples the dividend lies.     *)
LEMMA QuotientIs ==
  ASSUME NEW a \in Nat, NEW b \in Nat \ {0}, NEW q \in Nat, b * q <= a, a < b * q + b
  PROVE  a \div b = q
<1>1. PICK d : d = a \div b
  OBVIOUS
<1>2. PICK r : r = a % b
  OBVIOUS
<1>3. d \in Nat /\ r \in 0..(b - 1) /\ a = b * d + r
  BY <1>1, <1>2, Quotient
<1>4. ~(d < q)
  <2> SUFFICES ASSUME d < q PROVE FALSE
    OBVIOUS
  <2>1. d + 1 <= q
    BY <1>3
  <2>2. b * (d + 1) <= b * q
    BY <2>1, <1>3, SMT
  <2>3. b * (d + 1) = b * d + b
    BY <1>3, SMT
  <2> QED
    BY <2>2, <2>3, <1>3, SMT
<1>5. ~(q < d)
  <2> SUFFICES ASSUME q < d PROVE FALSE
    OBVIOUS
  <2>1. q + 1 <= d
    BY <1>3
  <2>2. b * (q + 1) <= b * d
    BY <2>1, <1>3, SMT
  <2>3. b * (q + 1) = b * q + b
    BY <1>3, SMT
  <2> QED
    BY <2>2, <2>3, <1>3, SMT
<1> QED
  BY <1>1, <1>3, <1>4, <1>5

(* written_over_percent does not round twice.                              *)
LEMMA OverPercent ==
  ASSUME NEW written \in Nat, NEW percent \in Nat \ {0}
  PROVE  /\ Card!written_over_percent(written, percent) \in Nat
         /\ percent * Card!written_over_percent(written, percent) <= written * 100
         /\ written * 100 < percent * Card!written_over_percent(written, percent) + percent
<1>1. PICK d, r : d = written \div percent /\ r = written % percent
  OBVIOUS
<1>2. d \in Nat /\ r \in 0..(percent - 1) /\ written = percent * d + r
  BY <1>1, Quotient
<1>3. PICK e, s : e = (r * 100) \div percent /\ s = (r * 100) % percent
  OBVIOUS
<1>4. r * 100 \in Nat
  BY <1>2
<1>5. e \in Nat /\ s \in 0..(percent - 1) /\ r * 100 = percent * e + s
  BY <1>3, <1>4, Quotient
<1>6. Card!written_over_percent(written, percent) = d * 100 + e
  BY <1>1, <1>3 DEF Card!written_over_percent
<1>7. percent * (d * 100 + e) = (percent * d) * 100 + percent * e
  BY <1>2, <1>5, SMT
<1>8. written * 100 = percent * (d * 100 + e) + s
  BY <1>2, <1>5, <1>7, SMT
<1> QED
  BY <1>2, <1>5, <1>6, <1>8, SMT

(* The range that gsm_drive_spec_implied_endurance gives holds every       *)
(* endurance the drive's rounded percentage may have come from             *)
(* (gsm-drive-spec.c:451).                                                 *)
THEOREM RangesHoldTheEndurance ==
  ASSUME NEW written \in Nat, NEW endurance \in Nat \ {0}
  PROVE  Card!RangeHoldsEndurance(written, endurance)
<1>1. PICK percent : percent = (written * 100) \div endurance
  OBVIOUS
<1>2. PICK rest : rest = (written * 100) % endurance
  OBVIOUS
<1>3. PICK range : range = Card!gsm_drive_spec_implied_endurance(written, percent)
  OBVIOUS
<1>4. SUFFICES ASSUME percent \in 1..100 PROVE endurance \in range.low..range.high
  BY <1>1, <1>3 DEF Card!RangeHoldsEndurance
<1>5. written * 100 = endurance * percent + rest /\ rest \in 0..(endurance - 1)
  BY <1>1, <1>2, Quotient
<1>6. written # 0
  <2> SUFFICES ASSUME written = 0 PROVE FALSE
    OBVIOUS
  <2>1. endurance * percent >= endurance
    BY <1>4, SMT
  <2>2. endurance * percent \in Nat
    BY <1>4
  <2> QED
    BY <2>1, <2>2, <1>5
<1>7. PICK low, high : /\ low = Card!written_over_percent(written, percent + 1)
                       /\ high = Card!written_over_percent(written, percent)
  OBVIOUS
<1>8. range = [low |-> low, high |-> high]
  BY <1>3, <1>4, <1>6, <1>7 DEF Card!gsm_drive_spec_implied_endurance
<1>9. /\ low \in Nat /\ (percent + 1) * low <= written * 100
      /\ high \in Nat /\ written * 100 < percent * high + percent
  BY <1>4, <1>7, OverPercent
<1>10. low <= endurance
  <2> SUFFICES ASSUME endurance + 1 <= low PROVE FALSE
    BY <1>9
  <2>1. (percent + 1) * (endurance + 1) <= (percent + 1) * low
    BY <1>4, <1>9, SMT
  <2>2. (percent + 1) * (endurance + 1) = endurance * percent + endurance + percent + 1
    BY <1>4, SMT
  <2>3. endurance * percent \in Nat /\ (percent + 1) * low \in Nat
    BY <1>4, <1>9
  <2> QED
    BY <2>1, <2>2, <2>3, <1>4, <1>5, <1>9, SMT
<1>11. endurance <= high
  <2> SUFFICES ASSUME high + 1 <= endurance PROVE FALSE
    BY <1>9
  <2>1. percent * (high + 1) <= percent * endurance
    BY <1>4, <1>9, SMT
  <2>2. percent * (high + 1) = percent * high + percent /\ percent * endurance = endurance * percent
    BY <1>4, <1>9, SMT
  <2>3. endurance * percent \in Nat /\ percent * high \in Nat
    BY <1>4, <1>9
  <2> QED
    BY <2>1, <2>2, <2>3, <1>4, <1>5, <1>9, SMT
<1> QED
  BY <1>8, <1>9, <1>10, <1>11

(* What a drive can still write, projected by its wear and by its bytes,   *)
(* differs by one rounded byte (gsm-drive-spec.c:568).                     *)
THEOREM TheProjectionsAgree ==
  ASSUME NEW written \in Nat, NEW percent \in Int
  PROVE  Card!ProjectionsAgree(written, percent)
<1>1. PICK e : e = Card!gsm_drive_resolve_endurance(percent, written, 0, 0)
  OBVIOUS
<1>2. SUFFICES ASSUME e.kind = "derived", percent < 100
               PROVE  Card!Remaining(percent, written, e.rated, 1)
                        - Card!Remaining(-1, written, e.rated, 1) \in -100..100
  BY <1>1 DEF Card!ProjectionsAgree
<1>3. PICK implied : implied = IF percent >= 5 THEN Card!gsm_drive_spec_implied_endurance(written, percent)
                               ELSE Card!NoRange
  OBVIOUS
<1>4. e.kind = (IF implied.high > 0 THEN "derived" ELSE "unknown")
      /\ e.rated = (IF implied.high > 0 THEN implied.high ELSE 0)
  BY <1>1, <1>3 DEF Card!gsm_drive_resolve_endurance, Card!MIN_WEAR_TO_DERIVE
<1>5. implied.high > 0 /\ e.rated = implied.high
  BY <1>2, <1>4
<1>6. percent >= 5 /\ written > 0
  BY <1>3, <1>5 DEF Card!NoRange, Card!gsm_drive_spec_implied_endurance
<1>7. PICK high : high = Card!written_over_percent(written, percent)
  OBVIOUS
<1>8. implied.high = high
  BY <1>3, <1>6, <1>7 DEF Card!gsm_drive_spec_implied_endurance
<1>9. /\ high \in Nat /\ percent * high <= written * 100
      /\ written * 100 < percent * high + percent
  <2>1. percent \in Nat \ {0}
    BY <1>6
  <2> QED
    BY <2>1, <1>7, OverPercent
<1>10. written <= high
  <2> SUFFICES ASSUME high + 1 <= written PROVE FALSE
    BY <1>9
  <2>1. percent * (high + 1) <= 99 * (high + 1)
    BY <1>2, <1>6, <1>9, SMT
  <2>2. percent * (high + 1) = percent * high + percent /\ percent * high \in Nat
    BY <1>6, <1>9, SMT
  <2> QED
    BY <2>1, <2>2, <1>2, <1>6, <1>9, SMT
<1>11. Card!Remaining(percent, written, high, 1) = high * (100 - percent)
  BY <1>2, <1>5, <1>6, <1>8, <1>9 DEF Card!Remaining
<1>12. Card!Remaining(-1, written, high, 1) = (high - written) * 100
  <2>1. Card!Remaining(-1, written, high, 1) = IF written < high THEN (high - written) * 100 ELSE 0
    BY <1>5, <1>6, <1>8, <1>9 DEF Card!Remaining
  <2> QED
    BY <2>1, <1>9, <1>10
<1>13. high * (100 - percent) = high * 100 - percent * high /\ percent * high \in Nat
  BY <1>6, <1>9, SMT
<1> QED
  BY <1>2, <1>5, <1>6, <1>8, <1>9, <1>11, <1>12, <1>13, SMT

(* A conflict with the maker's rating is claimed only of a rating outside  *)
(* the range, and the card says on which side (health.c:750).              *)
THEOREM ConflictsAreOutside ==
  ASSUME NEW percent \in Int, NEW written \in Nat, NEW maker \in Nat, NEW user \in Nat
  PROVE  Card!ConflictIsOutside(Card!gsm_drive_resolve_endurance(percent, written, maker, user))
<1>1. PICK e : e = Card!gsm_drive_resolve_endurance(percent, written, maker, user)
  OBVIOUS
<1>2. PICK implied : implied = IF percent >= 5 THEN Card!gsm_drive_spec_implied_endurance(written, percent)
                               ELSE Card!NoRange
  OBVIOUS
<1>3. e.maker = maker /\ e.implied = implied
  BY <1>1, <1>2 DEF Card!gsm_drive_resolve_endurance, Card!MIN_WEAR_TO_DERIVE
<1>4. implied.low \in Nat /\ implied.high \in Nat /\ implied.low <= implied.high
  <2>1. CASE percent >= 5 /\ written # 0
    <3>1. PICK low, high : /\ low = Card!written_over_percent(written, percent + 1)
                           /\ high = Card!written_over_percent(written, percent)
      OBVIOUS
    <3>2. implied = [low |-> low, high |-> high]
      BY <2>1, <3>1, <1>2 DEF Card!gsm_drive_spec_implied_endurance
    <3>3. /\ low \in Nat /\ (percent + 1) * low <= written * 100
          /\ high \in Nat /\ written * 100 < percent * high + percent
      <4>1. percent \in Nat \ {0} /\ percent + 1 \in Nat \ {0}
        BY <2>1
      <4> QED
        BY <4>1, <3>1, OverPercent
    <3>4. low <= high
      <4> SUFFICES ASSUME high + 1 <= low PROVE FALSE
        BY <3>3
      <4>1. (percent + 1) * (high + 1) <= (percent + 1) * low
        BY <2>1, <3>3, SMT
      <4>2. (percent + 1) * (high + 1) = percent * high + percent + high + 1 /\ percent * high \in Nat
        BY <2>1, <3>3, SMT
      <4>3. (percent + 1) * low \in Nat
        BY <2>1, <3>3
      <4> QED
        BY <4>1, <4>2, <4>3, <2>1, <3>3, SMT
    <3> QED
      BY <3>2, <3>3, <3>4
  <2>2. CASE ~(percent >= 5 /\ written # 0)
    <3>1. implied = [low |-> 0, high |-> 0]
      BY <2>2, <1>2 DEF Card!gsm_drive_spec_implied_endurance, Card!NoRange
    <3> QED
      BY <3>1
  <2> QED
    BY <2>1, <2>2
<1>5. PICK low, high : low = implied.low /\ high = implied.high
  OBVIOUS
<1>6. SUFFICES ASSUME Card!gsm_drive_endurance_is_conflicted(e)
               PROVE  /\ ~(low <= maker /\ maker <= high)
                      /\ high > maker <=> maker < low
  BY <1>1, <1>3, <1>4, <1>5 DEF Card!ConflictIsOutside
<1>7. maker > 0 /\ high > 0 /\ IF maker >= high THEN maker \div 2 >= high ELSE low \div 2 >= maker
  BY <1>3, <1>5, <1>6 DEF Card!gsm_drive_endurance_is_conflicted
<1> QED
  BY <1>4, <1>5, <1>7, SMT

(* gsm_drive_apply_info: no reading takes back what an earlier one told,   *)
(* and one that tells less does not make a failing drive sound             *)
(* (gsm-drive.c:206, :276).                                                *)
THEOREM ThinnerReadingsTakeNothing ==
  ASSUME NEW drive \in [source : {"none", "locked", "unsupported", "udisks", "helper"},
                        temperature : Int, percent : Int, spare : Int, threshold : Int,
                        written : Nat, hours : Nat, reallocated : Nat, media : Nat,
                        failing : BOOLEAN, wearless : BOOLEAN],
         NEW info \in [source : {"locked", "unsupported", "udisks", "helper"},
                       temperature : Int, percent : Int, spare : Int, threshold : Int,
                       written : Nat, hours : Nat, reallocated : Nat, media : Nat,
                       failing : BOOLEAN, wearless : BOOLEAN]
  PROVE  Card!ThinnerTakesNothing(drive, info)
<1>1. PICK after : after = Card!gsm_drive_apply_info(drive, info)
  OBVIOUS
<1>2. CASE Card!source_rank(info.source) < Card!source_rank(drive.source)
  <2>1. after = drive
    BY <1>1, <1>2 DEF Card!gsm_drive_apply_info
  <2> QED
    BY <1>1, <2>1 DEF Card!ThinnerTakesNothing
<1>3. CASE ~(Card!source_rank(info.source) < Card!source_rank(drive.source))
  <2>1. /\ after.source = info.source /\ after.failing = info.failing
        /\ after.percent = IF info.percent >= 0 THEN info.percent ELSE drive.percent
        /\ after.spare = IF info.spare >= 0 THEN info.spare ELSE drive.spare
        /\ after.threshold = IF info.threshold >= 0 THEN info.threshold ELSE drive.threshold
        /\ after.written = IF info.written > drive.written THEN info.written ELSE drive.written
        /\ after.media = IF info.media > drive.media THEN info.media ELSE drive.media
    BY <1>1, <1>3 DEF Card!gsm_drive_apply_info, Card!IfKnown, Card!Bigger
  <2>2. after.written >= drive.written /\ after.media >= drive.media
        /\ (drive.percent >= 0 => after.percent >= 0)
    BY <2>1
  <2>3. ASSUME drive.source \in {"udisks", "helper"}
        PROVE  after.source \in {"udisks", "helper"}
    BY <2>1, <2>3, <1>3 DEF Card!source_rank
  <2>4. ASSUME NEW d, d.source \in {"none", "locked", "unsupported", "udisks", "helper"}
        PROVE  /\ Card!gsm_drive_get_health(d) # "unknown" <=> d.source \in {"udisks", "helper"}
               /\ Card!gsm_drive_get_health(d) = "failing" <=>
                    /\ d.source \in {"udisks", "helper"}
                    /\ \/ d.failing
                       \/ d.spare >= 0 /\ d.threshold >= 0 /\ d.spare <= d.threshold
                       \/ d.percent >= 100
    BY <2>4 DEF Card!gsm_drive_get_health
  <2>5. after.source \in {"locked", "unsupported", "udisks", "helper"}
    BY <2>1
  <2>6. Card!gsm_drive_get_health(drive) # "unknown" => Card!gsm_drive_get_health(after) # "unknown"
    BY <2>3, <2>4, <2>5
  <2>7. ASSUME info.failing = drive.failing, info.percent < 0, info.spare < 0, info.threshold < 0,
               Card!gsm_drive_get_health(drive) = "failing"
        PROVE  Card!gsm_drive_get_health(after) = "failing"
    <3>1. /\ after.failing = drive.failing /\ after.percent = drive.percent
          /\ after.spare = drive.spare /\ after.threshold = drive.threshold
      BY <2>1, <2>7
    <3> QED
      BY <3>1, <2>3, <2>4, <2>5, <2>7
  <2> QED
    BY <1>1, <2>2, <2>6, <2>7 DEF Card!ThinnerTakesNothing
<1> QED
  BY <1>2, <1>3

(* A longer age, or a longer time left, does not read as a shorter one,    *)
(* whichever units they are written in (health.c:163, :449).               *)
THEOREM LongerReadsLonger ==
  ASSUME NEW a \in Nat, NEW b \in Nat PROVE Card!TextsKeepOrder(a, b)
<1> SUFFICES ASSUME a <= b PROVE
       /\ Card!Months(Card!duration_text(a)) <= Card!Months(Card!duration_text(b))
       /\ Card!age_text(a)[1] * Card!age_text(a)[2] <= Card!age_text(b)[1] * Card!age_text(b)[2]
  BY DEF Card!TextsKeepOrder
<1>2. Card!Months(Card!duration_text(a)) <= Card!Months(Card!duration_text(b))
  <2>1. ASSUME NEW x \in Nat
        PROVE  Card!Months(Card!duration_text(x)) =
                 IF x >= 200 THEN ((2 * x + 100) \div 200) * 120
                 ELSE IF x >= 100 THEN ((2 * x + 10) \div 20) * 12
                 ELSE IF x * 12 >= 150 THEN ((2 * (x * 12) + 100) \div 200) * 10
                 ELSE 20
    BY <2>1 DEF Card!Months, Card!duration_text, Card!Nearest
  <2>2. PICK y1, y2, y3 : y1 = (2 * a + 100) \div 200 /\ y2 = (2 * a + 10) \div 20 /\ y3 = (2 * (a * 12) + 100) \div 200
    OBVIOUS
  <2>3. PICK z1, z2, z3 : z1 = (2 * b + 100) \div 200 /\ z2 = (2 * b + 10) \div 20 /\ z3 = (2 * (b * 12) + 100) \div 200
    OBVIOUS
  <2>4. /\ y1 \in Nat /\ 200 * y1 <= 2 * a + 100 /\ 2 * a + 100 < 200 * y1 + 200
        /\ y2 \in Nat /\ 20 * y2 <= 2 * a + 10 /\ 2 * a + 10 < 20 * y2 + 20
        /\ y3 \in Nat /\ 200 * y3 <= 24 * a + 100 /\ 24 * a + 100 < 200 * y3 + 200
    BY <2>2
  <2>5. /\ z1 \in Nat /\ 200 * z1 <= 2 * b + 100 /\ 2 * b + 100 < 200 * z1 + 200
        /\ z2 \in Nat /\ 20 * z2 <= 2 * b + 10 /\ 2 * b + 10 < 20 * z2 + 20
        /\ z3 \in Nat /\ 200 * z3 <= 24 * b + 100 /\ 24 * b + 100 < 200 * z3 + 200
    BY <2>3
  <2>6. PICK m : m = Card!Months(Card!duration_text(a))
    OBVIOUS
  <2>7. PICK n : n = Card!Months(Card!duration_text(b))
    OBVIOUS
  <2>8. m = IF a >= 200 THEN y1 * 120 ELSE IF a >= 100 THEN y2 * 12 ELSE IF a * 12 >= 150 THEN y3 * 10 ELSE 20
    BY <2>1, <2>2, <2>6
  <2>9. n = IF b >= 200 THEN z1 * 120 ELSE IF b >= 100 THEN z2 * 12 ELSE IF b * 12 >= 150 THEN z3 * 10 ELSE 20
    BY <2>1, <2>3, <2>7
  <2>10. m <= n
    BY <2>4, <2>5, <2>8, <2>9, SMTT(60)
  <2> QED
    BY <2>6, <2>7, <2>10
<1>3. Card!age_text(a)[1] * Card!age_text(a)[2] <= Card!age_text(b)[1] * Card!age_text(b)[2]
  <2>1. ASSUME NEW x \in Nat
        PROVE  Card!age_text(x)[1] * Card!age_text(x)[2] =
                 IF x < 3600 THEN (x \div 60) * 60
                 ELSE IF x < 86400 THEN (x \div 3600) * 3600
                 ELSE (x \div 86400) * 86400
    BY <2>1 DEF Card!age_text
  <2>2. PICK y1, y2, y3 : y1 = a \div 60 /\ y2 = a \div 3600 /\ y3 = a \div 86400
    OBVIOUS
  <2>3. PICK z1, z2, z3 : z1 = b \div 60 /\ z2 = b \div 3600 /\ z3 = b \div 86400
    OBVIOUS
  <2>4. /\ y1 \in Nat /\ 60 * y1 <= a /\ a < 60 * y1 + 60
        /\ y2 \in Nat /\ 3600 * y2 <= a /\ a < 3600 * y2 + 3600
        /\ y3 \in Nat /\ 86400 * y3 <= a /\ a < 86400 * y3 + 86400
    BY <2>2
  <2>5. /\ z1 \in Nat /\ 60 * z1 <= b /\ b < 60 * z1 + 60
        /\ z2 \in Nat /\ 3600 * z2 <= b /\ b < 3600 * z2 + 3600
        /\ z3 \in Nat /\ 86400 * z3 <= b /\ b < 86400 * z3 + 86400
    BY <2>3
  <2>6. PICK m : m = Card!age_text(a)[1] * Card!age_text(a)[2]
    OBVIOUS
  <2>7. PICK n : n = Card!age_text(b)[1] * Card!age_text(b)[2]
    OBVIOUS
  <2>8. m = IF a < 3600 THEN y1 * 60 ELSE IF a < 86400 THEN y2 * 3600 ELSE y3 * 86400
    BY <2>1, <2>2, <2>6
  <2>9. n = IF b < 3600 THEN z1 * 60 ELSE IF b < 86400 THEN z2 * 3600 ELSE z3 * 86400
    BY <2>1, <2>3, <2>7
  <2>10. m <= n
    BY <2>4, <2>5, <2>8, <2>9, SMTT(60)
  <2> QED
    BY <2>6, <2>7, <2>10
<1> QED
  BY <1>2, <1>3

(* A drive worn out by its own count is warned of and given no life by     *)
(* figures that are not the user's (health.c:791).  It has written at      *)
(* least as many bytes as its percentage has hundreds, of which the        *)
(* implied endurance could not be told from none.                          *)
THEOREM WornOutDrivesHaveNoLife ==
  ASSUME NEW card, NEW maker \in Nat, NEW user \in Nat, card.rate \in Int,
         card.figures.percent \in Int, card.figures.written \in Nat,
         card.figures.percent <= card.figures.written * 100,
         card.endurance = Card!gsm_drive_resolve_endurance(card.figures.percent,
                                card.figures.written, maker, user)
  PROVE  Card!WornOutHasNoLife(card)
<1>1. PICK f : f = card.figures
  OBVIOUS
<1>2. SUFFICES ASSUME Card!card_has_figures(card), f.percent >= 100
               PROVE  /\ Card!update_banner(card) = "failing"
                      /\ (card.endurance.kind # "user" /\ f.written > 0) =>
                           Card!update_headline(card).says # "life left"
  BY <1>1 DEF Card!WornOutHasNoLife
<1>3. Card!gsm_drive_get_health(f) = "failing"
  BY <1>1, <1>2 DEF Card!gsm_drive_get_health, Card!card_has_figures
<1>4. Card!update_banner(card) = "failing"
  BY <1>1, <1>2, <1>3 DEF Card!update_banner
<1>5. ASSUME card.endurance.kind # "user", f.written > 0
      PROVE  Card!update_headline(card).says # "life left"
  <2>1. PICK high : high = Card!written_over_percent(f.written, f.percent)
    OBVIOUS
  <2>2. f.percent \in Nat \ {0} /\ f.written \in Nat
    BY <1>1, <1>2
  <2>3. high \in Nat /\ f.percent * high <= f.written * 100 /\ f.written * 100 < f.percent * high + f.percent
    BY <2>1, <2>2, OverPercent
  <2>4. high > 0
    <3> SUFFICES ASSUME high = 0 PROVE FALSE
      BY <2>3
    <3>1. f.percent * high = 0
      BY <2>2
    <3> QED
      BY <3>1, <2>2, <2>3, <1>1
  <2>5. high <= f.written
    <3> SUFFICES ASSUME f.written + 1 <= high PROVE FALSE
      BY <2>2, <2>3
    <3>1. f.percent * high >= 100 * high
      BY <1>2, <2>2, <2>3, SMT
    <3>2. f.percent * high \in Nat
      BY <2>2, <2>3
    <3> QED
      BY <3>1, <3>2, <2>2, <2>3
  <2>6. card.endurance.rated = high
    BY <1>1, <1>2, <1>5, <2>1, <2>2, <2>4 DEF Card!gsm_drive_resolve_endurance,
       Card!gsm_drive_spec_implied_endurance, Card!NoRange, Card!MIN_WEAR_TO_DERIVE
  <2>7. Card!Remaining(f.percent, f.written, high, card.rate) \in {-1, 0}
    <3>1. CASE f.percent = 100
      BY <3>1, <2>2, <2>3, <2>4 DEF Card!Remaining
    <3>2. CASE f.percent # 100
      <4>1. f.percent \notin 0..100
        BY <3>2, <1>2, <2>2
      <4> QED
        BY <4>1, <2>2, <2>3, <2>4, <2>5 DEF Card!Remaining
    <3> QED
      BY <3>1, <3>2
  <2>8. Card!Left(card) \in {-1, 0}
    BY <1>1, <2>6, <2>7 DEF Card!Left
  <2> QED
    BY <1>2, <2>8 DEF Card!update_headline
<1> QED
  BY <1>4, <1>5

(* A battery's health is a percentage that its voltage does not change,    *)
(* and one that has aged shows no 0 cycles (gsm-battery.c:88, :131).       *)
THEOREM BatteriesSound ==
  ASSUME NEW b \in [energy_full : Int, energy_design : Int, charge_full : Int,
                    charge_design : Int, volts : Int, cycles : Int]
  PROVE  Card!BatterySound(b)
<1>1. PICK blind : blind = [b EXCEPT !.volts = -1]
  OBVIOUS
<1>2. ASSUME NEW full \in Nat, NEW design \in Nat \ {0}, NEW volts \in Nat \ {0}
      PROVE  ((full * volts) * 100) \div (design * volts) = (full * 100) \div design
  <2>0. PICK whole : whole = full * 100
    OBVIOUS
  <2>1. PICK q, r : q = whole \div design /\ r = whole % design
    OBVIOUS
  <2>2. q \in Nat /\ r \in 0..(design - 1) /\ full * 100 = design * q + r
    <3>1. whole \in Nat
      BY <2>0
    <3>2. /\ whole \div design \in Nat /\ whole % design \in 0..(design - 1)
          /\ whole = design * (whole \div design) + (whole % design)
      BY <3>1, Quotient
    <3> QED
      BY <2>0, <2>1, <3>2
  <2>3. (full * volts) * 100 = volts * (full * 100)
    BY SMT
  <2>4. volts * (full * 100) = (design * volts) * q + volts * r
    BY <2>2, SMT
  <2>5. volts * r \in Nat /\ volts * r < design * volts
    BY <2>2, SMT
  <2>6. (design * volts) * q \in Nat /\ design * volts \in Nat \ {0} /\ (full * volts) * 100 \in Nat
    BY <2>2, SMT
  <2> QED
    BY <2>0, <2>1, <2>2, <2>3, <2>4, <2>5, <2>6, QuotientIs
<1>3. /\ blind.energy_full = b.energy_full /\ blind.energy_design = b.energy_design
      /\ blind.charge_full = b.charge_full /\ blind.charge_design = b.charge_design
      /\ blind.volts = -1
  BY <1>1
<1>4. PICK k, m : k = Card!read_capacity(b) /\ m = Card!read_capacity(blind)
  OBVIOUS
<1>5. /\ k.full \in Nat /\ k.design \in Nat /\ m.full \in Nat /\ m.design \in Nat
      /\ k.design = 0 <=> m.design = 0
      /\ k.design # 0 => (k.full * 100) \div k.design = (m.full * 100) \div m.design
  <2>1. CASE b.energy_full >= 0 /\ b.energy_design > 0
    <3>1. k = [full |-> b.energy_full, design |-> b.energy_design] /\ m = k
      BY <2>1, <1>3, <1>4 DEF Card!read_capacity
    <3> QED
      BY <3>1, <2>1
  <2>2. CASE ~(b.energy_full >= 0 /\ b.energy_design > 0) /\ b.charge_full >= 0 /\ b.charge_design > 0
    <3>1. PICK volts : volts = IF b.volts > 0 THEN b.volts ELSE 1
      OBVIOUS
    <3>2. volts \in Nat \ {0}
      BY <3>1
    <3>3. k = [full |-> b.charge_full * volts, design |-> b.charge_design * volts]
      BY <2>2, <3>1, <1>4 DEF Card!read_capacity
    <3>4. m = [full |-> b.charge_full * 1, design |-> b.charge_design * 1]
      BY <2>2, <1>3, <1>4 DEF Card!read_capacity
    <3>5. b.charge_full \in Nat /\ b.charge_design \in Nat \ {0}
      BY <2>2
    <3>6. ((b.charge_full * volts) * 100) \div (b.charge_design * volts) = (b.charge_full * 100) \div b.charge_design
      BY <3>2, <3>5, <1>2
    <3>7. b.charge_full * volts \in Nat /\ b.charge_design * volts \in Nat \ {0}
      BY <3>2, <3>5, SMT
    <3>8. b.charge_full * 1 = b.charge_full /\ b.charge_design * 1 = b.charge_design
      BY <3>5
    <3> QED
      BY <3>3, <3>4, <3>5, <3>6, <3>7, <3>8
  <2>3. CASE ~(b.energy_full >= 0 /\ b.energy_design > 0) /\ ~(b.charge_full >= 0 /\ b.charge_design > 0)
    <3>1. k = [full |-> 0, design |-> 0] /\ m = k
      BY <2>3, <1>3, <1>4 DEF Card!read_capacity
    <3> QED
      BY <3>1
  <2> QED
    BY <2>1, <2>2, <2>3
<1>6. PICK whole : whole = (k.full * 100) \div k.design
  OBVIOUS
<1>7. PICK seen, health : seen = Card!gsm_battery_collect(b) /\ health = seen.health
  OBVIOUS
<1>8. health = IF k.design = 0 THEN -1 ELSE IF whole < 100 THEN whole ELSE 100
  BY <1>4, <1>6, <1>7 DEF Card!gsm_battery_collect, Card!Smaller
<1>9. Card!gsm_battery_collect(blind).health = health
  <2>1. Card!gsm_battery_collect(blind).health =
          IF m.design = 0 THEN -1
          ELSE IF (m.full * 100) \div m.design < 100 THEN (m.full * 100) \div m.design ELSE 100
    BY <1>4 DEF Card!gsm_battery_collect, Card!Smaller
  <2> QED
    BY <2>1, <1>5, <1>6, <1>8
<1>10. health \in -1..100
  <2>1. CASE k.design = 0
    BY <2>1, <1>8
  <2>2. CASE k.design # 0
    <3>1. PICK hundredfold : hundredfold = k.full * 100
      OBVIOUS
    <3>2. hundredfold \in Nat /\ k.design \in Nat \ {0}
      BY <2>2, <3>1, <1>5
    <3>3. hundredfold \div k.design \in Nat
      BY <3>2, Quotient
    <3> QED
      BY <3>1, <3>3, <1>6, <1>8, <2>2
  <2> QED
    BY <2>1, <2>2
<1>11. seen.cycles = 0 => health \notin 0..89
  BY <1>4, <1>7, <1>8 DEF Card!gsm_battery_collect
<1> QED
  BY <1>1, <1>7, <1>9, <1>10, <1>11 DEF Card!BatterySound

(* gsm_meminfo_partition: a field that is missing is no figure, the parts  *)
(* of memory and what they leave come to the total, and none goes round    *)
(* below zero, while six fields together stay below the number that stands *)
(* for a missing one.                                                      *)
THEOREM MemoryAddsUp ==
  ASSUME Missing \in Nat, NEW most \in Nat, 6 * most < Missing,
         NEW info \in [{"total", "free", "buffers", "cached", "shmem", "anon", "s_reclaimable",
                        "s_unreclaim", "kernel_stack", "page_tables", "k_reclaimable",
                        "sec_page_tables", "percpu", "vmalloc_used"} -> (0..most) \cup {Missing}]
  PROVE  Memo!PartitionAddsUp(info)
<1>1. PICK p : p = Memo!gsm_meminfo_partition(info)
  OBVIOUS
<1>2. CASE ~Memo!Complete(info)
  <2>1. p.valid = FALSE
    BY <1>1, <1>2 DEF Memo!gsm_meminfo_partition
  <2> QED
    BY <1>1, <2>1 DEF Memo!PartitionAddsUp
<1>3. CASE Memo!Complete(info)
  <2>1. /\ info.total \in 0..most /\ info.free \in 0..most /\ info.buffers \in 0..most
        /\ info.cached \in 0..most /\ info.shmem \in 0..most /\ info.anon \in 0..most
        /\ info.s_reclaimable \in 0..most /\ info.s_unreclaim \in 0..most
        /\ info.kernel_stack \in 0..most /\ info.page_tables \in 0..most
        /\ info.cached >= info.shmem
    BY <1>3 DEF Memo!Complete, Memo!Required, Memo!present
  <2>2. ASSUME NEW f \in {"k_reclaimable", "sec_page_tables", "percpu", "vmalloc_used"}
        PROVE  Memo!or_zero(info[f]) \in 0..most
    BY <2>2 DEF Memo!or_zero, Memo!present
  <2>3. PICK rows : rows = Memo!Rows(info)
    OBVIOUS
  <2>4. PICK r : r = Memo!or_zero(info.k_reclaimable)
    OBVIOUS
  <2>5. PICK larger : larger = Memo!Max({info.s_reclaimable, r})
    OBVIOUS
  <2>6. larger \in 0..most
    <3>1. r \in 0..most
      BY <2>2, <2>4
    <3>2. \E x \in {info.s_reclaimable, r} : \A y \in {info.s_reclaimable, r} : x >= y
      BY <3>1, <2>1
    <3>3. larger \in {info.s_reclaimable, r}
      BY <2>5, <3>2 DEF Memo!Max
    <3> QED
      BY <3>1, <3>3, <2>1
  <2>7. PICK fixed : fixed = info.s_unreclaim + info.kernel_stack + info.page_tables
                               + Memo!or_zero(info.sec_page_tables) + Memo!or_zero(info.percpu)
                               + Memo!or_zero(info.vmalloc_used)
    OBVIOUS
  <2>8. fixed \in 0..(6 * most)
    <3>1. PICK x, y, z : /\ x = Memo!or_zero(info.sec_page_tables)
                         /\ y = Memo!or_zero(info.percpu)
                         /\ z = Memo!or_zero(info.vmalloc_used)
      OBVIOUS
    <3>2. x \in 0..most /\ y \in 0..most /\ z \in 0..most
      BY <2>2, <3>1
    <3> QED
      BY <2>1, <2>7, <3>1, <3>2
  <2>9. rows = [application_private |-> info.anon, ram_backed_files |-> info.shmem,
                file_cache |-> info.cached - info.shmem + info.buffers,
                kernel_reclaimable |-> larger, kernel_fixed |-> fixed, free |-> info.free]
    BY <2>3, <2>4, <2>5, <2>7 DEF Memo!Rows
  <2>10. \A row \in DOMAIN rows : rows[row] \in 0..(Missing - 1)
    <3>1. DOMAIN rows = {"application_private", "ram_backed_files", "file_cache",
                         "kernel_reclaimable", "kernel_fixed", "free"}
      BY <2>9
    <3>2. /\ rows.application_private \in 0..(6 * most) /\ rows.ram_backed_files \in 0..(6 * most)
          /\ rows.file_cache \in 0..(6 * most) /\ rows.kernel_reclaimable \in 0..(6 * most)
          /\ rows.kernel_fixed \in 0..(6 * most) /\ rows.free \in 0..(6 * most)
      BY <2>1, <2>6, <2>8, <2>9
    <3>3. \A x \in 0..(6 * most) : x \in 0..(Missing - 1)
      OBVIOUS
    <3> QED
      BY <3>1, <3>2, <3>3
  <2>11. PICK accounted : accounted = rows.application_private + rows.ram_backed_files
             + rows.file_cache + rows.kernel_reclaimable + rows.kernel_fixed + rows.free
    OBVIOUS
  <2>12. accounted \in Nat
    BY <2>1, <2>6, <2>8, <2>9, <2>11
  <2>13. /\ p.rows = rows
         /\ p.overlap = IF accounted > info.total THEN accounted - info.total ELSE 0
         /\ p.unaccounted = IF accounted > info.total THEN 0 ELSE info.total - accounted
    BY <1>1, <1>3, <2>3, <2>11 DEF Memo!gsm_meminfo_partition
  <2>14. accounted + p.unaccounted = info.total + p.overlap /\ (p.overlap = 0 \/ p.unaccounted = 0)
    BY <2>1, <2>12, <2>13
  <2> QED
    BY <1>1, <2>10, <2>11, <2>13, <2>14 DEF Memo!PartitionAddsUp
<1> QED
  BY <1>2, <1>3

(* drive_read: a disk whose bridge nobody knows or that the kernel         *)
(* suspended is sent nothing, and a SATA disk that does not say it is      *)
(* awake, whatever its bridge makes of that question, nothing but it.      *)
THEOREM SleepersAreLeftAlone ==
  ASSUME NEW bridge, NEW standby \in BOOLEAN,
         bridge.known \in BOOLEAN, bridge.suspended \in BOOLEAN, bridge.opens \in BOOLEAN,
         standby => bridge.protocol = "sat" /\ Disk!sat_power_mode(bridge.power) # "awake"
  PROVE  Disk!SleepersLeftAlone(bridge, standby)
<1>1. PICK found : found = Disk!drive_read(bridge)
  OBVIOUS
<1>2. CASE ~bridge.known \/ bridge.suspended \/ ~bridge.opens
  <2>1. found \in {Disk!Silent("unsupported"), Disk!Silent("asleep"), Disk!Silent("failed")}
    BY <1>1, <1>2 DEF Disk!drive_read
  <2>2. ASSUME NEW status, found = Disk!Silent(status) PROVE found.sent = <<>>
    BY <2>2 DEF Disk!Silent
  <2> QED
    BY <1>1, <2>1, <2>2 DEF Disk!SleepersLeftAlone
<1>3. CASE bridge.known /\ ~bridge.suspended /\ bridge.opens /\ bridge.protocol # "sat"
  BY <1>3 DEF Disk!SleepersLeftAlone
<1>4. CASE bridge.known /\ ~bridge.suspended /\ bridge.opens /\ bridge.protocol = "sat"
  <2>1. PICK mode : mode = Disk!sat_power_mode(bridge.power)
    OBVIOUS
  <2>2. mode \in {"standby", "unknown", "awake"}
    BY <2>1 DEF Disk!sat_power_mode, Disk!PowerOf
  <2>3. CASE mode = "awake"
    BY <1>4, <2>1, <2>3 DEF Disk!SleepersLeftAlone
  <2>4. CASE mode # "awake"
    <3>1. PICK identity, figures : /\ identity = Disk!Sector(bridge.identify.data)
                                   /\ figures = Disk!AtaFigures(Disk!Sector(bridge.log.data))
      OBVIOUS
    <3>2. PICK first, second, third :
            /\ first = <<"check power mode", Disk!SatPower(mode)>>
            /\ second = <<"identify", Disk!Verdict(bridge.identify, Disk!SECTOR, Disk!AtaIdentity(identity))>>
            /\ third = <<"log", Disk!Verdict(bridge.log, Disk!SECTOR,
                                             IF figures = Malformed THEN "garbled" ELSE "ok")>>
      OBVIOUS
    <3>3. PICK steps : steps = <<first, second, third>>
      OBVIOUS
    <3>4. found = Disk!Exchange(steps, identity.serial, figures)
      BY <1>1, <1>4, <2>1, <3>1, <3>2, <3>3 DEF Disk!drive_read, Disk!read_sat, Disk!SatExchange
    <3>5. first[2] \in {"asleep", "failed"}
      BY <2>2, <2>4, <3>2 DEF Disk!SatPower
    <3>6. PICK ends : ends = {i \in DOMAIN steps : steps[i][2] # "next"}
      OBVIOUS
    <3>7. 1 \in ends /\ ends \subseteq 1..3
      BY <3>3, <3>5, <3>6
    <3>8. PICK last : last = CHOOSE i \in ends : \A j \in ends : i <= j
      OBVIOUS
    <3>9. last = 1
      <4>1. \A j \in ends : 1 <= j
        BY <3>7
      <4>2. last \in ends /\ \A j \in ends : last <= j
        BY <3>7, <3>8, <4>1
      <4> QED
        BY <3>7, <4>2
    <3>10. PICK sent : sent = [i \in 1..last |-> steps[i][1]]
      OBVIOUS
    <3>11. found.sent = sent
      BY <3>4, <3>6, <3>8, <3>10 DEF Disk!Exchange
    <3>12. Len(sent) = 1
      BY <3>9, <3>10
    <3> QED
      BY <1>1, <1>4, <3>11, <3>12 DEF Disk!SleepersLeftAlone
  <2> QED
    BY <2>3, <2>4
<1> QED
  BY <1>2, <1>3, <1>4

(* nvme_log_to_figures: figures in bytes that are believed are those of    *)
(* the log; a count of units that would go round is refused instead.       *)
THEOREM BelievedBytesAreWhole ==
  ASSUME Widest \in Nat, UnitBytes \in Nat \ {0},
         NEW log, log.read \in Nat, log.written \in Nat, Nvme64!NvmeBelieved(log)
  PROVE  /\ Nvme64!nvme_log_to_figures(log).bytes_read = log.read * UnitBytes
         /\ Nvme64!nvme_log_to_figures(log).bytes_written = log.written * UnitBytes
<1>1. ASSUME NEW units \in Nat, units <= Widest \div UnitBytes
      PROVE  Nvme64!InBytes(units) = units * UnitBytes
  <2>1. PICK most : most = Widest \div UnitBytes
    OBVIOUS
  <2>2. most \in Nat /\ UnitBytes * most <= Widest
    <3>1. PICK rest : rest = Widest % UnitBytes
      OBVIOUS
    <3>2. most \in Nat /\ rest \in 0..(UnitBytes - 1) /\ Widest = UnitBytes * most + rest
      BY <2>1, <3>1, Quotient
    <3>3. UnitBytes * most \in Nat
      BY <3>2, SMT
    <3> QED
      BY <3>2, <3>3
  <2>3. UnitBytes * units <= UnitBytes * most
    BY <1>1, <2>1, <2>2, SMT
  <2>4. PICK bytes : bytes = units * UnitBytes
    OBVIOUS
  <2>5. bytes \in Nat /\ bytes <= Widest
    <3>1. UnitBytes * units = bytes /\ bytes \in Nat /\ UnitBytes * most \in Nat
      BY <2>2, <2>4, SMT
    <3> QED
      BY <3>1, <2>2, <2>3
  <2>6. bytes % (Widest + 1) = bytes
    <3>1. PICK n : n = Widest + 1
      OBVIOUS
    <3>2. n \in Nat \ {0} /\ bytes < n
      BY <3>1, <2>5
    <3>3. bytes % n \in 0..(n - 1) /\ bytes \div n \in Nat /\ bytes = n * (bytes \div n) + (bytes % n)
      BY <3>2, <2>5, Quotient
    <3>4. bytes \div n = 0
      BY <3>2, <2>5, QuotientIs
    <3> QED
      BY <3>1, <3>2, <3>3, <3>4, <2>5
  <2> QED
    BY <2>4, <2>6 DEF Nvme64!InBytes
<1>2. log.read <= Widest \div UnitBytes /\ log.written <= Widest \div UnitBytes
  BY DEF Nvme64!NvmeBelieved
<1>3. PICK read, written : read = Nvme64!InBytes(log.read) /\ written = Nvme64!InBytes(log.written)
  OBVIOUS
<1>4. read = log.read * UnitBytes /\ written = log.written * UnitBytes
  BY <1>1, <1>2, <1>3
<1>5. /\ Nvme64!nvme_log_to_figures(log).bytes_read = read
      /\ Nvme64!nvme_log_to_figures(log).bytes_written = written
  BY <1>3 DEF Nvme64!nvme_log_to_figures
<1> QED
  BY <1>4, <1>5
=============================================================================
