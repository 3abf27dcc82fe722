----------------------------- MODULE ViewProofs -----------------------------
(***************************************************************************)
(* Theorems about what the views of MCAppParts show, for any processes,    *)
(* drives and bounds: the table of processes, the graphs and the health    *)
(* page.  As in WalkProofs, each keeps an invariant that its module states.*)
(***************************************************************************)
EXTENDS MCAppParts, SumTheorems, SequenceTheorems

partsVars == <<part, v1, v2, v3, v4, v5, from6>>
-----------------------------------------------------------------------------
(***************************************************************************)
(* ProcTable: proc v1, births v2, whose v3, source v4, dependencies v5,    *)
(* changes v6, phase v7, now v8, list v9, unread v10, addition v11, table  *)
(* v12, tree v13, cpu_times v14, total v15, snapshots v16.                 *)
(***************************************************************************)
TableInv == part = "table" => Table!Tabled

LEMMA TableInvInit == Init => TableInv
<1> SUFFICES ASSUME Table!Init PROVE Table!Tabled
  BY DEF Init, TableInv, Pure, Readings, Cards, Reader
<1>1. /\ v1 = [p \in TablePids |-> IF p = 1 THEN [birth |-> 0, parent |-> 0, active |-> FALSE]
                                   ELSE None]
      /\ v2 = 0 /\ v6 = 0 /\ v7 = "idle" /\ v8 = 0 /\ v9 = {} /\ v10 = {} /\ v11 = {}
      /\ v12 = Table!NoRows /\ v13 = Table!NoRows /\ v14 = Table!NoRows
      /\ v15 = [from |-> 0, last |-> 0]
  BY DEF Table!Init
<1>2. DOMAIN Table!NoRows = {}
  BY DEF Table!NoRows
<1>3. Table!Ancestry
  <2>1. v2 \in Nat /\ v6 \in Nat
    BY <1>1
  <2>2. PICK r : r = [birth |-> 0, parent |-> 0, active |-> FALSE]
    OBVIOUS
  <2>3. r \in [birth : 0..0, parent : Nat, active : BOOLEAN]
    BY <2>2
  <2>4. r # None /\ r.birth = 0 /\ r.parent = 0
    <3>1. r \in [birth : Nat, parent : Nat, active : BOOLEAN]
      BY <2>2
    <3> QED
      BY <2>2, <3>1, TablePidsAssumption
  <2>5. v1 = [p \in TablePids |-> IF p = 1 THEN r ELSE None]
    BY <1>1, <2>2
  <2>6. v1 \in [TablePids -> [birth : 0..0, parent : Nat, active : BOOLEAN] \cup {None}]
    BY <2>3, <2>5
  <2>7. v1[1] = r /\ Table!Running = {1}
    BY <2>4, <2>5, TablePidsAssumption DEF Table!Running
  <2> QED
    BY <1>1, <2>1, <2>4, <2>6, <2>7 DEF Table!Ancestry
<1>4. Table!OlderParents
  BY <1>1 DEF Table!OlderParents
<1>5. Table!RowsOfList
  BY <1>1, <1>2 DEF Table!RowsOfList
<1>6. Table!Rooted
  BY <1>1, <1>2 DEF Table!Rooted
<1>7. Table!Counters
  BY <1>1, <1>2 DEF Table!Counters
<1>8. Table!RatesAreOfOneProcess /\ Table!RatesSpanOneIntervalAtFirst
  BY <1>1, <1>2 DEF Table!RatesAreOfOneProcess, Table!RatesSpanOneIntervalAtFirst,
                    Table!RatesSpanOneInterval
<1> QED
  BY <1>3, <1>4, <1>5, <1>6, <1>7, <1>8 DEF Table!Tabled

(* What the processes do leaves the table alone, and the ages of those     *)
(* that are listed stand.                                                  *)
LEMMA TableStands ==
  ASSUME Table!Tabled, Table!Ancestry', v2' \in Nat, v2 <= v2',
         UNCHANGED <<v6, v7, v8, v9, v10, v11, v12, v13, v14, v15>>,
         v7 # "idle" =>
           \A p \in v9 : v1'[p] # None => v1[p] # None /\ v1'[p].birth = v1[p].birth
  PROVE  Table!Tabled'
<1>1. Table!OlderParents'
  <2> SUFFICES ASSUME v7 # "idle" PROVE \E age \in [v9 -> 0..v2'] : Table!ReadParents(age)'
    BY DEF Table!OlderParents
  <2>1. PICK age \in [v9 -> 0..v2] : Table!ReadParents(age)
    BY DEF Table!Tabled, Table!OlderParents
  <2>2. age \in [v9 -> 0..v2']
    BY <2>1 DEF Table!Tabled, Table!Ancestry
  <2>3. \A p \in v9 : v1'[p] # None => v1[p] # None /\ v1'[p].birth = v1[p].birth
    OBVIOUS
  <2>4. Table!ReadParents(age)'
    BY <2>1, <2>3 DEF Table!ReadParents, Table!Running
  <2> QED
    BY <2>2, <2>4
<1>2. Table!RowsOfList'
  BY DEF Table!Tabled, Table!RowsOfList
<1>3. Table!Rooted'
  BY DEF Table!Tabled, Table!Rooted
<1>4. Table!Counters'
  BY DEF Table!Tabled, Table!Counters
<1>5. Table!RatesAreOfOneProcess' /\ Table!RatesSpanOneIntervalAtFirst'
  BY DEF Table!Tabled, Table!RatesAreOfOneProcess, Table!RatesSpanOneIntervalAtFirst,
         Table!RatesSpanOneInterval
<1> QED
  BY <1>1, <1>2, <1>3, <1>4, <1>5 DEF Table!Tabled

LEMMA ForkKeepsTable ==
  ASSUME ReuseInWalk = FALSE, Table!Tabled, NEW p \in TablePids, NEW parent \in TablePids,
         Table!Fork(p, parent)
  PROVE  Table!Tabled'
<1>1. /\ v1[p] = None /\ parent \in Table!Running
      /\ v7 = "idle" \/ p \notin v9
      /\ v2' = v2 + 1
      /\ v1' = [v1 EXCEPT ![p] = [birth |-> v2 + 1, parent |-> parent, active |-> TRUE]]
      /\ UNCHANGED <<v6, v7, v8, v9, v10, v11, v12, v13, v14, v15>>
  BY DEF Table!Fork, Table!settings, Table!walk, Table!rows
<1>2. PICK n \in Nat : n = v2
  BY DEF Table!Tabled, Table!Ancestry
<1>3. v2' = n + 1 /\ n + 1 \in Nat /\ 0..n \subseteq 0..(n + 1) /\ n + 1 \in 0..(n + 1)
  BY <1>1, <1>2
<1>4. PICK r : r = [birth |-> n + 1, parent |-> parent, active |-> TRUE]
  OBVIOUS
<1>5. r.birth = n + 1 /\ r.parent = parent /\ r # None
      /\ r \in [birth : 0..(n + 1), parent : Nat, active : BOOLEAN]
  <2>1. parent \in Nat
    BY TablePidsAssumption
  <2>2. /\ r \in [birth : 0..(n + 1), parent : Nat, active : BOOLEAN]
        /\ r \in [birth : Nat, parent : Nat, active : BOOLEAN]
    BY <1>3, <1>4, <2>1
  <2> QED
    BY <1>4, <2>2, TablePidsAssumption
<1>6. v1 \in [TablePids -> [birth : 0..n, parent : Nat, active : BOOLEAN] \cup {None}]
  BY <1>2 DEF Table!Tabled, Table!Ancestry
<1>7. [birth : 0..n, parent : Nat, active : BOOLEAN]
        \subseteq [birth : 0..(n + 1), parent : Nat, active : BOOLEAN]
  BY <1>3
<1>8. v1' = [v1 EXCEPT ![p] = r]
  BY <1>1, <1>2, <1>4
<1>9. /\ v1' \in [TablePids -> [birth : 0..(n + 1), parent : Nat, active : BOOLEAN] \cup {None}]
      /\ v1'[p] = r /\ \A q \in TablePids \ {p} : v1'[q] = v1[q]
  BY <1>5, <1>6, <1>7, <1>8
<1>10. Table!Ancestry'
  <2>1. 1 \in TablePids /\ p # 1 /\ v1[1] # None /\ v1[1].birth = 0 /\ v1[1].parent = 0
    BY <1>1, TablePidsAssumption DEF Table!Tabled, Table!Ancestry
  <2>2. v1'[1] # None /\ v1'[1].birth = 0 /\ v1'[1].parent = 0
    BY <1>9, <2>1
  <2>3. parent # p /\ v1'[parent] # None /\ v1'[parent].birth \in 0..n
    BY <1>1, <1>6, <1>9 DEF Table!Running
  <2>4. ASSUME NEW q \in TablePids \ {1}, v1'[q] # None
        PROVE  /\ v1'[q].parent \in TablePids /\ v1'[v1'[q].parent] # None
               /\ v1'[v1'[q].parent].birth < v1'[q].birth
    <3>1. CASE q = p
      BY <1>2, <1>5, <1>9, <2>3, <3>1
    <3>2. CASE q # p
      <4>1. v1'[q] = v1[q]
        BY <1>9, <3>2
      <4>2. /\ v1[q].parent \in TablePids /\ v1[v1[q].parent] # None
            /\ v1[v1[q].parent].birth < v1[q].birth
        BY <2>4, <4>1 DEF Table!Tabled, Table!Ancestry, Table!Running
      <4>3. v1'[v1[q].parent] = v1[v1[q].parent]
        BY <1>1, <1>9, <4>2
      <4> QED
        BY <4>1, <4>2, <4>3
    <3> QED
      BY <3>1, <3>2
  <2>5. v2' \in Nat /\ v6' \in Nat
    BY <1>1, <1>3 DEF Table!Tabled, Table!Ancestry
  <2> QED
    BY <1>3, <1>9, <2>2, <2>4, <2>5 DEF Table!Ancestry, Table!Running
<1>11. v7 # "idle" =>
         \A q \in v9 : v1'[q] # None => v1[q] # None /\ v1'[q].birth = v1[q].birth
  BY <1>1, <1>9 DEF Table!Tabled, Table!RowsOfList
<1>12. v2' \in Nat /\ v2 <= v2'
  BY <1>2, <1>3
<1> QED
  BY <1>1, <1>10, <1>11, <1>12, TableStands

LEMMA ExitKeepsTable ==
  ASSUME Table!Tabled, NEW p \in TablePids, Table!Exit(p)
  PROVE  Table!Tabled'
<1>1. /\ p # 1 /\ v1[p] # None
      /\ v1' = [q \in TablePids |->
                  IF q = p THEN None
                  ELSE IF v1[q] # None /\ v1[q].parent = p THEN [v1[q] EXCEPT !.parent = 1]
                  ELSE v1[q]]
      /\ UNCHANGED <<v2, v6, v7, v8, v9, v10, v11, v12, v13, v14, v15>>
  BY DEF Table!Exit, Table!settings, Table!walk, Table!rows
<1>2. PICK n \in Nat : n = v2
  BY DEF Table!Tabled, Table!Ancestry
<1> DEFINE Processes == [birth : 0..n, parent : Nat, active : BOOLEAN]
<1>3. v1 \in [TablePids -> Processes \cup {None}]
  BY <1>2 DEF Table!Tabled, Table!Ancestry
<1>4. None \notin Processes
  BY TablePidsAssumption
<1>5. ASSUME NEW q \in TablePids
      PROVE  /\ v1'[q] \in Processes \cup {None}
             /\ v1'[q] # None => /\ q # p /\ v1[q] # None /\ v1'[q].birth = v1[q].birth
                                 /\ v1'[q].parent = IF v1[q].parent = p THEN 1 ELSE v1[q].parent
             /\ v1'[q] = None => q = p \/ v1[q] = None
  <2>1. CASE q = p
    BY <1>1, <2>1
  <2>2. CASE q # p /\ v1[q] # None /\ v1[q].parent = p
    <3>1. PICK r \in Processes : r = v1[q]
      BY <1>3, <2>2
    <3>2. v1'[q] = [r EXCEPT !.parent = 1]
      BY <1>1, <2>2, <3>1
    <3>3. v1'[q] \in Processes /\ v1'[q].birth = r.birth /\ v1'[q].parent = 1
      BY <3>2
    <3> QED
      BY <1>4, <2>2, <3>1, <3>3
  <2>3. CASE q # p /\ ~(v1[q] # None /\ v1[q].parent = p)
    <3>1. v1'[q] = v1[q]
      BY <1>1, <2>3
    <3> QED
      BY <1>3, <2>3, <3>1
  <2> QED
    BY <2>1, <2>2, <2>3
<1>6. v1' \in [TablePids -> Processes \cup {None}]
  BY <1>1, <1>5
<1> HIDE DEF Processes
<1>7. 1 \in TablePids /\ 0 \notin TablePids
  BY TablePidsAssumption
<1>8. v1'[1] # None /\ v1'[1].birth = 0 /\ v1'[1].parent = 0
  BY <1>1, <1>5, <1>7 DEF Table!Tabled, Table!Ancestry
<1>9. ASSUME NEW q \in TablePids \ {1}, v1'[q] # None
      PROVE  /\ v1'[q].parent \in TablePids /\ v1'[v1'[q].parent] # None
             /\ v1'[v1'[q].parent].birth < v1'[q].birth
  <2>1. v1[q] # None /\ v1'[q].birth = v1[q].birth
    BY <1>5, <1>9
  <2>2. PICK r \in TablePids : r = v1[q].parent
    BY <2>1 DEF Table!Tabled, Table!Ancestry, Table!Running
  <2>3. v1[r] # None /\ v1[r].birth < v1[q].birth
    BY <2>1, <2>2 DEF Table!Tabled, Table!Ancestry, Table!Running
  <2>4. CASE r = p
    <3>1. v1'[q].parent = 1
      BY <1>5, <1>9, <2>2, <2>4
    <3>2. v1[r].birth \in 0..n /\ v1[q].birth \in 0..n
      BY <1>3, <2>1, <2>3 DEF Processes
    <3> QED
      BY <1>7, <1>8, <2>1, <2>3, <3>1, <3>2
  <2>5. CASE r # p
    <3>1. v1'[q].parent = r
      BY <1>5, <1>9, <2>2, <2>5
    <3>2. v1'[r] # None
      BY <1>5, <2>3, <2>5
    <3>3. v1'[r].birth = v1[r].birth
      BY <1>5, <3>2
    <3> QED
      BY <2>1, <2>3, <3>1, <3>2, <3>3
  <2> QED
    BY <2>4, <2>5
<1>10. Table!Ancestry'
  <2>1. v2' \in Nat /\ v6' \in Nat
    BY <1>1 DEF Table!Tabled, Table!Ancestry
  <2> QED
    BY <1>1, <1>2, <1>6, <1>8, <1>9, <2>1 DEF Table!Ancestry, Table!Running, Processes
<1>11. \A q \in v9 : v1'[q] # None => v1[q] # None /\ v1'[q].birth = v1[q].birth
  BY <1>5 DEF Table!Tabled, Table!RowsOfList
<1>12. v2' \in Nat /\ v2 <= v2'
  BY <1>1, <1>2
<1> QED
  BY <1>1, <1>10, <1>11, <1>12, TableStands

LEMMA ScheduleKeepsTable ==
  ASSUME Table!Tabled, NEW p \in TablePids, Table!Schedule(p)
  PROVE  Table!Tabled'
<1>1. /\ v1[p] # None
      /\ v1' = [v1 EXCEPT ![p].active = ~@]
      /\ UNCHANGED <<v2, v6, v7, v8, v9, v10, v11, v12, v13, v14, v15>>
  BY DEF Table!Schedule, Table!settings, Table!walk, Table!rows
<1>2. PICK n \in Nat : n = v2
  BY DEF Table!Tabled, Table!Ancestry
<1> DEFINE Processes == [birth : 0..n, parent : Nat, active : BOOLEAN]
<1>3. v1 \in [TablePids -> Processes \cup {None}]
  BY <1>2 DEF Table!Tabled, Table!Ancestry
<1>4. None \notin Processes
  BY TablePidsAssumption
<1>5. PICK r \in Processes : r = v1[p]
  BY <1>1, <1>3
<1>6. PICK a \in BOOLEAN : a = ~r.active
  OBVIOUS
<1>7. PICK s : s = [r EXCEPT !.active = a]
  OBVIOUS
<1>8. s \in Processes /\ s # None /\ s.birth = r.birth /\ s.parent = r.parent
  BY <1>4, <1>7
<1>9. v1' = [v1 EXCEPT ![p] = s]
  BY <1>1, <1>5, <1>6, <1>7, Zenon
<1>10. v1' \in [TablePids -> Processes \cup {None}]
  BY <1>3, <1>8, <1>9
<1>11. \A q \in TablePids :
         /\ v1'[q] # None <=> v1[q] # None
         /\ v1'[q].birth = v1[q].birth /\ v1'[q].parent = v1[q].parent
  BY <1>1, <1>3, <1>5, <1>8, <1>9
<1> HIDE DEF Processes
<1>12. Table!Ancestry'
  <2>1. v2' \in Nat /\ v6' \in Nat
    BY <1>1 DEF Table!Tabled, Table!Ancestry
  <2>2. v1'[1] # None /\ v1'[1].birth = 0 /\ v1'[1].parent = 0
    BY <1>11, TablePidsAssumption DEF Table!Tabled, Table!Ancestry
  <2>3. \A q \in TablePids \ {1} : v1'[q] # None =>
          /\ v1'[q].parent \in TablePids /\ v1'[v1'[q].parent] # None
          /\ v1'[v1'[q].parent].birth < v1'[q].birth
    BY <1>11 DEF Table!Tabled, Table!Ancestry, Table!Running
  <2> QED
    BY <1>1, <1>2, <1>10, <2>1, <2>2, <2>3 DEF Table!Ancestry, Table!Running, Processes
<1>13. \A q \in v9 : v1'[q] # None => v1[q] # None /\ v1'[q].birth = v1[q].birth
  BY <1>11 DEF Table!Tabled, Table!RowsOfList
<1>14. v2' \in Nat /\ v2 <= v2'
  BY <1>1, <1>2
<1> QED
  BY <1>1, <1>12, <1>13, <1>14, TableStands

(* What parents are, in terms of the processes.                            *)
LEMMA ParentIsOlder ==
  ASSUME Table!Ancestry, NEW p \in TablePids, v1[p] # None, v1[p].parent \in TablePids
  PROVE  /\ v1[v1[p].parent] # None
         /\ v1[v1[p].parent].birth < v1[p].birth
<1>1. p # 1
  BY TablePidsAssumption DEF Table!Ancestry
<1> QED
  BY <1>1 DEF Table!Ancestry, Table!Running

(* The ages of the processes that a new list has.                          *)
LEMMA AgesOfList ==
  ASSUME Table!Ancestry
  PROVE  [p \in Table!Selected |-> v1[p].birth] \in [Table!Selected -> 0..v2]
<1>1. \A p \in Table!Selected : v1[p] # None /\ p \in TablePids
  BY DEF Table!Selected, Table!Running
<1>2. \A p \in TablePids : v1[p] # None => v1[p].birth \in 0..v2
  BY DEF Table!Ancestry
<1> QED
  BY <1>1, <1>2

LEMMA StartFromCollectorKeepsTable ==
  ASSUME Table!Tabled, Table!StartFromCollector
  PROVE  Table!Tabled'
<1>1. PICK L \in SUBSET TablePids : L = Table!Selected
  BY DEF Table!Selected, Table!Running
<1>2. /\ v7 = "idle" /\ v9' = L /\ v10' = {} /\ v11' = L \ DOMAIN v12
      /\ v12' = [p \in L \cup DOMAIN v12 |->
                   IF p \in L THEN Table!FilledRow(p, v16.current) ELSE v12[p]]
      /\ v7' = "read"
      /\ UNCHANGED <<v1, v2, v6, v13, v14, v15>>
  BY <1>1 DEF Table!StartFromCollector, Table!Begin, Table!machine, Table!settings
<1>3. \A p \in L : v1[p] # None
  BY <1>1 DEF Table!Selected, Table!Running
<1>4. ASSUME NEW p \in L
      PROVE  /\ v12'[p].base = None /\ v12'[p].ppid = v1[p].parent
             /\ v12'[p].rate # None => /\ v12'[p].rate.of = v12'[p].rate.read
                                       /\ v12'[p].rate.since = v12'[p].rate.over
  <2>1. v12'[p] = Table!FilledRow(p, v16.current)
    BY <1>2
  <2>2. PICK r : r = Table!SnapshotRate(p, v16.current)
    OBVIOUS
  <2>3. r # None => r.of = r.read /\ r.since = r.over
    BY <2>2 DEF Table!SnapshotRate
  <2> QED
    BY <2>1, <2>2, <2>3 DEF Table!FilledRow
<1>5. \A p \in DOMAIN v12 \ L : v12'[p] = v12[p]
  BY <1>2
<1>6. DOMAIN v12' = L \cup DOMAIN v12
  BY <1>2
<1>7. Table!Ancestry'
  BY <1>2 DEF Table!Tabled, Table!Ancestry, Table!Running
<1>8. Table!OlderParents'
  <2>1. PICK age : age = [p \in L |-> v1[p].birth]
    OBVIOUS
  <2>2. age \in [L -> 0..v2]
    BY <1>1, <2>1, AgesOfList DEF Table!Tabled
  <2>3. \A p \in L : v1[p].parent \in L => age[v1[p].parent] < age[p]
    BY <1>3, <2>1, ParentIsOlder DEF Table!Tabled
  <2>4. Table!ReadParents(age)'
    BY <1>2, <1>4, <2>1, <2>3 DEF Table!ReadParents, Table!Running
  <2> QED
    BY <1>2, <2>2, <2>4 DEF Table!OlderParents
<1>9. Table!RowsOfList'
  BY <1>1, <1>2, <1>6 DEF Table!Tabled, Table!RowsOfList
<1>10. Table!Rooted'
  BY <1>2 DEF Table!Tabled, Table!Rooted
<1>11. Table!Counters'
  <2>1. \A p \in DOMAIN v14 : v14[p] = [start |-> v14[p].of, of |-> v14[p].of, at |-> v14[p].at]
    BY DEF Table!Tabled, Table!Counters
  <2>2. \A p \in DOMAIN v12' : v12'[p].base # None => v12'[p].base.of = v12'[p].base.start
    BY <1>4, <1>5, <1>6 DEF Table!Tabled, Table!Counters
  <2>3. v6 = 0 => DOMAIN v14 \subseteq DOMAIN v12'
    BY <1>6 DEF Table!Tabled, Table!Counters
  <2> QED
    BY <1>2, <1>4, <2>1, <2>2, <2>3 DEF Table!Counters
<1>12. Table!RatesAreOfOneProcess'
  BY <1>4, <1>5, <1>6 DEF Table!Tabled, Table!RatesAreOfOneProcess
<1>13. Table!RatesSpanOneIntervalAtFirst'
  BY <1>2, <1>4, <1>5, <1>6 DEF Table!Tabled, Table!RatesSpanOneIntervalAtFirst,
                                Table!RatesSpanOneInterval
<1> QED
  BY <1>7, <1>8, <1>9, <1>10, <1>11, <1>12, <1>13 DEF Table!Tabled

LEMMA StartFromLibgtopKeepsTable ==
  ASSUME Table!Tabled, Table!StartFromLibgtop
  PROVE  Table!Tabled'
<1>1. PICK L \in SUBSET TablePids : L = Table!Selected
  BY DEF Table!Selected, Table!Running
<1>2. /\ v7 = "idle" /\ v9' = L /\ v10' = L /\ v11' = {} /\ v7' = "read"
      /\ v15' = [from |-> v15.last, last |-> v8']
      /\ UNCHANGED <<v1, v2, v6, v12, v13, v14>>
  BY <1>1 DEF Table!StartFromLibgtop, Table!Begin, Table!machine, Table!settings, Table!rows
<1>3. \A p \in L : v1[p] # None
  BY <1>1 DEF Table!Selected, Table!Running
<1>4. Table!Ancestry'
  BY <1>2 DEF Table!Tabled, Table!Ancestry, Table!Running
<1>5. Table!OlderParents'
  <2>1. PICK age : age = [p \in L |-> v1[p].birth]
    OBVIOUS
  <2>2. age \in [L -> 0..v2]
    BY <1>1, <2>1, AgesOfList DEF Table!Tabled
  <2>3. Table!ReadParents(age)'
    BY <1>2, <2>1 DEF Table!ReadParents, Table!Running
  <2> QED
    BY <1>2, <2>2, <2>3 DEF Table!OlderParents
<1>6. Table!RowsOfList'
  BY <1>1, <1>2 DEF Table!Tabled, Table!RowsOfList
<1>7. Table!Rooted'
  BY <1>2 DEF Table!Tabled, Table!Rooted
<1>8. Table!Counters'
  <2>1. v10 = {} /\ DOMAIN v12 \subseteq v9
    BY <1>2 DEF Table!Tabled, Table!RowsOfList
  <2>2. v6 = 0 => \A p \in DOMAIN v12 : v12[p].base # None => v12[p].base.at = v15.last
    BY <2>1 DEF Table!Tabled, Table!Counters
  <2>3. v15'.from = v15.last /\ v15'.last = v8'
    BY <1>2
  <2> QED
    BY <1>2, <2>2, <2>3 DEF Table!Tabled, Table!Counters
<1>9. Table!RatesAreOfOneProcess' /\ Table!RatesSpanOneIntervalAtFirst'
  BY <1>2 DEF Table!Tabled, Table!RatesAreOfOneProcess, Table!RatesSpanOneIntervalAtFirst,
              Table!RatesSpanOneInterval
<1> QED
  BY <1>4, <1>5, <1>6, <1>7, <1>8, <1>9 DEF Table!Tabled

-----------------------------------------------------------------------------
(* A listed row that is read, found or not.                                *)
LEMMA RowRead ==
  ASSUME Table!Tabled, v7 = "read", NEW p \in v10, NEW base, NEW ppid, NEW rate,
         v12' = Table!Put(v12, p, [base |-> base, ppid |-> ppid, rate |-> rate]),
         v11' = IF p \in DOMAIN v12 THEN v11 ELSE v11 \cup {p},
         v10' = v10 \ {p},
         v14' = v14 \/ (v14' = Table!Put(v14, p, base)
                        /\ base = [start |-> base.of, of |-> base.of, at |-> base.at]),
         UNCHANGED <<v1, v2, v6, v7, v8, v9, v13, v15>>,
         ppid \in v9 => /\ v1[p] # None /\ v1[ppid] # None
                        /\ v1[ppid].birth < v1[p].birth,
         base # None => base.of = base.start /\ base.at = v15.last,
         rate # None => rate.of = rate.read /\ (v6 = 0 => rate.since = rate.over)
  PROVE  Table!Tabled'
<1>1. p \in v9 /\ p \in TablePids /\ v9 \subseteq TablePids
  BY DEF Table!Tabled, Table!RowsOfList
<1>2. DOMAIN v12' = DOMAIN v12 \cup {p}
  BY DEF Table!Put
<1>3. v12'[p] = [base |-> base, ppid |-> ppid, rate |-> rate]
  BY DEF Table!Put
<1>4. \A q \in DOMAIN v12 : q # p => v12'[q] = v12[q]
  BY DEF Table!Put
<1>5. v12'[p].base = base /\ v12'[p].ppid = ppid /\ v12'[p].rate = rate
  BY <1>3
<1>6. Table!Ancestry'
  BY DEF Table!Tabled, Table!Ancestry, Table!Running
<1>7. Table!OlderParents'
  <2>1. PICK age \in [v9 -> 0..v2] : Table!ReadParents(age)
    BY DEF Table!Tabled, Table!OlderParents
  <2>2. \A q \in v9 : v1[q] # None => age[q] = v1[q].birth
    BY <1>1, <2>1 DEF Table!ReadParents, Table!Running
  <2>3. ppid \in v9 => age[ppid] < age[p]
    BY <1>1, <2>2
  <2>4. \A q \in v9 \ v10 : q \in DOMAIN v12
    BY DEF Table!Tabled, Table!RowsOfList
  <2>5. \A q \in v9 \ v10' : v12'[q].ppid \in v9 => age[v12'[q].ppid] < age[q]
    BY <1>4, <1>5, <2>1, <2>3, <2>4 DEF Table!ReadParents
  <2>6. Table!ReadParents(age)'
    BY <2>1, <2>5 DEF Table!ReadParents, Table!Running
  <2> QED
    BY <2>1, <2>6 DEF Table!OlderParents
<1>8. Table!RowsOfList'
  BY <1>1, <1>2 DEF Table!Tabled, Table!RowsOfList
<1>9. Table!Rooted'
  BY DEF Table!Tabled, Table!Rooted
<1>10. Table!Counters'
  <2>1. \A q \in DOMAIN v14' :
          v14'[q] = [start |-> v14'[q].of, of |-> v14'[q].of, at |-> v14'[q].at]
    BY DEF Table!Tabled, Table!Counters, Table!Put
  <2>2. \A q \in DOMAIN v12' : v12'[q].base # None => v12'[q].base.of = v12'[q].base.start
    BY <1>2, <1>4, <1>5 DEF Table!Tabled, Table!Counters
  <2>3. v15.last = v8
    BY DEF Table!Tabled, Table!Counters
  <2>4. v6 = 0 => DOMAIN v14' \subseteq DOMAIN v12'
    BY <1>2 DEF Table!Tabled, Table!Counters, Table!Put
  <2>5. v6 = 0 => \A q \in DOMAIN v12' \cap v9 :
          v12'[q].base # None =>
            v12'[q].base.at = (IF q \in v10' THEN v15.from ELSE v15.last)
    BY <1>2, <1>4, <1>5 DEF Table!Tabled, Table!Counters
  <2> QED
    BY <2>1, <2>2, <2>3, <2>4, <2>5 DEF Table!Counters
<1>11. Table!RatesAreOfOneProcess'
  BY <1>2, <1>4, <1>5 DEF Table!Tabled, Table!RatesAreOfOneProcess
<1>12. Table!RatesSpanOneIntervalAtFirst'
  BY <1>2, <1>4, <1>5 DEF Table!Tabled, Table!RatesSpanOneIntervalAtFirst,
                          Table!RatesSpanOneInterval
<1> QED
  BY <1>6, <1>7, <1>8, <1>9, <1>10, <1>11, <1>12 DEF Table!Tabled

LEMMA FirstIsUnread ==
  ASSUME Table!RowsOfList, v10 # {}
  PROVE  Table!FirstUnread \in v10
<1>1. \E m \in v10 : \A x \in v10 : m <= x
  BY LeastNumber, TablePidsAssumption DEF Table!RowsOfList
<1> QED
  BY <1>1 DEF Table!FirstUnread

(* A counter that a row starts from is of the process whose start it goes  *)
(* by, and of the list before until the user changes what is listed.       *)
LEMMA BaselineIsCurrent ==
  ASSUME Table!Tabled, NEW p \in v10, NEW birth
  PROVE  LET base == Table!Baseline(p, birth)
         IN base # None => /\ base.of = base.start
                           /\ v6 = 0 => base.at = v15.from
<1>1. CASE p \in DOMAIN v12
  <2>1. Table!Baseline(p, birth) = v12[p].base /\ p \in v9
    BY <1>1 DEF Table!Baseline, Table!Tabled, Table!RowsOfList
  <2> QED
    BY <1>1, <2>1 DEF Table!Tabled, Table!Counters
<1>2. CASE p \notin DOMAIN v12 /\ p \in DOMAIN v14 /\ Table!BaselineCarries(v14[p], birth)
  <2>1. PICK of, at : v14[p] = [start |-> of, of |-> of, at |-> at]
    BY <1>2 DEF Table!Tabled, Table!Counters
  <2>2. of = birth /\ v6 # 0
    BY <1>2, <2>1 DEF Table!BaselineCarries, Table!Tabled, Table!Counters
  <2>3. Table!Baseline(p, birth) = [v14[p] EXCEPT !.start = birth]
    BY <1>2 DEF Table!Baseline
  <2> QED
    BY <2>1, <2>2, <2>3
<1>3. CASE p \notin DOMAIN v12 /\ ~(p \in DOMAIN v14 /\ Table!BaselineCarries(v14[p], birth))
  BY <1>3 DEF Table!Baseline
<1> QED
  BY <1>1, <1>2, <1>3

LEMMA ReadRowKeepsTable ==
  ASSUME Table!Tabled, Table!ReadRow
  PROVE  Table!Tabled'
<1>1. PICK p \in v10 : p = Table!FirstUnread
  BY FirstIsUnread DEF Table!ReadRow, Table!Tabled
<1>2. PICK birth : birth = v1[p].birth
  OBVIOUS
<1>3. PICK counter : counter = [start |-> birth, of |-> birth, at |-> v8]
  OBVIOUS
<1>4. PICK base : base = Table!Baseline(p, birth)
  OBVIOUS
<1>5. PICK rate : rate = Table!CpuRate(base, birth)
  OBVIOUS
<1>6. /\ v7 = "read" /\ v1[p] # None
      /\ v12' = Table!Put(v12, p, [base |-> counter, ppid |-> v1[p].parent, rate |-> rate])
      /\ v14' = Table!Put(v14, p, counter)
      /\ v11' = IF p \in DOMAIN v12 THEN v11 ELSE v11 \cup {p}
      /\ v10' = v10 \ {p}
      /\ UNCHANGED <<v1, v2, v6, v7, v8, v9, v13, v15>>
  BY <1>1, <1>2, <1>3, <1>4, <1>5 DEF Table!ReadRow, Table!machine, Table!settings
<1>7. v1[p].parent \in v9 => /\ v1[v1[p].parent] # None
                             /\ v1[v1[p].parent].birth < v1[p].birth
  BY <1>6, ParentIsOlder DEF Table!Tabled, Table!RowsOfList
<1>8. counter.of = counter.start /\ counter.at = v15.last
  BY <1>3 DEF Table!Tabled, Table!Counters
<1>9. rate # None => rate.of = rate.read /\ (v6 = 0 => rate.since = rate.over)
  <2>1. base # None => base.of = base.start /\ (v6 = 0 => base.at = v15.from)
    BY <1>4, BaselineIsCurrent
  <2> QED
    BY <1>5, <2>1 DEF Table!CpuRate
<1>10. counter = [start |-> counter.of, of |-> counter.of, at |-> counter.at]
  BY <1>3
<1> QED
  BY <1>6, <1>7, <1>8, <1>9, <1>10, RowRead

LEMMA ReadFailsKeepsTable ==
  ASSUME Table!Tabled, Table!ReadFails
  PROVE  Table!Tabled'
<1>1. PICK p \in v10 : p = Table!FirstUnread
  BY FirstIsUnread DEF Table!ReadFails, Table!Tabled
<1>2. /\ v7 = "read"
      /\ v12' = Table!Put(v12, p, [base |-> None, ppid |-> 0, rate |-> None])
      /\ v11' = IF p \in DOMAIN v12 THEN v11 ELSE v11 \cup {p}
      /\ v10' = v10 \ {p}
      /\ UNCHANGED <<v1, v2, v6, v7, v8, v9, v13, v14, v15>>
  BY <1>1 DEF Table!ReadFails, Table!machine, Table!settings
<1>3. 0 \notin v9
  BY TablePidsAssumption DEF Table!Tabled, Table!RowsOfList
<1> QED
  BY <1>2, <1>3, RowRead


-----------------------------------------------------------------------------
(* What is below some rows: those rows, and others of the tree; with each  *)
(* its children.                                                           *)
LEMMA BelowHas ==
  ASSUME NEW S \in SUBSET TablePids, DOMAIN v13 \subseteq TablePids
  PROVE  /\ S \subseteq Table!Below(S) /\ Table!Below(S) \subseteq S \cup DOMAIN v13
         /\ Table!HasChildren(Table!Below(S))
<1>1. Table!HasChildren(S \cup DOMAIN v13)
  BY DEF Table!HasChildren
<1>2. S \cup DOMAIN v13 \in SUBSET TablePids
  OBVIOUS
<1>3. Table!Below(S) \subseteq S \cup DOMAIN v13
  BY <1>1, <1>2 DEF Table!Below
<1>4. S \subseteq Table!Below(S)
  BY DEF Table!Below
<1>5. ASSUME NEW q \in DOMAIN v13, v13[q] \in Table!Below(S) PROVE q \in Table!Below(S)
  <2>1. q \in TablePids
    OBVIOUS
  <2>2. ASSUME NEW T \in SUBSET TablePids, S \subseteq T, Table!HasChildren(T) PROVE q \in T
    <3>1. v13[q] \in T
      BY <1>5, <2>2 DEF Table!Below
    <3> QED
      BY <2>2, <3>1 DEF Table!HasChildren
  <2> QED
    BY <2>1, <2>2 DEF Table!Below
<1> QED
  BY <1>3, <1>4, <1>5 DEF Table!HasChildren

(* No row is below itself: of the rows below its children one has a parent *)
(* that is not among them, and would not be below.                         *)
LEMMA NotBelowItself ==
  ASSUME Table!Rooted, DOMAIN v13 \subseteq TablePids, NEW p \in DOMAIN v13
  PROVE  p \notin Table!Below({q \in DOMAIN v13 : v13[q] = p})
<1>1. PICK C \in SUBSET DOMAIN v13 : C = {q \in DOMAIN v13 : v13[q] = p}
  OBVIOUS
<1>2. C \in SUBSET TablePids
  OBVIOUS
<1>3. PICK B : B = Table!Below(C)
  OBVIOUS
<1>4. C \subseteq B /\ B \subseteq DOMAIN v13 /\ Table!HasChildren(B)
  BY <1>2, <1>3, BelowHas
<1> SUFFICES ASSUME p \in B PROVE FALSE
  BY <1>1, <1>3
<1>5. PICK q \in B : v13[q] \notin B
  BY <1>4 DEF Table!Rooted
<1>6. q \notin C
  BY <1>1, <1>5
<1>7. Table!HasChildren(B \ {q})
  BY <1>4, <1>5 DEF Table!HasChildren
<1>8. C \subseteq B \ {q} /\ B \ {q} \in SUBSET TablePids
  BY <1>4, <1>6
<1>9. q \in B \ {q}
  BY <1>3, <1>5, <1>7, <1>8 DEF Table!Below
<1> QED
  BY <1>9

LEMMA ReapKeepsTable ==
  ASSUME Table!Tabled, Table!Reap
  PROVE  Table!Tabled'
<1>1. PICK dead \in SUBSET TablePids : dead = DOMAIN v12 \ v9
  BY DEF Table!Tabled, Table!RowsOfList
<1>2. PICK below : below = Table!Below(dead)
  OBVIOUS
<1>3. /\ v7 = "read" /\ v10 = {}
      /\ v12' = Table!Without(v12, dead)
      /\ v14' = Table!Without(v14, dead)
      /\ v13' = Table!Without(v13, below)
      /\ v11' = (v11 \cup below) \ dead
      /\ v7' = IF v11' = {} THEN "idle" ELSE "insert"
      /\ UNCHANGED <<v1, v2, v6, v8, v9, v10, v15>>
  BY <1>1, <1>2 DEF Table!Reap, Table!Shown, Table!machine, Table!settings
<1>4. DOMAIN v12' = DOMAIN v12 \ dead /\ \A p \in DOMAIN v12' : v12'[p] = v12[p]
  BY <1>3 DEF Table!Without
<1>5. DOMAIN v14' = DOMAIN v14 \ dead /\ \A p \in DOMAIN v14' : v14'[p] = v14[p]
  BY <1>3 DEF Table!Without
<1>6. DOMAIN v13' = DOMAIN v13 \ below /\ \A p \in DOMAIN v13' : v13'[p] = v13[p]
  BY <1>3 DEF Table!Without
<1>7. DOMAIN v13 \subseteq TablePids
  BY DEF Table!Tabled, Table!RowsOfList
<1>8. dead \subseteq below /\ below \subseteq dead \cup DOMAIN v13 /\ Table!HasChildren(below)
  BY <1>2, <1>7, BelowHas
<1>9. v9 \subseteq DOMAIN v12 /\ DOMAIN v12' = v9
  BY <1>1, <1>3, <1>4 DEF Table!Tabled, Table!RowsOfList
<1>10. Table!Ancestry'
  BY <1>3 DEF Table!Tabled, Table!Ancestry, Table!Running
<1>11. Table!OlderParents'
  <2>1. PICK age \in [v9 -> 0..v2] : Table!ReadParents(age)
    BY <1>3 DEF Table!Tabled, Table!OlderParents
  <2>2. Table!ReadParents(age)'
    BY <1>3, <1>4, <1>9, <2>1 DEF Table!ReadParents, Table!Running
  <2> QED
    BY <1>3, <2>1, <2>2 DEF Table!OlderParents
<1>12. Table!RowsOfList'
  <2>1. DOMAIN v13 \cup v11 = DOMAIN v12 /\ DOMAIN v13 \cap v11 = {}
    BY DEF Table!Tabled, Table!RowsOfList
  <2>2. DOMAIN v13' \cup v11' = DOMAIN v12' /\ DOMAIN v13' \cap v11' = {}
    BY <1>3, <1>4, <1>6, <1>8, <2>1
  <2>3. v7' \in {"idle", "insert"} /\ (v7' = "idle" => v11' = {})
    BY <1>3
  <2>4. v9 \subseteq TablePids
    BY DEF Table!Tabled, Table!RowsOfList
  <2> QED
    BY <1>3, <1>9, <2>2, <2>3, <2>4 DEF Table!RowsOfList
<1>13. Table!Rooted'
  <2>1. ASSUME NEW p \in DOMAIN v13' PROVE v13'[p] \in DOMAIN v13' \cup {0}
    BY <1>6, <1>8 DEF Table!HasChildren, Table!Tabled, Table!Rooted
  <2>2. ASSUME NEW T \in SUBSET DOMAIN v13', T # {} PROVE \E p \in T : v13'[p] \notin T
    BY <1>6, <2>2 DEF Table!Tabled, Table!Rooted
  <2> QED
    BY <2>1, <2>2 DEF Table!Rooted
<1>14. Table!Counters'
  <2>1. \A p \in DOMAIN v14' :
          v14'[p] = [start |-> v14'[p].of, of |-> v14'[p].of, at |-> v14'[p].at]
    BY <1>5 DEF Table!Tabled, Table!Counters
  <2>2. \A p \in DOMAIN v12' : v12'[p].base # None => v12'[p].base.of = v12'[p].base.start
    BY <1>4 DEF Table!Tabled, Table!Counters
  <2>3. v6 = 0 => DOMAIN v14' \subseteq DOMAIN v12'
    BY <1>4, <1>5 DEF Table!Tabled, Table!Counters
  <2>4. v6 = 0 => \A p \in DOMAIN v12' \cap v9 :
          v12'[p].base # None => v12'[p].base.at = v15.last
    BY <1>3, <1>4 DEF Table!Tabled, Table!Counters
  <2> QED
    BY <1>3, <2>1, <2>2, <2>3, <2>4 DEF Table!Counters
<1>15. Table!RatesAreOfOneProcess'
  BY <1>4 DEF Table!Tabled, Table!RatesAreOfOneProcess
<1>16. Table!RatesSpanOneIntervalAtFirst'
  BY <1>3, <1>4 DEF Table!Tabled, Table!RatesSpanOneIntervalAtFirst, Table!RatesSpanOneInterval
<1> QED
  BY <1>10, <1>11, <1>12, <1>13, <1>14, <1>15, <1>16 DEF Table!Tabled

LEMMA InsertKeepsTable ==
  ASSUME Table!Tabled, NEW p \in TablePids, Table!Insert(p)
  PROVE  Table!Tabled'
<1>1. PICK above : above = IF v5 /\ v12[p].ppid \in DOMAIN v12 THEN v12[p].ppid ELSE 0
  OBVIOUS
<1>2. /\ v7 = "insert" /\ p \in v11 /\ Table!Placeable(p)
      /\ v13' = Table!Put(v13, p, above)
      /\ v11' = v11 \ {p}
      /\ v7' = IF v11' = {} THEN "idle" ELSE "insert"
      /\ UNCHANGED <<v1, v2, v6, v8, v9, v10, v12, v14, v15>>
  BY <1>1 DEF Table!Insert, Table!Shown, Table!machine, Table!settings
<1>3. above \in DOMAIN v13 \cup {0}
  BY <1>1, <1>2 DEF Table!Placeable
<1>4. DOMAIN v13 \cup v11 = DOMAIN v12 /\ DOMAIN v13 \cap v11 = {} /\ p # 0
  BY TablePidsAssumption DEF Table!Tabled, Table!RowsOfList
<1>5. /\ DOMAIN v13' = DOMAIN v13 \cup {p} /\ v13'[p] = above
      /\ \A q \in DOMAIN v13 \ {p} : v13'[q] = v13[q]
  BY <1>2 DEF Table!Put
<1>6. Table!Ancestry'
  BY <1>2 DEF Table!Tabled, Table!Ancestry, Table!Running
<1>7. Table!OlderParents'
  <2>1. PICK age \in [v9 -> 0..v2] : Table!ReadParents(age)
    BY <1>2 DEF Table!Tabled, Table!OlderParents
  <2>2. Table!ReadParents(age)'
    BY <1>2, <2>1 DEF Table!ReadParents, Table!Running
  <2> QED
    BY <1>2, <2>1, <2>2 DEF Table!OlderParents
<1>8. Table!RowsOfList'
  <2>1. DOMAIN v13' \cup v11' = DOMAIN v12 /\ DOMAIN v13' \cap v11' = {}
    BY <1>2, <1>4, <1>5
  <2>2. v7' \in {"idle", "insert"} /\ (v7' = "idle" => v11' = {})
    BY <1>2
  <2> QED
    BY <1>2, <2>1, <2>2 DEF Table!Tabled, Table!RowsOfList
<1>9. Table!Rooted'
  <2>1. ASSUME NEW q \in DOMAIN v13' PROVE v13'[q] \in DOMAIN v13' \cup {0}
    BY <1>3, <1>5 DEF Table!Tabled, Table!Rooted
  <2>2. ASSUME NEW T \in SUBSET DOMAIN v13', T # {} PROVE \E q \in T : v13'[q] \notin T
    <3>1. CASE T = {p}
      <4>1. above # p
        BY <1>2, <1>3, <1>4
      <4> QED
        BY <1>5, <3>1, <4>1
    <3>2. CASE T # {p}
      <4>1. PICK q \in T \ {p} : v13[q] \notin T \ {p}
        <5>1. T \ {p} \in SUBSET DOMAIN v13 /\ T \ {p} # {}
          BY <1>5, <2>2, <3>2
        <5> QED
          BY <5>1 DEF Table!Tabled, Table!Rooted
      <4>2. q \in DOMAIN v13 /\ v13[q] # p
        BY <1>2, <1>4, <1>5, <4>1 DEF Table!Tabled, Table!Rooted
      <4> QED
        BY <1>5, <4>1, <4>2
    <3> QED
      BY <3>1, <3>2
  <2> QED
    BY <2>1, <2>2 DEF Table!Rooted
<1>10. Table!Counters'
  BY <1>2 DEF Table!Tabled, Table!Counters
<1>11. Table!RatesAreOfOneProcess' /\ Table!RatesSpanOneIntervalAtFirst'
  BY <1>2 DEF Table!Tabled, Table!RatesAreOfOneProcess, Table!RatesSpanOneIntervalAtFirst,
              Table!RatesSpanOneInterval
<1> QED
  BY <1>6, <1>7, <1>8, <1>9, <1>10, <1>11 DEF Table!Tabled

(* A change of the settings finds no walk under way.                       *)
LEMMA ChangeViewKeepsTable ==
  ASSUME Table!Tabled, Table!ChangeView
  PROVE  Table!Tabled'
<1>1. /\ v7 = "idle" /\ v6' = v6 + 1 /\ v12' = Table!NoRows /\ v13' = Table!NoRows
      /\ UNCHANGED <<v1, v2, v7, v8, v9, v10, v11, v14, v15>>
  BY DEF Table!ChangeView, Table!Change, Table!machine, Table!walk
<1>2. DOMAIN Table!NoRows = {}
  BY DEF Table!NoRows
<1>3. v6' \in Nat /\ v6' # 0
  BY <1>1 DEF Table!Tabled, Table!Ancestry
<1>4. Table!Ancestry'
  BY <1>1, <1>3 DEF Table!Tabled, Table!Ancestry, Table!Running
<1>5. Table!OlderParents'
  BY <1>1 DEF Table!OlderParents
<1>6. Table!RowsOfList'
  BY <1>1, <1>2 DEF Table!Tabled, Table!RowsOfList
<1>7. Table!Rooted'
  BY <1>1, <1>2 DEF Table!Rooted
<1>8. Table!Counters'
  BY <1>1, <1>2, <1>3 DEF Table!Tabled, Table!Counters
<1>9. Table!RatesAreOfOneProcess' /\ Table!RatesSpanOneIntervalAtFirst'
  BY <1>1, <1>2 DEF Table!RatesAreOfOneProcess, Table!RatesSpanOneIntervalAtFirst,
                    Table!RatesSpanOneInterval
<1> QED
  BY <1>4, <1>5, <1>6, <1>7, <1>8, <1>9 DEF Table!Tabled

LEMMA ChangeSourceKeepsTable ==
  ASSUME Table!Tabled, Table!ChangeSource
  PROVE  Table!Tabled'
<1>1. /\ v7 = "idle" /\ v6' = v6 + 1
      /\ UNCHANGED <<v1, v2, v7, v8, v9, v10, v11, v12, v13, v14, v15>>
  BY DEF Table!ChangeSource, Table!Change, Table!machine, Table!walk, Table!rows
<1>2. v6' \in Nat /\ v6' # 0
  BY <1>1 DEF Table!Tabled, Table!Ancestry
<1>3. Table!Ancestry'
  BY <1>1, <1>2 DEF Table!Tabled, Table!Ancestry, Table!Running
<1>4. Table!OlderParents'
  BY <1>1 DEF Table!OlderParents
<1>5. Table!RowsOfList'
  BY <1>1 DEF Table!Tabled, Table!RowsOfList
<1>6. Table!Rooted'
  BY <1>1 DEF Table!Tabled, Table!Rooted
<1>7. Table!Counters'
  BY <1>1, <1>2 DEF Table!Tabled, Table!Counters
<1>8. Table!RatesAreOfOneProcess' /\ Table!RatesSpanOneIntervalAtFirst'
  BY <1>1, <1>2 DEF Table!Tabled, Table!RatesAreOfOneProcess,
                    Table!RatesSpanOneIntervalAtFirst, Table!RatesSpanOneInterval
<1> QED
  BY <1>3, <1>4, <1>5, <1>6, <1>7, <1>8 DEF Table!Tabled

LEMMA TableInvNext ==
  ASSUME ReuseInWalk = FALSE
  PROVE  TableInv /\ [Next]_partsVars => TableInv'
<1> SUFFICES ASSUME TableInv, [Next]_partsVars PROVE TableInv'
  OBVIOUS
<1>1. CASE UNCHANGED partsVars
  BY <1>1 DEF partsVars, from6, TableInv, Table!Tabled, Table!Ancestry, Table!OlderParents,
              Table!ReadParents, Table!RowsOfList, Table!Rooted, Table!Counters,
              Table!RatesAreOfOneProcess, Table!RatesSpanOneIntervalAtFirst,
              Table!RatesSpanOneInterval, Table!Running
<1>2. CASE Next
  <2> SUFFICES ASSUME part = "table", Table!Next PROVE Table!Tabled'
    BY <1>2 DEF Next, TableInv, Pure, Readings, Cards, Reader, ReadInput
  <2>1. Table!Tabled
    BY DEF TableInv
  <2>2. ASSUME NEW p \in TablePids, NEW parent \in TablePids, Table!Fork(p, parent)
        PROVE  Table!Tabled'
    BY <2>1, <2>2, ForkKeepsTable
  <2>3. ASSUME NEW p \in TablePids, Table!Exit(p) \/ Table!Schedule(p) \/ Table!Insert(p)
        PROVE  Table!Tabled'
    BY <2>1, <2>3, ExitKeepsTable, ScheduleKeepsTable, InsertKeepsTable
  <2>4. CASE Table!StartFromCollector
    BY <2>1, <2>4, StartFromCollectorKeepsTable
  <2>5. CASE Table!StartFromLibgtop
    BY <2>1, <2>5, StartFromLibgtopKeepsTable
  <2>6. CASE Table!ReadRow \/ Table!ReadFails
    BY <2>1, <2>6, ReadRowKeepsTable, ReadFailsKeepsTable
  <2>7. CASE Table!Reap
    BY <2>1, <2>7, ReapKeepsTable
  <2>8. CASE Table!ChangeView \/ Table!ChangeSource
    BY <2>1, <2>8, ChangeViewKeepsTable, ChangeSourceKeepsTable
  <2> QED
    BY <2>2, <2>3, <2>4, <2>5, <2>6, <2>7, <2>8 DEF Table!Next
<1> QED
  BY <1>1, <1>2

(* Of the rows that wait, the one whose process is the oldest has a parent *)
(* in the tree, or none.                                                   *)
LEMMA OldestIsPlaceable ==
  ASSUME Table!Tabled, v7 = "insert", v11 # {}
  PROVE  \E p \in v11 : Table!Placeable(p)
<1>1. PICK age \in [v9 -> 0..v2] : Table!ReadParents(age)
  BY DEF Table!Tabled, Table!OlderParents
<1>2. v10 = {} /\ v11 \subseteq v9 /\ DOMAIN v12 \subseteq v9 /\ DOMAIN v13 \cup v11 = DOMAIN v12
  BY DEF Table!Tabled, Table!RowsOfList
<1>3. \A p \in v9 : age[p] \in Nat
  BY <1>1
<1>4. PICK p \in v11 : \A q \in v11 : age[p] <= age[q]
  BY <1>2, <1>3, LeastByRank
<1>5. v12[p].ppid \notin v11
  <2> SUFFICES ASSUME v12[p].ppid \in v11 PROVE FALSE
    OBVIOUS
  <2>1. age[v12[p].ppid] < age[p] /\ age[p] <= age[v12[p].ppid]
    BY <1>1, <1>2, <1>4 DEF Table!ReadParents
  <2> QED
    BY <1>2, <1>3, <2>1
<1> QED
  BY <1>2, <1>4, <1>5 DEF Table!Placeable

LEMMA TabledIsSound ==
  ASSUME Table!Tabled
  PROVE  /\ Table!TreeIsTheTable /\ Table!RatesAreOfOneProcess
         /\ Table!RatesSpanOneIntervalAtFirst
<1>1. v7 = "insert" => DOMAIN v12 = v9 /\ DOMAIN v13 \cup v11 = v9
  BY DEF Table!Tabled, Table!RowsOfList
<1>2. v7 = "idle" => DOMAIN v13 = DOMAIN v12
  BY DEF Table!Tabled, Table!RowsOfList
<1>3. DOMAIN v13 \subseteq TablePids
  BY DEF Table!Tabled, Table!RowsOfList
<1>4. \A p \in DOMAIN v13 : /\ v13[p] \in DOMAIN v13 \cup {0}
                            /\ p \notin Table!Below({q \in DOMAIN v13 : v13[q] = p})
  BY <1>3, NotBelowItself DEF Table!Tabled, Table!Rooted
<1>5. Table!TreeIsTheTable
  BY <1>1, <1>2, <1>4, OldestIsPlaceable DEF Table!TreeIsTheTable
<1> QED
  BY <1>5 DEF Table!Tabled

(* Every listed process has one row and every row a place in the tree, and *)
(* a share of the CPU is made of two counters of one process, an interval  *)
(* apart, whatever is started and exits during a refresh, whatever cannot  *)
(* be read and however the source changes (proctable.cpp, cpurate.c); as   *)
(* long as no identifier that was listed is given to another process       *)
(* before the refresh ends.                                                *)
THEOREM RowsHaveTheirPlace ==
  ASSUME ReuseInWalk = FALSE
  PROVE  Spec => []TableSound
<1>1. TableInv => TableSound
  BY TabledIsSound DEF TableInv, TableSound
<1>2. TableInv /\ [Next]_partsVars => TableInv'
  BY TableInvNext
<1> QED
  BY <1>1, <1>2, TableInvInit, PTL DEF Spec, partsVars
-----------------------------------------------------------------------------
(* GraphScale: the operators of the library it uses, and its arithmetic.   *)
LEMMA GraphMax ==
  ASSUME NEW S, IsFiniteSet(S), S \subseteq Nat, S # {}
  PROVE  Graph!Max(S) \in S /\ \A x \in S : x <= Graph!Max(S)
<1>1. PICK m \in S : \A x \in S : m >= x
  BY GreatestNumber
<1> QED
  BY <1>1 DEF Graph!Max

LEMMA MaxOfTwo ==
  ASSUME NEW a \in Nat, NEW b \in Nat
  PROVE  Graph!Max({a, b}) = IF a >= b THEN a ELSE b
<1>1. PICK S : S = {a, b}
  OBVIOUS
<1>2. IsFiniteSet({a} \cup {b}) /\ S = {a} \cup {b}
  BY <1>1, FS_Singleton, FS_Union
<1>3. IsFiniteSet(S) /\ S \subseteq Nat /\ S # {}
  BY <1>1, <1>2
<1>4. Graph!Max(S) \in S /\ \A x \in S : x <= Graph!Max(S)
  BY <1>3, GraphMax
<1> QED
  BY <1>1, <1>4

LEMMA GraphSum == \A f, S : Graph!SumFunctionOnSet(f, S) = SumFunctionOnSet(f, S)
  BY DEF Graph!SumFunctionOnSet, Graph!FoldFunctionOnSet, Graph!MapThenFoldSet,
         SumFunctionOnSet, FoldFunctionOnSet, MapThenFoldSet

LEMMA DivNat ==
  ASSUME NEW x \in Nat, NEW y \in Nat \ {0}
  PROVE  x \div y \in Nat /\ (x \div y) * y <= x
  BY SMT

LEMMA CeilDivAbove ==
  ASSUME NEW x \in Nat, NEW y \in Nat \ {0}
  PROVE  Graph!CeilDiv(x, y) \in Nat /\ Graph!CeilDiv(x, y) * y >= x
<1>1. \A a \in Nat, b \in Nat \ {0} : ((a + b - 1) \div b) * b >= a
  BY SMT
<1>2. (x + y - 1) \div y \in Nat
  BY SMT
<1> QED
  BY <1>1, <1>2 DEF Graph!CeilDiv

LEMMA TimesMonotone ==
  ASSUME NEW x \in Int, NEW y \in Int, NEW u \in Nat, x <= y
  PROVE  x * u <= y * u
  BY SMT

(* The power of ten of a coefficient.                                      *)
LEMMA PowerOfTen ==
  ASSUME NEW x \in 1..1024
  PROVE  Graph!PowerBelow(10, x) \in Nat \ {0}
<1>1. 10 ^ 0 = 1 /\ 10 ^ 1 = 10 /\ 10 ^ 2 = 100 /\ 10 ^ 3 = 1000
  BY SMT
<1>2. /\ x \in 1..9 => x \div 10 < 1
      /\ x \in 10..99 => x \div 10 < 10
      /\ x \in 100..999 => x \div 10 < 100
      /\ x \in 1000..1024 => x \div 10 < 1000
  BY SMT
<1> DEFINE Fits(e) == 10 ^ e \in 1..x /\ x \div 10 < 10 ^ e
<1>3. \E e \in 0..3 : Fits(e)
  <2>1. x \in 1..9 => Fits(0)
    BY <1>1, <1>2, SMT
  <2>2. x \in 10..99 => Fits(1)
    BY <1>1, <1>2, SMT
  <2>3. x \in 100..999 => Fits(2)
    BY <1>1, <1>2, SMT
  <2>4. x \in 1000..1024 => Fits(3)
    BY <1>1, <1>2, SMT
  <2>5. x \in 1..9 \/ x \in 10..99 \/ x \in 100..999 \/ x \in 1000..1024
    BY SMT
  <2> HIDE DEF Fits
  <2> QED
    BY <2>1, <2>2, <2>3, <2>4, <2>5, SMT
<1> DEFINE e == CHOOSE n \in 0..8 : Fits(n)
<1>4. \E n \in 0..8 : Fits(n)
  BY <1>3
<1>5. Fits(e)
  <2> HIDE DEF Fits
  <2> QED
    BY <1>4
<1>6. 10 ^ e \in 1..x
  BY <1>5
<1>7. Graph!PowerBelow(10, x) = 10 ^ e
  BY DEF Graph!PowerBelow
<1> HIDE DEF e
<1> QED
  BY <1>6, <1>7

BelowTiB(x) == x \div 1024 < 1024 * 1024 * 1024

(* Of a scale below 1 TiB, its unit, and that it has at most 1024 of it.   *)
LEMMA PowerOfKiB ==
  ASSUME NEW x \in Nat, x > 0, BelowTiB(x)
  PROVE  Graph!PowerBelow(1024, x) \in Nat \ {0} /\ x \div 1024 < Graph!PowerBelow(1024, x)
<1>1. 1024 ^ 0 = 1 /\ 1024 ^ 1 = 1024 /\ 1024 ^ 2 = 1024 * 1024 /\ 1024 ^ 3 = 1024 * 1024 * 1024
  BY SMT
<1>2. /\ x < 1024 => x \div 1024 < 1
      /\ x < 1024 * 1024 => x \div 1024 < 1024
      /\ x < 1024 * 1024 * 1024 => x \div 1024 < 1024 * 1024
  BY SMT
<1> DEFINE Fits(e) == 1024 ^ e \in 1..x /\ x \div 1024 < 1024 ^ e
<1>3. \E e \in 0..3 : Fits(e)
  <2>1. x < 1024 => Fits(0)
    BY <1>1, <1>2, SMT
  <2>2. x >= 1024 /\ x < 1024 * 1024 => Fits(1)
    BY <1>1, <1>2, SMT
  <2>3. x >= 1024 * 1024 /\ x < 1024 * 1024 * 1024 => Fits(2)
    BY <1>1, <1>2, SMT
  <2>4. x >= 1024 * 1024 * 1024 => Fits(3)
    BY <1>1, SMT DEF BelowTiB
  <2> HIDE DEF Fits
  <2> QED
    BY <2>1, <2>2, <2>3, <2>4, SMT
<1> DEFINE e == CHOOSE n \in 0..8 : Fits(n)
<1>4. \E n \in 0..8 : Fits(n)
  <2> HIDE DEF Fits
  <2> QED
    BY <1>3, SMT
<1>5. Fits(e)
  <2> HIDE DEF Fits
  <2> QED
    BY <1>4
<1>6. 1024 ^ e \in 1..x /\ x \div 1024 < 1024 ^ e
  BY <1>5
<1>7. Graph!PowerBelow(1024, x) = 1024 ^ e
  BY DEF Graph!PowerBelow
<1> HIDE DEF e
<1> QED
  BY <1>6, <1>7, SMT

(* Rounding up to a digit, and to the scale, does not lose anything.       *)
LEMMA RoundDigitAbove ==
  ASSUME NEW c \in 1..1024
  PROVE  Graph!RoundDigit(c) \in Nat /\ Graph!RoundDigit(c) >= c
<1>1. PICK d \in Nat \ {0} : d = Graph!PowerBelow(10, c)
  BY PowerOfTen
<1>2. Graph!CeilDiv(c, d) \in Nat /\ Graph!CeilDiv(c, d) * d >= c
  <2>1. c \in Nat
    BY SMT
  <2> QED
    BY <2>1, CeilDivAbove
<1>3. PICK q \in Nat : q = Graph!CeilDiv(c, d)
  BY <1>2
<1>4. Graph!RoundDigit(c) = q * d
  BY <1>1, <1>3 DEF Graph!RoundDigit
<1>5. q * d \in Nat
  BY SMT
<1> QED
  BY <1>2, <1>3, <1>4, <1>5

LEMMA ScaleAbovePeak ==
  ASSUME NEW peak \in Nat, BelowTiB(2 * peak)
  PROVE  Graph!ScaleBytes(peak) \in Nat /\ Graph!ScaleBytes(peak) >= peak
<1>1. PICK wanted \in Nat : wanted = (11 * peak) \div 10 /\ wanted >= peak /\ wanted <= 2 * peak
  BY SMT
<1>2. PICK scale \in Nat : scale = IF wanted >= 1024 THEN wanted ELSE 1024
  BY SMT
<1>3. Graph!Max({wanted, 1024}) = scale
  BY <1>2, MaxOfTwo, 1024 \in Nat, SMT
<1>4. scale > 0 /\ BelowTiB(scale) /\ scale >= peak
  BY <1>1, <1>2, SMT DEF BelowTiB
<1>5. PICK unit \in Nat \ {0} : unit = Graph!PowerBelow(1024, scale) /\ scale \div 1024 < unit
  BY <1>4, PowerOfKiB
<1>6. PICK c \in Nat : c = Graph!CeilDiv(scale, unit) /\ c * unit >= scale
  BY CeilDivAbove
<1>7. c \in 1..1024
  <2>1. scale < 1024 * unit
    BY <1>5, SMT
  <2>2. c = (scale + unit - 1) \div unit
    BY <1>6 DEF Graph!CeilDiv
  <2>3. c * unit <= scale + unit - 1
    <3>1. PICK n \in Nat : n = scale + unit - 1
      BY SMT
    <3> QED
      BY <2>2, <3>1, DivNat
  <2>4. c * unit < 1025 * unit /\ c * unit > 0
    BY <1>4, <1>6, <2>1, <2>3, SMT
  <2>5. \A q \in Nat, b \in Nat \ {0} : q * b > 0 /\ q * b < 1025 * b => q \in 1..1024
    BY SMT
  <2> QED
    BY <2>4, <2>5, SMT
<1>8. PICK digit \in Nat : digit = Graph!RoundDigit(c) /\ digit >= c
  BY <1>7, RoundDigitAbove
<1>9. Graph!ScaleBytes(peak) = digit * unit
  BY <1>1, <1>3, <1>5, <1>6, <1>8, SMT DEF Graph!ScaleBytes, Graph!MIN_SCALE_BYTES
<1>10. digit * unit >= c * unit /\ digit * unit \in Nat
  BY <1>8, TimesMonotone, SMT
<1>11. c * unit \in Nat
  BY SMT
<1> QED
  BY <1>4, <1>6, <1>9, <1>10, <1>11, SMT

(* The next scale is at or above all of the history.                       *)
LEMMA ScaleNextAbove ==
  ASSUME NEW H, IsFiniteSet(H), NEW top \in Nat, H \subseteq 0..top,
         BelowTiB(2 * top), NEW m \in Nat, NEW n
  PROVE  /\ Graph!gsm_graph_scale_next(H, m, FALSE, n) \in Nat
         /\ \A x \in H : x <= Graph!gsm_graph_scale_next(H, m, FALSE, n)
<1>1. PICK G : G = H \cup {0}
  OBVIOUS
<1>2. IsFiniteSet(G) /\ G \subseteq Nat /\ G # {} /\ G \subseteq 0..top
  BY <1>1, FS_AddElement
<1>3. PICK peak \in 0..top : peak = Graph!Max(G) /\ \A x \in G : x <= peak
  BY <1>2, GraphMax
<1>4. peak \in Nat /\ BelowTiB(2 * peak)
  BY SMT DEF BelowTiB
<1>5. PICK next \in Nat : next = Graph!ScaleBytes(peak) /\ next >= peak
  BY <1>4, ScaleAbovePeak
<1>6. Graph!gsm_graph_scale_round(Graph!Max(H \cup {0}), FALSE, n) = next
  BY <1>1, <1>3, <1>5 DEF Graph!gsm_graph_scale_round
<1>7. PICK chosen : chosen = Graph!gsm_graph_scale_next(H, m, FALSE, n)
  OBVIOUS
<1>8. chosen = IF 4 * m < 5 * next /\ next <= m THEN m ELSE next
  BY <1>6, <1>7 DEF Graph!gsm_graph_scale_next
<1>9. chosen \in Nat /\ chosen >= peak
  BY <1>4, <1>5, <1>8
<1>10. ASSUME NEW x \in H PROVE x <= chosen
  <2>1. x \in Nat /\ x <= peak
    BY <1>1, <1>3
  <2> QED
    BY <1>4, <1>9, <2>1
<1> QED
  BY <1>7, <1>9, <1>10

-----------------------------------------------------------------------------
(***************************************************************************)
(* LoadGraph: counters v1, selected v2, moved v3, elapsed v4, type v5,     *)
(* num_points v6, iteration v7, latest v8, data v9, values v10, max v11,   *)
(* last v12, num_bars v13, in_bits v14, background v15, overstated v16,    *)
(* resized v17.                                                            *)
(***************************************************************************)
GraphInv == part = "graph" =>
  /\ Graph!Counting /\ Graph!Ring /\ Graph!Scaled
  /\ Graph!RatesNotOverstated /\ Graph!BackgroundIsCurrent

LEMMA GraphCardinality == \A S : Graph!Cardinality(S) = Cardinality(S)
  BY DEF Graph!Cardinality, Cardinality

LEMMA PeakNat == Graph!Peak \in Nat
<1>1. PICK c \in Nat : c = Cardinality(GraphDevices)
  BY GraphAssumption, FS_CardinalityType
<1>2. PICK k \in Nat : k = MaxCounter
  BY GraphAssumption
<1>3. c * k \in Nat
  BY SMT
<1> QED
  BY <1>1, <1>2, <1>3, GraphCardinality DEF Graph!Peak

(* It holds at first.                                                      *)
LEMMA GraphInvInit == Init => GraphInv
<1> SUFFICES ASSUME Graph!Init
             PROVE  /\ Graph!Counting /\ Graph!Ring /\ Graph!Scaled
                    /\ Graph!RatesNotOverstated /\ Graph!BackgroundIsCurrent
  BY DEF Init, GraphInv, Pure, Readings, Cards, Reader
<1>1. /\ v1 = [d \in GraphDevices |-> 0] /\ v2 \in SUBSET GraphDevices /\ v3 = 0 /\ v4 = 0
      /\ v6 \in GraphSizes /\ v8 = 0 /\ v9 = Graph!Points(v6)
      /\ v10 = [i \in 0..(v6 - 1) |-> 0] /\ v11 = 1
      /\ v12 = [in |-> 0, hash |-> {}, timed |-> FALSE]
      /\ v14 \in (IF v5 = "net" THEN BOOLEAN ELSE {FALSE}) /\ v15 = None /\ v16 = FALSE
  BY DEF Graph!Init
<1>2. v6 \in Nat \ {0}
  BY <1>1, GraphAssumption
<1>3. PICK peak \in Nat : peak = Graph!Peak
  BY PeakNat
<1>4. Graph!Counting
  BY <1>1, GraphAssumption DEF Graph!Counting
<1>5. Graph!Ring
  <2>1. v9 \in [1..v6 -> [rate : Int, age : Int]]
    BY <1>1 DEF Graph!Points, Graph!NoPoint
  <2>2. v10 \in [0..(v6 - 1) -> 0..peak] /\ 0 \in 0..(v6 - 1)
    BY <1>1, <1>2, <1>3
  <2> QED
    BY <1>1, <1>3, <2>1, <2>2 DEF Graph!Ring
<1>6. Graph!Scaled
  <2>1. v5 = "disk" => v14 = FALSE
    BY <1>1
  <2>2. PICK u \in Nat : u = ByteUnit
    BY GraphAssumption
  <2>3. ASSUME NEW i \in 1..v6
        PROVE  v9[i].rate <= v10[Graph!Slot(i)] /\ v9[i].rate * ByteUnit <= 1
    <3>1. v9[i].rate = -1
      BY <1>1 DEF Graph!Points, Graph!NoPoint
    <3>2. Graph!Slot(i) \in 0..(v6 - 1)
      BY <1>1, <1>2 DEF Graph!Slot
    <3>3. v10[Graph!Slot(i)] = 0
      BY <1>1, <3>2
    <3>4. -1 * u <= 1
      BY SMT
    <3> QED
      BY <2>2, <3>1, <3>3, <3>4
  <2> QED
    BY <1>1, <2>1, <2>3 DEF Graph!Scaled
<1> QED
  BY <1>1, <1>4, <1>5, <1>6 DEF Graph!RatesNotOverstated, Graph!BackgroundIsCurrent

(* The actions that leave the machine and the last refresh alone.          *)
GraphSettings ==
  \/ Graph!load_graph_start \/ Graph!load_graph_reset \/ Graph!ChangeUnits
  \/ Graph!load_graph_change_num_points \/ Graph!load_graph_draw \/ UNCHANGED Graph!graphVars
GraphRefresh ==
  \/ Graph!RefreshRate \/ Graph!RefreshNoRate \/ Graph!RefreshFails \/ Graph!RefreshMemory
GraphMachine ==
  \/ \E d \in GraphDevices : (\E n \in ByteSteps : Graph!Traffic(d, n)) \/ Graph!Attach(d)
                             \/ Graph!Detach(d)
  \/ Graph!Tick

(* What was moved is counted: every action keeps that.                     *)
LEMMA CountingKept ==
  ASSUME Graph!Counting, GraphSettings \/ GraphRefresh \/ GraphMachine
  PROVE  Graph!Counting'
<1>1. /\ v1 \in [GraphDevices -> 0..MaxCounter] /\ v2 \subseteq GraphDevices
      /\ v3 \in Nat /\ v4 \in Nat
      /\ v12 \in [in : Nat, hash : SUBSET GraphDevices, timed : BOOLEAN]
      /\ v12.timed => v5 # "memory" /\ SumFunctionOnSet(v1, v12.hash) <= v12.in + v3
  BY GraphSum DEF Graph!Counting
<1>2. PICK hash : hash = v12.hash
  OBVIOUS
<1>3. hash \in SUBSET GraphDevices /\ IsFiniteSet(hash) /\ v12.in \in Nat
  BY <1>1, <1>2, GraphAssumption, FS_Subset
<1>4. \A f, S : f \in [GraphDevices -> 0..MaxCounter] /\ S \subseteq GraphDevices =>
        SumFunctionOnSet(f, S) \in Nat /\ \A x \in S : f[x] \in Int
  BY GraphAssumption, SumBound
<1>5. ASSUME v1' \in [GraphDevices -> 0..MaxCounter], v2' \subseteq GraphDevices,
             v3' \in Nat, v4' \in Nat, v12' = v12, v5' = v5,
             v12.timed => SumFunctionOnSet(v1', hash) <= v12.in + v3'
      PROVE  Graph!Counting'
  BY <1>1, <1>2, <1>5, GraphSum DEF Graph!Counting
<1>6. CASE GraphSettings
  <2>1. UNCHANGED <<v1, v2, v3, v4, v5, v12>>
    BY <1>6 DEF GraphSettings, Graph!load_graph_start, Graph!load_graph_reset, Graph!ChangeUnits,
       Graph!load_graph_change_num_points, Graph!load_graph_draw, Graph!graphVars, Graph!machine,
       Graph!counted
  <2> QED
    BY <1>1, <1>2, <1>5, <2>1
<1>7. CASE GraphRefresh
  <2>1. UNCHANGED <<v1, v2, v5>> /\ v3' = 0 /\ v4' = 0
    BY <1>7 DEF GraphRefresh, Graph!RefreshRate, Graph!RefreshNoRate, Graph!RefreshFails,
       Graph!RefreshMemory, Graph!Refresh
  <2>2. CASE Graph!RefreshRate \/ Graph!RefreshNoRate
    <3>1. v12' = [in |-> Graph!Total, hash |-> v2, timed |-> TRUE] /\ v5 # "memory"
      BY <2>2 DEF Graph!RefreshRate, Graph!RefreshNoRate
    <3>2. PICK total \in Nat : total = Graph!Total /\ total = SumFunctionOnSet(v1, v2)
      BY <1>1, <1>4, GraphSum DEF Graph!Total
    <3>3. PICK l : l = [in |-> total, hash |-> v2, timed |-> TRUE]
      OBVIOUS
    <3>4. /\ l \in [in : Nat, hash : SUBSET GraphDevices, timed : BOOLEAN]
          /\ l.hash = v2 /\ l.in = total
      BY <1>1, <3>3
    <3>5. v12' = l
      BY <3>1, <3>2, <3>3
    <3>6. Graph!SumFunctionOnSet(v1', v12'.hash) <= v12'.in + v3'
      <4>1. Graph!SumFunctionOnSet(v1', v12'.hash) = SumFunctionOnSet(v1, v2)
        BY <2>1, <3>4, <3>5, GraphSum
      <4> QED
        BY <2>1, <3>2, <3>4, <3>5, <4>1
    <3> QED
      BY <1>1, <2>1, <3>1, <3>4, <3>5, <3>6 DEF Graph!Counting
  <2>3. CASE Graph!RefreshFails
    <3>1. v12' = [v12 EXCEPT !.timed = FALSE]
      BY <2>3 DEF Graph!RefreshFails
    <3>2. PICK l : l = [v12 EXCEPT !.timed = FALSE]
      OBVIOUS
    <3>3. /\ l \in [in : Nat, hash : SUBSET GraphDevices, timed : BOOLEAN] /\ l.timed = FALSE
      BY <1>1, <3>2
    <3>4. v12' = l
      BY <3>1, <3>2
    <3> QED
      BY <1>1, <2>1, <3>3, <3>4 DEF Graph!Counting
  <2>4. CASE Graph!RefreshMemory
    <3>1. v12' = v12 /\ v5 = "memory"
      BY <2>4 DEF Graph!RefreshMemory
    <3>2. ~v12.timed
      BY <1>1, <3>1
    <3> QED
      BY <1>1, <1>5, <2>1, <3>1, <3>2
  <2> QED
    BY <1>7, <2>2, <2>3, <2>4 DEF GraphRefresh
<1>8. CASE GraphMachine
  <2>1. CASE Graph!Tick
    BY <1>1, <1>2, <1>5, <2>1 DEF Graph!Tick, Graph!counted
  <2>2. ASSUME NEW d \in GraphDevices, NEW n \in ByteSteps, Graph!Traffic(d, n)
        PROVE  Graph!Counting'
    <3>1. /\ v1[d] + n <= MaxCounter /\ v1' = [v1 EXCEPT ![d] = @ + n] /\ v3' = v3 + n
          /\ UNCHANGED <<v2, v4, v5, v12>>
      BY <2>2 DEF Graph!Traffic, Graph!counted
    <3>2. n \in Nat /\ v1[d] \in Nat /\ MaxCounter \in Nat
      BY <1>1, GraphAssumption
    <3>3. PICK f : f = [v1 EXCEPT ![d] = @ + n]
      OBVIOUS
    <3>4. /\ f \in [GraphDevices -> 0..MaxCounter] /\ f[d] = v1[d] + n
          /\ \A x \in GraphDevices \ {d} : f[x] = v1[x]
      BY <1>1, <3>1, <3>2, <3>3
    <3>5. PICK s, z \in Nat : s = SumFunctionOnSet(v1, hash) /\ z = SumFunctionOnSet(f, hash)
      BY <1>1, <1>3, <1>4, <3>4
    <3>6. z <= s + n
      <4>1. \A x \in hash : v1[x] \in Int /\ f[x] \in Int
        BY <1>1, <1>3, <1>4, <3>4
      <4>2. CASE d \in hash
        <5>1. \A x \in hash \ {d} : f[x] = v1[x]
          BY <1>3, <3>4
        <5>2. SumFunctionOnSet(f, hash) = SumFunctionOnSet(v1, hash) + (f[d] - v1[d])
          BY <1>3, <4>1, <4>2, <5>1, SumChange
        <5> QED
          BY <3>2, <3>4, <3>5, <5>2
      <4>3. CASE d \notin hash
        <5>1. \A x \in hash : v1[x] \in Int /\ v1[x] = f[x]
          BY <1>3, <3>4, <4>1, <4>3
        <5>2. SumFunctionOnSet(v1, hash) = SumFunctionOnSet(f, hash)
          BY <1>3, <5>1, SumSame
        <5> QED
          BY <3>2, <3>5, <5>2
      <4> QED
        BY <4>2, <4>3
    <3>7. v3' \in Nat /\ v4' \in Nat /\ v2' \subseteq GraphDevices /\ v1' = f
      BY <1>1, <3>1, <3>2, <3>3
    <3>8. v12.timed => z <= v12.in + v3'
      BY <1>1, <1>2, <1>3, <3>1, <3>2, <3>5, <3>6
    <3> QED
      BY <1>5, <3>1, <3>4, <3>5, <3>7, <3>8
  <2>3. ASSUME NEW d \in GraphDevices, Graph!Attach(d) PROVE Graph!Counting'
    <3>1. /\ v1' \in {v1, [v1 EXCEPT ![d] = 0]} /\ v2' = v2 \cup {d}
          /\ UNCHANGED <<v3, v4, v5, v12>>
      BY <2>3 DEF Graph!Attach, Graph!counted
    <3>2. PICK f : f \in {v1, [v1 EXCEPT ![d] = 0]} /\ v1' = f
      BY <3>1
    <3>3. /\ f \in [GraphDevices -> 0..MaxCounter]
          /\ \A x \in GraphDevices : f[x] \in Int /\ v1[x] \in Int /\ f[x] <= v1[x]
      BY <1>1, <3>2, GraphAssumption
    <3>4. SumFunctionOnSet(f, hash) <= SumFunctionOnSet(v1, hash)
      BY <1>3, <3>3, SumAtMost
    <3>5. PICK s, z \in Nat : s = SumFunctionOnSet(v1, hash) /\ z = SumFunctionOnSet(f, hash)
      BY <1>1, <1>3, <1>4, <3>3
    <3>6. v12.timed => z <= v12.in + v3'
      BY <1>1, <1>2, <1>3, <3>1, <3>4, <3>5
    <3> QED
      BY <1>1, <1>5, <3>1, <3>2, <3>3, <3>5, <3>6
  <2>4. ASSUME NEW d \in GraphDevices, Graph!Detach(d) PROVE Graph!Counting'
    BY <1>1, <1>2, <1>5, <2>4 DEF Graph!Detach, Graph!counted
  <2> QED
    BY <1>8, <2>1, <2>2, <2>3, <2>4 DEF GraphMachine
<1> QED
  BY <1>6, <1>7, <1>8

(* The rings, of points and of rates.                                      *)
LEMMA SlotKept ==
  ASSUME Graph!Ring
  PROVE  /\ v6 \in Nat \ {0} /\ v8 \in 0..(v6 - 1)
         /\ (v8 + 1) % v6 = IF v8 + 1 = v6 THEN 0 ELSE v8 + 1
         /\ \A i \in 1..v6 : Graph!Slot(i) \in 0..(v6 - 1)
<1>1. v6 \in Nat \ {0} /\ v8 \in 0..(v6 - 1)
  BY GraphAssumption DEF Graph!Ring
<1>2. \A n \in Nat \ {0} : \A x \in 0..(n - 1) : (x + 1) % n = IF x + 1 = n THEN 0 ELSE x + 1
  BY SMT
<1>3. \A i \in 1..v6 : Graph!Slot(i) \in 0..(v6 - 1)
  BY <1>1 DEF Graph!Slot
<1> QED
  BY <1>1, <1>2, <1>3

(* A rate is of what was counted.                                          *)
LEMMA RateInPeak ==
  ASSUME Graph!Counting, Graph!have_rate
  PROVE  /\ (Graph!Total - v12.in) \div v4 \in 0..Graph!Peak
         /\ ((Graph!Total - v12.in) \div v4) * v4 <= v3
<1>1. PICK total \in Nat : total = Graph!Total /\ total <= Graph!Peak
  BY GraphSum, GraphCardinality, SumBound, GraphAssumption
     DEF Graph!Counting, Graph!Total, Graph!Peak
<1>2. /\ v12.in \in Nat /\ v4 \in Nat \ {0} /\ v3 \in Nat
      /\ total >= v12.in /\ v12.hash = v2 /\ v12.timed
  BY <1>1 DEF Graph!Counting, Graph!have_rate
<1>3. total <= v12.in + v3
  BY <1>1, <1>2 DEF Graph!Counting, Graph!Total
<1>4. PICK x \in Nat : x = total - v12.in /\ x <= total /\ x <= v3
  BY <1>2, <1>3
<1>5. x \div v4 \in Nat /\ (x \div v4) * v4 <= x
  BY <1>2, DivNat
<1>6. \A a \in Nat, b \in Nat \ {0} : a \div b <= a
  BY SMT
<1>7. PICK q \in Nat : q = x \div v4 /\ q <= x
  BY <1>2, <1>5, <1>6
<1>8. q * v4 <= v3
  <2>1. q * v4 <= x /\ q * v4 \in Nat
    BY <1>2, <1>5, <1>7, SMT
  <2> QED
    BY <1>2, <1>4, <2>1
<1>9. q \in 0..Graph!Peak
  BY <1>1, <1>4, <1>7, PeakNat
<1> QED
  BY <1>1, <1>4, <1>7, <1>8, <1>9

LEMMA RingKept ==
  ASSUME Graph!Counting, Graph!Ring, GraphSettings \/ GraphRefresh \/ GraphMachine
  PROVE  Graph!Ring'
<1>1. /\ v6 \in GraphSizes /\ v6 \in Nat \ {0} /\ v8 \in 0..(v6 - 1)
      /\ v9 \in [1..v6 -> [rate : Int, age : Int]]
      /\ v10 \in [0..(v6 - 1) -> 0..Graph!Peak] /\ 0 \in 0..Graph!Peak
  BY SlotKept, PeakNat DEF Graph!Ring
<1>2. CASE GraphRefresh
  <2>1. v6' = v6 /\ v8' = (v8 + 1) % v6
    BY <1>2 DEF GraphRefresh, Graph!Refresh, Graph!RefreshRate, Graph!RefreshNoRate,
       Graph!RefreshFails, Graph!RefreshMemory
  <2>2. v8' \in 0..(v6 - 1)
    BY <1>1, <2>1, SlotKept
  <2>3. ASSUME NEW point \in [rate : Int, age : Int], Graph!Push(point)
        PROVE  v9' \in [1..v6 -> [rate : Int, age : Int]]
    <3>1. v9' = [i \in 1..v6 |-> IF i = 1 THEN point
                   ELSE [v9[i - 1] EXCEPT !.age = IF @ > Graph!Oldest THEN @ ELSE @ + 1]]
      BY <2>3 DEF Graph!Push
    <3>2. \A i \in 1..v6 : i # 1 => i - 1 \in 1..v6
      BY <1>1
    <3>3. \A p \in [rate : Int, age : Int] :
            [p EXCEPT !.age = IF @ > Graph!Oldest THEN @ ELSE @ + 1] \in [rate : Int, age : Int]
      OBVIOUS
    <3> QED
      BY <1>1, <2>3, <3>1, <3>2, <3>3
  <2>4. Graph!NoPoint \in [rate : Int, age : Int]
    BY DEF Graph!NoPoint
  <2>5. ASSUME NEW rate \in 0..Graph!Peak, Graph!store_rate_history(rate)
        PROVE  v10' \in [0..(v6 - 1) -> 0..Graph!Peak]
    BY <1>1, <2>5 DEF Graph!store_rate_history
  <2>6. CASE Graph!RefreshRate
    <3>1. PICK rate : /\ rate = (Graph!Total - v12.in) \div v4
                      /\ Graph!store_rate_history(rate) /\ Graph!Push([rate |-> rate, age |-> 0])
      BY <2>6 DEF Graph!RefreshRate
    <3>2. rate \in 0..Graph!Peak /\ rate \in Int
      BY <2>6, <3>1, RateInPeak, PeakNat DEF Graph!RefreshRate
    <3>3. v10' \in [0..(v6 - 1) -> 0..Graph!Peak]
      BY <2>5, <3>1, <3>2
    <3>4. v9' \in [1..v6 -> [rate : Int, age : Int]]
      BY <2>3, <3>1, <3>2
    <3> QED
      BY <1>1, <2>1, <2>2, <3>3, <3>4 DEF Graph!Ring
  <2>7. CASE Graph!RefreshNoRate \/ Graph!RefreshFails
    <3>1. Graph!store_rate_history(0) /\ Graph!Push(Graph!NoPoint)
      BY <2>7 DEF Graph!RefreshNoRate, Graph!RefreshFails
    <3>2. v10' \in [0..(v6 - 1) -> 0..Graph!Peak] /\ v9' \in [1..v6 -> [rate : Int, age : Int]]
      BY <1>1, <2>3, <2>4, <2>5, <3>1
    <3> QED
      BY <1>1, <2>1, <2>2, <3>2 DEF Graph!Ring
  <2>8. CASE Graph!RefreshMemory
    <3>1. PICK point : point = IF v7 = 0
            THEN [v9[v6] EXCEPT !.age = IF @ > Graph!Oldest THEN @ ELSE @ + 1]
            ELSE [rate |-> 0, age |-> 0]
      OBVIOUS
    <3>2. Graph!Push(point) /\ v10' = v10
      BY <2>8, <3>1 DEF Graph!RefreshMemory
    <3>3. point \in [rate : Int, age : Int]
      <4>1. v9[v6] \in [rate : Int, age : Int]
        BY <1>1
      <4> QED
        BY <3>1, <4>1
    <3>4. v9' \in [1..v6 -> [rate : Int, age : Int]]
      BY <2>3, <3>2, <3>3
    <3> QED
      BY <1>1, <2>1, <2>2, <3>2, <3>4 DEF Graph!Ring
  <2> QED
    BY <1>2, <2>6, <2>7, <2>8 DEF GraphRefresh
<1>3. CASE Graph!load_graph_change_num_points
  <2>1. /\ v6' \in GraphSizes /\ v8' = 0
        /\ v9' = [i \in 1..v6' |-> IF i <= v6 THEN v9[i] ELSE Graph!NoPoint]
        /\ v10' = [i \in 0..(v6' - 1) |-> IF i < v6 THEN v10[i] ELSE 0]
    BY <1>3 DEF Graph!load_graph_change_num_points
  <2>2. PICK n \in Nat \ {0} : n = v6'
    BY <2>1, GraphAssumption
  <2>3. v9' \in [1..n -> [rate : Int, age : Int]]
    <3>1. Graph!NoPoint \in [rate : Int, age : Int]
      BY DEF Graph!NoPoint
    <3>2. \A i \in 1..n : i <= v6 => i \in 1..v6
      BY <1>1
    <3> QED
      BY <1>1, <2>1, <2>2, <3>1, <3>2
  <2>4. v10' \in [0..(n - 1) -> 0..Graph!Peak]
    <3>1. \A i \in 0..(n - 1) : i < v6 => i \in 0..(v6 - 1)
      BY <1>1
    <3> QED
      BY <1>1, <2>1, <2>2, <3>1
  <2>5. v8' \in 0..(v6' - 1)
    <3>1. v8' = 0 /\ v6' = n
      BY <2>1, <2>2
    <3> QED
      BY <3>1
  <2>6. /\ v9' \in [1..v6' -> [rate : Int, age : Int]]
        /\ v10' \in [0..(v6' - 1) -> 0..Graph!Peak]
    BY <2>2, <2>3, <2>4
  <2> QED
    BY <2>1, <2>5, <2>6 DEF Graph!Ring
<1>4. CASE Graph!load_graph_reset
  <2>1. v9' = Graph!Points(v6) /\ UNCHANGED <<v6, v8, v10>>
    BY <1>4 DEF Graph!load_graph_reset
  <2>2. v9' \in [1..v6 -> [rate : Int, age : Int]]
    BY <2>1 DEF Graph!Points, Graph!NoPoint
  <2> QED
    BY <1>1, <2>1, <2>2 DEF Graph!Ring
<1>5. CASE GraphMachine
  <2>1. UNCHANGED <<v6, v8, v9, v10>>
    BY <1>5 DEF GraphMachine, Graph!Traffic, Graph!Attach, Graph!Detach, Graph!Tick, Graph!ring
  <2> QED
    BY <1>1, <2>1 DEF Graph!Ring
<1>6. CASE \/ Graph!load_graph_start \/ Graph!ChangeUnits \/ Graph!load_graph_draw
           \/ UNCHANGED Graph!graphVars
  <2>1. UNCHANGED <<v6, v8, v9, v10>>
    BY <1>6 DEF Graph!load_graph_start, Graph!ChangeUnits, Graph!load_graph_draw, Graph!graphVars,
       Graph!ring
  <2> QED
    BY <1>1, <2>1 DEF Graph!Ring
<1> QED
  BY <1>2, <1>3, <1>4, <1>5, <1>6 DEF GraphSettings

(* After a push each older point has the next slot, and the new one the    *)
(* slot just written.                                                      *)
LEMMA PushAndStore ==
  ASSUME Graph!Ring, Graph!Scaled, v5 = "disk", ~v17,
         v6' = v6, v8' = (v8 + 1) % v6,
         NEW rate \in 0..Graph!Peak, Graph!store_rate_history(rate),
         NEW point, point.rate \in Int, point.rate <= rate, Graph!Push(point)
  PROVE  /\ v10' \in [0..(v6 - 1) -> 0..Graph!Peak]
         /\ \A i \in 1..v6 : /\ Graph!Slot(i)' \in 0..(v6 - 1) /\ v9'[i].rate \in Int
                             /\ v9'[i].rate <= v10'[Graph!Slot(i)']
         /\ \A i \in 1..v6 : i # 1 => v9'[i].rate * ByteUnit <= v11
         /\ v9'[1] = point
<1>1. /\ v6 \in Nat \ {0} /\ v8 \in 0..(v6 - 1)
      /\ v9 \in [1..v6 -> [rate : Int, age : Int]] /\ v10 \in [0..(v6 - 1) -> 0..Graph!Peak]
  BY SlotKept DEF Graph!Ring
<1>2. PICK now \in 0..(v6 - 1) : now = v8' /\ now = IF v8 + 1 = v6 THEN 0 ELSE v8 + 1
  <2>1. v8' = IF v8 + 1 = v6 THEN 0 ELSE v8 + 1
    BY SlotKept
  <2>2. v8' \in 0..(v6 - 1)
    BY <1>1, <2>1
  <2> QED
    BY <2>1, <2>2
<1>3. PICK slot \in 0..(v6 - 1) : slot = IF now = 0 THEN v6 - 1 ELSE now - 1
  <2>1. (IF now = 0 THEN v6 - 1 ELSE now - 1) \in 0..(v6 - 1)
    BY <1>1
  <2> QED
    BY <2>1
<1>4. v10' = [v10 EXCEPT ![slot] = rate]
  BY <1>2, <1>3 DEF Graph!store_rate_history
<1>5. v9' = [i \in 1..v6 |-> IF i = 1 THEN point
               ELSE [v9[i - 1] EXCEPT !.age = IF @ > Graph!Oldest THEN @ ELSE @ + 1]]
  BY DEF Graph!Push
<1>6. v9'[1] = point
  BY <1>1, <1>5
<1>7. \A i \in 1..v6 : Graph!Slot(i)' = IF i <= now THEN now - i ELSE now - i + v6
  BY <1>2 DEF Graph!Slot
<1>8. Graph!Slot(1)' = slot
  BY <1>1, <1>3, <1>7
<1>9. v10'[slot] = rate
  BY <1>1, <1>4
<1>10. ASSUME NEW i \in 1..v6, i # 1
       PROVE  /\ Graph!Slot(i)' \in 0..(v6 - 1) /\ v9'[i].rate \in Int
              /\ v9'[i].rate <= v10'[Graph!Slot(i)'] /\ v9'[i].rate * ByteUnit <= v11
  <2>1. PICK j \in 1..v6 : j = i - 1
    BY <1>1, <1>10
  <2>2. PICK old \in [rate : Int, age : Int] : old = v9[j]
    BY <1>1
  <2>3. v9'[i].rate = old.rate
    <3>1. v9'[i] = [old EXCEPT !.age = IF @ > Graph!Oldest THEN @ ELSE @ + 1]
      BY <1>5, <1>10, <2>1, <2>2
    <3> QED
      BY <2>2, <3>1
  <2>4. PICK k \in 0..(v6 - 1) : k = Graph!Slot(j) /\ k = IF j <= v8 THEN v8 - j ELSE v8 - j + v6
    <3>1. Graph!Slot(j) \in 0..(v6 - 1)
      BY SlotKept
    <3>2. Graph!Slot(j) = IF j <= v8 THEN v8 - j ELSE v8 - j + v6
      BY DEF Graph!Slot
    <3> QED
      BY <3>1, <3>2
  <2>5. Graph!Slot(i)' = k /\ k # slot
    <3>1. Graph!Slot(i)' = IF i <= now THEN now - i ELSE now - i + v6
      BY <1>7
    <3>2. v6 \in Nat \ {0} /\ v8 \in 0..(v6 - 1)
      BY <1>1
    <3>3. k = IF j <= v8 THEN v8 - j ELSE v8 - j + v6
      BY <2>4
    <3>4. now = IF v8 + 1 = v6 THEN 0 ELSE v8 + 1
      BY <1>2
    <3>5. CASE v8 + 1 = v6
      <4>1. now = 0 /\ slot = v8 /\ k = v8 - j
        BY <1>3, <2>1, <3>2, <3>3, <3>4, <3>5
      <4> QED
        BY <2>1, <3>1, <3>2, <3>5, <4>1
    <3>6. CASE v8 + 1 # v6
      <4>1. now = v8 + 1 /\ slot = v8
        BY <1>3, <3>2, <3>4, <3>6
      <4> QED
        BY <2>1, <3>1, <3>2, <3>3, <3>6, <4>1
    <3> QED
      BY <3>5, <3>6
  <2>6. v10'[k] = v10[k]
    BY <1>1, <1>4, <2>5
  <2>7. old.rate <= v10[k] /\ old.rate * ByteUnit <= v11
    BY <2>2, <2>4 DEF Graph!Scaled
  <2> QED
    BY <2>2, <2>3, <2>5, <2>6, <2>7
<1>11. v10' \in [0..(v6 - 1) -> 0..Graph!Peak]
  BY <1>1, <1>4
<1>12. ASSUME NEW i \in 1..v6
       PROVE  /\ Graph!Slot(i)' \in 0..(v6 - 1) /\ v9'[i].rate \in Int
              /\ v9'[i].rate <= v10'[Graph!Slot(i)']
  BY <1>6, <1>8, <1>9, <1>10
<1> QED
  BY <1>6, <1>10, <1>11, <1>12

(* The scale is at or above what is in them.                               *)
LEMMA ScaledKept ==
  ASSUME Graph!Counting, Graph!Ring, Graph!Scaled, GraphSettings \/ GraphRefresh \/ GraphMachine
  PROVE  Graph!Scaled'
<1>1. CASE GraphMachine \/ Graph!load_graph_start \/ UNCHANGED Graph!graphVars
  <2>1. UNCHANGED <<v5, v6, v8, v9, v10, v11, v14, v17>>
    BY <1>1 DEF GraphMachine, Graph!Traffic, Graph!Attach, Graph!Detach, Graph!Tick, Graph!ring,
       Graph!counted, Graph!drawing, Graph!load_graph_start, Graph!graphVars
  <2> QED
    BY <2>1 DEF Graph!Scaled, Graph!Slot
<1>2. CASE Graph!load_graph_draw
  <2>1. UNCHANGED <<v5, v6, v8, v9, v10, v11, v14, v17>>
    BY <1>2 DEF Graph!load_graph_draw, Graph!ring, Graph!counted
  <2> QED
    BY <2>1 DEF Graph!Scaled, Graph!Slot
<1>3. CASE Graph!load_graph_reset \/ Graph!ChangeUnits \/ Graph!RefreshMemory
  <2>1. v5' # "disk"
    BY <1>3 DEF Graph!load_graph_reset, Graph!ChangeUnits, Graph!RefreshMemory
  <2> QED
    BY <2>1 DEF Graph!Scaled
<1>4. CASE Graph!load_graph_change_num_points
  <2>1. v17' /\ UNCHANGED <<v5, v11, v14>>
    BY <1>4 DEF Graph!load_graph_change_num_points, Graph!counted
  <2> QED
    BY <2>1 DEF Graph!Scaled
<1>5. CASE Graph!RefreshNoRate \/ Graph!RefreshFails
  <2>1. /\ UNCHANGED <<v5, v6, v11, v14, v17>> /\ v8' = (v8 + 1) % v6
        /\ Graph!store_rate_history(0) /\ Graph!Push(Graph!NoPoint)
    BY <1>5 DEF Graph!RefreshNoRate, Graph!RefreshFails, Graph!Refresh, Graph!drawing
  <2>2. SUFFICES ASSUME v5 = "disk", ~v17
                 PROVE  \A i \in 1..v6 : v9'[i].rate <= v10'[Graph!Slot(i)']
                                        /\ v9'[i].rate * ByteUnit <= v11
    BY <2>1 DEF Graph!Scaled
  <2>3. Graph!NoPoint.rate = -1 /\ 0 \in 0..Graph!Peak
    BY PeakNat DEF Graph!NoPoint
  <2>4. /\ \A i \in 1..v6 : v9'[i].rate <= v10'[Graph!Slot(i)']
        /\ \A i \in 1..v6 : i # 1 => v9'[i].rate * ByteUnit <= v11
        /\ v9'[1] = Graph!NoPoint
    BY <2>1, <2>2, <2>3, PushAndStore
  <2>5. ASSUME NEW r, r = -1 PROVE r * ByteUnit <= v11
    <3>1. PICK u \in Nat : u = ByteUnit
      BY GraphAssumption
    <3>2. -1 * u <= 0
      BY SMT
    <3>3. v11 \in Nat
      BY <2>2 DEF Graph!Scaled
    <3>4. -1 * u \in Int
      BY SMT
    <3> QED
      BY <2>5, <3>1, <3>2, <3>3, <3>4, SMT
  <2>6. ASSUME NEW i \in 1..v6
        PROVE  v9'[i].rate <= v10'[Graph!Slot(i)'] /\ v9'[i].rate * ByteUnit <= v11
    <3>1. v9'[i].rate <= v10'[Graph!Slot(i)']
      BY <2>4
    <3>2. CASE i = 1
      <4>1. v9'[i].rate = -1
        BY <2>3, <2>4, <3>2
      <4> QED
        BY <2>5, <3>1, <4>1
    <3>3. CASE i # 1
      BY <2>4, <3>1, <3>3
    <3> QED
      BY <3>2, <3>3
  <2> QED
    BY <2>6
<1>6. CASE Graph!RefreshRate
  <2>1. PICK rate : /\ rate = (Graph!Total - v12.in) \div v4
                    /\ Graph!store_rate_history(rate) /\ Graph!Push([rate |-> rate, age |-> 0])
    BY <1>6 DEF Graph!RefreshRate
  <2>2. /\ UNCHANGED <<v5, v6, v14, v17>> /\ v8' = (v8 + 1) % v6 /\ Graph!Rescaled
        /\ Graph!have_rate
    BY <1>6 DEF Graph!RefreshRate, Graph!Refresh
  <2>3. rate \in 0..Graph!Peak
    BY <2>1, <2>2, RateInPeak
  <2>4. PICK point : point = [rate |-> rate, age |-> 0]
    OBVIOUS
  <2>5. point.rate = rate /\ point.rate \in Int
    BY <2>3, <2>4, PeakNat
  <2> SUFFICES ASSUME v5 = "disk"
               PROVE  /\ v11' \in Nat
                      /\ v17 \/ \A i \in 1..v6 : v9'[i].rate <= v10'[Graph!Slot(i)']
                                                /\ v9'[i].rate * ByteUnit <= v11'
    BY <2>2 DEF Graph!Scaled
  <2>6. v14 = FALSE /\ v11 \in Nat /\ v6 \in Nat \ {0}
    BY SlotKept DEF Graph!Scaled
  <2>7. PICK vals \in [0..(v6 - 1) -> 0..Graph!Peak] : vals = v10'
    <3>1. v10' \in [0..(v6' - 1) -> 0..Graph!Peak]
      BY <1>6, RingKept DEF GraphRefresh, Graph!Ring
    <3> QED
      BY <2>2, <3>1
  <2>8. PICK H : H = {vals[i] * ByteUnit : i \in 0..(v6 - 1)}
    OBVIOUS
  <2>9. v11' = Graph!gsm_graph_scale_next(H, v11, FALSE, v13)
    <3>1. DOMAIN vals = 0..(v6 - 1)
      BY <2>7
    <3>2. v11' = Graph!gsm_graph_scale_next({vals[i] * ByteUnit : i \in DOMAIN vals}, v11, v14, v13)
      BY <2>2, <2>6, <2>7 DEF Graph!Rescaled
    <3> QED
      BY <2>6, <2>8, <3>1, <3>2
  <2>10. PICK u \in Nat : u = ByteUnit
    BY GraphAssumption
  <2>11. PICK top \in Nat : top = Graph!Peak * u /\ BelowTiB(2 * top)
    <3>1. PICK p \in Nat : p = Graph!Peak
      BY PeakNat
    <3>2. p * u \in Nat
      BY SMT
    <3>3. p = Cardinality(GraphDevices) * MaxCounter
      BY <3>1, GraphCardinality DEF Graph!Peak
    <3>4. BelowTiB(2 * (p * u))
      BY <2>10, <3>3, GraphAssumption DEF BelowTiB
    <3> QED
      BY <3>1, <3>2, <3>4
  <2>12. IsFiniteSet(H) /\ H \subseteq 0..top
    <3>1. PICK D : D = 0..(v6 - 1)
      OBVIOUS
    <3>2. IsFiniteSet(D)
      BY <2>6, <3>1, FS_Interval
    <3>3. PICK h : h = [i \in D |-> vals[i] * ByteUnit]
      OBVIOUS
    <3>4. H = {h[i] : i \in D}
      BY <2>8, <3>1, <3>3
    <3>5. IsFiniteSet(H)
      BY <3>2, <3>4, ImageFinite
    <3>6. ASSUME NEW i \in D PROVE vals[i] * ByteUnit \in 0..top
      <4>1. PICK p \in Nat : p = Graph!Peak
        BY PeakNat
      <4>2. PICK x \in 0..p : x = vals[i]
        BY <2>7, <3>1, <4>1
      <4>3. x * u \in Nat /\ x * u <= p * u
        BY TimesMonotone, SMT
      <4>4. p * u = top
        BY <2>11, <4>1
      <4> QED
        BY <2>10, <4>2, <4>3, <4>4
    <3> QED
      BY <2>8, <3>1, <3>5, <3>6
  <2>13. v11' \in Nat /\ \A x \in H : x <= v11'
    BY <2>6, <2>9, <2>11, <2>12, ScaleNextAbove
  <2>14. ASSUME ~v17, NEW i \in 1..v6
         PROVE  v9'[i].rate <= v10'[Graph!Slot(i)'] /\ v9'[i].rate * ByteUnit <= v11'
    <3>1. Graph!Push(point)
      BY <2>1, <2>4
    <3>2. /\ Graph!Slot(i)' \in 0..(v6 - 1) /\ v9'[i].rate \in Int
          /\ v9'[i].rate <= v10'[Graph!Slot(i)']
      <4>1. point.rate <= rate
        BY <2>3, <2>5, PeakNat
      <4> QED
        BY <2>1, <2>2, <2>3, <2>5, <2>14, <3>1, <4>1, PushAndStore
    <3>3. PICK k \in 0..(v6 - 1) : k = Graph!Slot(i)'
      BY <3>2
    <3>4. PICK x \in Nat : x = vals[k]
      BY <2>7, PeakNat
    <3>5. PICK r \in Int : r = v9'[i].rate /\ r <= x
      BY <2>7, <3>2, <3>3, <3>4
    <3>6. x * u <= v11' /\ x * u \in Nat
      <4>1. vals[k] * ByteUnit \in H
        BY <2>8
      <4>2. x * u \in Nat
        BY SMT
      <4> QED
        BY <2>10, <2>13, <3>4, <4>1, <4>2
    <3>7. r * u <= x * u /\ r * u \in Int
      BY <3>5, TimesMonotone, SMT
    <3>8. r * u <= v11'
      BY <2>13, <3>6, <3>7
    <3> QED
      BY <2>10, <3>2, <3>5, <3>8
  <2> QED
    BY <2>13, <2>14
<1> QED
  BY <1>1, <1>2, <1>3, <1>4, <1>5, <1>6 DEF GraphSettings, GraphRefresh

(* The background is made again whenever what it shows changes, and no     *)
(* rate is above what was moved.                                           *)
LEMMA BackgroundKept ==
  ASSUME Graph!BackgroundIsCurrent, GraphSettings \/ GraphRefresh \/ GraphMachine
  PROVE  Graph!BackgroundIsCurrent'
<1>1. CASE GraphMachine \/ Graph!load_graph_start \/ UNCHANGED Graph!graphVars
           \/ Graph!RefreshNoRate \/ Graph!RefreshFails \/ Graph!RefreshMemory
  <2>1. UNCHANGED <<v6, v11, v14, v15>>
    BY <1>1 DEF GraphMachine, Graph!Traffic, Graph!Attach, Graph!Detach, Graph!Tick, Graph!ring,
       Graph!counted, Graph!drawing, Graph!load_graph_start, Graph!graphVars, Graph!RefreshNoRate,
       Graph!RefreshFails, Graph!RefreshMemory
  <2> QED
    BY <2>1 DEF Graph!BackgroundIsCurrent
<1>2. CASE Graph!load_graph_reset \/ Graph!ChangeUnits \/ Graph!load_graph_change_num_points
  <2>1. v15' = None
    BY <1>2 DEF Graph!load_graph_reset, Graph!ChangeUnits, Graph!load_graph_change_num_points
  <2> QED
    BY <2>1 DEF Graph!BackgroundIsCurrent
<1>3. CASE Graph!RefreshRate
  <2>1. UNCHANGED <<v6, v14>> /\ Graph!Rescaled
    BY <1>3 DEF Graph!RefreshRate
  <2>2. v15' = IF v11' # v11 THEN None ELSE v15
    BY <2>1 DEF Graph!Rescaled
  <2> QED
    BY <2>1, <2>2 DEF Graph!BackgroundIsCurrent
<1>4. CASE Graph!load_graph_draw
  <2>1. /\ UNCHANGED <<v6, v11, v14>>
        /\ v15' = IF v15 = None THEN [max |-> v11, num_points |-> v6, in_bits |-> v14] ELSE v15
    BY <1>4 DEF Graph!load_graph_draw, Graph!ring, Graph!counted
  <2> QED
    BY <2>1 DEF Graph!BackgroundIsCurrent
<1> QED
  BY <1>1, <1>2, <1>3, <1>4 DEF GraphSettings, GraphRefresh

LEMMA RatesKept ==
  ASSUME Graph!Counting, Graph!RatesNotOverstated, GraphSettings \/ GraphRefresh \/ GraphMachine
  PROVE  Graph!RatesNotOverstated'
<1>1. CASE Graph!RefreshRate
  <2>1. PICK rate : /\ rate = (Graph!Total - v12.in) \div v4
                    /\ v16' = (v16 \/ rate * v4 > v3)
    BY <1>1 DEF Graph!RefreshRate
  <2>2. Graph!have_rate
    BY <1>1 DEF Graph!RefreshRate
  <2>3. rate \in Nat /\ rate * v4 <= v3 /\ v3 \in Nat /\ v4 \in Nat
    BY <2>1, <2>2, RateInPeak, PeakNat DEF Graph!Counting
  <2>4. PICK n \in Nat : n = rate * v4
    BY <2>3, SMT
  <2>5. ~(rate * v4 > v3)
    BY <2>3, <2>4
  <2> QED
    BY <2>1, <2>5 DEF Graph!RatesNotOverstated
<1>2. CASE ~Graph!RefreshRate
  <2>1. v16' = v16
    BY <1>2 DEF GraphSettings, GraphRefresh, GraphMachine, Graph!Traffic, Graph!Attach,
       Graph!Detach, Graph!Tick, Graph!counted, Graph!load_graph_start, Graph!load_graph_reset,
       Graph!ChangeUnits, Graph!load_graph_change_num_points, Graph!load_graph_draw,
       Graph!graphVars, Graph!RefreshNoRate, Graph!RefreshFails, Graph!RefreshMemory
  <2> QED
    BY <2>1 DEF Graph!RatesNotOverstated
<1> QED
  BY <1>1, <1>2

LEMMA GraphInvNext == GraphInv /\ [Next]_partsVars => GraphInv'
<1> SUFFICES ASSUME GraphInv, part = "graph", Graph!Next \/ UNCHANGED Graph!graphVars
             PROVE  /\ Graph!Counting' /\ Graph!Ring' /\ Graph!Scaled'
                    /\ Graph!RatesNotOverstated' /\ Graph!BackgroundIsCurrent'
  BY DEF Next, GraphInv, partsVars, from6, Graph!graphVars, Pure, Readings, Cards, Reader, ReadInput
<1>1. GraphSettings \/ GraphRefresh \/ GraphMachine
  BY DEF Graph!Next, GraphSettings, GraphRefresh, GraphMachine
<1> QED
  BY <1>1, CountingKept, RingKept, ScaledKept, BackgroundKept, RatesKept DEF GraphInv

-----------------------------------------------------------------------------
(***************************************************************************)
(* CpuLoad: ticks v1, stall v2, elapsed v3, stalled v4, iteration v5, last *)
(* v6, data v7, pressure v8, some v9, drawStacked v10, span v11, misjudged *)
(* v12, refreshes v13.                                                     *)
(***************************************************************************)
LoadInv == part = "load" =>
  /\ Load!Read /\ Load!Stalled
  /\ Load!SharesAreOfOneInterval /\ Load!PressureIsOfOneInterval

LoadCpus == 0..(CpuCount - 1)
Reading == [busy : Nat, idle : Nat]
Stamped == [busy : Nat, idle : Nat, refresh : Nat]

LEMMA LoadSum ==
  /\ \A f, S : Load!SumFunctionOnSet(f, S) = SumFunctionOnSet(f, S)
  /\ \A S : Load!Cardinality(S) = Cardinality(S)
  BY DEF Load!SumFunctionOnSet, Load!FoldFunctionOnSet, Load!MapThenFoldSet, Load!Cardinality,
         SumFunctionOnSet, FoldFunctionOnSet, MapThenFoldSet, Cardinality

LEMMA LoadCpusFinite == IsFiniteSet(LoadCpus) /\ Load!Cardinality(LoadCpus) = CpuCount
<1>1. PICK n \in Nat \ {0} : n = CpuCount
  BY LoadAssumption
<1>2. 0 \in Int /\ n - 1 \in Int
  BY <1>1
<1>3. IsFiniteSet(0..(n - 1)) /\ Cardinality(0..(n - 1)) = n
  BY <1>1, <1>2, FS_Interval
<1> QED
  BY <1>1, <1>3, LoadSum DEF LoadCpus

LEMMA LoadInvInit == Init => LoadInv
<1> SUFFICES ASSUME Load!Init
             PROVE  /\ Load!Read /\ Load!Stalled
                    /\ Load!SharesAreOfOneInterval /\ Load!PressureIsOfOneInterval
  BY DEF Init, LoadInv, Pure, Readings, Cards, Reader
<1>1. /\ v1 = [c \in LoadCpus |-> [busy |-> 0, idle |-> 0]]
      /\ v2 = 0 /\ v3 = 0 /\ v4 = 0 /\ v5 = 0 /\ v6 = [c \in LoadCpus |-> None]
      /\ v7 = [c \in LoadCpus |-> -1] /\ v8 = None /\ v11 = {} /\ v12 = FALSE /\ v13 = 0
  BY DEF Load!Init, LoadCpus
<1>2. Load!Read
  BY <1>1 DEF Load!Read, LoadCpus
<1>3. Load!Stalled
  BY <1>1 DEF Load!Stalled
<1>4. Load!SharesAreOfOneInterval
  <2>1. \A c \in LoadCpus : v7[c] = -1
    BY <1>1
  <2>2. \A c \in LoadCpus : c > 0 => c - 1 \in LoadCpus
    BY LoadAssumption DEF LoadCpus
  <2> QED
    BY <1>1, <2>1, <2>2 DEF Load!SharesAreOfOneInterval, LoadCpus
<1> QED
  BY <1>1, <1>2, <1>3, <1>4 DEF Load!PressureIsOfOneInterval

(* A share of a CPU is no more than all of it.                             *)
LEMMA PercentInRange ==
  ASSUME NEW before \in Stamped \cup {None}, NEW after \in Stamped \cup {None}
  PROVE  /\ Load!Percent(before, after) \in -1..100
         /\ Load!Percent(before, after) # -1 => before # None
<1>1. CASE before = None \/ after = None
  BY <1>1 DEF Load!Percent
<1>2. CASE before # None /\ after # None
  <2>1. before \in Stamped /\ after \in Stamped
    BY <1>2
  <2>2. PICK b0, i0, b1, i1 \in Nat :
          b0 = before.busy /\ i0 = before.idle /\ b1 = after.busy /\ i1 = after.idle
    BY <2>1 DEF Stamped
  <2>3. CASE b1 < b0 \/ i1 < i0
    BY <1>2, <2>2, <2>3 DEF Load!Percent
  <2>4. CASE ~(b1 < b0 \/ i1 < i0)
    <3>1. PICK busy, idle \in Nat : busy = b1 - b0 /\ idle = i1 - i0
      BY <2>4
    <3>2. Load!Percent(before, after) =
            IF busy + idle = 0 THEN -1 ELSE (100 * busy) \div (busy + idle)
      BY <1>2, <2>2, <2>4, <3>1 DEF Load!Percent
    <3>3. \A x \in Nat, y \in Nat \ {0} : x <= 100 * y => x \div y \in 0..100
      BY SMT
    <3>4. busy + idle # 0 => (100 * busy) \div (busy + idle) \in 0..100
      BY <3>1, <3>3
    <3> QED
      BY <1>2, <3>2, <3>4
  <2> QED
    BY <2>3, <2>4
<1> QED
  BY <1>1, <1>2

(* The shares of the CPUs up to each, stacked.                             *)
LEMMA StackInRange ==
  ASSUME NEW percent \in [LoadCpus -> -1..100], NEW have \in SUBSET LoadCpus,
         have = {c \in LoadCpus : percent[c] # -1}, NEW stack,
         stack = [c \in LoadCpus |-> Load!SumFunctionOnSet(percent, have \cap 0..c)
                                       \div Load!Cardinality(LoadCpus)]
  PROVE  /\ \A c \in LoadCpus : stack[c] \in 0..100
         /\ \A c \in LoadCpus : c > 0 => stack[c] >= stack[c - 1]
<1>1. PICK n \in Nat \ {0} : n = CpuCount /\ n = Cardinality(LoadCpus)
  BY LoadAssumption, LoadCpusFinite, LoadSum
<1>2. PICK share : share = [c \in LoadCpus |-> IF c \in have THEN percent[c] ELSE 0]
  OBVIOUS
<1>3. share \in [LoadCpus -> 0..100] /\ \A c \in LoadCpus : share[c] \in Nat
  BY <1>2
<1> DEFINE sum(c) == SumFunctionOnSet(share, have \cap 0..c)
<1>4. ASSUME NEW c \in LoadCpus
      PROVE  /\ Load!SumFunctionOnSet(percent, have \cap 0..c) = sum(c)
             /\ sum(c) \in Nat /\ sum(c) <= n * 100
  <2>1. PICK S \in SUBSET LoadCpus : S = have \cap 0..c
    OBVIOUS
  <2>2. IsFiniteSet(S) /\ \A x \in S : percent[x] \in Int /\ percent[x] = share[x]
    BY <1>2, <2>1, LoadCpusFinite, FS_Subset
  <2>3. SumFunctionOnSet(percent, S) = SumFunctionOnSet(share, S)
    BY <2>2, SumSame
  <2>4. SumFunctionOnSet(share, S) \in Nat /\ SumFunctionOnSet(share, S) <= n * 100
    BY <1>1, <1>3, LoadCpusFinite, SumBound, 100 \in Nat
  <2> QED
    BY <2>1, <2>3, <2>4, LoadSum
<1>5. ASSUME NEW c \in LoadCpus PROVE stack[c] = sum(c) \div n /\ stack[c] \in 0..100
  <2>1. stack[c] = sum(c) \div n
    BY <1>1, <1>4, LoadCpusFinite
  <2>2. \A x \in Nat, y \in Nat \ {0} : x <= y * 100 => x \div y \in 0..100
    BY SMT
  <2> HIDE DEF sum
  <2> QED
    BY <1>1, <1>4, <2>1, <2>2
<1>6. ASSUME NEW c \in LoadCpus, c > 0 PROVE stack[c] >= stack[c - 1]
  <2>1. PICK d \in LoadCpus : d = c - 1
    BY <1>1, <1>6 DEF LoadCpus
  <2>2. PICK S, T \in SUBSET LoadCpus : S = have \cap 0..d /\ T = have \cap 0..c
    OBVIOUS
  <2>3. S \subseteq T
    BY <2>1, <2>2 DEF LoadCpus
  <2>4. IsFiniteSet(T) /\ \A x \in T : share[x] \in Nat
    BY <1>3, LoadCpusFinite, FS_Subset
  <2>5. SumFunctionOnSet(share, S) <= SumFunctionOnSet(share, T)
    BY <2>3, <2>4, SumPart
  <2>6. sum(d) <= sum(c)
    BY <2>2, <2>5
  <2>7. \A x, y \in Nat, z \in Nat \ {0} : x <= y => x \div z <= y \div z
    BY SMT
  <2> HIDE DEF sum
  <2>8. stack[c] = sum(c) \div n /\ stack[d] = sum(d) \div n
    BY <1>5
  <2>9. sum(d) \div n <= sum(c) \div n
    BY <1>1, <1>4, <2>6, <2>7
  <2>10. stack[c] \in 0..100 /\ stack[d] \in 0..100
    BY <1>5
  <2> QED
    BY <2>1, <2>8, <2>9, <2>10
<1> QED
  BY <1>5, <1>6

(* What is kept for the next refresh.                                      *)
LEMMA ReadKept ==
  ASSUME Load!Read, Load!Next \/ UNCHANGED Load!loadVars
  PROVE  Load!Read'
<1>1. /\ v1 \in [LoadCpus -> Reading \cup {None}]
      /\ v6 \in [LoadCpus -> Stamped \cup {None}] /\ v13 \in Nat
      /\ v5 # 0 => \A c \in LoadCpus : v6[c] # None => v6[c].refresh = v13 - 1
  BY DEF Load!Read, LoadCpus, Reading, Stamped
<1>2. ASSUME v1' \in [LoadCpus -> Reading \cup {None}], UNCHANGED <<v5, v6, v13>>
      PROVE  Load!Read'
  BY <1>1, <1>2 DEF Load!Read, LoadCpus, Reading, Stamped
<1>3. CASE Load!load_graph_update_data
  <2>1. /\ v13' = v13 + 1 /\ v1' = v1
        /\ \E readable \in BOOLEAN : Load!Refresh(readable)
    BY <1>3 DEF Load!load_graph_update_data
  <2>2. PICK readable \in BOOLEAN : Load!Refresh(readable)
    BY <2>1
  <2>3. v6' = [c \in LoadCpus |->
                 IF readable /\ v1[c] # None
                 THEN [busy |-> v1[c].busy, idle |-> v1[c].idle, refresh |-> v13] ELSE None]
    BY <2>2 DEF Load!Refresh, Load!Kept, LoadCpus
  <2>4. \A c \in LoadCpus : v1[c] # None => v1[c] \in Reading
    BY <1>1
  <2>5. v6' \in [LoadCpus -> Stamped \cup {None}]
    BY <1>1, <2>3, <2>4 DEF Reading, Stamped
  <2>6. \A c \in LoadCpus : v6'[c] # None => v6'[c].refresh = v13
    BY <2>3
  <2>7. v13' \in Nat /\ v13 = v13' - 1
    BY <1>1, <2>1
  <2> QED
    BY <1>1, <2>1, <2>5, <2>6, <2>7 DEF Load!Read, LoadCpus, Reading, Stamped
<1>4. ASSUME NEW c \in LoadCpus, NEW what \in {"busy", "idle"}, Load!Run(c, what)
      PROVE  Load!Read'
  <2>1. v1[c] # None /\ v1' = [v1 EXCEPT ![c][what] = @ + 1] /\ UNCHANGED <<v5, v6, v13>>
    BY <1>4 DEF Load!Run, Load!figures
  <2>2. PICK r \in Reading : r = v1[c]
    BY <1>1, <2>1
  <2>3. [r EXCEPT ![what] = @ + 1] \in Reading
    BY DEF Reading
  <2>4. v1' = [v1 EXCEPT ![c] = [r EXCEPT ![what] = @ + 1]]
    BY <2>1, <2>2
  <2>5. v1' \in [LoadCpus -> Reading \cup {None}]
    BY <1>1, <2>3, <2>4
  <2> QED
    BY <1>2, <2>1, <2>5
<1>5. ASSUME NEW c \in LoadCpus, Load!Offline(c) \/ Load!Online(c) PROVE Load!Read'
  <2>1. /\ v1' = [v1 EXCEPT ![c] = None]
           \/ \E busy, idle \in 0..1 : v1' = [v1 EXCEPT ![c] = [busy |-> busy, idle |-> idle]]
        /\ UNCHANGED <<v5, v6, v13>>
    BY <1>5 DEF Load!Offline, Load!Online, Load!figures
  <2>2. v1' \in [LoadCpus -> Reading \cup {None}]
    BY <1>1, <2>1 DEF Reading
  <2> QED
    BY <1>2, <2>1, <2>2
<1>6. CASE Load!Restart \/ Load!SwitchStacked
  <2>1. v5' = 0 /\ UNCHANGED <<v1, v6, v13>>
    BY <1>6 DEF Load!Restart, Load!SwitchStacked, Load!kernel, Load!figures
  <2> QED
    BY <1>1, <2>1 DEF Load!Read, LoadCpus, Reading, Stamped
<1>7. CASE Load!Elapse \/ UNCHANGED Load!loadVars
  <2>1. UNCHANGED <<v1, v5, v6, v13>>
    BY <1>7 DEF Load!Elapse, Load!loadVars, Load!figures
  <2> QED
    BY <1>1, <1>2, <2>1
<1> QED
  BY <1>3, <1>4, <1>5, <1>6, <1>7 DEF Load!Next, LoadCpus

LEMMA StalledKept ==
  ASSUME Load!Read, Load!Stalled, Load!PressureIsOfOneInterval,
         Load!Next \/ UNCHANGED Load!loadVars
  PROVE  Load!Stalled' /\ Load!PressureIsOfOneInterval'
<1>1. /\ v2 \in Nat /\ v3 \in 0..2 /\ v4 \in 0..v3
      /\ v8 \in [total : Nat, refresh : Nat] \cup {None}
      /\ v8 # None => v2 = v8.total + v4
  BY DEF Load!Stalled
<1>2. CASE Load!load_graph_update_data
  <2>1. /\ v3' = 0 /\ v4' = 0 /\ v2' = v2
        /\ v12' = (v12 \/ (v9' # -1 /\ v9' * v3 # 100 * v4))
        /\ \E psi \in BOOLEAN : Load!Pressure(psi)
    BY <1>2 DEF Load!load_graph_update_data
  <2>2. PICK psi \in BOOLEAN : Load!Pressure(psi)
    BY <2>1
  <2>3. /\ v9' = IF psi THEN Load!Share(v8, v2) ELSE -1
        /\ v8' = IF psi THEN [total |-> v2, refresh |-> v13] ELSE None
    BY <2>2 DEF Load!Pressure
  <2>4. v13 \in Nat
    BY DEF Load!Read
  <2>5. PICK p : p = [total |-> v2, refresh |-> v13]
    OBVIOUS
  <2>6. p \in [total : Nat, refresh : Nat] /\ p.total = v2
    BY <1>1, <2>4, <2>5
  <2>7. v8' = p \/ v8' = None
    BY <2>3, <2>5
  <2>8. Load!Stalled'
    BY <1>1, <2>1, <2>6, <2>7 DEF Load!Stalled
  <2>9. Load!Share(v8, v2) = -1 \/ Load!Share(v8, v2) * v3 = 100 * v4
    <3>1. CASE v8 = None \/ v3 = 0
      BY <3>1 DEF Load!Share
    <3>2. CASE v8 # None /\ v3 # 0
      <4>1. PICK t \in Nat : t = v8.total /\ v2 = t + v4
        BY <1>1, <3>2
      <4>2. ~(v2 < t) /\ v2 - t = v4
        BY <1>1, <4>1
      <4>3. Load!Share(v8, v2) = IF (100 * v4) \div v3 > 100 THEN 100 ELSE (100 * v4) \div v3
        BY <3>2, <4>1, <4>2 DEF Load!Share
      <4>4. v3 \in {1, 2} /\ v4 \in {0, 1, 2} /\ v4 <= v3
        BY <1>1, <3>2
      <4>5. (100 * v4) \div v3 <= 100 /\ ((100 * v4) \div v3) * v3 = 100 * v4
        BY <4>4, SMT
      <4>6. (100 * v4) \div v3 \in Int
        BY <4>4, SMT
      <4> QED
        BY <4>3, <4>5, <4>6
    <3> QED
      BY <3>1, <3>2
  <2>10. v9' = -1 \/ v9' * v3 = 100 * v4
    BY <2>3, <2>9
  <2>11. ~v12'
    BY <2>1, <2>10 DEF Load!PressureIsOfOneInterval
  <2> QED
    BY <2>8, <2>11 DEF Load!PressureIsOfOneInterval
<1>3. CASE Load!Elapse
  <2>1. /\ v3 < 2 /\ v3' = v3 + 1 /\ UNCHANGED <<v8, v12>>
        /\ \E s \in 0..1 : v2' = v2 + s /\ v4' = v4 + s
    BY <1>3 DEF Load!Elapse, Load!figures
  <2> QED
    BY <1>1, <2>1 DEF Load!Stalled, Load!PressureIsOfOneInterval
<1>4. CASE \/ \E c \in LoadCpus : (\E what \in {"busy", "idle"} : Load!Run(c, what))
                                 \/ Load!Offline(c) \/ Load!Online(c)
           \/ Load!Restart \/ Load!SwitchStacked \/ UNCHANGED Load!loadVars
  <2>1. UNCHANGED <<v2, v3, v4, v8, v12>>
    BY <1>4 DEF Load!Run, Load!Offline, Load!Online, Load!Restart, Load!SwitchStacked,
       Load!loadVars, Load!kernel, Load!figures
  <2> QED
    BY <1>1, <2>1 DEF Load!Stalled, Load!PressureIsOfOneInterval
<1> QED
  BY <1>2, <1>3, <1>4 DEF Load!Next, LoadCpus

(* The shares made of it.                                                  *)
LEMMA SharesKept ==
  ASSUME Load!Read, Load!SharesAreOfOneInterval, Load!Next \/ UNCHANGED Load!loadVars
  PROVE  Load!SharesAreOfOneInterval'
<1>1. \A c \in LoadCpus : c > 0 => c - 1 \in LoadCpus
  BY LoadAssumption DEF LoadCpus
<1>2. CASE Load!load_graph_update_data
  <2>1. UNCHANGED <<v1, v10>> /\ \E readable \in BOOLEAN : Load!Refresh(readable)
    BY <1>2 DEF Load!load_graph_update_data
  <2>2. PICK readable \in BOOLEAN : Load!Refresh(readable)
    BY <2>1
  <2>3. PICK before : before = IF v5 = 0 THEN [c \in LoadCpus |-> None] ELSE v6
    OBVIOUS
  <2>4. PICK now : now = [c \in LoadCpus |->
                 IF readable /\ v1[c] # None
                 THEN [busy |-> v1[c].busy, idle |-> v1[c].idle, refresh |-> v13] ELSE None]
    OBVIOUS
  <2>5. PICK percent : percent = [c \in LoadCpus |-> Load!Percent(before[c], now[c])]
    OBVIOUS
  <2>6. PICK have \in SUBSET LoadCpus : have = {c \in LoadCpus : percent[c] # -1}
    OBVIOUS
  <2>7. PICK stack : stack = [c \in LoadCpus |-> Load!SumFunctionOnSet(percent, have \cap 0..c)
                                       \div Load!Cardinality(LoadCpus)]
    OBVIOUS
  <2>8. /\ v7' = IF ~v10 THEN percent
                 ELSE IF have = {} THEN [c \in LoadCpus |-> -1] ELSE stack
        /\ v11' = {v13 - before[c].refresh : c \in have}
    BY <2>2, <2>3, <2>4, <2>5, <2>6, <2>7 DEF Load!Refresh, LoadCpus
  <2>9. /\ v1 \in [LoadCpus -> Reading \cup {None}]
        /\ v6 \in [LoadCpus -> Stamped \cup {None}] /\ v13 \in Nat
        /\ v5 # 0 => \A c \in LoadCpus : v6[c] # None => v6[c].refresh = v13 - 1
    BY DEF Load!Read, LoadCpus, Reading, Stamped
  <2>10. ASSUME NEW c \in LoadCpus
         PROVE  before[c] \in Stamped \cup {None} /\ now[c] \in Stamped \cup {None}
    <3>1. before[c] \in Stamped \cup {None}
      BY <2>3, <2>9
    <3>2. v1[c] # None => v1[c] \in Reading
      BY <2>9
    <3>3. now[c] \in Stamped \cup {None}
      BY <2>4, <2>9, <3>2 DEF Reading, Stamped
    <3> QED
      BY <3>1, <3>3
  <2>11. percent \in [LoadCpus -> -1..100]
    BY <2>5, <2>10, PercentInRange
  <2>12. v11' \subseteq {1}
    <3> SUFFICES ASSUME NEW c \in have PROVE v13 - before[c].refresh = 1
      BY <2>8
    <3>1. before[c] # None
      BY <2>5, <2>6, <2>10, PercentInRange
    <3>2. before[c].refresh = v13 - 1
      BY <2>3, <2>6, <2>9, <3>1
    <3> QED
      BY <2>9, <3>2
  <2>13. CASE ~v10
    BY <2>1, <2>8, <2>11, <2>12, <2>13 DEF Load!SharesAreOfOneInterval, LoadCpus
  <2>14. CASE v10 /\ have = {}
    <3>1. v7' = [c \in LoadCpus |-> -1]
      BY <2>8, <2>14
    <3>2. \A c \in LoadCpus : v7'[c] \in -1..100 /\ (c > 0 => v7'[c] >= v7'[c - 1])
      BY <1>1, <3>1
    <3> QED
      BY <2>12, <3>2 DEF Load!SharesAreOfOneInterval, LoadCpus
  <2>15. CASE v10 /\ have # {}
    <3>1. v7' = stack
      BY <2>8, <2>15
    <3>2. /\ \A c \in LoadCpus : stack[c] \in 0..100
          /\ \A c \in LoadCpus : c > 0 => stack[c] >= stack[c - 1]
      BY <2>6, <2>7, <2>11, StackInRange
    <3>3. \A c \in LoadCpus : v7'[c] \in -1..100 /\ (c > 0 => v7'[c] >= v7'[c - 1])
      BY <3>1, <3>2
    <3> QED
      BY <2>12, <3>3 DEF Load!SharesAreOfOneInterval, LoadCpus
  <2> QED
    BY <2>13, <2>14, <2>15
<1>3. CASE Load!SwitchStacked
  <2>1. v7' = [c \in LoadCpus |-> -1] /\ v11' = v11
    BY <1>3 DEF Load!SwitchStacked, LoadCpus
  <2>2. \A c \in LoadCpus : v7'[c] \in -1..100 /\ (c > 0 => v7'[c] >= v7'[c - 1])
    BY <1>1, <2>1
  <2>3. v11' \subseteq {1}
    BY <2>1 DEF Load!SharesAreOfOneInterval
  <2> QED
    BY <2>2, <2>3 DEF Load!SharesAreOfOneInterval, LoadCpus
<1>4. CASE \/ \E c \in LoadCpus : (\E what \in {"busy", "idle"} : Load!Run(c, what))
                                 \/ Load!Offline(c) \/ Load!Online(c)
           \/ Load!Elapse \/ Load!Restart \/ UNCHANGED Load!loadVars
  <2>1. UNCHANGED <<v7, v10, v11>>
    BY <1>4 DEF Load!Run, Load!Offline, Load!Online, Load!Elapse, Load!Restart, Load!loadVars,
       Load!kernel, Load!figures
  <2> QED
    BY <2>1 DEF Load!SharesAreOfOneInterval
<1> QED
  BY <1>2, <1>3, <1>4 DEF Load!Next, LoadCpus

LEMMA LoadInvNext == LoadInv /\ [Next]_partsVars => LoadInv'
<1> SUFFICES ASSUME LoadInv, part = "load", Load!Next \/ UNCHANGED Load!loadVars
             PROVE  /\ Load!Read' /\ Load!Stalled'
                    /\ Load!SharesAreOfOneInterval' /\ Load!PressureIsOfOneInterval'
  BY DEF Next, LoadInv, partsVars, from6, Load!loadVars, Pure, Readings, Cards, Reader, ReadInput
<1> QED
  BY ReadKept, StalledKept, SharesKept DEF LoadInv

(* LoadGraph, CpuLoad: whatever devices and CPUs come and go, whatever is  *)
(* not read and however the view changes, no rate is above what was moved, *)
(* the axis is that of the scale, the scale is above the points until      *)
(* their number changes, and a share is of one interval.                   *)
THEOREM GraphsOverstateNothing == Spec => []GraphSound
<1>1. Init => GraphInv /\ LoadInv
  BY GraphInvInit, LoadInvInit
<1>2. GraphInv /\ LoadInv /\ [Next]_partsVars => GraphInv' /\ LoadInv'
  BY GraphInvNext, LoadInvNext
<1>3. GraphInv /\ LoadInv => GraphSound
  BY DEF GraphInv, LoadInv, GraphSound, Graph!PointsWithinScaleAtFirst, Graph!PointsWithinScale,
         Graph!Scaled
<1> QED
  BY <1>1, <1>2, <1>3, PTL DEF Spec, partsVars

-----------------------------------------------------------------------------
(***************************************************************************)
(* HealthPage: at v1, wear v2, file v3, epoch v4, setting v5, sampler v6,  *)
(* jobs v7, open v8, range v9, tracking_enabled v10, refreshing v11,       *)
(* worker v12, card v13, failed v14, moved v15, wanted v16, raced v17,     *)
(* changes v18.                                                            *)
(***************************************************************************)
PageInv == part = "page" => Page!Current

(* update_headline, update_source_note and the others agree on whether     *)
(* there are figures to show, for any card.                                *)
LEMMA FiguresAreSourced == \A card : Page!FiguresHaveTheirSource(card)
<1> SUFFICES ASSUME NEW card PROVE Page!FiguresHaveTheirSource(card)
  OBVIOUS
<1> DEFINE headline == Page!update_headline(card)
           note == Page!update_source_note(card)
           endurance == Page!update_endurance(card)
           banner == Page!update_banner(card)
<1>1. CASE ~Page!card_has_figures(card)
  <2>1. note = {} /\ endurance = {} /\ banner = Page!NoLabel
    BY <1>1 DEF Page!update_source_note, Page!update_endurance, Page!update_banner
  <2>2. headline.says = "no figures"
    BY <1>1, Zenon DEF Page!update_headline
  <2>3. /\ Page!Labels(card).note = note /\ Page!Labels(card).endurance = endurance
        /\ Page!Labels(card).banner = banner /\ Page!Labels(card).headline = headline
    BY DEF Page!Labels
  <2> QED
    BY <2>1, <2>2, <2>3, Zenon DEF Page!FiguresHaveTheirSource
<1>2. CASE Page!card_has_figures(card)
  <2>1. note # {}
    BY <1>2, Zenon DEF Page!update_source_note
  <2>2. endurance # {}
    BY <1>2, Zenon DEF Page!update_endurance
  <2>3. headline.says # "no figures"
    BY <1>2, Zenon DEF Page!update_headline
  <2>4. /\ Page!Labels(card).note = note /\ Page!Labels(card).endurance = endurance
        /\ Page!Labels(card).banner = banner /\ Page!Labels(card).headline = headline
    BY DEF Page!Labels
  <2> QED
    BY <2>1, <2>2, <2>3, <2>4, Zenon DEF Page!FiguresHaveTheirSource
<1> QED
  BY <1>1, <1>2

LEMMA PageIsSound == Page!Current => Page!Sound
<1> SUFFICES ASSUME Page!Current PROVE Page!FiguresAreTheDrives
  BY DEF Page!Sound, Page!Current
<1> SUFFICES ASSUME v8, v13 # Nothing, Page!card_has_figures(v13)
             PROVE  /\ v13.figures.written <= v2
                    /\ v13.usb.applies => v13.figures.source = "helper"
                    /\ (v13.figures.source = "helper" /\ ~v13.usb.applies) => v15
                    /\ v13.usb.applies => v13.usb.file_state = "ok" /\ v13.usb.status \in {"ok", "asleep"}
                    /\ Page!FiguresHaveTheirSource(v13)
  BY DEF Page!FiguresAreTheDrives
<1>1. Page!CardSound /\ v2 \in Nat
  BY DEF Page!Current
<1>2. v13.figures.written \in 0..v2
  BY <1>1 DEF Page!CardSound
<1>3. v13.usb.applies => v13.usb.have_figures
  BY DEF Page!card_has_figures
<1>4. v13.figures.written <= v2
  BY <1>1, <1>2
<1> QED
  BY <1>1, <1>3, <1>4, FiguresAreSourced DEF Page!CardSound

LEMMA PageInvInit == Init => PageInv
<1> SUFFICES ASSUME Page!Init PROVE Page!Current
  BY DEF Init, PageInv, Pure, Readings, Cards, Reader
<1>1. v1 \in {"out", "sata", "usb"} /\ v2 = 0 /\ v3 = [state |-> "missing", age |-> 0, entry |-> Page!NoEntry]
  BY DEF Page!Init
<1>2. Page!Written(v3.entry.figure)
  BY <1>1 DEF Page!Written, Page!NoEntry
<1>3. /\ v3.entry = [status |-> v3.entry.status, figure |-> v3.entry.figure]
      /\ v3 = [state |-> v3.state, age |-> v3.age, entry |-> v3.entry]
  BY <1>1 DEF Page!NoEntry
<1>4. Page!JobsSound
  <2>1. v7 = <<>> /\ v7 \in Seq(BOOLEAN) /\ Len(v7) = 0
    BY EmptySeq DEF Page!Init
  <2> QED
    BY <2>1 DEF Page!JobsSound
<1> QED
  BY <1>1, <1>2, <1>3, <1>4
     DEF Page!Init, Page!Current, Page!WorkerSound, Page!CardSound, Page!PageIsCurrent, Page!SamplerAsAsked

(* What was written stays at most what is, as the drive is written to.     *)
LEMMA WrittenStays ==
  ASSUME Page!Current, v2' \in Nat, v2' >= v2
  PROVE  /\ \A figure : Page!Written(figure) => Page!Written(figure)'
         /\ Page!Infos \subseteq Page!Infos'
         /\ v12' = v12 => Page!WorkerSound'
         /\ v13' = v13 /\ v15' = v15 /\ v8 => Page!CardSound'
<1>1. 0..v2 \subseteq 0..v2'
  BY DEF Page!Current
<1>2. \A figure : Page!Written(figure) => Page!Written(figure)'
  BY <1>1 DEF Page!Written
<1>3. Page!Infos \subseteq Page!Infos'
  <2>1. Page!Infos' = {Page!NewInfo} \cup {[Page!NewInfo EXCEPT !.source = "udisks", !.written = w] : w \in 0..v2'}
    BY DEF Page!Infos
  <2> QED
    BY <1>1, <2>1 DEF Page!Infos
<1>4. ASSUME v12' = v12 PROVE Page!WorkerSound'
  BY <1>2, <1>3, <1>4 DEF Page!Current, Page!WorkerSound
<1>5. ASSUME v13' = v13, v15' = v15, v8 PROVE Page!CardSound'
  BY <1>1, <1>5 DEF Page!Current, Page!CardSound
<1> QED
  BY <1>2, <1>3, <1>4, <1>5

(* The drive, its file and the reader: the page does not see them change.  *)
LEMMA WorldKeeps ==
  ASSUME Page!Current,
         \/ \E to \in {"out", "sata", "usb"} : Page!Move(to)
         \/ Page!Write \/ Page!RunReader \/ Page!AgeFile
         \/ \E state \in Page!States : Page!SpoilFile(state)
  PROVE  Page!Current'
<1>1. /\ v4' = v4 /\ <<v5, v6, v7, v16, v17>>' = <<v5, v6, v7, v16, v17>>
      /\ v8' = v8 /\ v9' = v9 /\ v10' = v10 /\ v11' = v11 /\ v12' = v12 /\ v13' = v13 /\ v14' = v14
      /\ v15' = v15
  BY DEF Page!Move, Page!Write, Page!RunReader, Page!AgeFile, Page!SpoilFile, Page!samplerVars,
         Page!pageVars, Page!refreshVars
<1>2. v2 \in Nat /\ v2' \in Nat /\ v2' >= v2 /\ v1' \in {"out", "sata", "usb"}
  BY DEF Page!Current, Page!Move, Page!Write, Page!RunReader, Page!AgeFile, Page!SpoilFile
<1>3. /\ v3' = [state |-> v3'.state, age |-> v3'.age, entry |-> v3'.entry]
      /\ v3'.entry = [status |-> v3'.entry.status, figure |-> v3'.entry.figure]
      /\ v3'.entry.figure = v3.entry.figure \/ v3'.entry.figure \in {v2, Nothing}
  <2>1. CASE v3' = v3
    BY <2>1 DEF Page!Current
  <2>2. CASE Page!RunReader
    <3>1. PICK entry \in {Page!NoEntry} \cup Page!Entries :
                 v3' = [state |-> "whole", age |-> 0, entry |-> entry]
      BY <2>2 DEF Page!RunReader
    <3>2. /\ entry = [status |-> entry.status, figure |-> entry.figure]
          /\ entry.figure = v3.entry.figure \/ entry.figure \in {v2, Nothing}
      BY DEF Page!Entries, Page!NoEntry
    <3> QED
      BY <3>1, <3>2
  <2>3. CASE \E state \in Page!States : Page!SpoilFile(state)
    <3>1. PICK state : v3' = [state |-> state, age |-> 0, entry |-> Page!NoEntry]
      BY <2>3 DEF Page!SpoilFile
    <3> QED
      BY <3>1 DEF Page!NoEntry
  <2>4. CASE Page!AgeFile
    <3>1. v3' = [v3 EXCEPT !.age = @ + 1]
      BY <2>4 DEF Page!AgeFile
    <3>2. v3'.entry = v3.entry /\ v3' = [state |-> v3'.state, age |-> v3'.age, entry |-> v3'.entry]
      BY <3>1 DEF Page!Current
    <3> QED
      BY <3>2 DEF Page!Current
  <2> QED
    BY <2>1, <2>2, <2>3, <2>4 DEF Page!Move, Page!Write
<1>4. Page!Written(v3.entry.figure) /\ Page!Written(v2) /\ Page!Written(Nothing)
  BY DEF Page!Current, Page!Written
<1>5. Page!Written(v3.entry.figure)'
  <2>1. PICK x : x = v3'.entry.figure
    OBVIOUS
  <2>2. Page!Written(x)
    BY <1>3, <1>4, <2>1
  <2>3. Page!Written(x)'
    BY <1>2, <2>2, WrittenStays
  <2> QED
    BY <2>1, <2>3 DEF Page!Written
<1>6. Page!WorkerSound' /\ (v8 => Page!CardSound')
  BY <1>1, <1>2, WrittenStays
<1>7. Page!JobsSound' /\ Page!PageIsCurrent' /\ Page!SamplerAsAsked' /\ v5' \in BOOLEAN
  BY <1>1 DEF Page!Current, Page!JobsSound, Page!PageIsCurrent, Page!SamplerAsAsked
<1> QED
  BY <1>1, <1>2, <1>3, <1>5, <1>6, <1>7 DEF Page!Current

(* A refresh that is asked for is under way afterwards.                    *)
LEMMA RefreshAsked ==
  ASSUME Page!Current, Page!refresh, v2' = v2
  PROVE  v11' /\ Page!WorkerSound'
<1>1. CASE v11
  BY <1>1 DEF Page!refresh, Page!Current, Page!WorkerSound, Page!Infos, Page!Written
<1>2. CASE ~v11
  <2>1. v11' = TRUE /\ v12' = [step |-> "udisks", info |-> Nothing, file |-> Nothing]
    BY <1>2 DEF Page!refresh
  <2> QED
    BY <2>1 DEF Page!WorkerSound
<1> QED
  BY <1>1, <1>2

(* The page and its user, but for the switch.                              *)
LEMMA PageKeeps ==
  ASSUME Page!Current,
         \/ Page!Refresh \/ Page!Open \/ Page!Dispose \/ Page!on_clear_history
         \/ \E to \in {"month", "year"} : Page!on_range_changed(to)
  PROVE  Page!Current'
<1>1. /\ v1' = v1 /\ v2' = v2 /\ v3' = v3 /\ <<v5, v6, v7, v16, v17>>' = <<v5, v6, v7, v16, v17>>
  BY DEF Page!Refresh, Page!Open, Page!Dispose, Page!on_range_changed, Page!on_clear_history,
         Page!samplerVars, Page!worldVars
<1>2. v2' \in Nat /\ v2' >= v2
  BY <1>1 DEF Page!Current
<1>3. Page!JobsSound' /\ Page!SamplerAsAsked'
  BY <1>1 DEF Page!Current, Page!JobsSound, Page!SamplerAsAsked
<1>4. Page!Written(v3.entry.figure)'
  BY <1>1 DEF Page!Current, Page!Written
<1>5. v8' => Page!CardSound'
  <2>1. CASE Page!Open
    BY <2>1 DEF Page!Open, Page!CardSound
  <2>2. CASE v13' = v13 /\ v15' = v15 /\ (v8' => v8)
    BY <1>2, <2>2, WrittenStays
  <2> QED
    BY <2>1, <2>2 DEF Page!Refresh, Page!Dispose, Page!on_range_changed, Page!on_clear_history,
                      Page!pageVars, Page!refreshVars
<1>6. Page!WorkerSound' /\ Page!PageIsCurrent'
  <2>1. CASE Page!refresh
    BY <1>1, <2>1, RefreshAsked DEF Page!PageIsCurrent
  <2>2. CASE Page!Dispose
    <3>1. ~v8' /\ v12' = v12
      BY <2>2 DEF Page!Dispose, Page!refreshVars
    <3> QED
      BY <1>2, <3>1, WrittenStays DEF Page!PageIsCurrent
  <2> QED
    BY <2>1, <2>2 DEF Page!Refresh, Page!Open, Page!on_range_changed, Page!on_clear_history
<1> QED
  BY <1>1, <1>3, <1>4, <1>5, <1>6 DEF Page!Current

LEMMA RemovedFrom ==
  ASSUME NEW s \in Seq(BOOLEAN), NEW i \in DOMAIN s
  PROVE  /\ Page!RemoveAt(s, i) \in Seq(BOOLEAN)
         /\ Len(s) <= 1 => i = 1 /\ Page!RemoveAt(s, i) = <<>>
<1>1. PICK n \in Nat : n = Len(s) /\ DOMAIN s = 1..n
  BY LenProperties
<1>2. i \in 1..n
  BY <1>1
<1> DEFINE a == SubSeq(s, 1, i - 1)
           b == SubSeq(s, i + 1, n)
<1>3. Page!RemoveAt(s, i) = a \o b
  BY <1>1 DEF Page!RemoveAt
<1>4. a \in Seq(BOOLEAN) /\ Len(a) = i - 1
  <2>1. \A k \in 1..(i - 1) : s[k] \in BOOLEAN
    BY <1>1, <1>2, ElementOfSeq
  <2> QED
    BY <1>1, <1>2, SubSeqProperties
<1>5. b \in Seq(BOOLEAN) /\ Len(b) = n - i
  BY <1>1, <1>2, SubSeqProperties
<1>6. a \o b \in Seq(BOOLEAN) /\ Len(a \o b) = n - 1
  <2> HIDE DEF a, b
  <2>1. Len(a \o b) = Len(a) + Len(b) /\ a \o b \in Seq(BOOLEAN)
    BY <1>4, <1>5, ConcatProperties
  <2>2. i \in Int /\ (i - 1) + (n - i) = n - 1
    BY <1>1, <1>2
  <2> QED
    BY <1>4, <1>5, <2>1, <2>2
<1>7. ASSUME n <= 1 PROVE i = 1 /\ a \o b = <<>>
  <2>1. n = 1 /\ i = 1
    BY <1>1, <1>2, <1>7
  <2>2. Len(a \o b) = 0
    BY <1>6, <2>1
  <2> QED
    BY <1>6, <2>1, <2>2, EmptySeq
<1> QED
  BY <1>1, <1>3, <1>6, <1>7

(* The switch, and the commands it starts.                                 *)
LEMMA SwitchKeeps ==
  ASSUME Page!Current, Page!on_tracking_toggled \/ Page!EndCommand \/ Page!SetByHand
  PROVE  Page!Current'
<1>1. /\ v1' = v1 /\ v2' = v2 /\ v3' = v3 /\ v8' = v8 /\ v13' = v13 /\ v15' = v15
  BY DEF Page!on_tracking_toggled, Page!EndCommand, Page!SetByHand,
         Page!worldVars, Page!pageVars, Page!refreshVars
<1>2. v2' \in Nat /\ v2' >= v2 /\ v7 \in Seq(BOOLEAN)
  BY <1>1 DEF Page!Current, Page!JobsSound
<1>3. Page!Written(v3.entry.figure)'
  BY <1>1 DEF Page!Current, Page!Written
<1>4. v8' => Page!CardSound'
  BY <1>1, <1>2, WrittenStays
<1>5. Page!WorkerSound' /\ Page!PageIsCurrent'
  <2>1. CASE Page!on_tracking_toggled
    BY <1>1, <2>1, RefreshAsked DEF Page!on_tracking_toggled, Page!PageIsCurrent
  <2>2. CASE Page!EndCommand \/ Page!SetByHand
    <3>1. v9' = v9 /\ v10' = v10 /\ v4' = v4 /\ v11' = v11 /\ v12' = v12 /\ v14' = v14
      BY <2>2 DEF Page!EndCommand, Page!SetByHand, Page!worldVars, Page!pageVars, Page!refreshVars
    <3> QED
      BY <1>1, <1>2, <3>1, WrittenStays DEF Page!PageIsCurrent, Page!Current
  <2> QED
    BY <2>1, <2>2
<1>6. v5' \in BOOLEAN /\ Page!JobsSound' /\ Page!SamplerAsAsked'
  <2>1. CASE Page!on_tracking_toggled
    <3>1. PICK on \in BOOLEAN : /\ v5' = on /\ v7' = Append(v7, on) /\ v16' = on
                                /\ v17' = (v17 \/ v7 # <<>>)
      BY <2>1 DEF Page!on_tracking_toggled, Page!Current
    <3>2. v7' \in Seq(BOOLEAN) /\ Len(v7') = Len(v7) + 1 /\ v7'[Len(v7) + 1] = on
      BY <1>2, <3>1, AppendProperties
    <3>3. v7' # <<>>
      BY <1>2, <3>1, AppendProperties
    <3>4. v7 = <<>> => Len(v7') = 1 /\ v7'[1] = on
      <4>1. Len(<<>>) = 0
        BY EmptySeq
      <4> QED
        BY <3>2, <4>1
    <3>5. ~v17' => v7 = <<>>
      BY <3>1, Zenon
    <3>6. Page!SamplerAsAsked'
      BY <3>3, Zenon DEF Page!SamplerAsAsked
    <3>7. ~v17' => Len(v7') <= 1 /\ v7'[1] = v16'
      BY <3>1, <3>4, <3>5
    <3> QED
      BY <3>1, <3>2, <3>6, <3>7 DEF Page!JobsSound
  <2>2. CASE Page!EndCommand
    <3>1. PICK i \in DOMAIN v7 : v6' = v7[i] /\ v7' = Page!RemoveAt(v7, i)
      BY <2>2 DEF Page!EndCommand
    <3>2. v5' = v5 /\ v16' = v16 /\ v17' = v17
      BY <2>2 DEF Page!EndCommand
    <3>3. v7' \in Seq(BOOLEAN) /\ (Len(v7) <= 1 => i = 1 /\ v7' = <<>>)
      BY <1>2, <3>1, RemovedFrom
    <3>4. v7 # <<>> /\ Len(<<>>) = 0
      BY <1>2, <3>1, EmptySeq
    <3> QED
      BY <3>1, <3>2, <3>3, <3>4 DEF Page!Current, Page!JobsSound, Page!SamplerAsAsked
  <2>3. CASE Page!SetByHand
    BY <2>3 DEF Page!SetByHand, Page!Current, Page!JobsSound, Page!SamplerAsAsked
  <2> QED
    BY <2>1, <2>2, <2>3
<1> QED
  BY <1>1, <1>2, <1>3, <1>4, <1>5, <1>6 DEF Page!Current

(* gsm_drive_apply_info: the source of the better rank, the larger count.  *)
LEMMA ApplyInfo ==
  ASSUME NEW drive, NEW info, NEW after, after = Page!gsm_drive_apply_info(drive, info),
         NEW top \in Nat, drive.written \in 0..top, info.written \in 0..top,
         drive.source \in {"none", "locked", "udisks", "helper"},
         info.source \in {"locked", "udisks", "helper"}
  PROVE  /\ after.written \in 0..top
         /\ after.source \in {drive.source, info.source}
         /\ info.source = "helper" => after.source = "helper"
<1>1. /\ Page!source_rank("helper") = 3 /\ Page!source_rank("udisks") = 2
      /\ Page!source_rank("locked") = 1 /\ Page!source_rank("none") = 0
  <2>1. Page!source_rank("helper") = 3
    BY DEF Page!source_rank
  <2>2. Page!source_rank("udisks") = 2
    BY DEF Page!source_rank
  <2>3. Page!source_rank("locked") = 1
    BY DEF Page!source_rank
  <2>4. Page!source_rank("none") = 0
    BY DEF Page!source_rank
  <2> QED
    BY <2>1, <2>2, <2>3, <2>4
<1>2. CASE Page!source_rank(info.source) < Page!source_rank(drive.source)
  <2>1. after = drive
    BY <1>2 DEF Page!gsm_drive_apply_info
  <2>2. info.source # "helper"
    BY <1>1, <1>2
  <2> QED
    BY <2>1, <2>2
<1>3. CASE ~(Page!source_rank(info.source) < Page!source_rank(drive.source))
  <2>1. after.source = info.source /\ after.written = Page!Bigger(info.written, drive.written)
    BY <1>3 DEF Page!gsm_drive_apply_info
  <2> QED
    BY <2>1 DEF Page!Bigger
<1> QED
  BY <1>2, <1>3

LEMMA InfoFields ==
  ASSUME NEW info \in Page!Infos
  PROVE  /\ info.source \in {"locked", "udisks"} /\ (v2 \in Nat => info.written \in 0..v2)
         /\ info = [field \in DOMAIN Page!NewInfo |-> info[field]]
<1>1. CASE info = Page!NewInfo
  BY <1>1 DEF Page!NewInfo
<1>2. CASE info # Page!NewInfo
  <2>1. PICK w \in 0..v2 : info = [Page!NewInfo EXCEPT !.source = "udisks", !.written = w]
    BY <1>2 DEF Page!Infos
  <2>2. info.source = "udisks" /\ info.written = w
    BY <2>1 DEF Page!NewInfo
  <2>3. info = [field \in DOMAIN Page!NewInfo |-> info[field]]
    BY <2>1
  <2> QED
    BY <2>2, <2>3
<1> QED
  BY <1>1, <1>2

(* A card that is made of what the worker brings, and of the card before.  *)
LEMMA UpdatedIsSound ==
  ASSUME Page!Current, v8, NEW card, NEW before,
         before.figures.written \in 0..v2,
         before.figures.source \in {"none", "locked", "udisks", "helper"},
         v12 # Nothing, v12.step = "done", v12.info # Nothing,
         card = Page!Updated(before, v12.info, v12.file)
  PROVE  /\ card = [field \in Page!CardFields |-> card[field]]
         /\ card.figures.written \in 0..v2
         /\ card.figures.source \in {"none", "locked", "udisks", "helper"}
         /\ (card.usb.applies /\ card.usb.have_figures) =>
              /\ card.figures.source = "helper"
              /\ card.usb.file_state = "ok" /\ card.usb.status \in {"ok", "asleep"}
         /\ (card.figures.source = "helper" /\ ~card.usb.applies) =>
              before.figures.source = "helper" /\ v12.file = Nothing
         /\ card.range = v9 /\ card.epoch = v4 /\ card.tracking = v10
<1>1. v2 \in Nat /\ v12.info \in Page!Infos
  <2>1. Page!NewInfo \in Page!Infos
    BY DEF Page!Infos
  <2> QED
    BY <2>1 DEF Page!Current, Page!WorkerSound
<1> DEFINE usb == Page!usb_reading_update(v12.file)
<1>2. PICK given : given = IF usb.have_figures
                           THEN [v12.info EXCEPT !.source = "helper", !.written = v12.file.entry.figure]
                           ELSE v12.info
  OBVIOUS
<1>3. /\ card.figures = Page!gsm_drive_apply_info(before.figures, given) /\ card.usb = usb
      /\ card.range = v9 /\ card.epoch = v4 /\ card.tracking = v10
      /\ card = [field \in Page!CardFields |-> card[field]]
  BY <1>2 DEF Page!Updated, Page!CardFields
<1>4. CASE v12.file = Nothing
  <2>1. ~usb.applies /\ ~usb.have_figures
    BY <1>4 DEF Page!usb_reading_update, Page!NoUsb
  <2>2. given.written \in 0..v2 /\ given.source \in {"locked", "udisks"}
    BY <1>1, <1>2, <2>1, InfoFields
  <2>3. /\ card.figures.written \in 0..v2
        /\ card.figures.source \in {before.figures.source, given.source}
    <3>1. given.source \in {"locked", "udisks", "helper"}
      BY <2>2
    <3> QED
      BY <1>1, <1>3, <2>2, <3>1, ApplyInfo, Zenon
  <2> QED
    BY <1>3, <1>4, <2>1, <2>2, <2>3
<1>5. CASE v12.file # Nothing
  <2>1. Page!Written(v12.file.entry.figure)
    BY <1>5 DEF Page!Current, Page!WorkerSound
  <2>2. /\ usb.applies = TRUE /\ usb.file_state = v12.file.state /\ usb.status = v12.file.entry.status
        /\ usb.have_figures = Page!gsm_smart_file_fill_info(v12.file)
    BY <1>5 DEF Page!usb_reading_update, Page!NoUsb
  <2>3. usb.have_figures => /\ usb.file_state = "ok" /\ usb.status \in {"ok", "asleep"}
                            /\ v12.file.entry.figure \in 0..v2
    BY <2>1, <2>2 DEF Page!gsm_smart_file_fill_info, Page!Written
  <2>4. /\ given.written \in 0..v2 /\ given.source \in {"locked", "udisks", "helper"}
        /\ usb.have_figures => given.source = "helper"
    <3>1. CASE usb.have_figures
      <4>1. given = [v12.info EXCEPT !.source = "helper", !.written = v12.file.entry.figure]
        BY <1>2, <3>1
      <4> QED
        <5>1. given.source = "helper" /\ given.written = v12.file.entry.figure
          <6>1. PICK info \in Page!Infos : info = v12.info
            BY <1>1
          <6>2. PICK w : w = v12.file.entry.figure
            OBVIOUS
          <6>3. given = [info EXCEPT !.source = "helper", !.written = w]
            BY <4>1, <6>1, <6>2, Zenon
          <6>4. info = [field \in DOMAIN Page!NewInfo |-> info[field]]
            BY InfoFields
          <6>5. {"source", "written"} \subseteq DOMAIN Page!NewInfo
            BY DEF Page!NewInfo
          <6>6. {"source", "written"} \subseteq DOMAIN info
            BY <6>4, <6>5
          <6> QED
            BY <6>2, <6>3, <6>6
        <5> QED
          BY <2>3, <3>1, <5>1
    <3>2. CASE ~usb.have_figures
      BY <1>1, <1>2, <3>2, InfoFields
    <3> QED
      BY <3>1, <3>2
  <2>5. /\ card.figures.written \in 0..v2
        /\ card.figures.source \in {before.figures.source, given.source}
        /\ given.source = "helper" => card.figures.source = "helper"
    BY <1>1, <1>3, <2>4, ApplyInfo, Zenon
  <2> QED
    BY <1>3, <2>2, <2>3, <2>4, <2>5
<1> QED
  BY <1>4, <1>5

(* The worker's steps, and what the main loop does with what it brings.    *)
LEMMA WorkerKeeps ==
  ASSUME Page!Current, Page!AskUdisks \/ Page!UdisksFails \/ Page!LoadFile
  PROVE  Page!Current'
<1>1. /\ v1' = v1 /\ v2' = v2 /\ v3' = v3 /\ v4' = v4 /\ <<v5, v6, v7, v16, v17>>' = <<v5, v6, v7, v16, v17>>
      /\ v8' = v8 /\ v9' = v9 /\ v10' = v10 /\ v11' = v11 /\ v13' = v13 /\ v14' = v14 /\ v15' = v15
  BY DEF Page!AskUdisks, Page!UdisksFails, Page!LoadFile, Page!worldVars, Page!samplerVars, Page!pageVars
<1>2. v2 \in Nat /\ v2' \in Nat /\ v2' >= v2
  BY <1>1 DEF Page!Current
<1>3. v12 # Nothing /\ v12 = [step |-> v12.step, info |-> v12.info, file |-> v12.file]
  BY DEF Page!AskUdisks, Page!UdisksFails, Page!LoadFile, Page!On, Page!Current, Page!WorkerSound
<1>4. Page!Infos' = Page!Infos /\ \A figure : Page!Written(figure)' <=> Page!Written(figure)
  BY <1>1 DEF Page!Infos, Page!Written
<1>5. Page!WorkerSound'
  <2>1. CASE Page!AskUdisks
    <3>1. v12' = [v12 EXCEPT !.step = IF v1 = "usb" THEN "file" ELSE "done", !.info = Page!InfoOf(v1)]
      BY <2>1 DEF Page!AskUdisks
    <3>2. /\ v12' = [step |-> v12'.step, info |-> v12'.info, file |-> v12'.file]
          /\ v12'.step = (IF v1 = "usb" THEN "file" ELSE "done") /\ v12'.info = Page!InfoOf(v1)
          /\ v12'.file = v12.file
      BY <1>3, <3>1
    <3>3. v12.file = Nothing
      BY <1>3, <2>1 DEF Page!AskUdisks, Page!On, Page!Current, Page!WorkerSound
    <3>4. /\ v1 = "out" => Page!InfoOf(v1) = Nothing
          /\ v1 = "sata" => Page!InfoOf(v1) \in Page!Infos
          /\ v1 = "usb" => Page!InfoOf(v1) = Page!NewInfo
      <4>1. v1 = "out" => Page!InfoOf(v1) = Nothing
        BY DEF Page!InfoOf
      <4>2. v1 = "sata" => Page!InfoOf(v1) = [Page!NewInfo EXCEPT !.source = "udisks", !.written = v2]
        BY DEF Page!InfoOf
      <4>3. v1 = "usb" => Page!InfoOf(v1) = Page!NewInfo
        BY DEF Page!InfoOf
      <4>4. v2 \in 0..v2
        BY <1>2
      <4>5. [Page!NewInfo EXCEPT !.source = "udisks", !.written = v2] \in Page!Infos
        BY <4>4, Zenon DEF Page!Infos
      <4> QED
        BY <4>1, <4>2, <4>3, <4>5
    <3>5. v1 \in {"out", "sata", "usb"}
      BY DEF Page!Current
    <3> QED
      BY <1>4, <3>2, <3>3, <3>4, <3>5 DEF Page!WorkerSound
  <2>2. CASE Page!UdisksFails
    <3>1. v12' = [v12 EXCEPT !.step = "failed"]
      BY <2>2 DEF Page!UdisksFails
    <3>2. v12' = [step |-> v12'.step, info |-> v12'.info, file |-> v12'.file] /\ v12'.step = "failed"
      BY <1>3, <3>1
    <3> QED
      BY <3>2 DEF Page!WorkerSound
  <2>3. CASE Page!LoadFile
    <3>1. v12.step = "file" /\ v12' = [v12 EXCEPT !.step = "done", !.file = Page!Loaded]
      BY <2>3 DEF Page!LoadFile, Page!On
    <3>2. /\ v12' = [step |-> v12'.step, info |-> v12'.info, file |-> v12'.file]
          /\ v12'.step = "done" /\ v12'.info = v12.info /\ v12'.file = Page!Loaded
      BY <1>3, <3>1
    <3>3. v12.info = Page!NewInfo
      BY <1>3, <3>1 DEF Page!Current, Page!WorkerSound
    <3>4. Page!Loaded.entry = v3.entry
      BY DEF Page!Loaded
    <3>5. Page!NewInfo \in Page!Infos /\ Page!Written(v3.entry.figure)
      BY DEF Page!Infos, Page!Current
    <3> QED
      BY <1>1, <1>4, <3>2, <3>3, <3>4, <3>5 DEF Page!WorkerSound
  <2> QED
    BY <2>1, <2>2, <2>3
<1>6. v8' => Page!CardSound'
  BY <1>1, <1>2, WrittenStays
<1>7. /\ Page!JobsSound' /\ Page!PageIsCurrent' /\ Page!SamplerAsAsked' /\ v5' \in BOOLEAN
      /\ Page!Written(v3.entry.figure)'
  BY <1>1 DEF Page!Current, Page!JobsSound, Page!PageIsCurrent, Page!SamplerAsAsked, Page!Written
<1> QED
  BY <1>1, <1>2, <1>5, <1>6, <1>7 DEF Page!Current

LEMMA FinishedKeeps ==
  ASSUME Page!Current, Page!refresh_finished
  PROVE  Page!Current'
<1>1. /\ v1' = v1 /\ v2' = v2 /\ v3' = v3 /\ v4' = v4 /\ <<v5, v6, v7, v16, v17>>' = <<v5, v6, v7, v16, v17>>
      /\ v8' = v8 /\ v9' = v9 /\ v10' = v10 /\ v11' = FALSE /\ v12' = Nothing
  BY DEF Page!refresh_finished, Page!worldVars, Page!samplerVars, Page!pageVars
<1>2. v2 \in Nat /\ v2' \in Nat /\ v2' >= v2
  BY <1>1 DEF Page!Current
<1>3. Page!WorkerSound'
  BY <1>1 DEF Page!WorkerSound
<1>4. /\ Page!JobsSound' /\ Page!SamplerAsAsked' /\ v5' \in BOOLEAN /\ Page!Written(v3.entry.figure)'
  BY <1>1 DEF Page!Current, Page!JobsSound, Page!SamplerAsAsked, Page!Written
<1>5. CASE v14'
  <2>1. v13' = v13 /\ v15' = v15
    BY <1>5 DEF Page!refresh_finished
  <2>2. v8' => Page!CardSound'
    BY <1>1, <1>2, <2>1, WrittenStays
  <2>3. Page!PageIsCurrent'
    BY <1>5, Zenon DEF Page!PageIsCurrent
  <2> QED
    BY <1>1, <1>2, <1>3, <1>4, <2>2, <2>3 DEF Page!Current
<1>6. CASE ~v14'
  <2>1. v8 /\ v12 # Nothing /\ v12.step = "done"
    BY <1>6, Zenon DEF Page!refresh_finished, Page!On
  <2>2. /\ Page!apply_drives(v12.info, v12.file)
        /\ v15' = (v15 \/ (/\ v13 # Nothing /\ v13.figures.source = "helper"
                           /\ v12.info # Nothing /\ v12.file = Nothing))
    BY <1>6, Zenon DEF Page!refresh_finished
  <2>3. Page!CardSound
    BY <2>1 DEF Page!Current
  <2>4. v15 => v15'
    BY <2>2, Zenon
  <2>5. CASE v12.info = Nothing /\ v13 = Nothing
    <3>1. v13' = Nothing
      BY <2>2, <2>5 DEF Page!apply_drives
    <3>2. Page!CardSound' /\ Page!PageIsCurrent'
      BY <3>1 DEF Page!CardSound, Page!PageIsCurrent
    <3> QED
      BY <1>1, <1>2, <1>3, <1>4, <3>2 DEF Page!Current
  <2>6. CASE v12.info = Nothing /\ v13 # Nothing
    <3>1. v13' = [v13 EXCEPT !.present = FALSE]
      BY <2>2, <2>6 DEF Page!apply_drives
    <3>2. v13 = [field \in Page!CardFields |-> v13[field]]
      BY <2>3, <2>6 DEF Page!CardSound
    <3>3. /\ v13' = [field \in Page!CardFields |-> v13'[field]]
          /\ v13'.present = FALSE /\ v13'.figures = v13.figures /\ v13'.usb = v13.usb
      BY <3>1, <3>2 DEF Page!CardFields
    <3>4. Page!CardSound'
      BY <1>1, <2>3, <2>4, <2>6, <3>3 DEF Page!CardSound
    <3>5. Page!PageIsCurrent'
      BY <3>3 DEF Page!PageIsCurrent
    <3> QED
      BY <1>1, <1>2, <1>3, <1>4, <3>4, <3>5 DEF Page!Current
  <2>7. CASE v12.info # Nothing
    <3>1. PICK before : before = IF v13 = Nothing THEN Page!NewCard ELSE v13
      OBVIOUS
    <3>2. PICK card : card = v13'
      OBVIOUS
    <3>3. card = Page!Updated(before, v12.info, v12.file)
      BY <2>2, <2>7, <3>1, <3>2 DEF Page!apply_drives
    <3>4. Page!NewCard.figures.source = "none" /\ Page!NewCard.figures.written = 0
      BY DEF Page!NewCard, Page!NewDrive, Page!NewInfo
    <3>5. /\ before.figures.written \in 0..v2
          /\ before.figures.source \in {"none", "locked", "udisks", "helper"}
      <4>1. CASE v13 = Nothing
        BY <1>2, <3>1, <3>4, <4>1
      <4>2. CASE v13 # Nothing
        BY <2>3, <3>1, <4>2 DEF Page!CardSound
      <4> QED
        BY <4>1, <4>2
    <3>6. /\ card = [field \in Page!CardFields |-> card[field]]
          /\ card.figures.written \in 0..v2
          /\ card.figures.source \in {"none", "locked", "udisks", "helper"}
          /\ (card.usb.applies /\ card.usb.have_figures) =>
               /\ card.figures.source = "helper"
               /\ card.usb.file_state = "ok" /\ card.usb.status \in {"ok", "asleep"}
          /\ (card.figures.source = "helper" /\ ~card.usb.applies) =>
               before.figures.source = "helper" /\ v12.file = Nothing
          /\ card.range = v9 /\ card.epoch = v4 /\ card.tracking = v10
      BY <2>1, <2>7, <3>3, <3>5, UpdatedIsSound
    <3>7. (card.figures.source = "helper" /\ ~card.usb.applies) => v15'
      <4>1. before.figures.source = "helper" => v13 # Nothing /\ v13.figures.source = "helper"
        BY <3>1, <3>4
      <4> QED
        BY <2>2, <2>7, <3>6, <4>1, Zenon
    <3>8. Page!CardSound'
      BY <1>1, <3>2, <3>6, <3>7 DEF Page!CardSound
    <3>9. Page!PageIsCurrent'
      BY <1>1, <3>2, <3>6 DEF Page!PageIsCurrent
    <3> QED
      BY <1>1, <1>2, <1>3, <1>4, <3>8, <3>9 DEF Page!Current
  <2> QED
    BY <2>5, <2>6, <2>7
<1> QED
  BY <1>5, <1>6

LEMMA PageInvNext == PageInv /\ [Next]_partsVars => PageInv'
<1> SUFFICES ASSUME part = "page", Page!Current,
                    [Page!Next]_<<v1, v2, v3, v4, v5, v6, v7, v8, v9, v10, v11, v12, v13, v14, v15, v16, v17, v18>>
             PROVE  Page!Current'
  BY DEF PageInv, Next, partsVars, from6, ReadInput, Pure, Readings, Cards, Reader
<1>1. CASE UNCHANGED <<v1, v2, v3, v4, v5, v6, v7, v8, v9, v10, v11, v12, v13, v14, v15, v16, v17, v18>>
  <2>1. v2' \in Nat /\ v2' >= v2
    BY <1>1 DEF Page!Current
  <2>2. Page!WorkerSound' /\ (v8' => Page!CardSound')
    BY <1>1, <2>1, WrittenStays
  <2>3. Page!JobsSound' /\ Page!PageIsCurrent' /\ Page!SamplerAsAsked'
    BY <1>1 DEF Page!Current, Page!JobsSound, Page!PageIsCurrent, Page!SamplerAsAsked
  <2> QED
    BY <1>1, <2>2, <2>3 DEF Page!Current, Page!Written
<1> QED
  BY <1>1, WorldKeeps, PageKeeps, SwitchKeeps, WorkerKeeps, FinishedKeeps DEF Page!Next

(* The page of any drive, file and reader: what a card shows is of the     *)
(* drive and of the chosen range and history as soon as no refresh is      *)
(* under way, and the sampler is as the user last asked.                   *)
THEOREM PageTellsTheTruth == Spec => []PageSound
<1>1. PageInv => PageSound
  BY PageIsSound DEF PageInv, PageSound
<1> QED
  BY <1>1, PageInvInit, PageInvNext, PTL DEF Spec, partsVars
=============================================================================
