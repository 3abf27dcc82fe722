-------------------------- MODULE HealthPartsProofs --------------------------
(***************************************************************************)
(* Theorems about the parts of MCHealthParts, for any pids, tables, disks, *)
(* widths of a bucket and bounds.  A part moves only while the others      *)
(* stand still, so each invariant is of one part.                          *)
(***************************************************************************)
EXTENDS MCHealthParts, SumTheorems, SequenceTheorems

partsVars == <<part, writesVars, rollVars, schemaVars, behalfVars, smartVars, dbVars,
               workVars>>

-----------------------------------------------------------------------------
(***************************************************************************)
(* SchemaMigration.                                                        *)
(***************************************************************************)
Opening == {"check blame", "migrate blame", "create", "tables", "alter", "failed", "open"}

(* What a process has been through tells what the file has: a table it has *)
(* done has its column, unless it is the one it is about to alter.         *)
Reached(p) ==
  /\ pc[p] = "create" => blame # 1
  /\ pc[p] \in {"check blame", "migrate blame", "create"} => table[p].done = {}
  /\ pc[p] \in {"tables", "alter", "failed", "open"} => blame = 2 /\ missing = {}
  /\ pc[p] \in {"tables", "open"} => table[p].done \subseteq columns
  /\ pc[p] = "alter" => table[p].done \ table[p].at \subseteq columns
  /\ pc[p] = "alter" => \E t \in Tables : table[p].at = {t}
  /\ pc[p] = "failed" => table[p].at # {} /\ table[p].at \subseteq columns
  /\ pc[p] = "open" => columns = Tables

SchemaInv ==
  part = "schema" =>
    /\ blame \in 0..2 /\ columns \subseteq Tables /\ missing \subseteq Tables
    /\ pc \in [Openers -> Opening]
    /\ table \in [Openers -> [at : SUBSET Tables, done : SUBSET Tables]]
    /\ \A p \in Openers : Reached(p)

LEMMA SchemaInvInit == Init => SchemaInv
<1> SUFFICES ASSUME Init, part = "schema" PROVE SchemaInv
  BY DEF SchemaInv
<1>1. Schema!Init
  BY DEF Init
<1>2. /\ pc = [p \in Openers |-> "check blame"]
      /\ table = [p \in Openers |-> [at |-> {}, done |-> {}]]
      /\ columns \subseteq Tables /\ missing \subseteq Tables
  BY <1>1 DEF Schema!Init
<1>3. blame \in 0..2
  <2>1. version \in 0..3 /\ blame = IF version = 3 THEN 2 ELSE version
    BY <1>1 DEF Schema!Init
  <2> QED
    BY <2>1
<1> QED
  BY <1>2, <1>3 DEF SchemaInv, Reached, Opening

(* The file only ever gains: no process undoes what another has found.     *)
FileGains ==
  /\ blame' \in 0..2 /\ columns' \subseteq Tables /\ missing' \subseteq Tables
  /\ columns \subseteq columns' /\ missing' \subseteq missing
  /\ blame' # blame => blame' = 2

LEMMA ReachedKept ==
  ASSUME SchemaInv, part = "schema", FileGains, NEW p \in Openers,
         pc'[p] = pc[p], table'[p] = table[p]
  PROVE  Reached(p)'
<1>1. Reached(p) /\ columns \subseteq Tables /\ blame \in 0..2
  BY DEF SchemaInv
<1>2. columns = Tables => columns' = Tables
  BY <1>1 DEF FileGains
<1>3. blame # 1 => blame' # 1
  BY <1>1 DEF FileGains
<1>4. blame = 2 /\ missing = {} => blame' = 2 /\ missing' = {}
  BY <1>1 DEF FileGains
<1>5. columns \subseteq columns'
  BY DEF FileGains
<1> QED
  BY <1>1, <1>2, <1>3, <1>4, <1>5 DEF Reached

LEMMA SchemaInvNext == SchemaInv /\ [Next]_partsVars => SchemaInv'
<1> SUFFICES ASSUME SchemaInv, [Next]_partsVars, part' = "schema" PROVE SchemaInv'
  BY DEF SchemaInv
<1>1. CASE UNCHANGED partsVars
  BY <1>1 DEF partsVars, schemaVars, SchemaInv, Reached
<1>2. CASE Next
  <2>1. part = "schema" /\ Schema!Next
    BY <1>2 DEF Next
  <2>2. PICK p \in Openers :
          \/ Schema!CheckBlame(p) \/ Schema!MigrateBlame(p) \/ Schema!Create(p)
          \/ \E t \in Tables : Schema!CheckTable(p, t)
          \/ Schema!Alter(p) \/ Schema!AlterFails(p) \/ Schema!SetVersion(p) \/ Schema!Again(p)
    BY <2>1 DEF Schema!Next
  <2>3. /\ blame \in 0..2 /\ columns \subseteq Tables /\ missing \subseteq Tables
        /\ pc \in [Openers -> Opening]
        /\ table \in [Openers -> [at : SUBSET Tables, done : SUBSET Tables]]
        /\ Reached(p)
    BY <2>1 DEF SchemaInv
  <2> DEFINE Moved ==
    /\ FileGains
    /\ pc' \in [Openers -> Opening]
    /\ table' \in [Openers -> [at : SUBSET Tables, done : SUBSET Tables]]
    /\ \A q \in Openers \ {p} : pc'[q] = pc[q] /\ table'[q] = table[q]
    /\ Reached(p)'
  <2>4. Moved
    <3>1. CASE Schema!CheckBlame(p)
      BY <3>1, <2>3 DEF Schema!CheckBlame, Schema!Goto, Schema!file, FileGains, Reached, Opening
    <3>2. CASE Schema!MigrateBlame(p)
      <4>1. /\ pc[p] = "migrate blame" /\ pc' = [pc EXCEPT ![p] = "create"]
            /\ table' = table
            /\ \/ /\ blame = 1 /\ blame' = 2
                  /\ columns' = columns \cup missing /\ missing' = {}
               \/ /\ blame # 1 /\ blame' = blame
                  /\ columns' = columns /\ missing' = missing
        BY <3>2 DEF Schema!MigrateBlame, Schema!Goto
      <4>0. blame \in 0..2 /\ columns \subseteq Tables /\ missing \subseteq Tables
        BY <2>3
      <4>2. FileGains /\ blame' # 1
        <5>1. CASE blame = 1
          <6>1. blame' = 2 /\ columns' = columns \cup missing /\ missing' = {}
            BY <4>1, <5>1
          <6>2. columns' \subseteq Tables /\ columns \subseteq columns' /\ missing' \subseteq missing
            BY <4>0, <6>1
          <6> QED
            BY <6>1, <6>2 DEF FileGains
        <5>2. CASE blame # 1
          BY <4>0, <4>1, <5>2 DEF FileGains
        <5> QED
          BY <5>1, <5>2
      <4>3. Reached(p)'
        BY <4>1, <4>2, <2>3 DEF Reached
      <4> QED
        BY <4>1, <4>2, <4>3, <2>3 DEF Opening
    <3>3. CASE Schema!Create(p)
      <4>1. /\ pc[p] = "create" /\ pc' = [pc EXCEPT ![p] = "tables"]
            /\ table' = table /\ missing' = {} /\ FileGains
        BY <3>3, <2>3 DEF Schema!Create, Schema!Goto, FileGains
      <4>2. blame' = 2
        BY <3>3, <4>1, <2>3 DEF Schema!Create, Reached
      <4>3. pc'[p] = "tables" /\ table'[p] = table[p] /\ columns \subseteq columns'
        BY <4>1, <2>3 DEF FileGains
      <4>4. Reached(p)'
        BY <4>1, <4>2, <4>3, <2>3 DEF Reached
      <4> QED
        BY <4>1, <4>2, <4>4, <2>3 DEF Opening
    <3>4. CASE \E t \in Tables : Schema!CheckTable(p, t)
      <4>1. PICK t \in Tables : Schema!CheckTable(p, t)
        BY <3>4
      <4>2. /\ pc[p] = "tables"
            /\ pc' = [pc EXCEPT ![p] = IF t \notin columns THEN "alter" ELSE "tables"]
            /\ table' = [table EXCEPT ![p] = [at |-> {t}, done |-> @.done \cup {t}]]
            /\ UNCHANGED <<blame, columns, missing, version>>
        BY <4>1 DEF Schema!CheckTable, Schema!Goto, Schema!file
      <4>3. table'[p] = [at |-> {t}, done |-> table[p].done \cup {t}]
        BY <4>2, <2>3
      <4>4. table' \in [Openers -> [at : SUBSET Tables, done : SUBSET Tables]]
        BY <4>2, <2>3
      <4>5. Reached(p)'
        BY <4>2, <4>3, <2>3 DEF Reached, Opening
      <4> QED
        BY <4>2, <4>4, <4>5, <2>3 DEF FileGains, Opening
    <3>5. CASE Schema!Alter(p)
      BY <3>5, <2>3 DEF Schema!Alter, Schema!Goto, FileGains, Reached, Opening
    <3>6. CASE Schema!AlterFails(p)
      BY <3>6, <2>3 DEF Schema!AlterFails, Schema!Goto, Schema!file, FileGains, Reached, Opening
    <3>7. CASE Schema!SetVersion(p)
      BY <3>7, <2>3 DEF Schema!SetVersion, Schema!Goto, FileGains, Reached, Opening
    <3>8. CASE Schema!Again(p)
      BY <3>8, <2>3 DEF Schema!Again, Schema!file, FileGains, Reached, Opening
    <3> QED
      BY <2>2, <3>1, <3>2, <3>3, <3>4, <3>5, <3>6, <3>7, <3>8
  <2>5. \A q \in Openers : Reached(q)'
    BY <2>1, <2>4, ReachedKept
  <2> QED
    BY <2>4, <2>5 DEF SchemaInv, FileGains
<1> QED
  BY <1>1, <1>2

(* Whatever versions the file had, however many processes bring it up to   *)
(* date at once and wherever they are killed, who has opened it finds every *)
(* column, and only an ALTER that came second can fail                     *)
(* (gsm_health_db_new).                                                    *)
THEOREM WhoOpensFindsAll == Spec => []OpenedSound
<1>1. SchemaInv => OpenedSound
  BY DEF SchemaInv, Reached, OpenedSound, Schema!OpenedIsComplete, Schema!FailsOnlyOnce
<1> QED
  BY <1>1, SchemaInvInit, SchemaInvNext, PTL DEF Spec, partsVars

-----------------------------------------------------------------------------
(***************************************************************************)
(* OnBehalf.                                                               *)
(***************************************************************************)
Phases == {"closed", "blind", "reading", "split"}

Lines == Behalf!Entries \cup {Behalf!Line(Nothing)}

BehalfTypes ==
  /\ journal \in Seq(Lines) /\ Len(journal) <= MaxEntries
  /\ journal_cursor \in Nat \cup {Nothing}
  /\ source \in [phase : Phases, at : Nat \cup {Nothing}, exhausted : BOOLEAN]
  /\ read \in [1..MaxEntries -> 0..1]

(* The entries that were used: none behind the place up to which the       *)
(* interval has been read, and every one of an interval that is complete.  *)
UsedUpTo(upto) == \A k \in 1..MaxEntries : k > upto => read[k] = 0

Cursors ==
  /\ UsedUpTo(Len(journal))
  /\ source.exhausted => source.phase = "split" /\ journal_cursor # Nothing
  /\ source.phase = "reading" => source.at = journal_cursor \/ journal_cursor # Nothing
  /\ journal_cursor # Nothing =>
       /\ journal_cursor <= Len(journal)
       /\ source.phase \in {"reading", "split"} =>
            source.at \in Nat /\ journal_cursor <= source.at /\ source.at <= Len(journal)
       /\ UsedUpTo(IF source.exhausted THEN source.at ELSE journal_cursor)
       /\ source.exhausted => \A k \in journal_cursor + 1 .. source.at : read[k] = 1
       /\ \A k \in 1..journal_cursor : read[k] = 1 \/ k \in skipped

BehalfInv == part = "on behalf" => BehalfTypes /\ Cursors

LEMMA BehalfTypesInit ==
  ASSUME Behalf!Init
  PROVE  BehalfTypes /\ Cursors
<1>2. /\ journal \in {<<>>, <<Behalf!Line(Nothing)>>}
      /\ journal_cursor = IF readable /\ journal # <<>> THEN Len(journal) ELSE Nothing
      /\ source = [phase |-> "closed", at |-> Nothing, exhausted |-> FALSE]
      /\ read = [k \in 1..MaxEntries |-> 0]
      /\ skipped = 1..Len(journal)
  BY DEF Behalf!Init, Behalf!Closed
<1>3. journal \in Seq(Lines) /\ Len(journal) \in 0..1 /\ (journal # <<>> => Len(journal) = 1)
  <2>1. PICK line : line = Behalf!Line(Nothing)
    OBVIOUS
  <2>2. line \in Lines
    BY <2>1 DEF Lines
  <2>3. CASE journal = <<>>
    BY <2>3, EmptySeq
  <2>4. CASE journal = <<line>>
    <3>1. journal \in Seq(Lines)
      BY <2>2, <2>4
    <3>2. Len(journal) = 1
      BY <2>4
    <3> QED
      BY <3>1, <3>2
  <2> QED
    BY <1>2, <2>1, <2>3, <2>4
<1>4. readable /\ journal # <<>> => Len(journal) = 1 /\ journal_cursor = 1
  BY <1>2, <1>3
<1>5. BehalfTypes
  BY <1>2, <1>3, <1>4, MaxEntriesAssumption DEF BehalfTypes, Phases
<1>6. Cursors
  BY <1>2, <1>3, <1>4, MaxEntriesAssumption DEF Cursors, UsedUpTo
<1> QED
  BY <1>5, <1>6

LEMMA BehalfInvInit == Init => BehalfInv
  BY BehalfTypesInit DEF Init, BehalfInv


(* A step of the machine, or of the split of one charge, leaves the cursor *)
(* and what was read alone.                                                *)
LEMMA BehalfAppend ==
  ASSUME BehalfTypes, Cursors, NEW entry \in Behalf!Entries, Behalf!AppendEntry(entry)
  PROVE  BehalfTypes' /\ Cursors'
<1>1. /\ Len(journal) < MaxEntries /\ journal' = Append(journal, entry)
      /\ UNCHANGED <<journal_cursor, source, read, skipped>>
  BY DEF Behalf!AppendEntry, Behalf!history
<1>2. Len(journal) \in Nat /\ Len(journal') = Len(journal) + 1 /\ journal' \in Seq(Lines)
  BY <1>1 DEF BehalfTypes, Lines
<1>3. BehalfTypes'
  BY <1>1, <1>2, MaxEntriesAssumption DEF BehalfTypes
<1>4. UsedUpTo(Len(journal))'
  BY <1>1, <1>2 DEF Cursors, UsedUpTo
<1>5. journal_cursor # Nothing => journal_cursor \in Nat /\ journal_cursor <= Len(journal)'
  BY <1>1, <1>2 DEF BehalfTypes, Cursors
<1>6. Cursors'
  BY <1>1, <1>2, <1>4, <1>5 DEF Cursors, UsedUpTo
<1> QED
  BY <1>3, <1>6

LEMMA BehalfOpen ==
  ASSUME BehalfTypes, Cursors, Behalf!Open
  PROVE  BehalfTypes' /\ Cursors'
<1>1. PICK next \in {"blind", "split", "reading"} :
        source' = [phase |-> next, at |-> journal_cursor, exhausted |-> FALSE]
  BY DEF Behalf!Open
<1>2. UNCHANGED <<journal, journal_cursor, read, skipped>> /\ ~source.exhausted
  BY DEF Behalf!Open, Behalf!Phase, Cursors
<1>3. /\ source'.phase = next /\ source'.at = journal_cursor /\ source'.exhausted = FALSE
      /\ Len(journal) \in Nat
  BY <1>1 DEF BehalfTypes
<1>4. BehalfTypes'
  BY <1>1, <1>2 DEF BehalfTypes, Phases
<1>5. Cursors'
  BY <1>2, <1>3, MaxEntriesAssumption DEF BehalfTypes, Cursors, UsedUpTo
<1> QED
  BY <1>4, <1>5

LEMMA BehalfNextEntry ==
  ASSUME BehalfTypes, Cursors, Behalf!NextEntry
  PROVE  BehalfTypes' /\ Cursors'
<1>1. /\ source.phase = "reading" /\ journal_cursor # Nothing /\ source.at < Len(journal)
      /\ source' = [source EXCEPT !.at = source.at + 1]
      /\ UNCHANGED <<journal, journal_cursor, read, skipped>>
  BY DEF Behalf!NextEntry, Behalf!Phase, Behalf!history
<1>2. /\ source'.phase = "reading" /\ source'.at = source.at + 1 /\ ~source'.exhausted
      /\ ~source.exhausted
  BY <1>1 DEF BehalfTypes, Cursors
<1>3. source.at \in Nat /\ journal_cursor \in Nat /\ journal_cursor <= source.at /\ Len(journal) \in Nat
  BY <1>1 DEF BehalfTypes, Cursors
<1>4. BehalfTypes'
  BY <1>1, <1>2, <1>3 DEF BehalfTypes
<1>5. Cursors'
  BY <1>1, <1>2, <1>3 DEF Cursors, UsedUpTo
<1> QED
  BY <1>4, <1>5

(* The interval is complete: its entries are used now, and none of them    *)
(* was used before.                                                        *)
LEMMA BehalfNoMoreEntries ==
  ASSUME BehalfTypes, Cursors, Behalf!NoMoreEntries
  PROVE  BehalfTypes' /\ Cursors'
<1>1. /\ source.phase = "reading" /\ (journal_cursor # Nothing => source.at = Len(journal))
      /\ source' = [source EXCEPT !.phase = "split", !.exhausted = journal_cursor # Nothing]
      /\ UNCHANGED <<journal, journal_cursor, skipped>>
  BY DEF Behalf!NoMoreEntries, Behalf!Phase
<1>2. /\ source'.phase = "split" /\ source'.at = source.at
      /\ source'.exhausted <=> journal_cursor # Nothing
      /\ ~source.exhausted /\ Len(journal) \in Nat
  <2>1. PICK e \in BOOLEAN : e <=> journal_cursor # Nothing
    OBVIOUS
  <2>2. source' = [source EXCEPT !.phase = "split", !.exhausted = e]
    BY <1>1, <2>1
  <2> QED
    BY <1>1, <2>1, <2>2 DEF BehalfTypes, Cursors
<1>3. source' \in [phase : Phases, at : Nat \cup {Nothing}, exhausted : BOOLEAN]
  BY <1>1 DEF BehalfTypes, Phases
<1>4. CASE journal_cursor = Nothing
  <2>1. read' = read
    BY <1>4 DEF Behalf!NoMoreEntries, Behalf!Interval, BehalfTypes
  <2> QED
    BY <2>1, <1>1, <1>2, <1>3, <1>4 DEF BehalfTypes, Cursors, UsedUpTo
<1>5. CASE journal_cursor # Nothing
  <2>1. journal_cursor \in Nat /\ source.at \in Nat /\ journal_cursor <= source.at /\ source.at = Len(journal)
    BY <1>1, <1>5 DEF BehalfTypes, Cursors
  <2>2. /\ \A k \in 1..MaxEntries : k > journal_cursor => read[k] = 0
        /\ read \in [1..MaxEntries -> 0..1]
    BY <1>2, <1>5 DEF BehalfTypes, Cursors, UsedUpTo
  <2>3. read' = [k \in 1..MaxEntries |-> read[k] + IF k \in journal_cursor + 1 .. source.at THEN 1 ELSE 0]
    BY <1>5, <2>2 DEF Behalf!NoMoreEntries, Behalf!Interval
  <2>4. \A k \in 1..MaxEntries :
          /\ read'[k] \in 0..1
          /\ k > source.at => read'[k] = 0
          /\ k \in journal_cursor + 1 .. source.at => read'[k] = 1
          /\ k <= journal_cursor => read'[k] = read[k]
    BY <2>1, <2>2, <2>3, MaxEntriesAssumption
  <2>5. read' \in [1..MaxEntries -> 0..1]
    BY <2>3, <2>4
  <2>6. BehalfTypes'
    BY <1>1, <1>3, <2>5 DEF BehalfTypes
  <2>7. Len(journal) <= MaxEntries /\ \A k \in 1..journal_cursor : read[k] = 1 \/ k \in skipped
    BY <1>5 DEF BehalfTypes, Cursors
  <2>8. \A k \in 1..journal_cursor : read'[k] = 1 \/ k \in skipped
    BY <2>1, <2>4, <2>7, MaxEntriesAssumption
  <2>9. \A k \in journal_cursor + 1 .. source.at : read'[k] = 1
    BY <2>1, <2>4, <2>7, MaxEntriesAssumption
  <2>10. Cursors'
    BY <1>1, <1>2, <1>5, <2>1, <2>4, <2>8, <2>9 DEF Cursors, UsedUpTo
  <2> QED
    BY <2>6, <2>10
<1> QED
  BY <1>4, <1>5

(* The next interval begins where this one ended, or behind all there is.  *)
LEMMA BehalfClose ==
  ASSUME BehalfTypes, Cursors, NEW next, Behalf!Close(next),
         \/ next = Nothing
         \/ source.exhausted /\ next = source.at
         \/ ~source.exhausted /\ next = Len(journal)
         \/ ~source.exhausted /\ next = journal_cursor
  PROVE  BehalfTypes' /\ Cursors'
<1>1. /\ source' = [phase |-> "closed", at |-> Nothing, exhausted |-> FALSE]
      /\ journal_cursor' = next
      /\ skipped' = IF source.exhausted \/ next = Nothing THEN skipped ELSE skipped \cup 1..next
      /\ UNCHANGED <<journal, read>>
  BY DEF Behalf!Close, Behalf!Closed
<1>2. Len(journal) \in Nat /\ Len(journal) <= MaxEntries
  BY DEF BehalfTypes
<1>3. source'.phase = "closed" /\ ~source'.exhausted
  BY <1>1
<1>4. next \in Nat \cup {Nothing}
  BY <1>2 DEF BehalfTypes, Cursors
<1>5. BehalfTypes'
  BY <1>1, <1>4 DEF BehalfTypes, Phases
<1>6. ASSUME next # Nothing
      PROVE  next <= Len(journal) /\ UsedUpTo(next) /\ \A k \in 1..next : read[k] = 1 \/ k \in skipped'
  <2>1. CASE source.exhausted
    <3>1. /\ next = source.at /\ journal_cursor \in Nat /\ source.at \in Nat
          /\ journal_cursor <= source.at /\ source.at <= Len(journal)
          /\ UsedUpTo(source.at)
          /\ \A k \in journal_cursor + 1 .. source.at : read[k] = 1
          /\ \A k \in 1..journal_cursor : read[k] = 1 \/ k \in skipped
      BY <1>6, <2>1 DEF BehalfTypes, Cursors
    <3> QED
      BY <1>1, <2>1, <3>1
  <2>2. CASE ~source.exhausted
    <3>1. skipped' = skipped \cup 1..next /\ (next = Len(journal) \/ next = journal_cursor)
      BY <1>1, <1>6, <2>2
    <3>2. next <= Len(journal) /\ UsedUpTo(next)
      BY <1>2, <1>6, <2>2, <3>1 DEF Cursors
    <3> QED
      BY <3>1, <3>2
  <2> QED
    BY <2>1, <2>2
<1>7. UsedUpTo(Len(journal)) /\ UNCHANGED journal /\ read' = read
  BY <1>1 DEF Cursors
<1>8. Cursors'
  BY <1>1, <1>3, <1>6, <1>7 DEF Cursors, UsedUpTo
<1> QED
  BY <1>5, <1>8

LEMMA BehalfInvNext == BehalfInv /\ [Next]_partsVars => BehalfInv'
<1> SUFFICES ASSUME BehalfInv, [Next]_partsVars, part' = "on behalf" PROVE BehalfInv'
  BY DEF BehalfInv
<1>1. CASE UNCHANGED <<part, behalfVars>>
  BY <1>1 DEF behalfVars, BehalfInv, BehalfTypes, Cursors, UsedUpTo
<1>2. CASE Next
  <2>1. part = "on behalf" /\ Behalf!Next /\ BehalfTypes /\ Cursors
    BY <1>2 DEF Next, BehalfInv
  <2>2. BehalfTypes' /\ Cursors'
    <3>1. CASE \E entry \in Behalf!Entries : Behalf!AppendEntry(entry)
      BY <2>1, <3>1, BehalfAppend
    <3>2. CASE UNCHANGED <<journal, journal_cursor, source, read, skipped>>
      BY <2>1, <3>2 DEF BehalfTypes, Cursors, UsedUpTo
    <3>3. CASE Behalf!Open
      BY <2>1, <3>3, BehalfOpen
    <3>4. CASE Behalf!NextEntry
      BY <2>1, <3>4, BehalfNextEntry
    <3>5. CASE Behalf!NoMoreEntries
      BY <2>1, <3>5, BehalfNoMoreEntries
    <3>6. CASE Behalf!CloseBlind
      BY <2>1, <3>6, BehalfClose DEF Behalf!CloseBlind
    <3>7. CASE Behalf!EndCursor
      <4>1. PICK next : Behalf!Close(next) /\ next = IF source.exhausted THEN source.at ELSE Behalf!JournalTail
        BY <3>7 DEF Behalf!EndCursor
      <4>2. Behalf!JournalTail = Len(journal) \/ Behalf!JournalTail = journal_cursor
        BY DEF Behalf!JournalTail
      <4> QED
        BY <2>1, <4>1, <4>2, BehalfClose
    <3>8. CASE Behalf!Access \/ \E d \in Drives, w \in Behalf!Writers, b \in 1..MaxCharge : Behalf!Charge(d, w, b)
      BY <3>2, <3>8 DEF Behalf!Access, Behalf!Charge, Behalf!history
    <3>9. CASE \E d \in Drives, w \in Behalf!Writers : Behalf!Settle(d, w)
      BY <3>2, <3>9 DEF Behalf!Settle
    <3> QED
      BY <2>1, <3>1, <3>3, <3>4, <3>5, <3>6, <3>7, <3>8, <3>9 DEF Behalf!Next
  <2> QED
    BY <2>2 DEF BehalfInv
<1> QED
  BY <1>1, <1>2 DEF partsVars

(* However many entries are appended while an interval is read, whatever   *)
(* access comes and goes, an entry of the journal is used in one interval  *)
(* at most, and one behind the cursor was used unless nothing was to be    *)
(* split or the journal could not be read (settle_on_behalf).              *)
THEOREM EntriesAreUsedOnce == Spec => []EntriesUsedOnce
<1>1. BehalfInv => EntriesUsedOnce
  <2> SUFFICES ASSUME BehalfTypes, Cursors PROVE Behalf!EntriesUsedOnce
    BY DEF BehalfInv, EntriesUsedOnce
  <2>1. DOMAIN journal = 1..Len(journal) /\ Len(journal) \in Nat /\ Len(journal) <= MaxEntries
    BY DEF BehalfTypes
  <2>2. \A k \in 1..Len(journal) : read[k] <= 1
    BY <2>1, MaxEntriesAssumption DEF BehalfTypes
  <2> QED
    BY <2>1, <2>2 DEF Behalf!EntriesUsedOnce, Cursors
<1> QED
  BY <1>1, BehalfInvInit, BehalfInvNext, PTL DEF Spec, partsVars

-----------------------------------------------------------------------------
(***************************************************************************)
(* UserWrites.                                                             *)
(***************************************************************************)

(* What the next read of /proc would credit a process.                     *)
Owed(p) ==
  IF p \in Writes!Collected THEN Writes!DeltaSince(prev_proc[p], Writes!Net(p)) ELSE 0
OwedAll == SumFunctionOnSet([p \in Pids |-> Owed(p)], Pids)

UserTypes ==
  /\ writes \in [Pids -> Nat \cup {NoProcess}] /\ cancelled \in [Pids -> Nat]
  /\ prev_proc \in [Pids -> Nat \cup {NoProcess}]
  /\ lump \in Nat /\ dirtied \in Nat /\ credited \in Nat
  /\ throughProc \in Nat /\ overlap \in Nat
  /\ delegated \in BOOLEAN /\ user_io_delegated \in BOOLEAN
  /\ user_io_delegated => delegated

(* Until the sampler knows of the delegation each view alone credits no    *)
(* more than was dirtied: /proc all that is credited and owed, the tree    *)
(* what was credited before its last read, and the lump since.  Afterwards *)
(* only the tree credits, and the overlap is what /proc was ahead.         *)
Books ==
  /\ ~user_io_delegated =>
       /\ credited + OwedAll <= dirtied
       /\ throughProc <= credited
       /\ credited - throughProc + lump <= dirtied
  /\ user_io_delegated => credited + lump <= dirtied + overlap

UserInv == part = "writes" => UserTypes /\ Books

OwedAreNumbers == (\A p \in Pids : Owed(p) \in Nat) /\ OwedAll \in Nat

LEMMA OwedNat == UserTypes => OwedAreNumbers
<1> SUFFICES ASSUME UserTypes PROVE OwedAreNumbers
  OBVIOUS
<1>1. ASSUME NEW p \in Pids PROVE Owed(p) \in Nat
  <2>1. prev_proc[p] \in Nat \cup {NoProcess} /\ writes[p] \in Nat \cup {NoProcess} /\ cancelled[p] \in Nat
    BY DEF UserTypes
  <2>2. p \in Writes!Collected => writes[p] \in Nat
    BY <2>1 DEF Writes!Collected, Writes!Running
  <2>3. p \in Writes!Collected => Writes!Net(p) \in Nat
    BY <2>1, <2>2 DEF Writes!Net
  <2> QED
    BY <2>1, <2>3, PidsAssumption DEF Owed, Writes!DeltaSince
<1>2. OwedAll \in Nat
  BY <1>1, PidsAssumption, SumNat DEF OwedAll
<1> QED
  BY <1>1, <1>2 DEF OwedAreNumbers

(* A sum over the pids of which one term grew by so much.                  *)
LEMMA SumMoves ==
  ASSUME NEW f, NEW g, NEW p \in Pids, NEW d \in Nat,
         \A q \in Pids : f[q] \in Nat /\ g[q] \in Nat,
         \A q \in Pids \ {p} : g[q] = f[q], g[p] <= f[p] + d
  PROVE  SumFunctionOnSet(g, Pids) <= SumFunctionOnSet(f, Pids) + d
<1>1. SumFunctionOnSet(g, Pids) = SumFunctionOnSet(f, Pids) + (g[p] - f[p])
  BY PidsAssumption, SumChange
<1>2. SumFunctionOnSet(f, Pids) \in Nat
  BY PidsAssumption, SumNat
<1> QED
  BY <1>1, <1>2

LEMMA NoMoreBeside ==
  ASSUME NEW a \in Int, NEW l \in Int, NEW m \in Int, NEW b \in Int, a + l <= b, m <= l
  PROVE  a + m <= b
  OBVIOUS

LEMMA OneMoreBeside ==
  ASSUME NEW a \in Int, NEW l \in Int, NEW m \in Int, NEW b \in Int, a + l <= b, m <= l + 1
  PROVE  a + m <= b + 1
  OBVIOUS

LEMMA OwedMoves ==
  ASSUME UserTypes, UserTypes', NEW p \in Pids, NEW d \in Nat,
         \A q \in Pids \ {p} :
           writes'[q] = writes[q] /\ cancelled'[q] = cancelled[q] /\ prev_proc'[q] = prev_proc[q],
         Owed(p)' <= Owed(p) + d
  PROVE  OwedAll' <= OwedAll + d
<1>1. \A q \in Pids \ {p} : Owed(q)' = Owed(q)
  BY DEF Owed, Writes!Collected, Writes!Running, Writes!Net
<1>2. \A q \in Pids : Owed(q) \in Nat /\ Owed(q)' \in Nat
  <2>1. OwedAreNumbers /\ OwedAreNumbers'
    BY OwedNat, PTL
  <2> QED
    BY <2>1 DEF OwedAreNumbers
<1> DEFINE f == [q \in Pids |-> Owed(q)]
           g == [q \in Pids |-> Owed(q)']
<1>3. \A q \in Pids : f[q] \in Nat /\ g[q] \in Nat
  BY <1>2
<1>4. (\A q \in Pids \ {p} : g[q] = f[q]) /\ g[p] <= f[p] + d
  BY <1>1
<1>5. OwedAll = SumFunctionOnSet(f, Pids) /\ OwedAll' = SumFunctionOnSet(g, Pids)
  BY DEF OwedAll
<1> HIDE DEF f, g
<1> QED
  BY <1>3, <1>4, <1>5, SumMoves

LEMMA UserInvInit == Writes!Init => UserTypes /\ Books
<1> SUFFICES ASSUME Writes!Init PROVE UserTypes /\ Books
  OBVIOUS
<1>1. UserTypes
  <2>1. /\ writes \in [Pids -> {NoProcess, 0, 1}] /\ cancelled = [p \in Pids |-> 0]
        /\ prev_proc = [p \in Pids |-> IF p \in Writes!Collected THEN Writes!Net(p) ELSE NoProcess]
        /\ delegated \in BOOLEAN /\ user_io_delegated = delegated
        /\ lump = 0 /\ dirtied = 0 /\ credited = 0 /\ throughProc = 0 /\ overlap = 0
    BY DEF Writes!Init
  <2>2. ASSUME NEW p \in Writes!Collected PROVE Writes!Net(p) \in Nat
    BY <2>1 DEF Writes!Collected, Writes!Running, Writes!Net
  <2>3. prev_proc \in [Pids -> Nat \cup {NoProcess}]
    BY <2>1, <2>2
  <2> QED
    BY <2>1, <2>3 DEF UserTypes
<1>2. ASSUME NEW p \in Pids PROVE Owed(p) = 0
  <2>1. prev_proc[p] = IF p \in Writes!Collected THEN Writes!Net(p) ELSE NoProcess
    BY DEF Writes!Init
  <2>2. p \in Writes!Collected => Writes!Net(p) \in Nat
    BY <1>1 DEF UserTypes, Writes!Collected, Writes!Running, Writes!Net
  <2> QED
    BY <2>1, <2>2, PidsAssumption DEF Owed, Writes!DeltaSince
<1>3. OwedAll = 0
  BY <1>2, PidsAssumption, SumZero DEF OwedAll
<1> QED
  BY <1>1, <1>3 DEF Books, Writes!Init

(* A byte is dirtied: at most it is owed, and it is in the lump.           *)
LEMMA UserDirty ==
  ASSUME UserTypes, Books, NEW p \in Pids, Writes!Dirty(p)
  PROVE  UserTypes' /\ Books'
<1>1. /\ writes[p] \in Nat /\ cancelled[p] \in Nat
      /\ writes' = [writes EXCEPT ![p] = writes[p] + 1]
      /\ dirtied' = dirtied + 1 /\ lump' = lump + 1
      /\ UNCHANGED <<cancelled, delegated, user_io_delegated, prev_proc, credited, throughProc, overlap>>
  BY DEF Writes!Dirty, Writes!Running, Writes!sampler, UserTypes
<1>2. UserTypes'
  BY <1>1 DEF UserTypes
<1>3. writes'[p] = writes[p] + 1 /\ prev_proc[p] \in Nat \cup {NoProcess}
  BY <1>1 DEF UserTypes
<1>4. Writes!Net(p)' \in {Writes!Net(p), Writes!Net(p) + 1} /\ Writes!Net(p) \in Nat
  BY <1>1, <1>3 DEF Writes!Net
<1>5. p \in Writes!Running /\ p \in Writes!Running'
  BY <1>1, <1>3, PidsAssumption DEF Writes!Running
<1>6. Owed(p)' <= Owed(p) + 1
  BY <1>1, <1>3, <1>4, <1>5, PidsAssumption DEF Owed, Writes!Collected, Writes!DeltaSince
<1>7. \A q \in Pids \ {p} : writes'[q] = writes[q] /\ cancelled'[q] = cancelled[q] /\ prev_proc'[q] = prev_proc[q]
  BY <1>1 DEF UserTypes
<1>8. OwedAll' <= OwedAll + 1
  BY <1>2, <1>6, <1>7, OwedMoves
<1>9. OwedAll \in Nat /\ OwedAll' \in Nat
  <2>1. OwedAreNumbers /\ OwedAreNumbers'
    BY <1>2, OwedNat, PTL
  <2> QED
    BY <2>1 DEF OwedAreNumbers
<1>10. Books'
  <2>1. CASE user_io_delegated
    BY <1>1, <2>1 DEF UserTypes, Books
  <2>2. CASE ~user_io_delegated
    <3>1. credited \in Nat /\ throughProc \in Nat /\ dirtied \in Nat /\ lump \in Nat
      BY DEF UserTypes
    <3>2. credited + OwedAll <= dirtied /\ throughProc <= credited /\ credited - throughProc + lump <= dirtied
      BY <2>2 DEF Books
    <3>3. credited + OwedAll' <= dirtied + 1
      <4>1. PICK a \in Nat, b \in Nat : a = OwedAll /\ b = OwedAll'
        BY <1>9
      <4>2. b <= a + 1 /\ credited + a <= dirtied
        BY <1>8, <3>2, <4>1
      <4>3. credited + b <= dirtied + 1
        BY <3>1, <4>2
      <4> QED
        BY <4>1, <4>3
    <3>4. credited - throughProc + (lump + 1) <= dirtied + 1
      BY <3>1, <3>2
    <3> QED
      BY <1>1, <2>2, <3>2, <3>3, <3>4 DEF Books
  <2> QED
    BY <2>1, <2>2
<1> QED
  BY <1>2, <1>10

(* A step after which a process is owed no more, and all else is as it was *)
(* but for a lump that is no larger.                                       *)
LEMMA UserOwedLess ==
  ASSUME UserTypes, Books, UserTypes', NEW p \in Pids,
         \A q \in Pids \ {p} :
           writes'[q] = writes[q] /\ cancelled'[q] = cancelled[q] /\ prev_proc'[q] = prev_proc[q],
         Owed(p)' <= Owed(p), lump' <= lump,
         UNCHANGED <<user_io_delegated, dirtied, credited, throughProc, overlap>>
  PROVE  Books'
<1>1. Owed(p) \in Nat /\ Owed(p)' \in Nat /\ OwedAll \in Nat /\ OwedAll' \in Nat
  <2>1. OwedAreNumbers /\ OwedAreNumbers'
    BY OwedNat, PTL
  <2> QED
    BY <2>1 DEF OwedAreNumbers
<1>2. Owed(p)' <= Owed(p) + 0
  BY <1>1
<1>3. OwedAll' <= OwedAll + 0
  BY <1>2, OwedMoves
<1>4. /\ lump \in Nat /\ lump' \in Nat /\ lump' <= lump
      /\ dirtied \in Nat /\ credited \in Nat /\ throughProc \in Nat /\ overlap \in Nat
  BY DEF UserTypes
<1>5. CASE user_io_delegated
  <2>1. credited + lump' <= dirtied + overlap
    <3>1. credited + lump <= dirtied + overlap /\ dirtied + overlap \in Int
      BY <1>4, <1>5 DEF Books
    <3> QED
      BY <1>4, <3>1, NoMoreBeside
  <2> QED
    BY <1>5, <2>1 DEF Books
<1>6. CASE ~user_io_delegated
  <2>1. credited + OwedAll <= dirtied /\ throughProc <= credited /\ credited - throughProc + lump <= dirtied
    BY <1>6 DEF Books
  <2>2. credited + OwedAll' <= dirtied
    BY <1>1, <1>3, <1>4, <2>1
  <2>3. credited - throughProc + lump' <= dirtied
    <3>1. PICK uncredited \in Int : uncredited = credited - throughProc
      BY <1>4
    <3>2. lump \in Int /\ lump' \in Int /\ dirtied \in Int /\ lump' <= lump
      BY <1>4
    <3>3. uncredited + lump <= dirtied
      BY <2>1, <3>1
    <3>4. uncredited + lump' <= dirtied
      BY <3>2, <3>3, NoMoreBeside
    <3> QED
      BY <3>1, <3>4
  <2> QED
    BY <1>6, <2>1, <2>2, <2>3 DEF Books
<1> QED
  BY <1>5, <1>6

LEMMA UserTruncate ==
  ASSUME UserTypes, Books, TruncatesSeen = FALSE, NEW p \in Pids, Writes!Truncate(p)
  PROVE  UserTypes' /\ Books'
<1>1. /\ writes[p] \in Nat /\ cancelled[p] \in Nat /\ cancelled[p] < writes[p] /\ lump > 0
      /\ prev_proc[p] # NoProcess => Writes!Net(p) > prev_proc[p]
      /\ cancelled' = [cancelled EXCEPT ![p] = cancelled[p] + 1]
      /\ lump' = lump - 1
      /\ UNCHANGED <<writes, delegated, user_io_delegated, prev_proc, dirtied, credited, throughProc, overlap>>
  BY DEF Writes!Truncate, Writes!Running, Writes!sampler, Writes!history, UserTypes
<1>2. UserTypes'
  BY <1>1 DEF UserTypes
<1>3. cancelled'[p] = cancelled[p] + 1 /\ prev_proc[p] \in Nat \cup {NoProcess}
  BY <1>1 DEF UserTypes
<1>4. Writes!Net(p)' = Writes!Net(p) - 1 /\ Writes!Net(p) \in Nat /\ Writes!Net(p)' \in Nat
  BY <1>1, <1>3 DEF Writes!Net
<1>5. p \in Writes!Running /\ p \in Writes!Running'
  BY <1>1, PidsAssumption DEF Writes!Running
<1>6. Owed(p)' <= Owed(p)
  BY <1>1, <1>3, <1>4, <1>5, PidsAssumption DEF Owed, Writes!Collected, Writes!DeltaSince
<1>7. \A q \in Pids \ {p} : writes'[q] = writes[q] /\ cancelled'[q] = cancelled[q] /\ prev_proc'[q] = prev_proc[q]
  BY <1>1 DEF UserTypes
<1>8. lump' <= lump
  BY <1>1 DEF UserTypes
<1>9. Books'
  BY <1>1, <1>2, <1>6, <1>7, <1>8, UserOwedLess
<1> QED
  BY <1>2, <1>9

(* A process that has gone, or has just begun, is owed nothing.            *)
LEMMA UserExitStart ==
  ASSUME UserTypes, Books, NEW p \in Pids, Writes!Exit(p) \/ Writes!Start(p)
  PROVE  UserTypes' /\ Books'
<1>1. /\ UNCHANGED <<lump, delegated, user_io_delegated, prev_proc, dirtied, credited, throughProc, overlap>>
      /\ \A q \in Pids \ {p} : writes'[q] = writes[q] /\ cancelled'[q] = cancelled[q]
  BY DEF Writes!Exit, Writes!Start, Writes!sampler, Writes!history, UserTypes
<1>2. /\ writes' \in [Pids -> Nat \cup {NoProcess}] /\ cancelled' \in [Pids -> Nat]
      /\ writes'[p] = NoProcess \/ writes'[p] = 0
  BY DEF Writes!Exit, Writes!Start, UserTypes
<1>3. UserTypes'
  BY <1>1, <1>2 DEF UserTypes
<1>4. p \notin Writes!Collected'
  <2>1. CASE writes'[p] = NoProcess
    BY <2>1 DEF Writes!Collected, Writes!Running
  <2>2. CASE writes'[p] = 0
    <3>1. cancelled'[p] \in Nat
      BY <1>2
    <3>2. Writes!Net(p)' = 0
      BY <2>2, <3>1 DEF Writes!Net
    <3> QED
      BY <3>2 DEF Writes!Collected
  <2> QED
    BY <1>2, <2>1, <2>2
<1>5. Owed(p)' = 0
  BY <1>4 DEF Owed
<1>6. Owed(p) \in Nat
  BY OwedNat DEF OwedAreNumbers
<1>7. Owed(p)' <= Owed(p) /\ lump' <= lump
  BY <1>1, <1>5, <1>6 DEF UserTypes
<1>8. Books'
  BY <1>1, <1>3, <1>7, UserOwedLess
<1> QED
  BY <1>3, <1>8

(* The tree is read: what /proc had credited by then is the overlap, and   *)
(* with the lump all that was dirtied.                                     *)
LEMMA UserReadTree ==
  ASSUME UserTypes, Books, Writes!ReadTree
  PROVE  UserTypes' /\ Books'
<1>1. /\ user_io_delegated' = delegated /\ throughProc' = 0 /\ lump' = 0
      /\ credited' = credited + (IF delegated THEN lump ELSE 0)
      /\ overlap' = IF delegated THEN overlap + throughProc ELSE overlap
      /\ UNCHANGED <<writes, cancelled, delegated, prev_proc, dirtied>>
  BY DEF Writes!ReadTree, Writes!FromTree, Writes!machine
<1>2. UserTypes'
  BY <1>1 DEF UserTypes
<1>3. OwedAll \in Nat /\ OwedAll' = OwedAll
  BY <1>1, OwedNat DEF OwedAreNumbers, OwedAll, Owed, Writes!Collected, Writes!Running, Writes!Net
<1>4. CASE delegated
  BY <1>1, <1>4 DEF UserTypes, Books
<1>5. CASE ~delegated
  BY <1>1, <1>3, <1>5 DEF UserTypes, Books
<1> QED
  BY <1>2, <1>4, <1>5

(* /proc is read: what a process was owed is credited, and it is owed      *)
(* nothing.                                                                *)
LEMMA UserReadProcs ==
  ASSUME UserTypes, Books, NEW known \in SUBSET Writes!Collected, Writes!ReadProcs(known)
  PROVE  UserTypes' /\ Books'
<1> DEFINE delta == [p \in known |-> Writes!DeltaSince(prev_proc[p], Writes!Net(p))]
           owed == [p \in Pids |-> Owed(p)]
           owed2 == [p \in Pids |-> Owed(p)']
           of == SumFunctionOnSet(delta, known)
<1>1. /\ user_io_delegated => known = {}
      /\ prev_proc' = [p \in Pids |-> IF p \in known THEN Writes!Net(p) ELSE prev_proc[p]]
      /\ credited' = credited + of /\ throughProc' = throughProc + of
      /\ UNCHANGED <<writes, cancelled, lump, delegated, user_io_delegated, dirtied, overlap>>
  <2>1. Writes!SumFunction(delta) = of
    BY DEF Writes!SumFunction, Writes!SumFunctionOnSet, Writes!FoldFunctionOnSet, Writes!MapThenFoldSet,
           SumFunctionOnSet, FoldFunctionOnSet, MapThenFoldSet
  <2>2. credited' = credited + Writes!SumFunction(delta) /\ throughProc' = throughProc + Writes!SumFunction(delta)
    BY DEF Writes!ReadProcs
  <2> HIDE DEF delta, of
  <2>3. credited' = credited + of /\ throughProc' = throughProc + of
    BY <2>1, <2>2
  <2> QED
    BY <2>3 DEF Writes!ReadProcs, Writes!machine
<1>2. /\ known \subseteq Pids /\ IsFiniteSet(known) /\ IsFiniteSet(Pids \ known)
      /\ Pids = known \cup (Pids \ known)
  BY PidsAssumption, FS_Subset DEF Writes!Collected, Writes!Running
<1>3. ASSUME NEW p \in known
      PROVE  Writes!Net(p) \in Nat /\ Writes!Net(p) > 0 /\ delta[p] = Owed(p)
  BY <1>2 DEF UserTypes, Writes!Collected, Writes!Running, Writes!Net, Owed
<1>4. \A p \in Pids : Owed(p) \in Nat
  BY OwedNat DEF OwedAreNumbers
<1>5. \A p \in known : delta[p] = owed[p] /\ owed[p] \in Nat
  BY <1>2, <1>3, <1>4
<1>6. \A p \in Pids \ known : Owed(p)' = Owed(p)
  BY <1>1 DEF Owed, Writes!Collected, Writes!Running, Writes!Net
<1>7. ASSUME NEW p \in known PROVE Owed(p)' = 0
  <2>1. prev_proc'[p] = Writes!Net(p) /\ Writes!Net(p)' = Writes!Net(p) /\ Writes!Net(p) \in Nat
    BY <1>1, <1>2, <1>3 DEF Writes!Net
  <2> QED
    BY <2>1, PidsAssumption DEF Owed, Writes!DeltaSince
<1>8. /\ \A p \in Pids : owed[p] \in Nat /\ owed2[p] \in Nat
      /\ \A p \in Pids \ known : owed2[p] = owed[p]
      /\ \A p \in known : owed2[p] = 0
  <2>1. \A p \in Pids : owed[p] = Owed(p) /\ owed2[p] = Owed(p)'
    OBVIOUS
  <2>2. \A p \in Pids : p \in known => Owed(p)' = 0
    BY <1>7
  <2> HIDE DEF owed, owed2
  <2>3. \A p \in Pids : owed[p] \in Nat
    BY <1>4, <2>1
  <2>4. \A p \in Pids : owed2[p] = IF p \in known THEN 0 ELSE owed[p]
    BY <1>6, <2>1, <2>2
  <2> QED
    BY <1>2, <2>3, <2>4
<1>9. OwedAll = SumFunctionOnSet(owed, Pids) /\ OwedAll' = SumFunctionOnSet(owed2, Pids)
  BY DEF OwedAll
<1> HIDE DEF delta, owed, owed2
<1>10. of = SumFunctionOnSet(owed, known) /\ of \in Nat
  BY <1>2, <1>5, SumSame, SumNat
<1>11. OwedAll = of + SumFunctionOnSet(owed, Pids \ known)
  BY <1>2, <1>8, <1>9, <1>10, SumSplit
<1>12. SumFunctionOnSet(owed2, known) = 0
  BY <1>2, <1>8, SumZero
<1>13. SumFunctionOnSet(owed2, Pids \ known) = SumFunctionOnSet(owed, Pids \ known)
  BY <1>2, <1>8, SumSame
<1>14. OwedAll' = SumFunctionOnSet(owed, Pids \ known) /\ SumFunctionOnSet(owed, Pids \ known) \in Nat
  <2>1. OwedAll' = SumFunctionOnSet(owed2, known) + SumFunctionOnSet(owed2, Pids \ known)
    BY <1>2, <1>8, <1>9, SumSplit
  <2>2. SumFunctionOnSet(owed, Pids \ known) \in Nat
    BY <1>2, <1>8, SumNat
  <2> QED
    BY <2>1, <2>2, <1>12, <1>13
<1>15. user_io_delegated => of = 0
  BY <1>1, <1>10, SumEmpty
<1> HIDE DEF of
<1>16. UserTypes'
  <2>1. prev_proc' \in [Pids -> Nat \cup {NoProcess}]
    BY <1>1, <1>3 DEF UserTypes
  <2> QED
    BY <1>1, <1>10, <2>1 DEF UserTypes
<1>17. Books'
  BY <1>1, <1>10, <1>11, <1>14, <1>15 DEF UserTypes, Books
<1> QED
  BY <1>16, <1>17

(* Only the baseline of what /proc does not list is dropped.               *)
LEMMA UserPrune ==
  ASSUME UserTypes, Books, Writes!Prune
  PROVE  UserTypes' /\ Books'
<1>1. /\ prev_proc' = [p \in Pids |-> IF p \in Writes!Collected THEN prev_proc[p] ELSE NoProcess]
      /\ UNCHANGED <<writes, cancelled, lump, delegated, user_io_delegated, dirtied, credited, throughProc, overlap>>
  BY DEF Writes!Prune, Writes!machine, Writes!history
<1>2. UserTypes'
  BY <1>1 DEF UserTypes
<1>3. \A p \in Pids : Owed(p)' = Owed(p)
  BY <1>1 DEF Owed, Writes!Collected, Writes!Running, Writes!Net
<1>4. OwedAll' = OwedAll
  BY <1>3 DEF OwedAll
<1>5. Books'
  BY <1>1, <1>4 DEF Books
<1> QED
  BY <1>2, <1>5

LEMMA UserStill ==
  ASSUME UserTypes, Books, UNCHANGED <<writes, cancelled, lump, delegated>> \/ Writes!Delegate,
         UNCHANGED <<user_io_delegated, prev_proc, dirtied, credited, throughProc, overlap>>
  PROVE  UserTypes' /\ Books'
<1>1. UNCHANGED <<writes, cancelled, lump>> /\ delegated' \in {delegated, TRUE}
  BY DEF Writes!Delegate
<1>2. OwedAll' = OwedAll
  BY <1>1 DEF OwedAll, Owed, Writes!Collected, Writes!Running, Writes!Net
<1> QED
  BY <1>1, <1>2 DEF UserTypes, Books

LEMMA UserNext ==
  ASSUME UserTypes, Books, TruncatesSeen = FALSE, Writes!Next
  PROVE  UserTypes' /\ Books'
<1>1. CASE \E p \in Pids : Writes!Dirty(p) \/ Writes!Truncate(p) \/ Writes!Exit(p) \/ Writes!Start(p)
  BY <1>1, UserDirty, UserTruncate, UserExitStart
<1>2. CASE Writes!Delegate
  BY <1>2, UserStill DEF Writes!Delegate, Writes!sampler, Writes!history
<1>3. CASE Writes!ReadTree
  BY <1>3, UserReadTree
<1>4. CASE Writes!TreeUnreadable
  BY <1>4, UserStill DEF Writes!TreeUnreadable, Writes!machine, Writes!history
<1>5. CASE \E known \in SUBSET Writes!Collected : Writes!ReadProcs(known)
  BY <1>5, UserReadProcs
<1>6. CASE Writes!Prune
  BY <1>6, UserPrune
<1> QED
  BY <1>1, <1>2, <1>3, <1>4, <1>5, <1>6 DEF Writes!Next

LEMMA UserInvNext ==
  ASSUME UserInv, TruncatesSeen = FALSE, [Next]_partsVars
  PROVE  UserInv'
<1>1. CASE UNCHANGED <<part, writesVars>>
  BY <1>1, UserStill DEF writesVars, UserInv
<1>2. CASE part = "writes" /\ Writes!Next /\ part' = part
  BY <1>2, UserNext DEF UserInv
<1> QED
  BY <1>1, <1>2 DEF Next, partsVars

(* Whatever programs exit, reuse a pid or cannot be read, their bytes are  *)
(* credited once; only what /proc had credited between two reads of the    *)
(* tree when delegation began counts a second time (record_cgroup_deltas,  *)
(* sample_procfs).  That a process truncates what /proc had counted is     *)
(* excluded: NothingCreditedTwice fails then, as UserWrites_truncated.cfg  *)
(* shows.                                                                  *)
THEOREM ProgramsAreCreditedOnce ==
  ASSUME TruncatesSeen = FALSE
  PROVE  Spec => []CreditedOnce
<1>1. Init => UserInv
  BY UserInvInit DEF Init, UserInv
<1>2. UserInv /\ [Next]_partsVars => UserInv'
  BY UserInvNext
<1>3. UserInv => CreditedOnce
  <2>1. UserTypes /\ Books => Writes!CreditedOnce
    BY OwedNat DEF OwedAreNumbers, UserTypes, Books, Writes!CreditedOnce
  <2> QED
    BY <2>1 DEF UserInv, CreditedOnce
<1> QED
  BY <1>1, <1>2, <1>3, PTL DEF Spec, partsVars

-----------------------------------------------------------------------------
(***************************************************************************)
(* SmartReader.                                                            *)
(***************************************************************************)
Records ==
  [usb_serial : Disks \cup {Nothing}, serial : Disks \cup {Nothing},
   status : {"ok", "asleep", "failed", "garbled"},
   figure : Figures \cup {Nothing}, last_ok : Nat]

(* A record names one disk at most, and its figure is what that disk       *)
(* answered in the run it is said to be of.                                *)
OfADisk(r, answers) ==
  \E d \in Disks :
    /\ r.serial \in {d, Nothing} /\ r.usb_serial \in {d, Nothing}
    /\ r.figure # Nothing => <<d, r.figure, r.last_ok>> \in answers

Sound(r, answers) == r = Nothing \/ (r \in Records /\ OfADisk(r, answers))

(* A figure said to be read is of the run that wrote it.                   *)
Snapshot(s, answers) ==
  /\ s \in [generated_at : Nat, drive : Records \cup {Nothing}]
  /\ Sound(s.drive, answers)
  /\ s.drive # Nothing /\ s.drive.status = "ok" => s.drive.last_ok = s.generated_at

SmartState ==
  /\ attached \in Disks \cup {Nothing} /\ smartNow \in Nat
  /\ run \in [at : Nat, previous : Records \cup {Nothing}]
  /\ Sound(run.previous, gave)
  /\ ini = Nothing \/ Snapshot(ini, gave)
  /\ phase \in {"write", "close", "rename"} => Snapshot(current, gave)
  /\ phase = "rename" => tmp = current

SmartInv == part = "smart" => SmartState

(* Answers are never taken back.                                           *)
LEMMA SoundStays ==
  ASSUME NEW r, NEW answers, NEW more, answers \subseteq more, Sound(r, answers)
  PROVE  Sound(r, more)
  BY DEF Sound, OfADisk

LEMMA SnapshotStays ==
  ASSUME NEW s, NEW answers, NEW more, answers \subseteq more, Snapshot(s, answers)
  PROVE  Snapshot(s, more)
  BY SoundStays DEF Snapshot

LEMMA NothingIsSound == \A answers : Sound(Nothing, answers)
  BY DEF Sound

LEMMA SmartInit == Smart!Init => SmartState
<1> SUFFICES ASSUME Smart!Init PROVE SmartState
  OBVIOUS
<1>1. attached \in Disks \cup {Nothing} /\ smartNow = 1 /\ phase = "idle" /\ ini = Nothing
  BY DEF Smart!Init
<1>2. run = [at |-> 0, previous |-> Nothing]
  BY DEF Smart!Init, Smart!Idle
<1>3. run.previous = Nothing /\ run \in [at : Nat, previous : Records \cup {Nothing}]
  BY <1>2
<1>4. Sound(run.previous, gave)
  BY <1>3, NothingIsSound
<1> QED
  BY <1>1, <1>3, <1>4 DEF SmartState

(* What is carried over from a record that matches is of the disk attached. *)
LEMMA CarriedIsTheDisks ==
  ASSUME NEW previous, NEW answers, Sound(previous, answers), NEW d \in Disks,
         NEW before, before = Smart!SnapshotMatch(previous, d), before # Nothing
  PROVE  /\ before \in Records
         /\ before.figure # Nothing => <<d, before.figure, before.last_ok>> \in answers
<1>1. before = previous /\ previous # Nothing /\ previous.usb_serial = d
  BY DEF Smart!SnapshotMatch, Smart!UsbSerial
<1>2. PICK e \in Disks :
        /\ before.usb_serial \in {e, Nothing}
        /\ before.figure # Nothing => <<e, before.figure, before.last_ok>> \in answers
  BY <1>1 DEF Sound, OfADisk
<1>3. e = d
  BY <1>1, <1>2, DisksAssumption
<1> QED
  BY <1>1, <1>2, <1>3 DEF Sound

LEMMA SmartReadDrive ==
  ASSUME SmartState, NEW reading0 \in Smart!Readings, Smart!ReadDrive(reading0)
  PROVE  SmartState'
<1> DEFINE d == attached
           at == run.at
           before == Smart!SnapshotMatch(run.previous, d)
           status == IF reading0.status = "ok" /\ Smart!FiguresRegress(reading0.figure, before)
                     THEN "garbled" ELSE reading0.status
           kept == IF status = "ok" THEN [last_ok |-> at, figure |-> reading0.figure]
                   ELSE Smart!Carried(status, before, at)
           new == Smart!RecordOf(d, reading0)
<1>1. /\ d \in Disks /\ at \in Nat /\ Sound(run.previous, gave)
      /\ phase' = "write" /\ UNCHANGED <<attached, smartNow, run, ini>>
      /\ current' = [generated_at |-> at, drive |-> new]
      /\ gave \subseteq gave'
      /\ reading0.status = "ok" => <<d, reading0.figure, at>> \in gave'
  BY DEF SmartState, Smart!ReadDrive, Smart!machine, Smart!files
<1>2. /\ reading0.status \in {"ok", "asleep", "failed", "garbled"}
      /\ reading0.figure \in Figures \cup {Nothing}
  BY DEF Smart!Readings
<1>3. status \in {"ok", "asleep", "failed", "garbled"} /\ (status = "ok" => reading0.status = "ok")
  BY <1>2
<1>4. /\ kept \in [last_ok : Nat, figure : Figures \cup {Nothing}]
      /\ kept.figure # Nothing => <<d, kept.figure, kept.last_ok>> \in gave'
      /\ status = "ok" => kept.last_ok = at
  <2>1. CASE status = "ok"
    <3>1. kept = [last_ok |-> at, figure |-> reading0.figure]
      BY <2>1
    <3> HIDE DEF kept, at, status, d
    <3> QED
      BY <1>1, <1>2, <1>3, <2>1, <3>1
  <2>2. CASE status # "ok"
    <3>1. kept = Smart!Carried(status, before, at)
      BY <2>2
    <3>2. CASE before = Nothing
      <4>1. kept = [last_ok |-> 0, figure |-> Nothing]
        BY <3>1, <3>2 DEF Smart!Carried
      <4> HIDE DEF kept
      <4> QED
        BY <2>2, <4>1
    <3>3. CASE before # Nothing
      <4>1. /\ before \in Records
            /\ before.figure # Nothing => <<d, before.figure, before.last_ok>> \in gave
        BY <1>1, <3>3, CarriedIsTheDisks
      <4>2. PICK figure : figure = IF status = "asleep" /\ before.last_ok # 0 THEN before.figure ELSE Nothing
        OBVIOUS
      <4>3. kept = [last_ok |-> before.last_ok, figure |-> figure]
        BY <3>1, <3>3, <4>2 DEF Smart!Carried
      <4> HIDE DEF kept, before, status, d
      <4>4. before.last_ok \in Nat /\ before.figure \in Figures \cup {Nothing}
        BY <4>1 DEF Records
      <4> QED
        BY <1>1, <2>2, <4>1, <4>2, <4>3, <4>4
    <3> QED
      BY <3>2, <3>3
  <2> QED
    BY <2>1, <2>2
<1>5. PICK usb, serial : usb = Smart!UsbSerial(d) /\ serial = IF reading0.status = "ok" THEN d ELSE usb
  OBVIOUS
<1>6. usb \in {d, Nothing} /\ serial \in {d, Nothing}
  BY <1>5 DEF Smart!UsbSerial
<1>7. new = [usb_serial |-> usb, serial |-> serial, status |-> status,
             figure |-> kept.figure, last_ok |-> kept.last_ok]
  BY <1>5 DEF Smart!RecordOf
<1> HIDE DEF d, at, before, status, kept, new
<1>8. /\ new \in Records
      /\ new.serial \in {d, Nothing} /\ new.usb_serial \in {d, Nothing}
      /\ new.figure # Nothing => <<d, new.figure, new.last_ok>> \in gave'
      /\ new.status = "ok" => new.last_ok = at
  BY <1>1, <1>3, <1>4, <1>6, <1>7 DEF Records
<1>9. Sound(new, gave')
  BY <1>1, <1>8 DEF Sound, OfADisk
<1>10. Snapshot(current, gave)'
  <2>1. current' \in [generated_at : Nat, drive : Records \cup {Nothing}]
    BY <1>1, <1>8
  <2>2. current'.drive = new /\ current'.generated_at = at
    BY <1>1
  <2> QED
    BY <1>8, <1>9, <2>1, <2>2 DEF Snapshot
<1>11. Sound(run.previous, gave)'
  BY <1>1, SoundStays
<1>12. ini' = Nothing \/ Snapshot(ini, gave)'
  BY <1>1, SnapshotStays DEF SmartState
<1> QED
  BY <1>1, <1>10, <1>11, <1>12 DEF SmartState

LEMMA SmartStart ==
  ASSUME SmartState, Smart!Start
  PROVE  SmartState'
<1>1. PICK previous : previous = IF ini = Nothing THEN Nothing ELSE ini.drive
  OBVIOUS
<1>2. previous \in Records \cup {Nothing} /\ Sound(previous, gave)
  <2>1. CASE ini = Nothing
    BY <1>1, <2>1, NothingIsSound
  <2>2. CASE ini # Nothing
    BY <1>1, <2>2 DEF SmartState, Snapshot
  <2> QED
    BY <2>1, <2>2
<1>3. /\ run' = [at |-> smartNow, previous |-> previous] /\ phase' = "read"
      /\ UNCHANGED <<attached, smartNow, ini, gave>>
  BY <1>1 DEF Smart!Start, Smart!machine, Smart!files
<1>4. run'.previous = previous /\ run' \in [at : Nat, previous : Records \cup {Nothing}]
  BY <1>2, <1>3 DEF SmartState
<1> QED
  BY <1>2, <1>3, <1>4 DEF SmartState

LEMMA SmartNoDrive ==
  ASSUME SmartState, Smart!NoDrive
  PROVE  SmartState'
<1>1. /\ current' = [generated_at |-> run.at, drive |-> Nothing] /\ phase' = "write"
      /\ UNCHANGED <<attached, smartNow, run, ini, gave>> /\ run.at \in Nat
  BY DEF Smart!NoDrive, Smart!machine, Smart!files, Smart!history, SmartState
<1>2. Snapshot(current, gave)'
  <2>1. current'.drive = Nothing /\ current' \in [generated_at : Nat, drive : Records \cup {Nothing}]
    BY <1>1
  <2>2. Sound(current.drive, gave)'
    BY <2>1, NothingIsSound
  <2> QED
    BY <2>1, <2>2 DEF Snapshot
<1> QED
  BY <1>1, <1>2 DEF SmartState

LEMMA SmartEnded ==
  ASSUME SmartState, Smart!Ended, UNCHANGED <<attached, smartNow, gave>>,
         ini' \in {ini, Nothing} \/ Snapshot(ini', gave)
  PROVE  SmartState'
<1>1. phase' = "idle" /\ run' = [at |-> 0, previous |-> Nothing]
  BY DEF Smart!Ended, Smart!Idle
<1>2. run'.previous = Nothing /\ run' \in [at : Nat, previous : Records \cup {Nothing}]
  BY <1>1
<1>3. Sound(run.previous, gave)'
  BY <1>2, NothingIsSound
<1>4. ini' = Nothing \/ Snapshot(ini, gave)'
  <2>1. gave \subseteq gave'
    OBVIOUS
  <2> QED
    BY <2>1 DEF SmartState
<1> QED
  BY <1>1, <1>2, <1>3, <1>4 DEF SmartState

LEMMA SmartNext ==
  ASSUME SmartState, Smart!Next
  PROVE  SmartState'
<1>1. CASE Smart!Clock \/ \E d \in Disks \cup {Nothing} : Smart!Swap(d)
  <2>1. /\ attached' \in Disks \cup {Nothing} /\ smartNow' \in Nat
        /\ UNCHANGED <<phase, run, current, tmp, ini, gave>>
    BY <1>1 DEF Smart!Clock, Smart!Swap, Smart!helper, Smart!files, Smart!history, SmartState
  <2> QED
    BY <2>1 DEF SmartState
<1>2. CASE Smart!Start
  BY <1>2, SmartStart
<1>3. CASE \E reading0 \in Smart!Readings : Smart!ReadDrive(reading0)
  BY <1>3, SmartReadDrive
<1>4. CASE Smart!NoDrive
  BY <1>4, SmartNoDrive
<1>5. CASE Smart!OpenFile
  BY <1>5 DEF Smart!OpenFile, Smart!machine, Smart!history, SmartState
<1>6. CASE Smart!CloseFile
  BY <1>6 DEF Smart!CloseFile, Smart!machine, Smart!history, SmartState
<1>7. CASE Smart!Rename
  BY <1>7, SmartEnded DEF Smart!Rename, Smart!machine, SmartState
<1>8. CASE Smart!WriteFails \/ Smart!Kill \/ Smart!Reboot
  BY <1>8, SmartEnded
     DEF Smart!WriteFails, Smart!Kill, Smart!Reboot, Smart!machine, Smart!files, Smart!history
<1> QED
  BY <1>1, <1>2, <1>3, <1>4, <1>5, <1>6, <1>7, <1>8 DEF Smart!Next

LEMMA SmartInvNext ==
  ASSUME SmartInv, [Next]_partsVars
  PROVE  SmartInv'
<1>1. CASE UNCHANGED <<part, smartVars>>
  BY <1>1 DEF smartVars, SmartInv, SmartState
<1>2. CASE part = "smart" /\ Smart!Next /\ part' = part
  BY <1>2, SmartNext DEF SmartInv
<1> QED
  BY <1>1, <1>2 DEF Next, partsVars

(* What is shown of a disk is what that disk answered in the run it is     *)
(* said to be of, and is said to be new only while it is; whatever disks   *)
(* share the kernel name, whenever they sleep or answer wrongly, and       *)
(* wherever the helper is killed (gsm_smart_run, write_snapshot,           *)
(* gsm_smart_file_find).                                                   *)
THEOREM FiguresAreTheDisks == Spec => []ShownIsTheDrives
<1>1. Init => SmartInv
  BY SmartInit DEF Init, SmartInv
<1>2. SmartInv /\ [Next]_partsVars => SmartInv'
  BY SmartInvNext
<1>3. SmartInv => ShownIsTheDrives
  <2> SUFFICES ASSUME SmartState, NEW d \in Disks, Smart!Shown(d)
               PROVE  /\ Smart!Entry(d) # Torn
                      /\ <<d, Smart!Entry(d).figure, Smart!Entry(d).last_ok>> \in gave
                      /\ Smart!Entry(d).status = "ok" =>
                           smartNow - Smart!Entry(d).last_ok <= MAX_AGE_SECONDS
    BY DEF SmartInv, ShownIsTheDrives, Smart!ShownIsTheDrives
  <2>1. PICK r : r = Smart!Entry(d)
    OBVIOUS
  <2>2. ini # Nothing /\ r # Nothing
    BY <2>1 DEF Smart!Shown, Smart!Entry
  <2>3. /\ ini.drive \in Records \cup {Nothing} /\ Sound(ini.drive, gave)
        /\ ini.drive # Nothing /\ ini.drive.status = "ok" => ini.drive.last_ok = ini.generated_at
    BY <2>2 DEF SmartState, Snapshot
  <2>4. ini.drive # Torn
    BY <2>1, <2>2, <2>3, DisksAssumption DEF Records, Smart!Entry
  <2>5. /\ r = ini.drive /\ smartNow - ini.generated_at <= MAX_AGE_SECONDS
        /\ d \in {r.serial, r.usb_serial}
    BY <2>1, <2>2, <2>4 DEF Smart!Entry, Smart!Fresh
  <2>6. r.figure # Nothing
    BY <2>1, <2>4, <2>5 DEF Smart!Shown
  <2>7. PICK e \in Disks : /\ r.serial \in {e, Nothing} /\ r.usb_serial \in {e, Nothing}
                           /\ <<e, r.figure, r.last_ok>> \in gave
    BY <2>2, <2>3, <2>5, <2>6 DEF Sound, OfADisk
  <2>8. e = d
    BY <2>5, <2>7, DisksAssumption
  <2> QED
    BY <2>1, <2>2, <2>3, <2>4, <2>5, <2>7, <2>8
<1> QED
  BY <1>1, <1>2, <1>3, PTL DEF Spec, partsVars

-----------------------------------------------------------------------------
(***************************************************************************)
(* RollUp.                                                                 *)
(***************************************************************************)
Multiple(m, w) == \E k \in Nat : m = k * w

LEMMA DivisionBounds ==
  ASSUME NEW t \in Nat, NEW w \in Nat \ {0}
  PROVE  t \div w \in Nat /\ (t \div w) * w <= t /\ t < (t \div w) * w + w
  OBVIOUS

LEMMA ProductOrder ==
  ASSUME NEW k \in Nat, NEW q \in Nat, NEW w \in Nat \ {0}, k * w < q * w + w
  PROVE  k * w <= q * w
<1>1. k <= q
  <2> SUFFICES ASSUME k > q PROVE FALSE
    OBVIOUS
  <2>1. k >= q + 1
    OBVIOUS
  <2>2. k * w >= (q + 1) * w
    BY <2>1
  <2>3. (q + 1) * w = q * w + w
    OBVIOUS
  <2> QED
    BY <2>2, <2>3
<1> QED
  BY <1>1

(* The bucket of a time is the last multiple of the width up to it.        *)
LEMMA BucketBelow ==
  ASSUME NEW t \in Nat, NEW w \in Nat \ {0}
  PROVE  Roll!Bucket(t, w) \in Nat /\ Roll!Bucket(t, w) <= t /\ Multiple(Roll!Bucket(t, w), w)
<1>1. PICK q \in Nat : q = t \div w /\ q * w <= t
  BY DivisionBounds
<1>2. q * w \in Nat
  OBVIOUS
<1> QED
  BY <1>1, <1>2 DEF Roll!Bucket, Multiple

LEMMA BucketLast ==
  ASSUME NEW t \in Nat, NEW w \in Nat \ {0}, NEW m, Multiple(m, w), m <= t
  PROVE  m <= Roll!Bucket(t, w)
<1>1. PICK q \in Nat : q = t \div w /\ t < q * w + w
  BY DivisionBounds
<1>2. PICK k \in Nat : m = k * w
  BY DEF Multiple
<1>3. k * w < q * w + w
  <2>1. k * w \in Nat /\ q * w + w \in Nat
    OBVIOUS
  <2> QED
    BY <1>1, <1>2, <2>1
<1>4. k * w <= q * w
  BY <1>3, ProductOrder
<1> QED
  BY <1>1, <1>2, <1>4 DEF Roll!Bucket

LEMMA BucketsInOrder ==
  ASSUME NEW s \in Nat, NEW t \in Nat, NEW w \in Nat \ {0}, Roll!Bucket(s, w) < Roll!Bucket(t, w)
  PROVE  s < t
<1> SUFFICES ASSUME t <= s PROVE FALSE
  OBVIOUS
<1>1. /\ Roll!Bucket(t, w) \in Nat /\ Roll!Bucket(t, w) <= t /\ Multiple(Roll!Bucket(t, w), w)
      /\ Roll!Bucket(s, w) \in Nat
  BY BucketBelow
<1>2. Roll!Bucket(t, w) <= s
  BY <1>1
<1>3. Roll!Bucket(t, w) <= Roll!Bucket(s, w)
  BY <1>1, <1>2, BucketLast
<1> QED
  BY <1>1, <1>3

(* A day is so many hours: the day of an hour's first second is the day of *)
(* its others.                                                             *)
LEMMA DaysAreHours == \A m : Multiple(m, DAY) => Multiple(m, HOUR)
<1>1. PICK n \in Nat : DAY = n * HOUR
  <2>1. PICK n : n = DAY \div HOUR
    OBVIOUS
  <2>2. n \in Nat /\ DAY = n * HOUR + (DAY % HOUR)
    BY <2>1, WidthsAssumption
  <2>3. n * HOUR \in Nat
    BY <2>2, WidthsAssumption
  <2> QED
    BY <2>2, <2>3, WidthsAssumption
<1>2. ASSUME NEW k \in Nat PROVE k * DAY = (k * n) * HOUR /\ k * n \in Nat
  BY <1>1, WidthsAssumption
<1> QED
  BY <1>2 DEF Multiple

LEMMA DayOfItsHour ==
  ASSUME NEW t \in Nat
  PROVE  Roll!Bucket(Roll!Bucket(t, HOUR), DAY) = Roll!Bucket(t, DAY)
<1>1. PICK h : h = Roll!Bucket(t, HOUR)
  OBVIOUS
<1>2. h \in Nat /\ h <= t
  BY <1>1, BucketBelow, WidthsAssumption
<1>3. PICK d : d = Roll!Bucket(t, DAY)
  OBVIOUS
<1>4. d \in Nat /\ d <= t /\ Multiple(d, DAY) /\ Multiple(d, HOUR)
  BY <1>3, BucketBelow, DaysAreHours, WidthsAssumption
<1>5. d <= h
  BY <1>1, <1>4, BucketLast, WidthsAssumption
<1>6. PICK e : e = Roll!Bucket(h, DAY)
  OBVIOUS
<1>7. d <= e
  BY <1>2, <1>4, <1>5, <1>6, BucketLast, WidthsAssumption
<1>8. e \in Nat /\ e <= h /\ Multiple(e, DAY)
  BY <1>2, <1>6, BucketBelow, WidthsAssumption
<1>9. e <= t
  BY <1>2, <1>8
<1>10. e <= d
  BY <1>3, <1>8, <1>9, BucketLast, WidthsAssumption
<1>11. d = e
  BY <1>4, <1>7, <1>8, <1>10
<1> QED
  BY <1>1, <1>3, <1>6, <1>11

(* A set of numbers below a bound has a largest one.                       *)
LEMMA MaxOfSome ==
  ASSUME NEW n \in Nat, NEW S \in SUBSET (0..n), S # {}
  PROVE  Roll!Max(S) \in S /\ \A x \in S : x <= Roll!Max(S)
<1> DEFINE Good == {T \in SUBSET S : T = {} \/ \E m \in T : \A x \in T : x <= m}
<1>1. IsFiniteSet(S)
  <2>1. IsFiniteSet(0..n)
    BY FS_Interval
  <2> QED
    BY <2>1, FS_Subset
<1>2. {} \in Good
  OBVIOUS
<1>3. ASSUME NEW T \in SUBSET S, T \in Good, NEW y \in S \ T PROVE T \cup {y} \in Good
  <2>1. CASE T = {}
    BY <2>1
  <2>2. CASE T # {}
    <3>1. PICK m \in T : \A x \in T : x <= m
      BY <1>3, <2>2
    <3>2. CASE y <= m
      BY <3>1, <3>2
    <3>3. CASE ~(y <= m)
      BY <3>1, <3>3
    <3> QED
      BY <3>2, <3>3
  <2> QED
    BY <2>1, <2>2
<1> HIDE DEF Good
<1>4. S \in Good
  BY <1>1, <1>2, <1>3, FiniteInduction
<1>5. \E m \in S : \A x \in S : x <= m
  BY <1>4 DEF Good
<1> QED
  BY <1>5 DEF Roll!Max

(* The rows of a table: times that are multiples of its width, figures     *)
(* that are no more than the drive's counter.                              *)
RowsTo(n) == [ts : Nat, bytes_written : 0..n]
InBuckets(P, w) == \A p \in P : Multiple(p.ts, w)

(* A coarser table is behind a finer one, and understates no more.         *)
Behind(P, Q) == \A p \in P, q \in Q : p.ts <= q.ts /\ p.bytes_written <= q.bytes_written
Rising(P) == \A p, q \in P : p.ts < q.ts => p.bytes_written <= q.bytes_written
Covers(p, t, w) == p.ts = Roll!Bucket(t.ts, w) /\ p.bytes_written >= t.bytes_written

(* A folded row is of one that was folded, in time and figure, and covers  *)
(* each of its bucket.                                                     *)
LEMMA FoldedRows ==
  ASSUME NEW n \in Nat, NEW w \in Nat \ {0}, NEW A \in SUBSET RowsTo(n)
  PROVE  /\ \A p \in Roll!Folded(A, w) :
              /\ p \in RowsTo(n)
              /\ \E t \in A : p.ts = Roll!Bucket(t.ts, w) /\ p.bytes_written = t.bytes_written
         /\ \A t \in A : \E p \in Roll!Folded(A, w) : Covers(p, t, w)
<1> DEFINE Same(b) == {r \in A : Roll!Bucket(r.ts, w) = b}
           Bytes(b) == {r.bytes_written : r \in Same(b)}
           Row(b) == [ts |-> b, bytes_written |-> Roll!Max(Bytes(b))]
           Buckets == {Roll!Bucket(r.ts, w) : r \in A}
<1>1. Roll!Folded(A, w) = {Row(b) : b \in Buckets}
  BY DEF Roll!Folded
<1>2. ASSUME NEW b \in Buckets
      PROVE  /\ Roll!Max(Bytes(b)) \in Bytes(b)
             /\ \A x \in Bytes(b) : x <= Roll!Max(Bytes(b))
  <2>1. Bytes(b) \in SUBSET (0..n) /\ Bytes(b) # {}
    BY DEF RowsTo
  <2> HIDE DEF Bytes
  <2> QED
    BY <2>1, MaxOfSome
<1>3. ASSUME NEW b \in Buckets
      PROVE  \E t \in A : b = Roll!Bucket(t.ts, w) /\ Roll!Max(Bytes(b)) = t.bytes_written
  BY <1>2
<1>4. ASSUME NEW b \in Buckets
      PROVE  b \in Nat /\ Roll!Max(Bytes(b)) \in 0..n
  <2>1. PICK t \in A : b = Roll!Bucket(t.ts, w) /\ Roll!Max(Bytes(b)) = t.bytes_written
    BY <1>3
  <2>2. t.ts \in Nat /\ t.bytes_written \in 0..n
    BY DEF RowsTo
  <2> QED
    BY <2>1, <2>2, BucketBelow
<1>5. ASSUME NEW t \in A
      PROVE  /\ Roll!Bucket(t.ts, w) \in Buckets
             /\ t.bytes_written <= Roll!Max(Bytes(Roll!Bucket(t.ts, w)))
  BY <1>2
<1>6. PICK max : max = [b \in Buckets |-> Roll!Max(Bytes(b))]
  OBVIOUS
<1>7. \A b \in Buckets :
        /\ max[b] = Roll!Max(Bytes(b)) /\ b \in Nat /\ max[b] \in 0..n
        /\ \E t \in A : b = Roll!Bucket(t.ts, w) /\ max[b] = t.bytes_written
  BY <1>3, <1>4, <1>6
<1>8. \A t \in A : Roll!Bucket(t.ts, w) \in Buckets /\ t.bytes_written <= max[Roll!Bucket(t.ts, w)]
  BY <1>5, <1>6
<1>9. Roll!Folded(A, w) = {[ts |-> b, bytes_written |-> max[b]] : b \in Buckets}
  BY <1>1, <1>7
<1> HIDE DEF Same, Bytes, Row, Buckets
<1>10. ASSUME NEW p \in Roll!Folded(A, w)
       PROVE  /\ p \in RowsTo(n)
              /\ \E t \in A : p.ts = Roll!Bucket(t.ts, w) /\ p.bytes_written = t.bytes_written
  <2>1. PICK b \in Buckets : p = [ts |-> b, bytes_written |-> max[b]]
    BY <1>9
  <2> QED
    BY <1>7, <2>1 DEF RowsTo
<1>11. ASSUME NEW t \in A
       PROVE  \E p \in Roll!Folded(A, w) : Covers(p, t, w)
  <2>1. PICK b \in Buckets : b = Roll!Bucket(t.ts, w) /\ t.bytes_written <= max[b]
    BY <1>8
  <2>2. PICK p \in Roll!Folded(A, w) : p = [ts |-> b, bytes_written |-> max[b]]
    BY <1>9
  <2>3. p.ts = b /\ p.bytes_written = max[b]
    BY <2>2
  <2>4. max[b] \in Nat /\ t.bytes_written \in Nat
    BY <1>7 DEF RowsTo
  <2> QED
    BY <2>1, <2>3, <2>4 DEF Covers
<1> QED
  BY <1>10, <1>11

(* One table's aged rows are folded into the next one's.                   *)
TwoTables(fine, coarse, n, w) ==
  /\ fine \in SUBSET RowsTo(n) /\ coarse \in SUBSET RowsTo(n)
  /\ InBuckets(coarse, w) /\ Behind(coarse, fine) /\ Rising(fine) /\ Rising(coarse)

(* Nothing is understated: a row that is replaced is covered by the one in *)
(* its place, because all that is folded now is later.                     *)
LEMMA FoldKeeps ==
  ASSUME NEW n \in Nat, NEW w \in Nat \ {0}, NEW fine, NEW coarse, NEW cutoff \in Nat,
         TwoTables(fine, coarse, n, w),
         NEW aged, aged = Roll!Aged(fine, cutoff),
         NEW after, after = Roll!Replace(coarse, Roll!Folded(aged, w))
  PROVE  /\ \A t \in fine : t \in fine \ aged \/ \E p \in after : Covers(p, t, w)
         /\ \A p \in coarse : \E q \in after : q.ts = p.ts /\ q.bytes_written >= p.bytes_written
<1>1. aged \in SUBSET RowsTo(n) /\ aged \subseteq fine
  BY DEF TwoTables, Roll!Aged
<1>2. PICK folded : folded = Roll!Folded(aged, w)
  OBVIOUS
<1>3. /\ \A p \in folded :
           /\ p \in RowsTo(n)
           /\ \E t \in aged : p.ts = Roll!Bucket(t.ts, w) /\ p.bytes_written = t.bytes_written
      /\ \A t \in aged : \E p \in folded : Covers(p, t, w)
  BY <1>1, <1>2, FoldedRows
<1>4. after = {r \in coarse : \A q \in folded : q.ts # r.ts} \cup folded
  BY <1>2 DEF Roll!Replace
<1>5. ASSUME NEW t \in fine
      PROVE  t \in fine \ aged \/ \E p \in after : Covers(p, t, w)
  BY <1>3, <1>4
<1>6. ASSUME NEW p \in coarse
      PROVE  \E q \in after : q.ts = p.ts /\ q.bytes_written >= p.bytes_written
  <2>1. CASE p \in after
    <3>1. p.bytes_written \in Nat
      BY DEF TwoTables, RowsTo
    <3> QED
      BY <2>1, <3>1
  <2>2. CASE p \notin after
    <3>1. PICK q \in folded : q.ts = p.ts
      BY <1>4, <2>2
    <3>2. PICK t \in aged : q.bytes_written = t.bytes_written
      BY <1>3
    <3>3. p.bytes_written <= t.bytes_written /\ p.bytes_written \in Nat /\ t.bytes_written \in Nat
      BY <1>1 DEF TwoTables, Behind, RowsTo
    <3> QED
      BY <1>4, <3>1, <3>2, <3>3
  <2> QED
    BY <2>1, <2>2
<1> QED
  BY <1>5, <1>6

(* The order of the two tables is kept.                                    *)
LEMMA FoldInOrder ==
  ASSUME NEW n \in Nat, NEW w \in Nat \ {0}, NEW fine, NEW coarse, NEW cutoff \in Nat,
         TwoTables(fine, coarse, n, w),
         NEW aged, aged = Roll!Aged(fine, cutoff),
         NEW after, after = Roll!Replace(coarse, Roll!Folded(aged, w))
  PROVE  TwoTables(fine \ aged, after, n, w)
<1>1. /\ aged \in SUBSET RowsTo(n) /\ aged \subseteq fine
      /\ \A t \in aged : t.ts < cutoff
      /\ \A t \in fine \ aged : ~(t.ts < cutoff)
  BY DEF TwoTables, Roll!Aged
<1>2. PICK folded : folded = Roll!Folded(aged, w)
  OBVIOUS
<1>3. \A p \in folded :
        /\ p \in RowsTo(n)
        /\ \E t \in aged : p.ts = Roll!Bucket(t.ts, w) /\ p.bytes_written = t.bytes_written
  BY <1>1, <1>2, FoldedRows
<1>4. after = {r \in coarse : \A q \in folded : q.ts # r.ts} \cup folded
  BY <1>2 DEF Roll!Replace
<1>5. \A p \in fine \cup coarse \cup folded : p.ts \in Nat /\ p.bytes_written \in Nat
  BY <1>3 DEF TwoTables, RowsTo
<1>6. ASSUME NEW p \in folded
      PROVE  \E t \in aged : /\ p.ts = Roll!Bucket(t.ts, w) /\ p.bytes_written = t.bytes_written
                             /\ p.ts <= t.ts /\ Multiple(p.ts, w) /\ t.ts \in Nat
  <2>1. PICK t \in aged : p.ts = Roll!Bucket(t.ts, w) /\ p.bytes_written = t.bytes_written
    BY <1>3
  <2>2. t.ts \in Nat
    BY <1>1, <1>5
  <2> QED
    BY <2>1, <2>2, BucketBelow
<1>7. after \in SUBSET RowsTo(n) /\ InBuckets(after, w)
  <2>1. \A p \in folded : p \in RowsTo(n) /\ Multiple(p.ts, w)
    BY <1>3, <1>6
  <2> QED
    BY <1>4, <2>1 DEF TwoTables, InBuckets
<1>8. Behind(after, fine \ aged)
  <2> SUFFICES ASSUME NEW p \in after, NEW q \in fine \ aged
               PROVE  p.ts <= q.ts /\ p.bytes_written <= q.bytes_written
    BY DEF Behind
  <2>1. CASE p \in coarse
    BY <2>1 DEF TwoTables, Behind
  <2>2. CASE p \in folded
    <3>1. PICK t \in aged : p.bytes_written = t.bytes_written /\ p.ts <= t.ts /\ t.ts \in Nat
      BY <1>6, <2>2
    <3>2. t.ts < q.ts
      BY <1>1, <1>5, <3>1
    <3>3. t.bytes_written <= q.bytes_written
      BY <1>1, <3>2 DEF TwoTables, Rising
    <3> QED
      BY <1>5, <2>2, <3>1, <3>2, <3>3
  <2> QED
    BY <1>4, <2>1, <2>2
<1>9. Rising(fine \ aged)
  BY DEF TwoTables, Rising
<1>10. Rising(after)
  <2> SUFFICES ASSUME NEW p \in after, NEW q \in after, p.ts < q.ts
               PROVE  p.bytes_written <= q.bytes_written
    BY DEF Rising
  <2>1. CASE p \in coarse /\ q \in coarse
    BY <2>1 DEF TwoTables, Rising
  <2>2. CASE p \in coarse /\ q \in folded
    <3>1. PICK t \in aged : q.bytes_written = t.bytes_written
      BY <1>6, <2>2
    <3> QED
      BY <1>1, <2>2, <3>1 DEF TwoTables, Behind
  <2>3. CASE p \in folded /\ q \in coarse
    <3>1. PICK t \in aged : p.ts = Roll!Bucket(t.ts, w) /\ t.ts \in Nat
      BY <1>6, <2>3
    <3>2. q.ts <= t.ts /\ Multiple(q.ts, w)
      BY <1>1, <2>3 DEF TwoTables, Behind, InBuckets
    <3>3. q.ts <= p.ts
      BY <3>1, <3>2, BucketLast
    <3> QED
      BY <1>5, <2>3, <3>3
  <2>4. CASE p \in folded /\ q \in folded
    <3>1. PICK t \in aged : p.ts = Roll!Bucket(t.ts, w) /\ p.bytes_written = t.bytes_written /\ t.ts \in Nat
      BY <1>6, <2>4
    <3>2. PICK u \in aged : q.ts = Roll!Bucket(u.ts, w) /\ q.bytes_written = u.bytes_written /\ u.ts \in Nat
      BY <1>6, <2>4
    <3>3. t.ts < u.ts
      BY <3>1, <3>2, BucketsInOrder
    <3> QED
      BY <1>1, <3>1, <3>2, <3>3 DEF TwoTables, Rising
  <2> QED
    BY <1>4, <2>1, <2>2, <2>3, <2>4
<1> QED
  BY <1>1, <1>7, <1>8, <1>9, <1>10 DEF TwoTables

(* What was behind both tables, in buckets of theirs, is behind them       *)
(* still; and so are they of what they were behind.                        *)
LEMMA FoldBetween ==
  ASSUME NEW n \in Nat, NEW w \in Nat \ {0}, NEW fine, NEW coarse, NEW cutoff \in Nat,
         TwoTables(fine, coarse, n, w),
         NEW aged, aged = Roll!Aged(fine, cutoff),
         NEW after, after = Roll!Replace(coarse, Roll!Folded(aged, w)),
         NEW other \in SUBSET RowsTo(n)
  PROVE  /\ Behind(other, fine) /\ Behind(other, coarse) /\ InBuckets(other, w) => Behind(other, after)
         /\ Behind(fine, other) /\ Behind(coarse, other) => Behind(after, other)
<1>1. aged \in SUBSET RowsTo(n) /\ aged \subseteq fine
  BY DEF TwoTables, Roll!Aged
<1>2. PICK folded : folded = Roll!Folded(aged, w)
  OBVIOUS
<1>3. \A p \in folded :
        \E t \in aged : p.ts = Roll!Bucket(t.ts, w) /\ p.bytes_written = t.bytes_written
  BY <1>1, <1>2, FoldedRows
<1>4. after \subseteq coarse \cup folded
  BY <1>2 DEF Roll!Replace
<1>5. \A p \in fine \cup other : p.ts \in Nat /\ p.bytes_written \in Nat
  BY DEF TwoTables, RowsTo
<1>6. ASSUME Behind(other, fine), InBuckets(other, w), NEW o \in other, NEW p \in folded
      PROVE  o.ts <= p.ts /\ o.bytes_written <= p.bytes_written
  <2>1. PICK t \in aged : p.ts = Roll!Bucket(t.ts, w) /\ p.bytes_written = t.bytes_written
    BY <1>3
  <2>2. o.ts <= t.ts /\ o.bytes_written <= t.bytes_written /\ Multiple(o.ts, w) /\ t.ts \in Nat
    BY <1>1, <1>5, <1>6 DEF Behind, InBuckets
  <2> QED
    BY <2>1, <2>2, BucketLast
<1>7. ASSUME Behind(fine, other), NEW o \in other, NEW p \in folded
      PROVE  p.ts <= o.ts /\ p.bytes_written <= o.bytes_written
  <2>1. PICK t \in aged : p.ts = Roll!Bucket(t.ts, w) /\ p.bytes_written = t.bytes_written
    BY <1>3
  <2>2. t.ts <= o.ts /\ t.bytes_written <= o.bytes_written /\ t.ts \in Nat /\ o.ts \in Nat
    BY <1>1, <1>5, <1>7 DEF Behind
  <2>3. p.ts <= t.ts /\ p.ts \in Nat
    BY <2>1, <2>2, BucketBelow
  <2> QED
    BY <2>1, <2>2, <2>3
<1> QED
  BY <1>4, <1>6, <1>7 DEF Behind

(* No reading is of the future, or says more than the counter.             *)
Present == {[ts |-> now, bytes_written |-> counter]}

(* Every reading is covered by a row of one table.                         *)
Covered(r, sample, hourly, daily) ==
  \/ r \in sample
  \/ \E p \in hourly : Covers(p, r, HOUR)
  \/ \E p \in daily : Covers(p, r, DAY)

RollState ==
  /\ now \in Nat /\ counter \in Nat
  /\ recorded \in SUBSET RowsTo(counter) /\ drive_sample \subseteq recorded
  /\ TwoTables(drive_sample, drive_hourly, counter, HOUR)
  /\ TwoTables(drive_hourly, drive_daily, counter, DAY)
  /\ Behind(drive_daily, drive_sample)
  /\ Behind(recorded, Present) /\ Behind(drive_hourly, Present) /\ Behind(drive_daily, Present)
  /\ \A r \in recorded : Covered(r, drive_sample, drive_hourly, drive_daily)

RollInv == part = "roll up" => RollState

LEMMA RollInit == Roll!Init => RollState
  BY DEF Roll!Init, RollState, TwoTables, Behind, Rising, InBuckets, RowsTo

LEMMA RollClock ==
  ASSUME RollState, Roll!Clock
  PROVE  RollState'
<1>1. now' = now + 1 /\ UNCHANGED <<counter, drive_sample, drive_hourly, drive_daily, recorded>>
  BY DEF Roll!Clock, Roll!tiers
<1>2. PICK n \in Nat, c \in Nat : n = now /\ c = counter
  BY DEF RollState
<1>3. ASSUME NEW P \in SUBSET RowsTo(c), Behind(P, Present)
      PROVE  Behind(P, Present')
  <2> SUFFICES ASSUME NEW p \in P PROVE p.ts <= n + 1 /\ p.bytes_written <= c
    BY <1>1, <1>2 DEF Behind, Present
  <2>1. p.ts <= n /\ p.bytes_written <= c
    BY <1>2, <1>3 DEF Behind, Present
  <2>2. p.ts \in Nat
    BY DEF RowsTo
  <2> QED
    BY <2>1, <2>2
<1>4. /\ recorded \in SUBSET RowsTo(c) /\ drive_hourly \in SUBSET RowsTo(c) /\ drive_daily \in SUBSET RowsTo(c)
      /\ Behind(recorded, Present) /\ Behind(drive_hourly, Present) /\ Behind(drive_daily, Present)
  BY <1>2 DEF RollState, TwoTables
<1>5. Behind(recorded, Present') /\ Behind(drive_hourly, Present') /\ Behind(drive_daily, Present')
  BY <1>3, <1>4
<1>6. (Behind(recorded, Present) /\ Behind(drive_hourly, Present) /\ Behind(drive_daily, Present))'
  BY <1>1, <1>5
<1>7. now' \in Nat
  BY <1>1 DEF RollState
<1> QED
  BY <1>1, <1>6, <1>7 DEF RollState

(* A reading is later and of no less wear than all rows there are.         *)
LEMMA RollRecord ==
  ASSUME RollState, NEW wrote \in {0, 1}, Roll!Record(wrote)
  PROVE  RollState'
<1>1. PICK c \in Nat, t \in Nat, n \in Nat : c = counter /\ t = now /\ n = counter + wrote
  BY DEF RollState
<1>2. PICK r : r = [ts |-> t, bytes_written |-> n]
  OBVIOUS
<1>3. r.ts = t /\ r.bytes_written = n /\ r \in RowsTo(n) /\ c <= n
  BY <1>1, <1>2 DEF RowsTo
<1>4. /\ counter' = n /\ now' = t /\ recorded' = recorded \cup {r}
      /\ drive_sample' = Roll!Replace(drive_sample, {r})
      /\ UNCHANGED <<drive_hourly, drive_daily>>
      /\ \A o \in recorded : o.ts # t
  BY <1>1, <1>2 DEF Roll!Record
<1>5. drive_sample' = drive_sample \cup {r}
  BY <1>3, <1>4 DEF RollState, Roll!Replace
<1>6. /\ recorded \in SUBSET RowsTo(c) /\ drive_sample \subseteq recorded
      /\ drive_sample \in SUBSET RowsTo(c) /\ drive_hourly \in SUBSET RowsTo(c) /\ drive_daily \in SUBSET RowsTo(c)
      /\ Behind(recorded, Present) /\ Behind(drive_hourly, Present) /\ Behind(drive_daily, Present)
  BY <1>1 DEF RollState, TwoTables
<1>7. RowsTo(c) \subseteq RowsTo(n)
  BY <1>3 DEF RowsTo
<1>8. ASSUME NEW P \in SUBSET RowsTo(c), Behind(P, Present)
      PROVE  Behind(P, {r})
  <2> SUFFICES ASSUME NEW p \in P PROVE p.ts <= r.ts /\ p.bytes_written <= r.bytes_written
    BY DEF Behind
  <2>1. p.ts <= t /\ p.bytes_written <= c
    BY <1>1, <1>8 DEF Behind, Present
  <2>2. p.ts \in Nat /\ p.bytes_written \in Nat
    BY DEF RowsTo
  <2> QED
    BY <1>3, <2>1, <2>2
<1>9. Behind(recorded, {r}) /\ Behind(drive_hourly, {r}) /\ Behind(drive_daily, {r})
  BY <1>6, <1>8
<1>10. Present' = {r}
  BY <1>2, <1>4 DEF Present
<1>11. Behind({r}, {r})
  BY <1>3 DEF Behind
<1>12. (Behind(recorded, Present) /\ Behind(drive_hourly, Present) /\ Behind(drive_daily, Present))'
  <2>1. Behind(recorded \cup {r}, {r})
    BY <1>9, <1>11 DEF Behind
  <2> QED
    BY <1>4, <1>9, <1>10, <2>1
<1>13. Rising(drive_sample \cup {r})
  <2> SUFFICES ASSUME NEW p \in drive_sample \cup {r}, NEW q \in drive_sample \cup {r}, p.ts < q.ts
               PROVE  p.bytes_written <= q.bytes_written
    BY DEF Rising
  <2>1. CASE p \in drive_sample /\ q \in drive_sample
    BY <2>1 DEF RollState, TwoTables, Rising
  <2>2. CASE q = r
    BY <1>6, <1>9, <1>11, <2>2 DEF Behind
  <2>3. CASE p = r /\ q \in drive_sample
    <3>1. q.ts <= r.ts /\ q.ts \in Nat
      BY <1>6, <1>9, <2>3 DEF Behind, RowsTo
    <3> QED
      BY <1>3, <2>3, <3>1
  <2> QED
    BY <2>1, <2>2, <2>3
<1>14. TwoTables(drive_sample \cup {r}, drive_hourly, n, HOUR) /\ TwoTables(drive_hourly, drive_daily, n, DAY)
  <2>1. /\ InBuckets(drive_hourly, HOUR) /\ Behind(drive_hourly, drive_sample) /\ Rising(drive_hourly)
        /\ InBuckets(drive_daily, DAY) /\ Behind(drive_daily, drive_hourly) /\ Rising(drive_daily)
    BY DEF RollState, TwoTables
  <2>2. Behind(drive_hourly, drive_sample \cup {r})
    BY <1>9, <2>1 DEF Behind
  <2> QED
    BY <1>3, <1>6, <1>7, <1>13, <2>1, <2>2 DEF TwoTables
<1>15. Behind(drive_daily, drive_sample \cup {r})
  BY <1>9 DEF RollState, Behind
<1>16. \A o \in recorded' : Covered(o, drive_sample, drive_hourly, drive_daily)'
  BY <1>4, <1>5 DEF RollState, Covered
<1> QED
  BY <1>1, <1>3, <1>4, <1>5, <1>6, <1>7, <1>12, <1>14, <1>15, <1>16 DEF RollState

LEMMA RollUpStep ==
  ASSUME RollState, Roll!RollUp
  PROVE  RollState'
<1>1. PICK n \in Nat, cut \in Nat, cut2 \in Nat :
        n = counter /\ cut = Roll!Before(RAW_RETENTION_SECS) /\ cut2 = Roll!Before(HOURLY_RETENTION_SECS)
  <2>1. now \in Nat /\ counter \in Nat /\ RAW_RETENTION_SECS \in Nat /\ HOURLY_RETENTION_SECS \in Nat
    BY WidthsAssumption DEF RollState
  <2>2. Roll!Before(RAW_RETENTION_SECS) \in Nat
    BY <2>1 DEF Roll!Before
  <2>3. Roll!Before(HOURLY_RETENTION_SECS) \in Nat
    BY <2>1 DEF Roll!Before
  <2> QED
    BY <2>1, <2>2, <2>3
<1>2. PICK sample, hourly0, daily0 : sample = drive_sample /\ hourly0 = drive_hourly /\ daily0 = drive_daily
  OBVIOUS
<1>3. PICK oldest : oldest = Roll!Aged(sample, cut)
  OBVIOUS
<1>4. PICK hourly : hourly = Roll!Replace(hourly0, Roll!Folded(oldest, HOUR))
  OBVIOUS
<1>5. PICK hours : hours = Roll!Aged(hourly, cut2)
  OBVIOUS
<1>6. PICK daily : daily = Roll!Replace(daily0, Roll!Folded(hours, DAY))
  OBVIOUS
<1>7. /\ drive_sample' = sample \ oldest /\ drive_hourly' = hourly \ hours /\ drive_daily' = daily
      /\ UNCHANGED <<now, counter, recorded>>
  BY <1>1, <1>2, <1>3, <1>4, <1>5, <1>6 DEF Roll!RollUp
<1>8. PICK present : present = Present
  OBVIOUS
<1>9. /\ HOUR \in Nat \ {0} /\ DAY \in Nat \ {0}
      /\ TwoTables(sample, hourly0, n, HOUR) /\ TwoTables(hourly0, daily0, n, DAY)
      /\ Behind(daily0, sample) /\ InBuckets(daily0, HOUR) /\ daily0 \in SUBSET RowsTo(n)
      /\ Behind(sample, present) /\ Behind(hourly0, present) /\ Behind(daily0, present)
      /\ present \in SUBSET RowsTo(n)
  <2>1. Behind(daily0, sample) /\ TwoTables(sample, hourly0, n, HOUR) /\ TwoTables(hourly0, daily0, n, DAY)
    BY <1>1, <1>2 DEF RollState
  <2>2. InBuckets(daily0, HOUR) /\ daily0 \in SUBSET RowsTo(n)
    BY <2>1, DaysAreHours DEF TwoTables, InBuckets
  <2>3. Behind(sample, present) /\ Behind(hourly0, present) /\ Behind(daily0, present)
    BY <1>2, <1>8 DEF RollState, Behind
  <2>4. present \in SUBSET RowsTo(n)
    BY <1>1, <1>8 DEF RollState, Present, RowsTo
  <2> QED
    BY <2>1, <2>2, <2>3, <2>4, WidthsAssumption
<1>10. TwoTables(sample \ oldest, hourly, n, HOUR)
  BY <1>3, <1>4, <1>9, FoldInOrder
<1>11. Behind(daily0, hourly) /\ Behind(hourly, present)
  BY <1>3, <1>4, <1>9, FoldBetween DEF TwoTables
<1>12. TwoTables(hourly, daily0, n, DAY)
  BY <1>9, <1>10, <1>11 DEF TwoTables
<1>13. TwoTables(hourly \ hours, daily, n, DAY)
  BY <1>5, <1>6, <1>9, <1>12, FoldInOrder
<1>14. Behind(daily, sample \ oldest)
  <2>1. Behind(hourly, sample \ oldest) /\ sample \ oldest \in SUBSET RowsTo(n)
    BY <1>10 DEF TwoTables
  <2>2. Behind(daily0, sample \ oldest)
    BY <1>9 DEF Behind
  <2> QED
    BY <1>5, <1>6, <1>9, <1>12, <2>1, <2>2, FoldBetween
<1>15. Behind(daily, present) /\ Behind(hourly \ hours, present)
  <2>1. Behind(daily, present)
    BY <1>5, <1>6, <1>9, <1>11, <1>12, FoldBetween
  <2> QED
    BY <1>11, <2>1 DEF Behind
<1>16. TwoTables(sample \ oldest, hourly \ hours, n, HOUR)
  BY <1>10 DEF TwoTables, InBuckets, Behind, Rising
<1>17. /\ \A t \in sample : t \in sample \ oldest \/ \E p \in hourly : Covers(p, t, HOUR)
       /\ \A p \in hourly0 : \E q \in hourly : q.ts = p.ts /\ q.bytes_written >= p.bytes_written
       /\ \A t \in hourly : t \in hourly \ hours \/ \E p \in daily : Covers(p, t, DAY)
       /\ \A p \in daily0 : \E q \in daily : q.ts = p.ts /\ q.bytes_written >= p.bytes_written
  BY <1>3, <1>4, <1>5, <1>6, <1>9, <1>12, FoldKeeps
<1>18. ASSUME NEW r \in recorded
       PROVE  Covered(r, sample \ oldest, hourly \ hours, daily)
  <2>1. Covered(r, sample, hourly0, daily0) /\ r.ts \in Nat /\ r.bytes_written \in Nat
    BY <1>2 DEF RollState, RowsTo
  <2>2. \A p \in hourly \cup daily \cup hourly0 \cup daily0 : p.ts \in Nat /\ p.bytes_written \in Nat
    BY <1>9, <1>10, <1>13 DEF TwoTables, RowsTo
  <2>3. ASSUME NEW p \in hourly, Covers(p, r, HOUR)
        PROVE  Covered(r, sample \ oldest, hourly \ hours, daily)
    <3>1. CASE p \in hourly \ hours
      BY <2>3, <3>1 DEF Covered
    <3>2. ASSUME NEW d \in daily, Covers(d, p, DAY) PROVE Covers(d, r, DAY)
      <4>1. d.ts = Roll!Bucket(r.ts, DAY)
        BY <2>1, <2>3, <3>2, DayOfItsHour DEF Covers
      <4>2. d.bytes_written >= r.bytes_written
        BY <2>1, <2>2, <2>3, <3>2 DEF Covers
      <4> QED
        BY <4>1, <4>2 DEF Covers
    <3> QED
      BY <1>17, <3>1, <3>2 DEF Covered
  <2>4. CASE r \in sample
    BY <1>17, <2>3, <2>4 DEF Covered
  <2>5. CASE \E p \in hourly0 : Covers(p, r, HOUR)
    <3>1. PICK p \in hourly0 : Covers(p, r, HOUR)
      BY <2>5
    <3>2. PICK q \in hourly : q.ts = p.ts /\ q.bytes_written >= p.bytes_written
      BY <1>17
    <3>3. Covers(q, r, HOUR)
      BY <2>1, <2>2, <3>1, <3>2 DEF Covers
    <3> QED
      BY <2>3, <3>3
  <2>6. CASE \E p \in daily0 : Covers(p, r, DAY)
    <3>1. PICK p \in daily0 : Covers(p, r, DAY)
      BY <2>6
    <3>2. PICK q \in daily : q.ts = p.ts /\ q.bytes_written >= p.bytes_written
      BY <1>17
    <3>3. Covers(q, r, DAY)
      BY <2>1, <2>2, <3>1, <3>2 DEF Covers
    <3> QED
      BY <3>3 DEF Covered
  <2> QED
    BY <2>1, <2>4, <2>5, <2>6 DEF Covered
<1>19. Behind(recorded, present) /\ recorded \in SUBSET RowsTo(n) /\ sample \ oldest \subseteq recorded
  BY <1>1, <1>2, <1>8 DEF RollState
<1>20. Present' = present /\ now' \in Nat /\ counter' = n /\ recorded' = recorded
  BY <1>1, <1>7, <1>8 DEF Present, RollState
<1>21. \A r \in recorded' : Covered(r, drive_sample, drive_hourly, drive_daily)'
  <2>1. \A r \in recorded : Covered(r, sample \ oldest, hourly \ hours, daily)
    BY <1>18
  <2> QED
    BY <1>7, <2>1 DEF Covered
<1>22. /\ TwoTables(drive_sample, drive_hourly, counter, HOUR)' /\ TwoTables(drive_hourly, drive_daily, counter, DAY)'
       /\ Behind(drive_daily, drive_sample)'
       /\ (Behind(recorded, Present) /\ Behind(drive_hourly, Present) /\ Behind(drive_daily, Present))'
  BY <1>7, <1>13, <1>14, <1>15, <1>16, <1>19, <1>20
<1> QED
  BY <1>7, <1>19, <1>20, <1>21, <1>22 DEF RollState

LEMMA RollNext ==
  ASSUME RollState, Roll!Next
  PROVE  RollState'
<1>1. CASE Roll!Clock
  BY <1>1, RollClock
<1>2. CASE \E wrote \in {0, 1} : Roll!Record(wrote)
  BY <1>2, RollRecord
<1>3. CASE Roll!RollUp
  BY <1>3, RollUpStep
<1>4. CASE Roll!RollUpFails \/ Roll!Restart
  <2>1. UNCHANGED <<now, counter, drive_sample, drive_hourly, drive_daily, recorded>>
    BY <1>4 DEF Roll!RollUpFails, Roll!Restart, Roll!tiers
  <2> QED
    BY <2>1 DEF RollState, Present, Covered
<1> QED
  BY <1>1, <1>2, <1>3, <1>4 DEF Roll!Next

LEMMA RollInvNext ==
  ASSUME RollInv, [Next]_partsVars
  PROVE  RollInv'
<1>1. CASE UNCHANGED <<part, rollVars>>
  BY <1>1 DEF rollVars, RollInv, RollState, Present, Covered
<1>2. CASE part = "roll up" /\ Roll!Next /\ part' = part
  BY <1>2, RollNext DEF RollInv
<1> QED
  BY <1>1, <1>2 DEF Next, partsVars

(* However often and with whatever cutoffs rows are rolled up, whichever   *)
(* rollups fail and whenever another process opens the file, every reading *)
(* has a row in the history that does not understate the wear it showed,   *)
(* and the curve never goes backwards (gsm_health_db_roll_up).             *)
THEOREM WearIsNeverUnderstated == Spec => []WearKept
<1>1. Init => RollInv
  BY RollInit DEF Init, RollInv
<1>2. RollInv /\ [Next]_partsVars => RollInv'
  BY RollInvNext
<1>3. RollInv => WearKept
  <2> SUFFICES ASSUME RollState PROVE Roll!WearKept
    BY DEF RollInv, WearKept
  <2>1. ASSUME NEW r \in recorded
        PROVE  \E p \in Roll!History : Roll!RowOf(r, p) /\ p.bytes_written >= r.bytes_written
    <3>1. Covered(r, drive_sample, drive_hourly, drive_daily) /\ r.bytes_written \in Nat
      BY DEF RollState, RowsTo
    <3> QED
      BY <3>1 DEF Covered, Covers, Roll!History, Roll!RowOf
  <2>2. \A p \in Roll!History : p.ts \in Nat /\ p.bytes_written \in Nat
    BY DEF RollState, TwoTables, RowsTo, Roll!History
  <2>3. /\ Rising(drive_sample) /\ Rising(drive_hourly) /\ Rising(drive_daily)
        /\ Behind(drive_hourly, drive_sample) /\ Behind(drive_daily, drive_hourly)
        /\ Behind(drive_daily, drive_sample)
    BY DEF RollState, TwoTables
  <2>4. ASSUME NEW p \in Roll!History, NEW q \in Roll!History, p.ts < q.ts
        PROVE  p.bytes_written <= q.bytes_written
    BY <2>2, <2>3, <2>4 DEF Rising, Behind, Roll!History
  <2> QED
    BY <2>1, <2>4 DEF Roll!WearKept
<1> QED
  BY <1>1, <1>2, <1>3, PTL DEF Spec, partsVars
-----------------------------------------------------------------------------
(***************************************************************************)
(* HealthDb, without deltas and clears.                                    *)
(***************************************************************************)
(* The handle is right about its transaction: a call that INSERTs is in    *)
(* one, and what the handle believes stored is in it or in the file.       *)
CacheInv ==
  part = "readings" =>
    /\ tx = sqlTx /\ sqlTx \in BOOLEAN
    /\ ui = "idle" /\ clears = 0
    /\ dbPhase # "idle" => sqlTx
    /\ ~sqlTx => \A e \in Readings!Cached : draft[e] = Nothing
    /\ Readings!CacheTruthful

LEMMA CacheInvInit == Init => CacheInv
<1> SUFFICES ASSUME Init, part = "readings" PROVE CacheInv
  BY DEF CacheInv
<1>1. Readings!Init
  BY DEF Init
<1>2. \A e \in Readings!Cached : cache[e] = Nothing /\ draft[e] = Nothing
  BY <1>1 DEF Readings!Init, Readings!Empty, Readings!Entries
<1> QED
  BY <1>1, <1>2 DEF CacheInv, Readings!Init, Readings!CacheTruthful

(* An INSERT inside a transaction.                                         *)
LEMMA StagedReading ==
  ASSUME NEW ins, NEW upd, sqlTx, Readings!Exec(ins, upd), NEW e \in Readings!Cached
  PROVE  /\ sqlTx' /\ dbTable' = dbTable
         /\ draft'[e] = IF e \in DOMAIN upd THEN upd[e] ELSE draft[e]
<1>1. Readings!Staged(ins, upd)
  BY DEF Readings!Exec, Readings!AutoCommitted, Readings!TimedOut, Readings!DiskFull
<1> QED
  BY <1>1 DEF Readings!Staged, Readings!Override, Readings!Entries

LEMMA CacheInvNext == CacheInv /\ [Next]_partsVars => CacheInv'
<1> SUFFICES ASSUME CacheInv, [Next]_partsVars, part' = "readings" PROVE CacheInv'
  BY DEF CacheInv
<1>1. CASE UNCHANGED partsVars
  BY <1>1 DEF partsVars, dbVars, CacheInv, Readings!CacheTruthful
<1>2. CASE part = "readings" /\ Readings!Next
  <2> USE <1>2
  <2>1. /\ tx = sqlTx /\ sqlTx \in BOOLEAN
        /\ ui = "idle" /\ clears = 0
        /\ dbPhase # "idle" => sqlTx
        /\ ~sqlTx => \A e \in Readings!Cached : draft[e] = Nothing
        /\ Readings!CacheTruthful
    BY DEF CacheInv
  <2>2. ASSUME UNCHANGED <<cache, draft, dbTable>> PROVE Readings!CacheTruthful'
    BY <2>1, <2>2 DEF Readings!CacheTruthful
  <2>3. ASSUME tx', sqlTx', ui' = ui, clears' = clears, UNCHANGED <<cache, draft, dbTable>>
        PROVE  CacheInv'
    BY <2>1, <2>2, <2>3 DEF CacheInv
  <2>4. ASSUME NEW readings, Readings!Call(readings) PROVE CacheInv'
    <3>1. tx' /\ sqlTx' /\ ui' = ui /\ clears' = clears /\ UNCHANGED <<cache, draft, dbTable>>
      BY <2>1, <2>4 DEF Readings!Call, Readings!begin, Readings!ghosts
    <3> QED
      BY <2>3, <3>1
  <2>5. ASSUME NEW r \in todo, Readings!WriteReading(r) PROVE CacheInv'
    <3>1. PICK new : /\ Readings!Exec({}, [e \in {r.entry} |-> new])
                     /\ cache' = [e \in Readings!Cached |-> IF e = r.entry THEN new ELSE cache[e]]
      BY <2>5 DEF Readings!WriteReading
    <3>2. sqlTx /\ tx' = tx /\ ui' = ui /\ clears' = clears
      BY <2>1, <2>5 DEF Readings!WriteReading, Readings!ghosts
    <3>3. sqlTx' /\ dbTable' = dbTable
      BY <3>1, <3>2, StagedReading DEF Readings!Cached
    <3>4. ASSUME NEW e \in Readings!Cached, cache'[e] # Nothing
          PROVE  IF draft'[e] # Nothing THEN draft'[e] = cache'[e] ELSE dbTable'[e] = cache'[e]
      <4>1. draft'[e] = IF e = r.entry THEN new ELSE draft[e]
        BY <3>1, <3>2, StagedReading
      <4>2. cache'[e] = IF e = r.entry THEN new ELSE cache[e]
        BY <3>1
      <4>3. cache[e] # Nothing =>
              IF draft[e] # Nothing THEN draft[e] = cache[e] ELSE dbTable[e] = cache[e]
        BY <2>1 DEF Readings!CacheTruthful
      <4> QED
        BY <3>3, <3>4, <4>1, <4>2, <4>3
    <3>5. Readings!CacheTruthful'
      BY <3>4 DEF Readings!CacheTruthful
    <3> QED
      BY <2>1, <3>2, <3>3, <3>5 DEF CacheInv
  <2>6. CASE Readings!StartFlush
    <3>1. tx' /\ sqlTx' /\ ui' = ui /\ clears' = clears /\ UNCHANGED <<cache, draft, dbTable>>
      BY <2>1, <2>6 DEF Readings!StartFlush, Readings!begin
    <3> QED
      BY <2>3, <3>1
  <2>7. ASSUME NEW ins, NEW upd, Readings!Exec(ins, upd), sqlTx, DOMAIN upd \cap Readings!Cached = {},
               UNCHANGED <<cache, tx, ui, clears>>
        PROVE  CacheInv'
    <3>1. \A e \in Readings!Cached : draft'[e] = draft[e] /\ sqlTx' /\ dbTable' = dbTable
      BY <2>7, StagedReading
    <3>2. sqlTx' /\ dbTable' = dbTable
      BY <3>1 DEF Readings!Cached
    <3>3. Readings!CacheTruthful'
      BY <2>1, <2>7, <3>1, <3>2 DEF Readings!CacheTruthful
    <3> QED
      BY <2>1, <2>7, <3>2, <3>3 DEF CacheInv
  <2>8. ASSUME NEW k, Readings!store_blame_row(k) PROVE CacheInv'
    <3>1. PICK ins : Readings!Exec(ins, Readings!NoUpdate)
      BY <2>8 DEF Readings!store_blame_row
    <3>2. sqlTx /\ UNCHANGED <<cache, tx, ui, clears>> /\ DOMAIN Readings!NoUpdate = {}
      BY <2>1, <2>8 DEF Readings!store_blame_row, Readings!ghosts, Readings!NoUpdate
    <3> QED
      BY <2>7, <3>1, <3>2
  <2>9. CASE Readings!WriteLastFlush
    <3>1. PICK new : Readings!Exec({}, [e \in {"last_flush"} |-> new])
      BY <2>9 DEF Readings!WriteLastFlush
    <3>2. sqlTx /\ UNCHANGED <<cache, tx, ui, clears>>
      BY <2>1, <2>9 DEF Readings!WriteLastFlush, Readings!ghosts
    <3>3. DOMAIN [e \in {"last_flush"} |-> new] \cap Readings!Cached = {}
      BY DEF Readings!Cached
    <3> QED
      BY <2>7, <3>1, <3>2, <3>3
  <2>10. CASE Readings!CommitSucceeds
    <3>1. /\ dbTable' = Readings!Merge(draft, dbTable)
          /\ tx' = FALSE /\ sqlTx' = FALSE /\ draft' = Readings!Empty
          /\ dbPhase' = "idle" /\ UNCHANGED <<cache, ui, clears>>
      BY <2>10 DEF Readings!CommitSucceeds, Readings!CloseTransaction, Readings!ghosts
    <3>2. ASSUME NEW e \in Readings!Cached
          PROVE  /\ draft'[e] = Nothing
                 /\ dbTable'[e] = IF draft[e] # Nothing THEN draft[e] ELSE dbTable[e]
      BY <3>1 DEF Readings!Empty, Readings!Merge, Readings!Entries
    <3>3. Readings!CacheTruthful'
      BY <2>1, <3>1, <3>2 DEF Readings!CacheTruthful
    <3> QED
      BY <2>1, <3>1, <3>2, <3>3 DEF CacheInv
  <2>11. ASSUME cache' = [e \in Readings!Cached |-> Nothing], Readings!CloseTransaction,
                dbPhase' = "idle", UNCHANGED <<ui, clears>>
         PROVE  CacheInv'
    <3>1. tx' = FALSE /\ sqlTx' = FALSE /\ \A e \in Readings!Cached : draft'[e] = Nothing
      BY <2>11 DEF Readings!CloseTransaction, Readings!Empty, Readings!Entries
    <3>2. Readings!CacheTruthful'
      BY <2>11 DEF Readings!CacheTruthful
    <3> QED
      BY <2>1, <2>11, <3>1, <3>2 DEF CacheInv
  <2>12. CASE Readings!CommitFails
    BY <2>11, <2>12 DEF Readings!CommitFails, Readings!ghosts
  <2>13. CASE Readings!Finalize \/ Readings!Crash
    BY <2>11, <2>13 DEF Readings!Finalize, Readings!Crash, Readings!ForgetMemory
  <2>14. ~Readings!StartClear
    BY <2>1 DEF Readings!StartClear
  <2>15. ~Readings!ClearStep
    BY <2>1 DEF Readings!ClearStep, Readings!DeleteFails, Readings!DeleteSamples, Readings!DeleteBlame,
                Readings!DeleteBattery, Readings!DeleteReadings, Readings!VacuumStarts,
                Readings!VacuumFails, Readings!VacuumEnds
  <2>16. CASE Readings!Clock
    <3>1. UNCHANGED <<cache, draft, dbTable, tx, sqlTx, ui, clears, dbPhase>>
      BY <2>16 DEF Readings!Clock, Readings!memory, Readings!db, Readings!ghosts
    <3> QED
      BY <2>1, <2>2, <3>1 DEF CacheInv
  <2>17. Readings!FlushStep => CacheInv'
    BY <2>8, <2>9, <2>10, <2>12 DEF Readings!FlushStep
  <2>18. ASSUME NEW v, NEW h, Readings!RecordDrive(v, h) PROVE CacheInv'
    BY <2>4, <2>18 DEF Readings!RecordDrive
  <2>19. ASSUME NEW v, Readings!RecordBattery(v) \/ Readings!SetMeta(v) PROVE CacheInv'
    BY <2>4, <2>19 DEF Readings!RecordBattery, Readings!SetMeta
  <2> QED
    BY <2>5, <2>6, <2>13, <2>14, <2>15, <2>16, <2>17, <2>18, <2>19 DEF Readings!Next
<1>3. CASE Next
  <2>1. UNCHANGED part
    BY <1>3, Zenon DEF Next
  <2>2. part = "readings"
    BY <2>1
  <2>3. ~ part = "writes" /\ ~ part = "roll up" /\ ~ part = "schema" /\ ~ part = "on behalf"
        /\ ~ part = "smart"
    BY <2>2
  <2>4. Readings!Next
    BY <1>3, <2>3, Zenon DEF Next
  <2> QED
    BY <1>2, <2>2, <2>4
<1> QED
  BY <1>1, <1>3

(* gsm_health_db_record_drive, record_battery: a reading that is skipped   *)
(* as unchanged is one the database has, in the file or in the transaction *)
(* that is open, for any readings, hours, commit failures and processes    *)
(* that end; as long as INSERTs are executed and the user clears nothing.  *)
THEOREM UnchangedReadingsAreStored == Spec => []CacheTruthful
<1>1. Init => CacheInv
  BY CacheInvInit
<1>2. CacheInv /\ [Next]_partsVars => CacheInv'
  BY CacheInvNext
<1>3. CacheInv => CacheTruthful
  BY DEF CacheInv, CacheTruthful
<1> QED
  BY <1>1, <1>2, <1>3, PTL DEF Spec, partsVars

-----------------------------------------------------------------------------
(***************************************************************************)
(* OnBehalf: what the rows of an interval come to.                         *)
(***************************************************************************)
(* The sums of the model are those SumTheorems is about.                   *)
LEMMA TotalIsSum ==
  ASSUME NEW w
  PROVE  Behalf!Total(w) = SumFunctionOnSet(w, DOMAIN w)
<1>1. Behalf!Total(w) = (CHOOSE g : Summing(w, DOMAIN w, g))[DOMAIN w]
  BY DEF Behalf!Total, Behalf!MapThenSumSet, Behalf!MapThenFoldSet, Summing, AnyOf
<1> QED
  BY <1>1, SumDef

SummingRows(S, g) ==
  g = [T \in SUBSET S |-> IF T = {} THEN 0 ELSE AnyOf(T).wbytes + g[T \ {AnyOf(T)}]]

LEMMA RowsTotal ==
  ASSUME NEW some, IsFiniteSet(some)
  PROVE  Behalf!Sum(some) = SumFunctionOnSet([r \in some |-> r.wbytes], some)
<1>1. PICK wb : wb = [r \in some |-> r.wbytes]
  OBVIOUS
<1>2. Behalf!Sum(some) = (CHOOSE g : SummingRows(some, g))[some]
  BY DEF Behalf!Sum, Behalf!MapThenSumSet, Behalf!MapThenFoldSet, SummingRows, AnyOf
<1>3. \A T \in SUBSET some : T # {} => AnyOf(T) \in some
  BY DEF AnyOf
<1>4. ASSUME NEW g PROVE SummingRows(some, g) <=> Summing(wb, some, g)
  <2>1. \A T \in SUBSET some : T # {} => wb[AnyOf(T)] = AnyOf(T).wbytes
    BY <1>1, <1>3
  <2> QED
    BY <2>1 DEF SummingRows, Summing
<1>5. PICK g : Summing(wb, some, g) /\ SumFunctionOnSet(wb, some) = g[some]
  BY SummingExists, SumDef
<1>6. PICK h : SummingRows(some, h) /\ Behalf!Sum(some) = h[some]
  <2>1. \E h : SummingRows(some, h)
    BY <1>4, <1>5
  <2>2. SummingRows(some, CHOOSE h : SummingRows(some, h))
    BY <2>1, Zenon
  <2> QED
    BY <1>2, <2>2
<1>7. Summing(wb, some, h)
  BY <1>4, <1>6
<1>8. g[some] = h[some]
  BY <1>5, <1>7, SummingUnique
<1> QED
  BY <1>1, <1>5, <1>6, <1>8

LEMMA RowsTotalOfBoth ==
  ASSUME NEW A, NEW B, IsFiniteSet(A), IsFiniteSet(B), A \cap B = {},
         \A r \in A \cup B : r.wbytes \in Nat
  PROVE  Behalf!Sum(A \cup B) = Behalf!Sum(A) + Behalf!Sum(B)
<1>1. PICK f : f = [r \in A |-> r.wbytes]
  OBVIOUS
<1>2. PICK g : g = [r \in B |-> r.wbytes]
  OBVIOUS
<1>3. PICK h : h = [r \in A \cup B |-> r.wbytes]
  OBVIOUS
<1>4. IsFiniteSet(A \cup B)
  BY FS_Union
<1>5. SumFunctionOnSet(h, A \cup B) = SumFunctionOnSet(h, A) + SumFunctionOnSet(h, B)
  BY <1>3, SumSplit
<1>6. SumFunctionOnSet(h, A) = SumFunctionOnSet(f, A)
  BY <1>1, <1>3, SumSame
<1>7. SumFunctionOnSet(h, B) = SumFunctionOnSet(g, B)
  BY <1>2, <1>3, SumSame
<1> QED
  BY <1>1, <1>2, <1>3, <1>4, <1>5, <1>6, <1>7, RowsTotal

LEMMA NoRowsNoBytes == Behalf!Sum({}) = 0
  BY RowsTotal, SumEmpty, FS_EmptySet

LEMMA OneRow ==
  ASSUME NEW r, r.wbytes \in Nat
  PROVE  Behalf!Sum({r}) = r.wbytes
<1>1. PICK f : f = [q \in {r} |-> q.wbytes]
  OBVIOUS
<1>2. IsFiniteSet({}) /\ IsFiniteSet({r}) /\ {} \cup {r} = {r}
  BY FS_EmptySet, FS_AddElement
<1>3. SumFunctionOnSet(f, {} \cup {r}) = f[r] + SumFunctionOnSet(f, {})
  BY <1>1, <1>2, SumInsert
<1> QED
  BY <1>1, <1>2, <1>3, RowsTotal, SumEmpty

LEMMA CardinalityIsCardinality == \A S : Behalf!Cardinality(S) = Cardinality(S)
  BY DEF Behalf!Cardinality, Cardinality

(* distribute: no share of no more than there is exceeds its weight.       *)
LEMMA Quotients ==
  ASSUME NEW t \in Nat, NEW w \in Nat, NEW s \in Nat, s > 0
  PROVE  /\ (t * w) \div s \in Nat
         /\ t = s => (t * w) \div s = w
         /\ t < s /\ w > 0 => (t * w) \div s < w
         /\ t < s => (t * w) \div s <= w
<1>1. PICK x \in Nat : x = t * w
  OBVIOUS
<1>2. PICK q \in Int : q = x \div s
  OBVIOUS
<1>3. s * q <= x /\ x < s * (q + 1)
  BY <1>2
<1> QED
  BY <1>1, <1>2, <1>3

LEMMA SharesOfTotal ==
  ASSUME NEW D, IsFiniteSet(D), NEW weights \in [D -> Nat], NEW total \in Nat,
         Behalf!Total(weights) > 0, NEW shares \in Behalf!Distribute(total, weights)
  PROVE  /\ shares \in [D -> Nat]
         /\ Behalf!Total(shares) = total
         /\ total <= Behalf!Total(weights) => \A i \in D : shares[i] <= weights[i]
<1>1. PICK sum \in Nat : sum = Behalf!Total(weights) /\ sum = SumFunctionOnSet(weights, D) /\ sum > 0
  BY TotalIsSum, SumNat
<1>2. PICK floor : floor = [i \in D |-> (total * weights[i]) \div sum]
  OBVIOUS
<1>3. \A i \in D : floor[i] \in Nat
  BY <1>1, <1>2, Quotients
<1>4. PICK more \in SUBSET {i \in D : weights[i] # 0} :
        /\ Cardinality(more) = total - Behalf!Total(floor)
        /\ shares = [i \in D |-> floor[i] + IF i \in more THEN 1 ELSE 0]
  <2>1. DOMAIN weights = D /\ floor = [i \in DOMAIN weights |-> (total * weights[i]) \div Behalf!Total(weights)]
    BY <1>1, <1>2
  <2>2. PICK more \in Behalf!kSubset(total - Behalf!Total(floor), {i \in DOMAIN weights : weights[i] # 0}) :
          shares = [i \in DOMAIN weights |-> floor[i] + IF i \in more THEN 1 ELSE 0]
    BY <2>1, Zenon DEF Behalf!Distribute
  <2>3. Cardinality(more) = total - Behalf!Total(floor)
    BY <2>2, CardinalityIsCardinality DEF Behalf!kSubset
  <2> QED
    BY <2>1, <2>2, <2>3 DEF Behalf!kSubset
<1>5. PICK one : one = [i \in D |-> IF i \in more THEN 1 ELSE 0]
  OBVIOUS
<1>6. IsFiniteSet(more) /\ more \in SUBSET D
  BY <1>4, FS_Subset
<1>7. SumFunctionOnSet(one, more) = Cardinality(more)
  BY <1>5, <1>6, SumOnes
<1>8. SumFunctionOnSet(one, D) = SumFunctionOnSet(one, more)
  BY <1>5, <1>6, SumExtend
<1>9. /\ \A i \in D : shares[i] = floor[i] + one[i] /\ one[i] \in Int /\ floor[i] \in Int
      /\ shares \in [D -> Nat]
  BY <1>3, <1>4, <1>5
<1>10. SumFunctionOnSet(shares, D) = SumFunctionOnSet(floor, D) + SumFunctionOnSet(one, D)
  BY <1>9, SumOfSums
<1>11. Behalf!Total(floor) = SumFunctionOnSet(floor, D) /\ SumFunctionOnSet(floor, D) \in Nat
  BY <1>2, <1>3, TotalIsSum, SumNat
<1>12. Behalf!Total(shares) = total
  BY <1>4, <1>7, <1>8, <1>9, <1>10, <1>11, TotalIsSum
<1>13. ASSUME total = sum PROVE \A i \in D : shares[i] <= weights[i]
  <2>1. \A i \in D : floor[i] = weights[i]
    BY <1>1, <1>2, <1>13, Quotients
  <2>2. SumFunctionOnSet(floor, D) = SumFunctionOnSet(weights, D)
    BY <2>1, SumSame
  <2>3. Cardinality(more) = 0
    BY <1>1, <1>4, <1>11, <1>13, <2>2
  <2>4. more = {}
    BY <1>6, <2>3, FS_EmptySet
  <2> QED
    BY <1>4, <2>1, <2>4
<1>14. ASSUME total < sum PROVE \A i \in D : shares[i] <= weights[i]
  <2>1. \A i \in D : floor[i] <= weights[i] /\ (weights[i] # 0 => floor[i] < weights[i])
    BY <1>1, <1>2, <1>14, Quotients
  <2> QED
    BY <1>3, <1>4, <2>1
<1> QED
  BY <1>1, <1>9, <1>12, <1>13, <1>14

(* add_share: a row for each name, of its shares.                          *)
LEMMA RowsMade ==
  ASSUME NEW d, NEW w, NEW basis, NEW shares, NEW names
  PROVE  Behalf!RowsOf(d, w, basis, shares, names) =
           {[drive |-> d, via |-> w, basis |-> basis, name |-> n,
             wbytes |-> SumFunctionOnSet(shares, {i \in DOMAIN shares : names[i] = n})] :
              n \in {names[i] : i \in {j \in DOMAIN shares : shares[j] > 0}}}
  BY DEF Behalf!RowsOf, Behalf!MapThenSumSet, Behalf!MapThenFoldSet,
         SumFunctionOnSet, FoldFunctionOnSet, MapThenFoldSet

LEMMA RowsOfShares ==
  ASSUME NEW D, IsFiniteSet(D), NEW shares \in [D -> Nat],
         NEW d, NEW w, NEW basis, NEW names,
         NEW made, made = Behalf!RowsOf(d, w, basis, shares, names)
  PROVE  /\ IsFiniteSet(made)
         /\ \A r \in made :
              /\ r.drive = d /\ r.via = w /\ r.basis = basis /\ r.wbytes \in Nat
              /\ r.wbytes = SumFunctionOnSet(shares, {i \in D : names[i] = r.name})
         /\ Behalf!Sum(made) = Behalf!Total(shares)
<1> DEFINE Of(n) == SumFunctionOnSet(shares, {i \in D : names[i] = n})
           Row(n) == [drive |-> d, via |-> w, basis |-> basis, name |-> n, wbytes |-> Of(n)]
<1>1. PICK P \in SUBSET D : P = {j \in D : shares[j] > 0}
  OBVIOUS
<1>2. made = {Row(n) : n \in {names[i] : i \in P}}
  BY <1>1, RowsMade
<1>3. PICK rowOf : rowOf = [i \in P |-> Row(names[i])]
  BY Zenon
<1>4. made = {rowOf[i] : i \in P}
  <2> HIDE DEF Row
  <2> QED
    BY <1>2, <1>3
<1>5. IsFiniteSet(P)
  BY FS_Subset
<1>6. IsFiniteSet(made)
  BY <1>4, <1>5, ImageFinite
<1>7. \A n : Of(n) \in Nat
  <2> SUFFICES ASSUME NEW n PROVE Of(n) \in Nat
    OBVIOUS
  <2>1. PICK A \in SUBSET D : A = {i \in D : names[i] = n}
    OBVIOUS
  <2>2. SumFunctionOnSet(shares, A) \in Nat
    BY FS_Subset, SumNat
  <2> QED
    BY <2>1, <2>2
<1>8. \A r \in made : /\ r.drive = d /\ r.via = w /\ r.basis = basis /\ r.wbytes \in Nat
                      /\ r.wbytes = Of(r.name) /\ r = Row(r.name)
                      /\ \E i \in P : r.name = names[i]
  <2> HIDE DEF Of
  <2> QED
    BY <1>2, <1>7
<1>9. PICK sum, parts : /\ sum = [r \in made |-> r.wbytes]
                        /\ parts = [r \in made |-> {i \in D : names[i] = r.name}]
  OBVIOUS
<1>10. \A r, s \in made : r.name = s.name => r = s
  <2> HIDE DEF Row
  <2> QED
    BY <1>8
<1>11. \A r \in made : parts[r] \in SUBSET D /\ sum[r] = SumFunctionOnSet(shares, parts[r])
  BY <1>8, <1>9
<1>12. \A r, s \in made : r # s => parts[r] \cap parts[s] = {}
  BY <1>9, <1>10
<1>13. PICK N \in SUBSET D : N = {i \in D : \E r \in made : i \in parts[r]}
  OBVIOUS
<1>14. SumFunctionOnSet(sum, made) = SumFunctionOnSet(shares, N)
  <2>1. IsFiniteSet(N) /\ \A i \in N : shares[i] \in Int /\ \E r \in made : i \in parts[r]
    BY <1>13, FS_Subset
  <2>2. \A r \in made : parts[r] \in SUBSET N
    BY <1>11, <1>13
  <2> QED
    BY <1>6, <1>11, <1>12, <2>1, <2>2, SumOfParts
<1>15. \A i \in D \ N : shares[i] = 0
  <2>1. ASSUME NEW i \in P PROVE i \in N
    <3>1. Row(names[i]) \in made
      BY <1>2
    <3>2. PICK r \in made : r.name = names[i]
      BY <3>1
    <3>3. i \in parts[r]
      BY <1>9, <3>2
    <3> QED
      BY <1>13, <3>3
  <2> QED
    BY <1>1, <2>1
<1>16. SumFunctionOnSet(shares, D) = SumFunctionOnSet(shares, N)
  BY <1>15, SumExtend
<1>17. Behalf!Sum(made) = Behalf!Total(shares)
  BY <1>6, <1>9, <1>14, <1>16, RowsTotal, TotalIsSum
<1> QED
  BY <1>6, <1>8, <1>17

LEMMA Greatest ==
  ASSUME NEW S, IsFiniteSet(S), S # {}, S \subseteq Int
  PROVE  Behalf!Max(S) \in S /\ \A x \in S : Behalf!Max(S) >= x
<1> DEFINE Good == {T \in SUBSET S : T # {} => \E m \in T : \A x \in T : m >= x}
<1>1. {} \in Good
  OBVIOUS
<1>2. ASSUME NEW T \in SUBSET S, T \in Good, NEW y \in S \ T PROVE T \cup {y} \in Good
  <2>1. CASE T = {}
    BY <2>1
  <2>2. CASE T # {}
    <3>1. PICK m \in T : \A x \in T : m >= x
      BY <1>2, <2>2
    <3>2. PICK n \in T \cup {y} : n = IF y > m THEN y ELSE m
      BY <3>1
    <3>3. \A x \in T \cup {y} : n >= x
      BY <3>1, <3>2
    <3> QED
      BY <3>2, <3>3
  <2> QED
    BY <2>1, <2>2
<1> HIDE DEF Good
<1>3. S \in Good
  BY <1>1, <1>2, FiniteInduction
<1>4. \E m \in S : \A x \in S : m >= x
  BY <1>3 DEF Good
<1> QED
  BY <1>4, Zenon DEF Behalf!Max

LEMMA LineTypes ==
  ASSUME NEW line \in Lines
  PROVE  line.bytes \in Nat /\ (line.kind = "crash" => line.about \in Instances)
  BY ChargesAssumption DEF Lines, Behalf!Entries, Behalf!CrashRecord, Behalf!Resources, Behalf!Line

(* What the resource messages of a journal say of a crash, and of all the  *)
(* crashes of a program.                                                   *)
FigureIn(j, i) == Behalf!Max({0} \cup {j[k].bytes : k \in {k \in DOMAIN j : j[k].about = i}})
ClaimIn(j, n) == Behalf!Total([i \in {i \in Instances : CrasherOf[i] = n} |-> FigureIn(j, i)])

LEMMA FigureIs ==
  ASSUME NEW j \in Seq(Lines), NEW i
  PROVE  /\ FigureIn(j, i) \in {0} \cup {j[k].bytes : k \in {k \in DOMAIN j : j[k].about = i}}
         /\ FigureIn(j, i) \in Nat
         /\ \A k \in DOMAIN j : j[k].about = i => j[k].bytes <= FigureIn(j, i)
<1>1. PICK K \in SUBSET (DOMAIN j) : K = {k \in DOMAIN j : j[k].about = i}
  OBVIOUS
<1>2. PICK h : h = [k \in K |-> j[k].bytes]
  OBVIOUS
<1>3. PICK S : S = {0} \cup {j[k].bytes : k \in {k \in DOMAIN j : j[k].about = i}}
  OBVIOUS
<1>4. \A k \in DOMAIN j : j[k].bytes \in Nat
  BY LineTypes
<1>5. DOMAIN j = 1..Len(j) /\ Len(j) \in Nat
  OBVIOUS
<1>6. IsFiniteSet(K)
  <2>1. IsFiniteSet(DOMAIN j)
    BY <1>5, FS_Interval
  <2> QED
    BY <2>1, FS_Subset
<1>7. IsFiniteSet({h[k] : k \in K} \cup {0})
  <2>1. PICK H : H = {h[k] : k \in K}
    OBVIOUS
  <2>2. IsFiniteSet(H)
    BY <1>6, <2>1, ImageFinite
  <2>3. IsFiniteSet(H \cup {0})
    BY <2>2, FS_AddElement
  <2> QED
    BY <2>1, <2>3
<1>8. S = {h[k] : k \in K} \cup {0}
  BY <1>1, <1>2, <1>3
<1>9. S \subseteq Nat /\ S # {} /\ S \subseteq Int
  BY <1>3, <1>4
<1>10. FigureIn(j, i) = Behalf!Max(S)
  BY <1>3 DEF FigureIn
<1>11. FigureIn(j, i) \in S /\ \A x \in S : FigureIn(j, i) >= x
  BY <1>7, <1>8, <1>9, <1>10, Greatest
<1>12. \A k \in DOMAIN j : j[k].about = i => j[k].bytes <= FigureIn(j, i)
  <2> SUFFICES ASSUME NEW k \in DOMAIN j, j[k].about = i PROVE j[k].bytes <= FigureIn(j, i)
    OBVIOUS
  <2>1. j[k].bytes \in S
    BY <1>3
  <2> QED
    BY <1>4, <1>9, <1>11, <2>1
<1> QED
  BY <1>3, <1>9, <1>11, <1>12

LEMMA ClaimIs ==
  ASSUME NEW j \in Seq(Lines), NEW n
  PROVE  /\ ClaimIn(j, n) \in Nat
         /\ \A f : (\A i \in Instances : f[i] = FigureIn(j, i)) =>
                     ClaimIn(j, n) = SumFunctionOnSet(f, {i \in Instances : CrasherOf[i] = n})
<1>1. PICK I \in SUBSET Instances : I = {i \in Instances : CrasherOf[i] = n}
  OBVIOUS
<1>2. PICK figure : figure = [i \in I |-> FigureIn(j, i)]
  OBVIOUS
<1>3. IsFiniteSet(I)
  BY ChargesAssumption, FS_Subset
<1>4. \A i \in I : figure[i] \in Nat /\ figure[i] \in Int
  BY <1>2, FigureIs
<1>5. ClaimIn(j, n) = SumFunctionOnSet(figure, I)
  BY <1>1, <1>2, TotalIsSum DEF ClaimIn
<1>6. SumFunctionOnSet(figure, I) \in Nat
  BY <1>3, <1>4, SumNat
<1>7. ASSUME NEW f, \A i \in Instances : f[i] = FigureIn(j, i)
      PROVE  ClaimIn(j, n) = SumFunctionOnSet(f, I)
  <2>1. SumFunctionOnSet(figure, I) = SumFunctionOnSet(f, I)
    BY <1>2, <1>3, <1>4, <1>7, SumSame
  <2> QED
    BY <1>5, <2>1
<1> QED
  BY <1>1, <1>5, <1>6, <1>7

(* More is claimed as the journal grows, never less.                       *)
LEMMA ClaimsGrow ==
  ASSUME NEW j \in Seq(Lines), NEW line \in Lines, NEW n
  PROVE  ClaimIn(j, n) \in Nat /\ ClaimIn(j, n) <= ClaimIn(Append(j, line), n)
<1>1. PICK j2 : j2 = Append(j, line)
  OBVIOUS
<1>2. j2 \in Seq(Lines) /\ \A k \in DOMAIN j : k \in DOMAIN j2 /\ j2[k] = j[k]
  BY <1>1, AppendProperties
<1>3. ASSUME NEW i \in Instances PROVE FigureIn(j, i) <= FigureIn(j2, i)
  <2> USE <1>2
  <2>1. PICK x \in Nat : x = FigureIn(j, i)
    BY FigureIs
  <2>2. CASE x = 0
    BY <2>1, <2>2, FigureIs
  <2>3. CASE x # 0
    <3>1. PICK k \in DOMAIN j : j[k].about = i /\ x = j[k].bytes
      BY <2>1, <2>3, FigureIs
    <3>2. k \in DOMAIN j2 /\ j2[k].about = i /\ x = j2[k].bytes
      BY <1>2, <3>1
    <3> QED
      BY <2>1, <3>2, FigureIs
  <2> QED
    BY <2>2, <2>3
<1>4. PICK f : f = [i \in Instances |-> FigureIn(j, i)]
  OBVIOUS
<1>5. PICK g : g = [i \in Instances |-> FigureIn(j2, i)]
  OBVIOUS
<1>6. PICK I \in SUBSET Instances : I = {i \in Instances : CrasherOf[i] = n}
  OBVIOUS
<1>7. IsFiniteSet(I) /\ \A i \in I : f[i] \in Int /\ g[i] \in Int /\ f[i] <= g[i]
  BY <1>2, <1>3, <1>4, <1>5, <1>6, ChargesAssumption, FS_Subset, FigureIs
<1>8. SumFunctionOnSet(f, I) <= SumFunctionOnSet(g, I)
  BY <1>7, SumAtMost
<1> QED
  BY <1>1, <1>2, <1>4, <1>5, <1>6, <1>8, ClaimIs

(* Each crash has one record, and an instance of its own.                  *)
OneRecordEach(j) ==
  \A k, l \in DOMAIN j : j[k].kind = "crash" /\ j[l].kind = "crash" /\ j[k].about = j[l].about => k = l

LEMMA SharesWithinClaims ==
  ASSUME NEW j \in Seq(Lines), OneRecordEach(j),
         NEW crashes \in SUBSET (DOMAIN j), \A k \in crashes : j[k].kind = "crash",
         NEW shares \in [crashes -> Nat], \A k \in crashes : shares[k] <= FigureIn(j, j[k].about),
         NEW n
  PROVE  SumFunctionOnSet(shares, {k \in crashes : CrasherOf[j[k].about] = n}) <= ClaimIn(j, n)
<1>1. PICK S \in SUBSET crashes : S = {k \in crashes : CrasherOf[j[k].about] = n}
  OBVIOUS
<1>2. PICK I \in SUBSET Instances : I = {i \in Instances : CrasherOf[i] = n}
  OBVIOUS
<1>3. PICK figure : figure = [i \in Instances |-> FigureIn(j, i)]
  OBVIOUS
<1>4. PICK h : h = [k \in S |-> j[k].about]
  OBVIOUS
<1>5. IsFiniteSet(I) /\ IsFiniteSet(S)
  <2>1. DOMAIN j = 1..Len(j) /\ Len(j) \in Nat
    OBVIOUS
  <2>2. IsFiniteSet(DOMAIN j) /\ S \in SUBSET (DOMAIN j)
    BY <2>1, FS_Interval
  <2> QED
    BY <2>2, ChargesAssumption, FS_Subset
<1>6. \A k \in S : h[k] \in I /\ shares[k] \in Int /\ shares[k] <= figure[h[k]]
  BY <1>1, <1>2, <1>3, <1>4, LineTypes
<1>7. \A i \in I : figure[i] \in Nat
  BY <1>2, <1>3, FigureIs
<1>8. \A k, l \in S : h[k] = h[l] => k = l
  BY <1>1, <1>4 DEF OneRecordEach
<1>9. SumFunctionOnSet(shares, S) <= SumFunctionOnSet(figure, I)
  BY <1>5, <1>6, <1>7, <1>8, SumMatched
<1> QED
  BY <1>1, <1>2, <1>3, <1>9, ClaimIs

(* split_coredump and split_journald: rows of this drive and writer that   *)
(* come to what was charged.                                               *)
Splits(new, d, w, charged) ==
  /\ IsFiniteSet(new)
  /\ \A r \in new : /\ r.drive = d /\ r.via = w /\ r.wbytes \in Nat
                    /\ r.basis = "exact" => r.wbytes <= ClaimIn(journal, r.name)
  /\ Behalf!Sum(new) = charged

LEMMA UnknownSplits ==
  ASSUME NEW d, NEW w, NEW basis, basis # "exact", NEW why, NEW charged \in Nat
  PROVE  Splits(Behalf!Unknown(d, w, basis, why, charged), d, w, charged)
<1>1. CASE charged = 0
  BY <1>1, FS_EmptySet, NoRowsNoBytes DEF Behalf!Unknown, Splits
<1>2. CASE charged # 0
  <2>1. PICK r : r = [drive |-> d, via |-> w, basis |-> basis, name |-> why, wbytes |-> charged]
    OBVIOUS
  <2>2. Behalf!Unknown(d, w, basis, why, charged) = {r} /\ r.wbytes = charged
    BY <1>2, <2>1 DEF Behalf!Unknown
  <2>3. IsFiniteSet({r}) /\ Behalf!Sum({r}) = charged
    BY <2>2, OneRow, FS_Singleton
  <2> QED
    BY <2>1, <2>2, <2>3 DEF Splits
<1> QED
  BY <1>1, <1>2

(* Rows of two bases, together.                                            *)
LEMMA BothSplit ==
  ASSUME NEW d, NEW w, NEW A, NEW B, NEW a \in Nat, NEW b \in Nat,
         Splits(A, d, w, a), Splits(B, d, w, b), \A r \in A, s \in B : r.basis # s.basis
  PROVE  Splits(A \cup B, d, w, a + b)
<1>1. A \cap B = {} /\ IsFiniteSet(A \cup B)
  BY FS_Union DEF Splits
<1>2. Behalf!Sum(A \cup B) = a + b
  BY <1>1, RowsTotalOfBoth DEF Splits
<1> QED
  BY <1>1, <1>2 DEF Splits

LEMMA SharesSplit ==
  ASSUME NEW d, NEW w, NEW basis, NEW D, IsFiniteSet(D), NEW shares \in [D -> Nat], NEW names,
         basis = "exact" =>
           \A n : SumFunctionOnSet(shares, {i \in D : names[i] = n}) <= ClaimIn(journal, n)
  PROVE  /\ Splits(Behalf!RowsOf(d, w, basis, shares, names), d, w, Behalf!Total(shares))
         /\ \A r \in Behalf!RowsOf(d, w, basis, shares, names) : r.basis = basis
<1>1. PICK made : made = Behalf!RowsOf(d, w, basis, shares, names)
  OBVIOUS
<1>2. /\ IsFiniteSet(made)
      /\ \A r \in made :
           /\ r.drive = d /\ r.via = w /\ r.basis = basis /\ r.wbytes \in Nat
           /\ r.wbytes = SumFunctionOnSet(shares, {i \in D : names[i] = r.name})
      /\ Behalf!Sum(made) = Behalf!Total(shares)
  BY <1>1, RowsOfShares
<1> QED
  BY <1>1, <1>2 DEF Splits

(* What split_coredump goes by, for the crashes of an interval.            *)
CoredumpFrom(iv, d, charged, new, crashes, crasher, exact, estimate, claimed) ==
  /\ crashes = Behalf!Crashes(iv)
  /\ crasher = [k \in crashes |-> CrasherOf[journal[k].about]]
  /\ exact = [k \in crashes |->
                IF Behalf!ExactOf(iv, k) # {} THEN Behalf!Max(Behalf!ExactOf(iv, k)) ELSE 0]
  /\ estimate = [k \in crashes |->
                   IF Behalf!ExactOf(iv, k) # {} THEN 0 ELSE Estimate[journal[k].about]]
  /\ claimed = Behalf!Total(exact)
  /\ IF claimed >= charged /\ claimed > 0
     THEN \E shares \in Behalf!Distribute(charged, exact) :
            new = Behalf!RowsOf(d, "coredump", "exact", shares, crasher)
     ELSE IF Behalf!Total(estimate) = 0
     THEN \E why : new = Behalf!RowsOf(d, "coredump", "exact", exact, crasher)
                           \cup Behalf!Unknown(d, "coredump", "proportional", why, charged - claimed)
     ELSE \E shares \in Behalf!Distribute(charged - claimed, estimate) :
            new = Behalf!RowsOf(d, "coredump", "exact", exact, crasher)
                    \cup Behalf!RowsOf(d, "coredump", "proportional", shares, crasher)

LEMMA CoredumpCases ==
  ASSUME NEW iv, NEW d, NEW charged, NEW new \in Behalf!SplitCoredump(iv, d, charged)
  PROVE  \E crashes, crasher, exact, estimate, claimed :
           CoredumpFrom(iv, d, charged, new, crashes, crasher, exact, estimate, claimed)
  BY Zenon DEF Behalf!SplitCoredump, CoredumpFrom

LEMMA CoredumpSplits ==
  ASSUME BehalfTypes, OneRecordEach(journal), NEW iv \in SUBSET (1..Len(journal)),
         NEW d, NEW charged \in Nat, charged > 0,
         NEW new \in Behalf!SplitCoredump(iv, d, charged)
  PROVE  Splits(new, d, "coredump", charged)
<1>1. journal \in Seq(Lines) /\ DOMAIN journal = 1..Len(journal) /\ Len(journal) \in Nat
  BY DEF BehalfTypes
<1>2. PICK crashes, crasher, exact, estimate, claimed :
        CoredumpFrom(iv, d, charged, new, crashes, crasher, exact, estimate, claimed)
  BY CoredumpCases
<1>3. /\ crashes \in SUBSET (DOMAIN journal)
      /\ IsFiniteSet(crashes) /\ \A k \in crashes : journal[k].kind = "crash"
  <2>1. IsFiniteSet(DOMAIN journal)
    BY <1>1, FS_Interval
  <2>2. crashes \in SUBSET (DOMAIN journal) /\ \A k \in crashes : journal[k].kind = "crash"
    BY <1>1, <1>2 DEF Behalf!Crashes, CoredumpFrom
  <2> QED
    BY <2>1, <2>2, FS_Subset
<1>8. ASSUME NEW k \in crashes PROVE exact[k] \in Nat /\ exact[k] <= FigureIn(journal, journal[k].about)
  <2>1. CASE Behalf!ExactOf(iv, k) = {}
    BY <1>1, <1>2, <2>1, FigureIs DEF CoredumpFrom
  <2>2. CASE Behalf!ExactOf(iv, k) # {}
    <3>1. PICK about : about = {e \in iv : journal[e].kind = "exact" /\ journal[e].about = journal[k].about}
      OBVIOUS
    <3>2. about # {} /\ Behalf!ExactOf(iv, k) = {journal[Behalf!Max(about)].bytes}
      BY <2>2, <3>1 DEF Behalf!ExactOf
    <3>3. about \in SUBSET (1..Len(journal)) /\ about \subseteq Int /\ IsFiniteSet(about)
      <4>1. IsFiniteSet(1..Len(journal))
        BY <1>1, FS_Interval
      <4>2. about \in SUBSET (1..Len(journal))
        BY <3>1
      <4>3. IsFiniteSet(about)
        BY <4>1, <4>2, FS_Subset
      <4>4. \A n \in 1..Len(journal) : n \in Int
        BY <1>1
      <4> QED
        BY <4>2, <4>3, <4>4
    <3>4. PICK e \in about : e = Behalf!Max(about)
      BY <3>2, <3>3, Greatest
    <3>5. e \in DOMAIN journal /\ journal[e].about = journal[k].about /\ journal[e].bytes \in Nat
      BY <1>1, <3>1, <3>3, LineTypes
    <3>6. Behalf!ExactOf(iv, k) = {journal[e].bytes}
      BY <3>2, <3>4
    <3>7. Behalf!Max({journal[e].bytes}) = journal[e].bytes
      <4>1. PICK b \in Nat : b = journal[e].bytes
        BY <3>5
      <4>2. IsFiniteSet({b})
        BY FS_Singleton
      <4>3. {b} # {} /\ {b} \subseteq Int
        OBVIOUS
      <4>4. Behalf!Max({b}) \in {b}
        BY <4>2, <4>3, Greatest
      <4> QED
        BY <4>1, <4>4
    <3>8. exact[k] = journal[e].bytes
      BY <1>2, <2>2, <3>6, <3>7 DEF CoredumpFrom
    <3> QED
      BY <1>1, <3>5, <3>8, FigureIs
  <2> QED
    BY <2>1, <2>2
<1>9. exact \in [crashes -> Nat] /\ estimate \in [crashes -> Nat]
  <2>1. \A k \in crashes : estimate[k] \in Nat
    BY <1>1, <1>2, <1>3, LineTypes, ChargesAssumption DEF CoredumpFrom
  <2> QED
    BY <1>2, <1>8, <2>1 DEF CoredumpFrom
<1>10. ASSUME NEW shares \in [crashes -> Nat], \A k \in crashes : shares[k] <= exact[k]
       PROVE  /\ Splits(Behalf!RowsOf(d, "coredump", "exact", shares, crasher), d, "coredump", Behalf!Total(shares))
              /\ \A r \in Behalf!RowsOf(d, "coredump", "exact", shares, crasher) : r.basis = "exact"
  <2>1. \A k \in crashes : shares[k] <= FigureIn(journal, journal[k].about)
    <3>1. \A k \in crashes : FigureIn(journal, journal[k].about) \in Nat
      BY <1>1, FigureIs
    <3> QED
      BY <1>8, <1>10, <3>1
  <2>2. ASSUME NEW n
        PROVE  SumFunctionOnSet(shares, {k \in crashes : crasher[k] = n}) <= ClaimIn(journal, n)
    <3>1. {k \in crashes : crasher[k] = n} = {k \in crashes : CrasherOf[journal[k].about] = n}
      BY <1>2 DEF CoredumpFrom
    <3> QED
      BY <1>1, <1>3, <2>1, <3>1, SharesWithinClaims
  <2>3. \A n : SumFunctionOnSet(shares, {k \in crashes : crasher[k] = n}) <= ClaimIn(journal, n)
    BY <2>2
  <2> QED
    BY <1>3, <2>3, SharesSplit
<1>11. PICK estimated \in Nat : estimated = Behalf!Total(estimate) /\ claimed \in Nat
  <2>1. SumFunctionOnSet(exact, crashes) \in Nat /\ SumFunctionOnSet(estimate, crashes) \in Nat
    BY <1>3, <1>9, SumNat
  <2> QED
    BY <1>2, <1>9, <2>1, TotalIsSum DEF CoredumpFrom
<1>13. CASE claimed >= charged /\ claimed > 0
  <2>1. PICK shares \in Behalf!Distribute(charged, exact) :
          new = Behalf!RowsOf(d, "coredump", "exact", shares, crasher)
    BY <1>2, <1>13 DEF CoredumpFrom
  <2>2. claimed = Behalf!Total(exact) /\ claimed > 0 /\ charged <= claimed
    BY <1>2, <1>11, <1>13 DEF CoredumpFrom
  <2>3. Behalf!Total(exact) > 0 /\ charged <= Behalf!Total(exact)
    BY <2>2
  <2>4. shares \in [crashes -> Nat] /\ Behalf!Total(shares) = charged /\ \A k \in crashes : shares[k] <= exact[k]
    BY <1>3, <1>9, <2>1, <2>3, SharesOfTotal
  <2> QED
    BY <1>10, <2>1, <2>4
<1>14. CASE ~(claimed >= charged /\ claimed > 0)
  <2>1. PICK rest \in Nat : rest = charged - claimed /\ claimed + rest = charged
    BY <1>11, <1>14
  <2>2. PICK A : A = Behalf!RowsOf(d, "coredump", "exact", exact, crasher)
    OBVIOUS
  <2>3. Splits(A, d, "coredump", claimed) /\ \A r \in A : r.basis = "exact"
    <3>1. \A k \in crashes : exact[k] <= exact[k]
      BY <1>8
    <3>2. /\ Splits(Behalf!RowsOf(d, "coredump", "exact", exact, crasher), d, "coredump", Behalf!Total(exact))
          /\ \A r \in Behalf!RowsOf(d, "coredump", "exact", exact, crasher) : r.basis = "exact"
      BY <1>9, <1>10, <3>1
    <3> QED
      BY <1>2, <2>2, <3>2 DEF CoredumpFrom
  <2>4. CASE estimated = 0
    <3>1. PICK why : new = A \cup Behalf!Unknown(d, "coredump", "proportional", why, rest)
      BY <1>2, <1>11, <1>14, <2>1, <2>2, <2>4 DEF CoredumpFrom
    <3>2. PICK B : B = Behalf!Unknown(d, "coredump", "proportional", why, rest)
      OBVIOUS
    <3>3. Splits(B, d, "coredump", rest)
      BY <3>2, UnknownSplits
    <3>4. \A r \in A, q \in B : r.basis # q.basis
      BY <2>3, <3>2 DEF Behalf!Unknown
    <3> QED
      <4>1. Splits(A \cup B, d, "coredump", claimed + rest)
        BY <1>11, <2>3, <3>3, <3>4, BothSplit
      <4> QED
        BY <2>1, <3>1, <3>2, <4>1
  <2>5. CASE estimated # 0
    <3>1. PICK shares \in Behalf!Distribute(rest, estimate) :
            new = A \cup Behalf!RowsOf(d, "coredump", "proportional", shares, crasher)
      BY <1>2, <1>11, <1>14, <2>1, <2>2, <2>5 DEF CoredumpFrom
    <3>2. shares \in [crashes -> Nat] /\ Behalf!Total(shares) = rest
      BY <1>3, <1>9, <1>11, <2>5, SharesOfTotal
    <3>3. PICK B : B = Behalf!RowsOf(d, "coredump", "proportional", shares, crasher)
      OBVIOUS
    <3>4. Splits(B, d, "coredump", rest) /\ \A r \in B : r.basis = "proportional"
      BY <1>3, <3>2, <3>3, SharesSplit
    <3>5. \A r \in A, q \in B : r.basis # q.basis
      BY <2>3, <3>4
    <3> QED
      <4>1. Splits(A \cup B, d, "coredump", claimed + rest)
        BY <1>11, <2>3, <3>4, <3>5, BothSplit
      <4> QED
        BY <2>1, <3>1, <3>3, <4>1
  <2> QED
    BY <2>4, <2>5
<1> QED
  BY <1>13, <1>14

LEMMA JournaldCases ==
  ASSUME NEW iv, NEW d, NEW charged, NEW new \in Behalf!SplitJournald(iv, d, charged)
  PROVE  \/ \E why : new = Behalf!Unknown(d, "journald", "lines", why, charged)
         \/ /\ iv # {}
            /\ \E counts, itself : /\ counts = Behalf!LineCounts(iv)
                                   /\ \E shares \in Behalf!Distribute(charged, counts) :
                                        new = Behalf!RowsOf(d, "journald", "lines", shares, itself)
  BY Zenon DEF Behalf!SplitJournald

(* The lines of an interval: so many for each name, and of some name one.  *)
LEMMA LinesCounted ==
  ASSUME NEW iv, IsFiniteSet(iv), iv # {}, NEW counts, counts = Behalf!LineCounts(iv)
  PROVE  \E names : IsFiniteSet(names) /\ counts \in [names -> Nat] /\ Behalf!Total(counts) > 0
<1>1. PICK line : line = [k \in iv |-> Behalf!LineOf(iv, k)]
  OBVIOUS
<1>2. PICK names : names = {line[k] : k \in iv}
  OBVIOUS
<1>3. IsFiniteSet(names)
  BY <1>2, ImageFinite
<1>4. counts = [n \in names |-> Cardinality({k \in iv : line[k] = n})]
  <2>1. names = {Behalf!LineOf(iv, k) : k \in iv}
    BY <1>1, <1>2
  <2>2. \A n : {k \in iv : Behalf!LineOf(iv, k) = n} = {k \in iv : line[k] = n}
    BY <1>1
  <2>3. counts = [n \in {Behalf!LineOf(iv, k) : k \in iv} |->
                    Behalf!Cardinality({k \in iv : Behalf!LineOf(iv, k) = n})]
    BY DEF Behalf!LineCounts
  <2>4. counts = [n \in names |-> Behalf!Cardinality({k \in iv : line[k] = n})]
    BY <2>1, <2>2, <2>3
  <2> QED
    BY <2>4, CardinalityIsCardinality
<1>5. ASSUME NEW n \in names PROVE counts[n] \in Nat /\ counts[n] > 0
  <2>1. PICK some \in SUBSET iv : some = {k \in iv : line[k] = n}
    OBVIOUS
  <2>2. IsFiniteSet(some)
    BY FS_Subset
  <2>3. some # {}
    BY <1>2, <2>1
  <2>4. Cardinality(some) \in Nat /\ Cardinality(some) # 0
    BY <2>2, <2>3, FS_CardinalityType, FS_EmptySet
  <2>5. counts[n] = Cardinality(some)
    BY <1>4, <2>1
  <2> QED
    BY <2>4, <2>5
<1>6. PICK n \in names : TRUE
  BY <1>2
<1>7. counts \in [names -> Nat]
  BY <1>4, <1>5
<1>8. SumFunctionOnSet(counts, names) > 0
  BY <1>3, <1>5, <1>6, SumPositive
<1>9. Behalf!Total(counts) = SumFunctionOnSet(counts, names)
  BY <1>3, <1>7, TotalIsSum
<1> QED
  BY <1>3, <1>7, <1>8, <1>9

LEMMA JournaldSplits ==
  ASSUME NEW iv, IsFiniteSet(iv), NEW d, NEW charged \in Nat,
         NEW new \in Behalf!SplitJournald(iv, d, charged)
  PROVE  Splits(new, d, "journald", charged)
<1>1. CASE \E why : new = Behalf!Unknown(d, "journald", "lines", why, charged)
  BY <1>1, UnknownSplits
<1>2. CASE /\ iv # {}
           /\ \E counts, itself : /\ counts = Behalf!LineCounts(iv)
                                  /\ \E shares \in Behalf!Distribute(charged, counts) :
                                       new = Behalf!RowsOf(d, "journald", "lines", shares, itself)
  <2>1. PICK counts, itself : /\ counts = Behalf!LineCounts(iv)
                              /\ \E shares \in Behalf!Distribute(charged, counts) :
                                   new = Behalf!RowsOf(d, "journald", "lines", shares, itself)
    BY <1>2
  <2>2. PICK names : IsFiniteSet(names) /\ counts \in [names -> Nat] /\ Behalf!Total(counts) > 0
    BY <1>2, <2>1, LinesCounted
  <2>3. PICK shares \in Behalf!Distribute(charged, counts) :
          new = Behalf!RowsOf(d, "journald", "lines", shares, itself)
    BY <2>1
  <2>4. shares \in [names -> Nat] /\ Behalf!Total(shares) = charged
    BY <2>2, SharesOfTotal
  <2> QED
    BY <2>2, <2>3, <2>4, SharesSplit
<1> QED
  BY <1>1, <1>2, JournaldCases

(* Whatever the journal said: by the phase and the writer.                 *)
LEMMA SplitCases ==
  ASSUME NEW d, NEW w, NEW charged, NEW new \in Behalf!SplitOf(d, w, charged)
  PROVE  \/ \E why : new = Behalf!Unknown(d, w, "default", why, charged)
         \/ /\ source.phase # "blind" /\ w = "coredump"
            /\ new \in Behalf!SplitCoredump(Behalf!Interval, d, charged)
         \/ /\ source.phase # "blind" /\ w # "coredump"
            /\ new \in Behalf!SplitJournald(Behalf!Interval, d, charged)
  BY Zenon DEF Behalf!SplitOf, Behalf!Phase

LEMMA IntervalRead ==
  ASSUME BehalfTypes, Cursors, source.phase = "split"
  PROVE  Behalf!Interval \in SUBSET (1..Len(journal)) /\ IsFiniteSet(Behalf!Interval)
<1>1. Len(journal) \in Nat
  BY DEF BehalfTypes
<1>2. Behalf!Interval \in SUBSET (1..Len(journal))
  <2>1. CASE journal_cursor = Nothing
    BY <2>1 DEF Behalf!Interval
  <2>2. CASE journal_cursor # Nothing
    <3>1. Behalf!Interval = journal_cursor + 1 .. source.at
      BY <2>2 DEF Behalf!Interval
    <3>2. PICK from, to \in Nat : from = journal_cursor /\ to = source.at /\ to <= Len(journal)
      BY <2>2 DEF BehalfTypes, Cursors
    <3> QED
      BY <1>1, <3>1, <3>2
  <2> QED
    BY <2>1, <2>2
<1>3. IsFiniteSet(1..Len(journal))
  BY <1>1, FS_Interval
<1> QED
  BY <1>2, <1>3, FS_Subset

LEMMA AnySplits ==
  ASSUME BehalfTypes, Cursors, OneRecordEach(journal), source.phase \in {"split", "blind"},
         NEW d, NEW w \in Behalf!Writers, NEW charged \in Nat, charged > 0,
         NEW new \in Behalf!SplitOf(d, w, charged)
  PROVE  Splits(new, d, w, charged)
<1>1. CASE \E why : new = Behalf!Unknown(d, w, "default", why, charged)
  <2>1. PICK why : new = Behalf!Unknown(d, w, "default", why, charged)
    BY <1>1
  <2> QED
    BY <2>1, UnknownSplits
<1>2. CASE source.phase # "blind" /\ w = "coredump"
           /\ new \in Behalf!SplitCoredump(Behalf!Interval, d, charged)
  <2>1. Behalf!Interval \in SUBSET (1..Len(journal))
    BY <1>2, IntervalRead
  <2>2. Splits(new, d, "coredump", charged)
    BY <1>2, <2>1, CoredumpSplits
  <2> QED
    BY <1>2, <2>2
<1>3. CASE source.phase # "blind" /\ w # "coredump"
           /\ new \in Behalf!SplitJournald(Behalf!Interval, d, charged)
  <2>1. w = "journald"
    BY <1>3 DEF Behalf!Writers
  <2>2. IsFiniteSet(Behalf!Interval)
    BY <1>3, IntervalRead
  <2>3. Splits(new, d, "journald", charged)
    BY <1>3, <2>2, JournaldSplits
  <2> QED
    BY <2>1, <2>3
<1> QED
  BY <1>1, <1>2, <1>3, SplitCases

(* While an interval is being closed, a charge either is still to be split *)
(* and has no rows yet, or has rows that come to it.                       *)
RowsFor(d, w) == {r \in rows : r.drive = d /\ r.via = w}
Charges == [Drives -> [Behalf!Writers -> Nat]]

SplitInv ==
  /\ charges \in Charges /\ split \in Charges
  /\ IsFiniteSet(rows) /\ \A r \in rows : r.wbytes \in Nat
  /\ \A r \in rows : r.basis = "exact" => r.wbytes <= ClaimIn(journal, r.name)
  /\ OneRecordEach(journal)
  /\ source.phase = "closed" => rows = {} /\ split = Behalf!NoCharges
  /\ source.phase # "closed" =>
       \A d \in Drives, w \in Behalf!Writers :
         IF charges[d][w] # 0 THEN RowsFor(d, w) = {} /\ charges[d][w] = split[d][w]
         ELSE Behalf!Sum(RowsFor(d, w)) = split[d][w]

RowsInv == part = "on behalf" => SplitInv

LEMMA NoChargesAreCharges ==
  Behalf!NoCharges \in Charges /\ \A d \in Drives, w \in Behalf!Writers : Behalf!NoCharges[d][w] = 0
  BY DEF Behalf!NoCharges, Charges

LEMMA SplitInit ==
  ASSUME Behalf!Init
  PROVE  SplitInv
<1>1. /\ journal \in {<<>>, <<Behalf!Line(Nothing)>>}
      /\ source = [phase |-> "closed", at |-> Nothing, exhausted |-> FALSE]
      /\ charges = Behalf!NoCharges /\ split = Behalf!NoCharges /\ rows = {}
  BY DEF Behalf!Init, Behalf!Closed
<1>2. OneRecordEach(journal)
  <2>1. \A k, l \in DOMAIN journal : k = l
    BY <1>1
  <2> QED
    BY <2>1 DEF OneRecordEach
<1>3. IsFiniteSet(rows) /\ source.phase = "closed"
  BY <1>1, FS_EmptySet
<1> QED
  BY <1>1, <1>2, <1>3, NoChargesAreCharges DEF SplitInv

(* A crash is recorded once; what was claimed before still is.             *)
LEMMA SplitAppend ==
  ASSUME BehalfTypes, SplitInv, NEW entry \in Behalf!Entries, Behalf!AppendEntry(entry)
  PROVE  SplitInv'
<1>1. /\ journal' = Append(journal, entry)
      /\ entry.kind = "crash" => \A k \in DOMAIN journal : journal[k] # entry
      /\ UNCHANGED <<charges, source, rows, split>>
  BY DEF Behalf!AppendEntry, Behalf!history
<1>2. journal \in Seq(Lines) /\ entry \in Lines
  BY DEF BehalfTypes, Lines
<1>3. \A r \in rows : r.basis = "exact" => r.wbytes <= ClaimIn(journal, r.name)'
  <2> SUFFICES ASSUME NEW r \in rows, r.basis = "exact" PROVE r.wbytes <= ClaimIn(journal', r.name)
    BY DEF ClaimIn, FigureIn
  <2>1. /\ ClaimIn(journal, r.name) \in Nat
        /\ ClaimIn(journal, r.name) <= ClaimIn(Append(journal, entry), r.name)
    BY <1>2, ClaimsGrow
  <2>2. ClaimIn(journal', r.name) \in Nat
    <3>1. PICK j \in Seq(Lines) : j = Append(journal, entry)
      BY <1>2, AppendProperties
    <3>2. ClaimIn(j, r.name) \in Nat
      BY <3>1, ClaimIs
    <3> QED
      BY <1>1, <3>1, <3>2
  <2>3. r.wbytes \in Nat /\ r.wbytes <= ClaimIn(journal, r.name)
    BY DEF SplitInv
  <2> QED
    BY <1>1, <2>1, <2>2, <2>3
<1>4. OneRecordEach(journal')
  <2>1. \A e \in Behalf!Entries \cup {Behalf!Line(Nothing)} :
          e.kind = "crash" => e = Behalf!CrashRecord(e.about)
    BY DEF Behalf!Entries, Behalf!CrashRecord, Behalf!Resources, Behalf!Line
  <2>2. \A k \in DOMAIN journal : journal[k] \in Lines
    BY <1>2
  <2>3. /\ DOMAIN journal' = 1..(Len(journal) + 1) /\ DOMAIN journal = 1..Len(journal) /\ Len(journal) \in Nat
        /\ \A k \in DOMAIN journal : journal'[k] = journal[k]
        /\ journal'[Len(journal) + 1] = entry
    BY <1>1, <1>2
  <2>4. ASSUME NEW k \in DOMAIN journal, journal[k].kind = "crash", entry.kind = "crash"
        PROVE  journal[k].about # entry.about
    BY <1>1, <2>1, <2>2, <2>4 DEF Lines
  <2>5. OneRecordEach(journal)
    BY DEF SplitInv
  <2> QED
    BY <2>3, <2>4, <2>5 DEF OneRecordEach
<1> QED
  BY <1>1, <1>3, <1>4 DEF SplitInv, RowsFor

LEMMA SplitCharge ==
  ASSUME SplitInv, NEW d \in Drives, NEW w \in Behalf!Writers, NEW wbytes \in 1..MaxCharge,
         Behalf!Charge(d, w, wbytes)
  PROVE  SplitInv'
<1>1. /\ source.phase = "closed"
      /\ charges' = [charges EXCEPT ![d][w] = charges[d][w] + wbytes]
      /\ UNCHANGED <<journal, source, rows, split>>
  BY DEF Behalf!Charge, Behalf!Phase, Behalf!history
<1>2. charges[d][w] + wbytes \in Nat
  BY ChargesAssumption DEF SplitInv, Charges
<1>3. charges' \in Charges
  BY <1>1, <1>2 DEF SplitInv, Charges
<1> QED
  BY <1>1, <1>3 DEF SplitInv, RowsFor, ClaimIn, FigureIn

LEMMA SplitOpen ==
  ASSUME SplitInv, Behalf!Open
  PROVE  SplitInv'
<1>1. /\ source.phase = "closed" /\ source'.phase # "closed"
      /\ split' = charges /\ UNCHANGED <<journal, charges, rows>>
  BY DEF Behalf!Open, Behalf!Phase
<1>2. rows = {} /\ \A d, w : RowsFor(d, w)' = {}
  BY <1>1 DEF SplitInv, RowsFor
<1>3. \A d \in Drives, w \in Behalf!Writers :
        IF charges[d][w] # 0 THEN RowsFor(d, w)' = {} /\ charges[d][w] = split'[d][w]
        ELSE Behalf!Sum(RowsFor(d, w)') = split'[d][w]
  BY <1>1, <1>2, NoRowsNoBytes
<1> QED
  BY <1>1, <1>2, <1>3 DEF SplitInv

(* The rows of one charge: those of the other charges stay as they are.    *)
LEMMA SplitSettle ==
  ASSUME BehalfTypes, Cursors, SplitInv, NEW d \in Drives, NEW w \in Behalf!Writers,
         Behalf!Settle(d, w)
  PROVE  SplitInv'
<1>1. PICK new \in Behalf!SplitOf(d, w, charges[d][w]) : rows' = rows \cup new
  BY DEF Behalf!Settle
<1>2. /\ source.phase \in {"split", "blind"} /\ charges[d][w] > 0
      /\ charges' = [charges EXCEPT ![d][w] = 0]
      /\ UNCHANGED <<journal, source, split>>
  BY DEF Behalf!Settle, Behalf!Phase
<1>3. charges[d][w] \in Nat /\ charges[d][w] = split[d][w] /\ RowsFor(d, w) = {}
  BY <1>2 DEF SplitInv, Charges
<1>4. Splits(new, d, w, charges[d][w])
  <2>1. PICK charged \in Nat : charged = charges[d][w] /\ charged > 0
    BY <1>2, <1>3
  <2>2. OneRecordEach(journal) /\ new \in Behalf!SplitOf(d, w, charged)
    BY <1>1, <2>1 DEF SplitInv
  <2>3. Splits(new, d, w, charged)
    BY <1>2, <2>1, <2>2, AnySplits
  <2> QED
    BY <2>1, <2>3
<1>5. charges' \in Charges /\ split' \in Charges /\ source'.phase # "closed" /\ OneRecordEach(journal')
  BY <1>2 DEF SplitInv, Charges
<1>6. IsFiniteSet(rows') /\ \A r \in rows' : r.wbytes \in Nat
  <2>1. IsFiniteSet(rows) /\ IsFiniteSet(new)
    BY <1>4 DEF SplitInv, Splits
  <2>2. IsFiniteSet(rows \cup new)
    BY <2>1, FS_Union
  <2> QED
    BY <1>1, <1>4, <2>2 DEF SplitInv, Splits
<1>7. \A r \in rows' : r.basis = "exact" => r.wbytes <= ClaimIn(journal, r.name)
  BY <1>1, <1>4 DEF SplitInv, Splits
<1>8. RowsFor(d, w)' = new
  BY <1>1, <1>3, <1>4 DEF RowsFor, Splits
<1>9. \A e \in Drives, v \in Behalf!Writers : e # d \/ v # w => RowsFor(e, v)' = RowsFor(e, v)
  BY <1>1, <1>4 DEF RowsFor, Splits
<1>10. ASSUME NEW e \in Drives, NEW v \in Behalf!Writers
       PROVE  IF charges'[e][v] # 0 THEN RowsFor(e, v)' = {} /\ charges'[e][v] = split'[e][v]
              ELSE Behalf!Sum(RowsFor(e, v)') = split'[e][v]
  <2>1. CASE e = d /\ v = w
    <3>1. charges'[e][v] = 0
      BY <1>2, <2>1 DEF SplitInv, Charges
    <3>2. Behalf!Sum(new) = split'[d][w]
      BY <1>2, <1>3, <1>4 DEF Splits
    <3> QED
      BY <1>8, <2>1, <3>1, <3>2
  <2>2. CASE e # d \/ v # w
    <3>1. charges'[e][v] = charges[e][v]
      BY <1>2, <2>2 DEF SplitInv, Charges
    <3>2. RowsFor(e, v)' = RowsFor(e, v)
      BY <1>9, <2>2
    <3>3. IF charges[e][v] # 0 THEN RowsFor(e, v) = {} /\ charges[e][v] = split[e][v]
          ELSE Behalf!Sum(RowsFor(e, v)) = split[e][v]
      BY <1>2 DEF SplitInv
    <3> QED
      BY <1>2, <3>1, <3>2, <3>3
  <2> QED
    BY <2>1, <2>2
<1>11. \A r \in rows' : r.basis = "exact" => r.wbytes <= ClaimIn(journal, r.name)'
  BY <1>2, <1>7 DEF ClaimIn, FigureIn
<1> QED
  BY <1>5, <1>6, <1>10, <1>11 DEF SplitInv

LEMMA SplitClose ==
  ASSUME SplitInv, NEW next, Behalf!Close(next)
  PROVE  SplitInv'
<1>1. /\ rows' = {} /\ split' = Behalf!NoCharges /\ source'.phase = "closed"
      /\ UNCHANGED <<journal, charges>>
  BY DEF Behalf!Close, Behalf!Closed
<1>2. IsFiniteSet(rows')
  BY <1>1, FS_EmptySet
<1> QED
  BY <1>1, <1>2, NoChargesAreCharges DEF SplitInv

LEMMA SplitStill ==
  ASSUME SplitInv, UNCHANGED <<journal, charges, rows, split>>,
         source.phase = "closed" <=> source'.phase = "closed"
  PROVE  SplitInv'
<1>1. \A d, w : RowsFor(d, w)' = RowsFor(d, w)
  BY DEF RowsFor
<1>2. \A r \in rows : r.basis = "exact" => r.wbytes <= ClaimIn(journal, r.name)'
  BY DEF SplitInv, ClaimIn, FigureIn
<1>3. \A d \in Drives, w \in Behalf!Writers : Behalf!Sum(RowsFor(d, w)') = Behalf!Sum(RowsFor(d, w))
  BY <1>1
<1> QED
  BY <1>1, <1>2, <1>3 DEF SplitInv

LEMMA RowsInvInit == Init => RowsInv
  BY SplitInit DEF Init, RowsInv

LEMMA RowsInvNext == BehalfInv /\ RowsInv /\ [Next]_partsVars => RowsInv'
<1> SUFFICES ASSUME BehalfInv, RowsInv, [Next]_partsVars, part' = "on behalf" PROVE RowsInv'
  BY DEF RowsInv
<1>1. CASE UNCHANGED <<part, behalfVars>>
  BY <1>1, SplitStill DEF behalfVars, RowsInv
<1>2. CASE Next
  <2>1. part = "on behalf" /\ Behalf!Next /\ BehalfTypes /\ Cursors /\ SplitInv
    BY <1>2 DEF Next, BehalfInv, RowsInv
  <2>2. SplitInv'
    <3>1. CASE \E entry \in Behalf!Entries : Behalf!AppendEntry(entry)
      BY <2>1, <3>1, SplitAppend
    <3>2. CASE /\ UNCHANGED <<journal, charges, rows, split>>
               /\ source.phase = "closed" <=> source'.phase = "closed"
      BY <2>1, <3>2, SplitStill
    <3>3. CASE \E d \in Drives, w \in Behalf!Writers, wbytes \in 1..MaxCharge : Behalf!Charge(d, w, wbytes)
      BY <2>1, <3>3, SplitCharge
    <3>4. CASE Behalf!Open
      BY <2>1, <3>4, SplitOpen
    <3>5. CASE \E d \in Drives, w \in Behalf!Writers : Behalf!Settle(d, w)
      BY <2>1, <3>5, SplitSettle
    <3>6. CASE \E next : Behalf!Close(next)
      BY <2>1, <3>6, SplitClose
    <3>7. ASSUME Behalf!Access \/ Behalf!NextEntry \/ Behalf!NoMoreEntries
          PROVE  /\ UNCHANGED <<journal, charges, rows, split>>
                 /\ source.phase = "closed" <=> source'.phase = "closed"
      BY <2>1, <3>7 DEF Behalf!Access, Behalf!NextEntry, Behalf!NoMoreEntries, Behalf!history,
                        Behalf!Phase, BehalfTypes
    <3>8. ASSUME Behalf!CloseBlind \/ Behalf!EndCursor PROVE \E next : Behalf!Close(next)
      BY <3>8 DEF Behalf!CloseBlind, Behalf!EndCursor
    <3> QED
      BY <2>1, <3>1, <3>2, <3>3, <3>4, <3>5, <3>6, <3>7, <3>8 DEF Behalf!Next
  <2> QED
    BY <2>2 DEF RowsInv
<1> QED
  BY <1>1, <1>2 DEF Next, partsVars

LEMMA ChargesComeTo == RowsInv => RowsSound
<1> SUFFICES ASSUME SplitInv PROVE Behalf!RowsSumToCharged /\ Behalf!ExactWithinFigures
  BY DEF RowsInv, RowsSound
<1>1. Behalf!ExactWithinFigures
  BY DEF SplitInv, ClaimIn, FigureIn, Behalf!ExactWithinFigures
<1>2. ASSUME NEW d \in Drives, NEW w \in Behalf!Writers
      PROVE  Behalf!Sum(RowsFor(d, w)) = split[d][w] - IF source.phase = "closed" THEN 0 ELSE charges[d][w]
  <2>1. charges[d][w] \in Nat /\ split[d][w] \in Nat
    BY DEF SplitInv, Charges
  <2>2. CASE source.phase = "closed"
    <3>1. RowsFor(d, w) = {} /\ split[d][w] = 0
      BY <2>2, NoChargesAreCharges DEF SplitInv, RowsFor
    <3> QED
      BY <2>2, <3>1, NoRowsNoBytes
  <2>3. CASE source.phase # "closed" /\ charges[d][w] # 0
    <3>1. RowsFor(d, w) = {} /\ charges[d][w] = split[d][w]
      BY <2>3 DEF SplitInv
    <3> QED
      BY <2>1, <2>3, <3>1, NoRowsNoBytes
  <2>4. CASE source.phase # "closed" /\ charges[d][w] = 0
    <3>1. Behalf!Sum(RowsFor(d, w)) = split[d][w]
      BY <2>4 DEF SplitInv
    <3> QED
      BY <2>1, <2>4, <3>1
  <2> QED
    BY <2>2, <2>3, <2>4
<1>3. Behalf!RowsSumToCharged
  BY <1>2 DEF Behalf!RowsSumToCharged, Behalf!Phase, RowsFor
<1> QED
  BY <1>1, <1>3

(* "Rows built here always sum to exactly this": at every moment of every  *)
(* interval the rows of a drive and proxy writer come to what was charged  *)
(* to it, whatever the journal says and however it is read, and no exact   *)
(* row says more than the resource messages claim: split_coredump and      *)
(* split_journald with distribute, and settle_on_behalf.                   *)
THEOREM RowsComeToTheCharge == Spec => []RowsSound
<1>1. Spec => [](BehalfInv /\ RowsInv)
  BY BehalfInvInit, BehalfInvNext, RowsInvInit, RowsInvNext, PTL DEF Spec, partsVars
<1> QED
  BY <1>1, ChargesComeTo, PTL
-----------------------------------------------------------------------------
(***************************************************************************)
(* GroupTable.  The counters of the kernel and the members of the sample   *)
(* before keep fitting together (Counted, SinceTheSample), and CPU time is *)
(* used once (UsedOnce); of that the table is made, whatever its walks     *)
(* fail at.                                                                *)
(***************************************************************************)
(* Sums and finite sets are those of the module that has them.             *)
LEMMA WorkSums ==
  /\ \A f, S : Work!SumFunctionOnSet(f, S) = SumFunctionOnSet(f, S)
  /\ \A S : (Work!IsFiniteSet(S) <=> IsFiniteSet(S)) /\ Work!Cardinality(S) = Cardinality(S)
  BY DEF Work!SumFunctionOnSet, Work!FoldFunctionOnSet, Work!MapThenFoldSet,
         SumFunctionOnSet, FoldFunctionOnSet, MapThenFoldSet,
         Work!IsFiniteSet, IsFiniteSet, Work!Cardinality, Cardinality

(* The cgroups at or above one, as the recursive function defines them.    *)
LEMMA PathsDefined ==
  \A g \in Groups : Work!AtOrAbove[g] = IF g = Root THEN {g} ELSE {g} \cup Work!AtOrAbove[ParentOf[g]]
<1> DEFINE Closed == {U \in SUBSET Groups : \A x \in U \ {Root} : ParentOf[x] \in U}
           Path(g) == {h \in Groups : \A U \in Closed : g \in U => h \in U}
           Paths(f) == f = [g \in Groups |-> IF g = Root THEN {g} ELSE {g} \cup f[ParentOf[g]]]
<1>1. /\ Root \in Groups
      /\ \A g \in Groups \ {Root} : ParentOf[g] \in Groups
  BY WorkloadsAssumption
<1>2. Path(Root) = {Root}
  <2>1. {Root} \in Closed
    BY <1>1
  <2> QED
    BY <1>1, <2>1
<1>3. ASSUME NEW g \in Groups \ {Root}
      PROVE  Path(g) = {g} \cup Path(ParentOf[g])
  <2>1. PICK U : U = {g} \cup Path(ParentOf[g])
    OBVIOUS
  <2>2. U \in Closed /\ g \in U
    BY <1>1, <2>1
  <2>3. Path(g) \subseteq U
    BY <2>2
  <2>4. U \subseteq Path(g)
    BY <1>1, <2>1
  <2> QED
    BY <2>1, <2>3, <2>4
<1>4. \E f : Paths(f)
  <2> DEFINE f == [g \in Groups |-> Path(g)]
  <2>1. \A g \in Groups : f[g] = IF g = Root THEN {g} ELSE {g} \cup f[ParentOf[g]]
    BY <1>1, <1>2, <1>3
  <2>2. Paths(f)
    <3> HIDE DEF Path
    <3> QED
      BY <2>1
  <2> QED
    BY <2>2
<1>5. Work!AtOrAbove = CHOOSE f : Paths(f)
  BY DEF Work!AtOrAbove
<1>6. Paths(Work!AtOrAbove)
  <2> HIDE DEF Paths
  <2> QED
    BY <1>4, <1>5
<1> QED
  BY <1>6

(* What has the parent of each of its cgroups has all above them.          *)
LEMMA PathsStayIn ==
  ASSUME NEW T, T \subseteq Groups, \A g \in T \ {Root} : ParentOf[g] \in T
  PROVE  \A g \in T : Work!AtOrAbove[g] \subseteq T
<1> DEFINE Bad == {g \in T : ~(Work!AtOrAbove[g] \subseteq T)}
<1> SUFFICES ASSUME Bad # {} PROVE FALSE
  OBVIOUS
<1>1. Bad \in (SUBSET Groups) \ {{}}
  OBVIOUS
<1> HIDE DEF Bad
<1>2. PICK g \in Bad : g = Root \/ ParentOf[g] \notin Bad
  BY <1>1, WorkloadsAssumption
<1> USE DEF Bad
<1>3. g \in Groups /\ g \in T
  OBVIOUS
<1>4. Work!AtOrAbove[g] = IF g = Root THEN {g} ELSE {g} \cup Work!AtOrAbove[ParentOf[g]]
  BY <1>3, PathsDefined
<1> QED
  BY <1>2, <1>3, <1>4

LEMMA PathsAreClosed ==
  \A g \in Groups : /\ Work!AtOrAbove[g] \subseteq Groups /\ g \in Work!AtOrAbove[g]
                    /\ \A x \in Work!AtOrAbove[g] \ {Root} : ParentOf[x] \in Work!AtOrAbove[g]
<1> DEFINE Closed(g) == /\ Work!AtOrAbove[g] \subseteq Groups /\ g \in Work!AtOrAbove[g]
                        /\ \A x \in Work!AtOrAbove[g] \ {Root} : ParentOf[x] \in Work!AtOrAbove[g]
           Bad == {g \in Groups : ~Closed(g)}
<1> SUFFICES ASSUME Bad # {} PROVE FALSE
  OBVIOUS
<1>1. Bad \in (SUBSET Groups) \ {{}}
  OBVIOUS
<1> HIDE DEF Bad
<1>2. PICK g \in Bad : g = Root \/ ParentOf[g] \notin Bad
  BY <1>1, WorkloadsAssumption
<1> USE DEF Bad
<1>3. g \in Groups
  OBVIOUS
<1>4. Work!AtOrAbove[g] = IF g = Root THEN {g} ELSE {g} \cup Work!AtOrAbove[ParentOf[g]]
  BY <1>3, PathsDefined
<1>5. CASE g = Root
  BY <1>3, <1>4, <1>5
<1>6. CASE g # Root
  <2>1. ParentOf[g] \in Groups
    BY <1>3, <1>6, WorkloadsAssumption
  <2>2. Closed(ParentOf[g])
    BY <1>2, <1>6, <2>1
  <2>3. Closed(g)
    BY <1>3, <1>4, <1>6, <2>2
  <2> QED
    BY <2>3
<1> QED
  BY <1>5, <1>6

LEMMA PathsNest == \A g \in Groups : \A x \in Work!AtOrAbove[g] : Work!AtOrAbove[x] \subseteq Work!AtOrAbove[g]
  BY PathsAreClosed, PathsStayIn

(* Of two cgroups above one, one is above the other.                       *)
LEMMA PathsAreChains ==
  \A g \in Groups : \A x, y \in Work!AtOrAbove[g] : x \in Work!AtOrAbove[y] \/ y \in Work!AtOrAbove[x]
<1> DEFINE Chain(g) == \A x, y \in Work!AtOrAbove[g] : x \in Work!AtOrAbove[y] \/ y \in Work!AtOrAbove[x]
           Bad == {g \in Groups : ~Chain(g)}
<1> SUFFICES ASSUME Bad # {} PROVE FALSE
  OBVIOUS
<1>1. Bad \in (SUBSET Groups) \ {{}}
  OBVIOUS
<1> HIDE DEF Bad
<1>2. PICK g \in Bad : g = Root \/ ParentOf[g] \notin Bad
  BY <1>1, WorkloadsAssumption
<1> USE DEF Bad
<1>3. g \in Groups
  OBVIOUS
<1>4. Work!AtOrAbove[g] = IF g = Root THEN {g} ELSE {g} \cup Work!AtOrAbove[ParentOf[g]]
  BY <1>3, PathsDefined
<1>5. CASE g = Root
  BY <1>3, <1>4, <1>5
<1>6. CASE g # Root
  <2>1. ParentOf[g] \in Groups
    BY <1>3, <1>6, WorkloadsAssumption
  <2>2. Chain(ParentOf[g])
    BY <1>2, <1>6, <2>1
  <2>3. \A x \in Work!AtOrAbove[g] : x \in Work!AtOrAbove[g] /\ g \in Work!AtOrAbove[g]
    BY <1>3, PathsAreClosed
  <2>4. Chain(g)
    BY <1>4, <1>6, <2>2, <2>3
  <2> QED
    BY <2>4
<1> QED
  BY <1>5, <1>6

LEMMA NearestIs ==
  ASSUME NEW g \in Groups, NEW S, S \subseteq Work!AtOrAbove[g], S # {}
  PROVE  Work!Nearest(S) \in S /\ S \subseteq Work!AtOrAbove[Work!Nearest(S)]
<1> DEFINE Good == {T \in SUBSET S : T # {} => \E n \in T : T \subseteq Work!AtOrAbove[n]}
<1>1. S \subseteq Groups /\ IsFiniteSet(S)
  <2>1. S \in SUBSET Groups
    BY PathsAreClosed
  <2> QED
    BY <2>1, WorkloadsAssumption, FS_Subset
<1>2. {} \in Good
  OBVIOUS
<1>3. ASSUME NEW T \in SUBSET S, T \in Good, NEW x \in S \ T PROVE T \cup {x} \in Good
  <2>1. x \in Groups /\ x \in Work!AtOrAbove[x]
    BY <1>1, PathsAreClosed
  <2>2. CASE T = {}
    BY <2>1, <2>2
  <2>3. CASE T # {}
    <3>1. PICK n \in T : T \subseteq Work!AtOrAbove[n]
      BY <1>3, <2>3
    <3>2. n \in Work!AtOrAbove[g] /\ x \in Work!AtOrAbove[g] /\ n \in Groups
      BY <1>1
    <3>3. n \in Work!AtOrAbove[x] \/ x \in Work!AtOrAbove[n]
      BY <3>2, PathsAreChains
    <3>4. CASE x \in Work!AtOrAbove[n]
      BY <3>1, <3>4
    <3>5. CASE n \in Work!AtOrAbove[x]
      <4>1. Work!AtOrAbove[n] \subseteq Work!AtOrAbove[x]
        BY <2>1, <3>5, PathsNest
      <4> QED
        BY <2>1, <3>1, <4>1
    <3> QED
      BY <3>3, <3>4, <3>5
  <2> QED
    BY <2>2, <2>3
<1> HIDE DEF Good
<1>4. S \in Good
  BY <1>1, <1>2, <1>3, FiniteInduction
<1>5. \E n \in S : S \subseteq Work!AtOrAbove[n]
  BY <1>4 DEF Good
<1> QED
  BY <1>5 DEF Work!Nearest

(* A cgroup of a mixed class has only such above it.                       *)
LEMMA MixedAbove ==
  \A g \in Groups : GroupClass[g].mixed => \A x \in Work!AtOrAbove[g] : GroupClass[x].mixed
<1> DEFINE T == {g \in Groups : GroupClass[g].mixed}
<1>1. \A g \in T \ {Root} : ParentOf[g] \in T
  BY WorkloadsAssumption
<1>2. \A g \in T : Work!AtOrAbove[g] \subseteq T
  BY <1>1, PathsStayIn
<1> QED
  BY <1>2

-----------------------------------------------------------------------------
(* What is above a cgroup that is there is there, and so is what is above  *)
(* a listed one listed.                                                    *)
LEMMA AboveExists ==
  ASSUME Work!Counted
  PROVE  \A g \in Groups : Work!Exists(g) => \A x \in Work!AtOrAbove[g] : Work!Exists(x)
<1> DEFINE T == {g \in Groups : Work!Exists(g)}
<1>1. \A g \in T \ {Root} : ParentOf[g] \in T
  BY WorkloadsAssumption DEF Work!Counted
<1>2. \A g \in T : Work!AtOrAbove[g] \subseteq T
  BY <1>1, PathsStayIn
<1> QED
  BY <1>2

LEMMA AboveListed ==
  ASSUME Work!Counted, NEW f
  PROVE  \A g \in Work!Listed(f) : Work!AtOrAbove[g] \subseteq Work!Listed(f)
<1> SUFFICES ASSUME NEW g \in Work!Listed(f), NEW x \in Work!AtOrAbove[g] PROVE x \in Work!Listed(f)
  OBVIOUS
<1>1. g \in Groups /\ Work!Exists(g) /\ Work!AtOrAbove[g] \cap f.lost = {}
  BY DEF Work!Listed
<1>2. x \in Groups /\ Work!Exists(x)
  BY <1>1, AboveExists, PathsAreClosed
<1>3. Work!AtOrAbove[x] \subseteq Work!AtOrAbove[g]
  BY <1>1, PathsNest
<1> QED
  BY <1>1, <1>2, <1>3 DEF Work!Listed

LEMMA CountedInit == Work!Init => Work!Counted
<1> SUFFICES ASSUME Work!Init PROVE Work!Counted
  OBVIOUS
<1>1. PICK there \in {S \in SUBSET Groups : \A g \in S : Work!AtOrAbove[g] \subseteq S} \ {{}} :
        /\ inode = [g \in Groups |-> IF g \in there THEN 1 ELSE 0]
        /\ place \in [Procs -> there \cup {Nothing}]
  BY DEF Work!Init
<1>2. PICK p \in Procs \cup {Nothing} :
        /\ time = [q \in Procs |-> IF q = p /\ place[p] # Nothing THEN 1 ELSE 0]
        /\ usage = [g \in Groups |-> IF p \in Procs /\ place[p] # Nothing /\ g \in Work!AtOrAbove[place[p]]
                                     THEN 1 ELSE 0]
  BY DEF Work!Init
<1>3. there \subseteq Groups /\ \A g \in there : Work!AtOrAbove[g] \subseteq there
  BY <1>1
<1>4. /\ started = [q \in Procs |-> IF place[q] = Nothing THEN Nothing ELSE 0] /\ workNow = 1
      /\ spentIn = [g \in Groups |-> 0] /\ spentBy = [q \in Procs |-> 0]
  BY DEF Work!Init
<1>5. /\ inode \in [Groups -> Int] /\ usage \in [Groups -> Nat] /\ time \in [Procs -> Nat]
      /\ started \in [Procs -> Nat \cup {Nothing}] /\ workNow \in Nat
      /\ spentIn \in [Groups -> Nat] /\ spentBy \in [Procs -> Nat]
  BY <1>1, <1>2, <1>4
<1>6. place \in [Procs -> Groups \cup {Nothing}]
  BY <1>1, <1>3
<1>7. \A g \in Groups : Work!Exists(g) <=> g \in there
  BY <1>1 DEF Work!Exists
<1>8. \A q \in Procs : /\ place[q] # Nothing => place[q] \in there
                       /\ started[q] = Nothing <=> place[q] = Nothing
  BY <1>1, <1>4, WorkloadsAssumption
<1>9. \A q \in Procs : place[q] # Nothing => Work!Exists(place[q]) /\ started[q] # Nothing
  BY <1>3, <1>7, <1>8
<1>10. \A q \in Procs : started[q] = Nothing => time[q] = 0 /\ spentBy[q] = 0
  BY <1>2, <1>4, <1>8
<1>11. \A q \in Procs : started[q] # Nothing => started[q] <= workNow
  BY <1>4
<1>12. \A g \in Groups \ {Root} : Work!Exists(g) => Work!Exists(ParentOf[g])
  BY <1>3, <1>7, PathsAreClosed, WorkloadsAssumption
<1>13. ASSUME NEW g \in Groups, ~Work!Exists(g)
       PROVE  usage[g] = 0
  <2>1. CASE p \in Procs /\ place[p] # Nothing /\ g \in Work!AtOrAbove[place[p]]
    BY <1>3, <1>7, <1>8, <1>13, <2>1
  <2> QED
    BY <1>2, <2>1
<1> QED
  BY <1>5, <1>6, <1>9, <1>10, <1>11, <1>12, <1>13 DEF Work!Counted

LEMMA RunAbove ==
  ASSUME Work!Counted, NEW p \in Procs, Work!Run(p)
  PROVE  /\ place[p] \in Groups /\ Work!Exists(place[p]) /\ started[p] # Nothing
         /\ Work!AtOrAbove[place[p]] \subseteq Groups
         /\ \A g \in Work!AtOrAbove[place[p]] : Work!Exists(g)
<1>1. place[p] # Nothing
  BY DEF Work!Run
<1>2. place[p] \in Groups /\ Work!Exists(place[p]) /\ started[p] # Nothing
  BY <1>1 DEF Work!Counted
<1> QED
  BY <1>2, AboveExists, PathsAreClosed

LEMMA CountedNext == Work!Counted /\ [Work!Next]_workVars => Work!Counted'
<1> SUFFICES ASSUME Work!Counted, [Work!Next]_workVars PROVE Work!Counted'
  OBVIOUS
<1>1. ASSUME NEW g \in Groups \ {Root}, Work!Make(g) PROVE Work!Counted'
  <2>1. /\ ~Work!Exists(g) /\ Work!Exists(ParentOf[g]) /\ inode' = [inode EXCEPT ![g] = 1 - @]
        /\ UNCHANGED <<usage, place, started, time, workNow, spentIn, spentBy>>
    BY <1>1 DEF Work!Make
  <2>2. inode' \in [Groups -> Int]
    BY <2>1 DEF Work!Counted
  <2>3. \A h \in Groups : Work!Exists(h)' <=> (Work!Exists(h) \/ h = g)
    BY <2>1 DEF Work!Counted, Work!Exists
  <2>4. \A h \in Groups \ {Root} : ParentOf[h] \in Groups
    BY WorkloadsAssumption
  <2> QED
    BY <2>1, <2>2, <2>3, <2>4 DEF Work!Counted
<1>2. ASSUME NEW g \in Groups \ {Root}, Work!Unmake(g) PROVE Work!Counted'
  <2>1. /\ Work!Exists(g) /\ \A p \in Procs : place[p] # g
        /\ \A c \in Groups \ {Root} : ParentOf[c] = g => ~Work!Exists(c)
        /\ inode' = [inode EXCEPT ![g] = -@] /\ usage' = [usage EXCEPT ![g] = 0]
        /\ UNCHANGED <<place, started, time, workNow, spentIn, spentBy>>
    BY <1>2 DEF Work!Unmake
  <2>2. inode' \in [Groups -> Int] /\ usage' \in [Groups -> Nat]
    BY <2>1 DEF Work!Counted
  <2>3. \A h \in Groups : Work!Exists(h)' <=> (Work!Exists(h) /\ h # g)
    BY <2>1 DEF Work!Counted, Work!Exists
  <2>4. \A h \in Groups \ {Root} : ParentOf[h] \in Groups
    BY WorkloadsAssumption
  <2>5. \A h \in Groups : ~Work!Exists(h)' => usage'[h] = 0
    BY <2>1, <2>3 DEF Work!Counted
  <2>6. \A h \in Groups \ {Root} : Work!Exists(h)' => Work!Exists(ParentOf[h])'
    BY <2>1, <2>3, <2>4 DEF Work!Counted
  <2>7. \A p \in Procs : place'[p] # Nothing => inode'[place'[p]] > 0 /\ started'[p] # Nothing
    BY <2>1 DEF Work!Counted, Work!Exists
  <2> QED
    BY <2>1, <2>2, <2>5, <2>6, <2>7 DEF Work!Counted, Work!Exists
<1>3. ASSUME NEW p \in Procs, NEW g \in Groups, Work!Start(p, g) PROVE Work!Counted'
  <2>1. /\ started[p] = Nothing /\ Work!Exists(g)
        /\ started' = [started EXCEPT ![p] = workNow] /\ place' = [place EXCEPT ![p] = g]
        /\ UNCHANGED <<inode, usage, time, workNow, spentIn, spentBy>>
    BY <1>3 DEF Work!Start
  <2>2. place' \in [Procs -> Groups \cup {Nothing}] /\ started' \in [Procs -> Nat \cup {Nothing}]
    BY <2>1 DEF Work!Counted
  <2>3. inode' = inode
    BY <2>1
  <2>4. \A q \in Procs : /\ place'[q] # Nothing => inode'[place'[q]] > 0 /\ started'[q] # Nothing
                         /\ started'[q] = Nothing => time'[q] = 0 /\ spentBy'[q] = 0
                         /\ started'[q] # Nothing => started'[q] <= workNow'
    BY <2>1, <2>3, WorkloadsAssumption DEF Work!Counted, Work!Exists
  <2> QED
    BY <2>1, <2>2, <2>3, <2>4 DEF Work!Counted, Work!Exists
<1>4. ASSUME NEW p \in Procs, NEW g \in Groups, Work!Move(p, g) PROVE Work!Counted'
  <2>1. /\ place[p] # Nothing /\ Work!Exists(g) /\ place' = [place EXCEPT ![p] = g]
        /\ UNCHANGED <<inode, usage, started, time, workNow, spentIn, spentBy>>
    BY <1>4 DEF Work!Move
  <2>2. place' \in [Procs -> Groups \cup {Nothing}]
    BY <2>1 DEF Work!Counted
  <2>3. inode' = inode
    BY <2>1
  <2>4. \A q \in Procs : place'[q] # Nothing => inode'[place'[q]] > 0 /\ started'[q] # Nothing
    BY <2>1, <2>3 DEF Work!Counted, Work!Exists
  <2> QED
    BY <2>1, <2>2, <2>3, <2>4 DEF Work!Counted, Work!Exists
<1>5. ASSUME NEW p \in Procs, Work!End(p) PROVE Work!Counted'
  <2>1. /\ place' = [place EXCEPT ![p] = Nothing]
        /\ UNCHANGED <<inode, usage, started, time, workNow, spentIn, spentBy>>
    BY <1>5 DEF Work!End
  <2>2. place' \in [Procs -> Groups \cup {Nothing}]
    BY <2>1 DEF Work!Counted
  <2>3. inode' = inode
    BY <2>1
  <2>4. \A q \in Procs : place'[q] # Nothing => inode'[place'[q]] > 0 /\ started'[q] # Nothing
    BY <2>1, <2>3 DEF Work!Counted, Work!Exists
  <2> QED
    BY <2>1, <2>2, <2>3, <2>4 DEF Work!Counted, Work!Exists
<1>6. ASSUME NEW p \in Procs, Work!Run(p) PROVE Work!Counted'
  <2>1. PICK where : where = Work!AtOrAbove[place[p]]
    OBVIOUS
  <2>2. /\ workNow' = workNow + 1
        /\ time' = [time EXCEPT ![p] = @ + 1] /\ spentBy' = [spentBy EXCEPT ![p] = @ + 1]
        /\ usage' = [g \in Groups |-> IF g \in where THEN usage[g] + 1 ELSE usage[g]]
        /\ spentIn' = [g \in Groups |-> IF g \in where THEN spentIn[g] + 1 ELSE spentIn[g]]
        /\ UNCHANGED <<inode, place, started>>
    BY <1>6, <2>1 DEF Work!Run
  <2>3. started[p] # Nothing /\ \A g \in where : Work!Exists(g)
    BY <1>6, <2>1, RunAbove
  <2>4. /\ workNow' \in Nat /\ time' \in [Procs -> Nat] /\ spentBy' \in [Procs -> Nat]
        /\ usage' \in [Groups -> Nat] /\ spentIn' \in [Groups -> Nat]
    BY <2>2 DEF Work!Counted
  <2>5. \A h : Work!Exists(h)' <=> Work!Exists(h)
    BY <2>2 DEF Work!Exists
  <2>6. \A g \in Groups : ~Work!Exists(g)' => usage'[g] = 0
    BY <2>2, <2>3, <2>5 DEF Work!Counted
  <2>7. \A q \in Procs : /\ started'[q] = Nothing => time'[q] = 0 /\ spentBy'[q] = 0
                         /\ started'[q] # Nothing => started'[q] <= workNow'
    BY <2>2, <2>3 DEF Work!Counted
  <2> QED
    BY <2>2, <2>4, <2>5, <2>6, <2>7 DEF Work!Counted
<1>7. CASE Work!Sample
  <2>1. /\ spentIn' = [g \in Groups |-> 0] /\ spentBy' = [p \in Procs |-> 0]
        /\ UNCHANGED <<inode, usage, place, started, time, workNow>>
    BY <1>7 DEF Work!Sample
  <2> QED
    BY <2>1 DEF Work!Counted, Work!Exists
<1>8. CASE UNCHANGED workVars
  BY <1>8 DEF Work!Counted, workVars, Work!Exists
<1> QED
  BY <1>1, <1>2, <1>3, <1>4, <1>5, <1>6, <1>7, <1>8 DEF Work!Next

-----------------------------------------------------------------------------
(* Whoever comes to the processes outside some cgroups has used nothing.   *)
LEMMA FewerOutside ==
  ASSUME NEW f \in [Procs -> Nat], NEW T \in SUBSET Procs, NEW U \in SUBSET Procs,
         \A p \in U \ T : f[p] = 0
  PROVE  SumFunctionOnSet(f, U) <= SumFunctionOnSet(f, T)
<1>1. IsFiniteSet(Procs) /\ IsFiniteSet(U) /\ IsFiniteSet(T)
  BY WorkloadsAssumption, FS_Subset
<1>2. PICK g : g = [p \in Procs |-> IF p \in T THEN f[p] ELSE 0]
  OBVIOUS
<1>3. SumFunctionOnSet(g, Procs) = SumFunctionOnSet(f, T)
  BY <1>1, <1>2, SumExtend
<1>4. SumFunctionOnSet(f, U) = SumFunctionOnSet(g, U)
  BY <1>1, <1>2, SumSame
<1>5. SumFunctionOnSet(g, U) <= SumFunctionOnSet(g, Procs)
  BY <1>1, <1>2, SumPart
<1> QED
  BY <1>3, <1>4, <1>5

LEMMA SpentIsNat ==
  ASSUME Work!Counted, NEW S \in SUBSET Groups, NEW T \in SUBSET Procs
  PROVE  /\ IsFiniteSet(S) /\ IsFiniteSet(T)
         /\ SumFunctionOnSet(spentIn, S) \in Nat /\ SumFunctionOnSet(spentBy, T) \in Nat
<1>1. IsFiniteSet(S) /\ IsFiniteSet(T)
  BY WorkloadsAssumption, FS_Subset
<1>2. \A g \in S : spentIn[g] \in Nat
  BY DEF Work!Counted
<1>3. \A p \in T : spentBy[p] \in Nat
  BY DEF Work!Counted
<1> QED
  BY <1>1, <1>2, <1>3, SumNat

(* A step of the world in which no time passes.                            *)
LEMMA UsedMeanwhile ==
  ASSUME Work!Counted, Work!Counted', Work!UsedOnce, state' = state, workNow' = workNow,
         spentIn' = spentIn, spentBy' = spentBy,
         \A S \in SUBSET Groups : \A p \in Work!Outside(S)' \ Work!Outside(S) : spentBy[p] = 0,
         state # Nothing => state.taken \in Nat
  PROVE  Work!UsedOnce'
<1> SUFFICES ASSUME state # Nothing, NEW S \in SUBSET Groups, Work!Apart(S)
             PROVE  SumFunctionOnSet(spentIn, S) + SumFunctionOnSet(spentBy, Work!Outside(S)')
                      <= workNow - state.taken
  BY WorkSums DEF Work!UsedOnce, Work!Apart
<1>1. SumFunctionOnSet(spentIn, S) + SumFunctionOnSet(spentBy, Work!Outside(S)) <= workNow - state.taken
  BY WorkSums DEF Work!UsedOnce
<1>2. PICK T, U : T = Work!Outside(S) /\ U = Work!Outside(S)'
  OBVIOUS
<1>3. T \in SUBSET Procs /\ U \in SUBSET Procs /\ spentBy \in [Procs -> Nat] /\ workNow \in Nat
  BY <1>2 DEF Work!Outside, Work!Counted
<1>4. \A p \in U \ T : spentBy[p] = 0
  BY <1>2
<1>5. SumFunctionOnSet(spentBy, U) <= SumFunctionOnSet(spentBy, T)
  BY <1>3, <1>4, FewerOutside
<1>6. /\ SumFunctionOnSet(spentIn, S) \in Nat /\ SumFunctionOnSet(spentBy, T) \in Nat
      /\ SumFunctionOnSet(spentBy, U) \in Nat
  BY <1>3, SpentIsNat
<1>7. SumFunctionOnSet(spentIn, S) + SumFunctionOnSet(spentBy, T) <= workNow - state.taken
  BY <1>1, <1>2
<1>8. SumFunctionOnSet(spentIn, S) + SumFunctionOnSet(spentBy, U) <= workNow - state.taken
  BY <1>3, <1>5, <1>6, <1>7
<1> QED
  BY <1>2, <1>8

(* A process that runs: at most one of the cgroups is above it, and if one *)
(* is, it is not outside them.                                             *)
LEMMA UsedWhenRun ==
  ASSUME Work!Counted, Work!UsedOnce, NEW p \in Procs, Work!Run(p), state # Nothing => state.taken \in Nat
  PROVE  Work!UsedOnce'
<1>1. PICK where : where = Work!AtOrAbove[place[p]]
  OBVIOUS
<1>2. /\ workNow' = workNow + 1 /\ state' = state /\ place' = place /\ strayed' = strayed
      /\ spentBy' = [spentBy EXCEPT ![p] = @ + 1]
      /\ spentIn' = [g \in Groups |-> IF g \in where THEN spentIn[g] + 1 ELSE spentIn[g]]
      /\ place[p] # Nothing
  BY <1>1 DEF Work!Run
<1>3. place[p] \in Groups /\ where \subseteq Groups
  BY <1>1, RunAbove
<1>4. PICK before, after : before = spentBy /\ after = spentBy'
  OBVIOUS
<1>5. PICK was, is : was = spentIn /\ is = spentIn'
  OBVIOUS
<1>6. was \in [Groups -> Nat] /\ before \in [Procs -> Nat] /\ workNow \in Nat
  BY <1>4, <1>5 DEF Work!Counted
<1>7. /\ is = [g \in Groups |-> IF g \in where THEN was[g] + 1 ELSE was[g]]
      /\ after = [before EXCEPT ![p] = @ + 1]
  BY <1>2, <1>4, <1>5
<1> SUFFICES ASSUME state' # Nothing, NEW S \in SUBSET Groups, Work!Apart(S)'
             PROVE  SumFunctionOnSet(spentIn', S) + SumFunctionOnSet(spentBy', Work!Outside(S)')
                      <= workNow' - state'.taken
  BY WorkSums DEF Work!UsedOnce
<1>16. state # Nothing /\ Work!Apart(S) /\ Work!Outside(S)' = Work!Outside(S)
  BY <1>2 DEF Work!Outside, Work!Apart
<1>8. PICK T : T = Work!Outside(S)
  OBVIOUS
<1>9. SumFunctionOnSet(was, S) + SumFunctionOnSet(before, T) <= workNow - state.taken
  BY <1>4, <1>5, <1>8, <1>16, WorkSums DEF Work!UsedOnce
<1>10. T \in SUBSET Procs /\ IsFiniteSet(S) /\ IsFiniteSet(T)
  <2>1. T \in SUBSET Procs
    BY <1>8 DEF Work!Outside
  <2> QED
    BY <2>1, WorkloadsAssumption, FS_Subset
<1>11. /\ \A x \in S : was[x] \in Int /\ is[x] \in Int
       /\ \A x \in T : before[x] \in Int /\ after[x] \in Int
  BY <1>6, <1>7, <1>10
<1>12. /\ SumFunctionOnSet(was, S) \in Int /\ SumFunctionOnSet(is, S) \in Int
       /\ SumFunctionOnSet(before, T) \in Int /\ SumFunctionOnSet(after, T) \in Int
  BY <1>10, <1>11, SumInt
<1>13. ASSUME S \cap where = {}
       PROVE  SumFunctionOnSet(is, S) + SumFunctionOnSet(after, T) <= workNow + 1 - state.taken
  <2>1. SumFunctionOnSet(was, S) = SumFunctionOnSet(is, S)
    <3>1. \A x \in S : was[x] \in Int /\ was[x] = is[x]
      BY <1>7, <1>11, <1>13
    <3> QED
      BY <1>10, <3>1, SumSame
  <2>2. SumFunctionOnSet(after, T) <= SumFunctionOnSet(before, T) + 1
    <3>1. CASE p \in T
      <4>1. \A x \in T \ {p} : after[x] = before[x]
        BY <1>6, <1>7, <1>10
      <4>2. after[p] = before[p] + 1
        BY <1>6, <1>7
      <4>3. SumFunctionOnSet(after, T) = SumFunctionOnSet(before, T) + (after[p] - before[p])
        BY <1>10, <1>11, <3>1, <4>1, SumChange
      <4> QED
        BY <1>6, <1>12, <4>2, <4>3
    <3>2. CASE p \notin T
      <4>1. \A x \in T : before[x] \in Int /\ before[x] = after[x]
        BY <1>6, <1>7, <1>10, <1>11, <3>2
      <4>2. SumFunctionOnSet(before, T) = SumFunctionOnSet(after, T)
        BY <1>10, <4>1, SumSame
      <4> QED
        BY <1>12, <4>2
    <3> QED
      BY <3>1, <3>2
  <2>3. state.taken \in Nat
    BY <1>16
  <2> QED
    BY <1>6, <1>8, <1>9, <1>12, <2>1, <2>2, <2>3
<1>14. ASSUME S \cap where # {}
       PROVE  SumFunctionOnSet(is, S) + SumFunctionOnSet(after, T) <= workNow + 1 - state.taken
  <2>1. PICK g \in S : g \in where
    BY <1>14
  <2>2. ASSUME NEW x \in S \ {g} PROVE is[x] = was[x]
    <3>1. x \notin where
      <4>1. x \in where => x \in Work!AtOrAbove[g] \/ g \in Work!AtOrAbove[x]
        BY <1>1, <1>3, <2>1, PathsAreChains
      <4> QED
        BY <1>16, <2>1, <4>1 DEF Work!Apart
    <3> QED
      BY <1>7, <3>1
  <2>3. is[g] = was[g] + 1 /\ was[g] \in Nat
    BY <1>6, <1>7, <2>1
  <2>4. SumFunctionOnSet(is, S) = SumFunctionOnSet(was, S) + (is[g] - was[g])
    BY <1>10, <1>11, <2>2, SumChange
  <2>5. p \notin T
    BY <1>1, <1>8, <1>14 DEF Work!Outside
  <2>6. \A x \in T : before[x] \in Int /\ before[x] = after[x]
    BY <1>6, <1>7, <1>10, <1>11, <2>5
  <2>7. SumFunctionOnSet(before, T) = SumFunctionOnSet(after, T)
    BY <1>10, <2>6, SumSame
  <2>8. state.taken \in Nat
    BY <1>16
  <2> QED
    BY <1>6, <1>8, <1>9, <1>12, <2>3, <2>4, <2>7, <2>8
<1>15. SumFunctionOnSet(spentIn', S) = SumFunctionOnSet(is, S)
  BY <1>5
<1>17. SumFunctionOnSet(spentBy', Work!Outside(S)') = SumFunctionOnSet(after, T)
  BY <1>4, <1>8, <1>16
<1>18. workNow' = workNow + 1 /\ state'.taken = state.taken /\ state.taken \in Nat
  BY <1>2, <1>16
<1> QED
  BY <1>6, <1>12, <1>13, <1>14, <1>15, <1>17, <1>18

LEMMA UsedOnceNext ==
  ASSUME Work!Counted, Work!Counted', Work!UsedOnce, [Work!Next]_workVars, state # Nothing => state.taken \in Nat
  PROVE  Work!UsedOnce'
<1>1. ASSUME NEW g \in Groups \ {Root}, Work!Make(g) PROVE Work!UsedOnce'
  <2>1. UNCHANGED <<place, workNow, state, spentIn, spentBy, strayed>>
    BY <1>1 DEF Work!Make
  <2>2. \A S : Work!Outside(S)' = Work!Outside(S)
    BY <2>1 DEF Work!Outside
  <2> QED
    BY <2>1, <2>2, UsedMeanwhile
<1>2. ASSUME NEW g \in Groups \ {Root}, Work!Unmake(g) PROVE Work!UsedOnce'
  <2>1. UNCHANGED <<place, workNow, state, spentIn, spentBy>> /\ strayed \subseteq strayed'
    BY <1>2 DEF Work!Unmake
  <2>2. \A S : Work!Outside(S)' \subseteq Work!Outside(S)
    BY <2>1 DEF Work!Outside
  <2> QED
    BY <2>1, <2>2, UsedMeanwhile
<1>3. ASSUME NEW p \in Procs, NEW g \in Groups, Work!Start(p, g) PROVE Work!UsedOnce'
  <2>1. /\ started[p] = Nothing /\ place' = [place EXCEPT ![p] = g]
        /\ UNCHANGED <<workNow, state, spentIn, spentBy, strayed>>
    BY <1>3 DEF Work!Start
  <2>2. \A q \in Procs \ {p} : place'[q] = place[q]
    BY <2>1 DEF Work!Counted
  <2>3. \A S : Work!Outside(S)' \ Work!Outside(S) \subseteq {p}
    BY <2>1, <2>2 DEF Work!Outside
  <2>4. spentBy[p] = 0
    BY <2>1 DEF Work!Counted
  <2> QED
    BY <2>1, <2>3, <2>4, UsedMeanwhile
<1>4. ASSUME NEW p \in Procs, NEW g \in Groups, Work!Move(p, g) PROVE Work!UsedOnce'
  <2>1. /\ place' = [place EXCEPT ![p] = g] /\ strayed' = strayed \cup {p}
        /\ UNCHANGED <<workNow, state, spentIn, spentBy>>
    BY <1>4 DEF Work!Move
  <2>2. \A q \in Procs \ {p} : place'[q] = place[q]
    BY <2>1 DEF Work!Counted
  <2>3. \A S : Work!Outside(S)' \subseteq Work!Outside(S)
    BY <2>1, <2>2 DEF Work!Outside
  <2> QED
    BY <2>1, <2>3, UsedMeanwhile
<1>5. ASSUME NEW p \in Procs, Work!End(p) PROVE Work!UsedOnce'
  <2>1. place' = [place EXCEPT ![p] = Nothing] /\ UNCHANGED <<workNow, state, spentIn, spentBy, strayed>>
    BY <1>5 DEF Work!End
  <2>2. /\ \A q \in Procs \ {p} : place'[q] = place[q]
        /\ place'[p] = Nothing
    BY <2>1 DEF Work!Counted
  <2>3. \A S : Work!Outside(S)' \subseteq Work!Outside(S)
    BY <2>1, <2>2 DEF Work!Outside
  <2> QED
    BY <2>1, <2>3, UsedMeanwhile
<1>6. ASSUME NEW p \in Procs, Work!Run(p) PROVE Work!UsedOnce'
  BY <1>6, UsedWhenRun
<1>7. CASE Work!Sample
  <2>1. /\ spentIn' = [g \in Groups |-> 0] /\ spentBy' = [p \in Procs |-> 0]
        /\ workNow' = workNow /\ workNow \in Nat
    BY <1>7 DEF Work!Sample, Work!Counted
  <2>2. PICK f \in Work!Faults : state' = Work!Taken(f, Work!Members(f))
    BY <1>7 DEF Work!Sample
  <2>3. state'.taken = workNow
    BY <2>2, WorkSums DEF Work!Taken
  <2> SUFFICES ASSUME NEW S \in SUBSET Groups
               PROVE  SumFunctionOnSet(spentIn', S) + SumFunctionOnSet(spentBy', Work!Outside(S)') <= 0
    BY <2>1, <2>3, WorkSums DEF Work!UsedOnce, Work!Apart
  <2>4. PICK T : T = Work!Outside(S)'
    OBVIOUS
  <2>5. T \in SUBSET Procs /\ IsFiniteSet(S) /\ IsFiniteSet(T)
    <3>1. T \in SUBSET Procs
      BY <2>4 DEF Work!Outside
    <3> QED
      BY <3>1, WorkloadsAssumption, FS_Subset
  <2>6. PICK is, by : is = spentIn' /\ by = spentBy'
    OBVIOUS
  <2>7. (\A x \in S : is[x] = 0) /\ (\A x \in T : by[x] = 0)
    BY <2>1, <2>5, <2>6
  <2>8. SumFunctionOnSet(is, S) = 0 /\ SumFunctionOnSet(by, T) = 0
    BY <2>5, <2>7, SumZero
  <2> QED
    BY <2>4, <2>6, <2>8
<1>8. CASE UNCHANGED workVars
  <2>1. UNCHANGED <<place, workNow, state, spentIn, spentBy, strayed>>
    BY <1>8 DEF workVars
  <2>2. \A S : Work!Outside(S)' = Work!Outside(S)
    BY <2>1 DEF Work!Outside
  <2> QED
    BY <2>1, <2>2, UsedMeanwhile
<1> QED
  BY <1>1, <1>2, <1>3, <1>4, <1>5, <1>6, <1>7, <1>8 DEF Work!Next

-----------------------------------------------------------------------------
(* The members of a sample.                                                *)
LEMMA MemberIs ==
  ASSUME NEW f
  PROVE  \A m : m \in Work!Members(f) <=>
           \/ \E g \in Work!Listed(f), l \in Work!Levels : Work!IsTop(g, l) /\ m = Work!GroupMember(g, l, f)
           \/ \E p \in Work!Live, l \in Work!Levels : Work!IsSummed(p, l, f) /\ m = Work!ProcMember(p, l, f)
  BY DEF Work!Members, Work!GroupMembers, Work!ProcMembers

LEMMA MembersAreFinite ==
  ASSUME NEW f
  PROVE  IsFiniteSet(Work!Members(f)) /\ IsFiniteSet(Work!Live)
<1>1. Work!Listed(f) \in SUBSET Groups /\ Work!Live \in SUBSET Procs
  BY DEF Work!Listed, Work!Live
<1>2. IsFiniteSet(Work!Listed(f)) /\ IsFiniteSet(Work!Live)
  BY <1>1, WorkloadsAssumption, FS_Subset
<1>3. IsFiniteSet(Work!Levels)
  BY FS_EmptySet, FS_AddElement, Work!Levels = ({} \cup {"class"}) \cup {"group"} DEF Work!Levels
<1>4. PICK A, B : A = Work!Listed(f) \X Work!Levels /\ B = Work!Live \X Work!Levels
  OBVIOUS
<1>5. IsFiniteSet(A) /\ IsFiniteSet(B)
  BY <1>2, <1>3, <1>4, FS_Product
<1>6. PICK C, D : /\ C = {x \in A : Work!IsTop(x[1], x[2])} /\ D = {x \in B : Work!IsSummed(x[1], x[2], f)}
  OBVIOUS
<1>7. IsFiniteSet(C) /\ IsFiniteSet(D)
  <2>1. C \in SUBSET A /\ D \in SUBSET B
    BY <1>6
  <2> QED
    BY <1>5, <2>1, FS_Subset
<1>8. PICK group, proc : /\ group = [x \in C |-> Work!GroupMember(x[1], x[2], f)]
                         /\ proc = [x \in D |-> Work!ProcMember(x[1], x[2], f)]
  OBVIOUS
<1>9. PICK G, P : G = {group[x] : x \in C} /\ P = {proc[x] : x \in D}
  OBVIOUS
<1>10. IsFiniteSet(G) /\ IsFiniteSet(P)
  BY <1>7, <1>9, ImageFinite
<1>11. IsFiniteSet(G \cup P)
  BY <1>10, FS_Union
<1>12. Work!Members(f) = G \cup P
  <2>1. ASSUME NEW m \in Work!Members(f) PROVE m \in G \cup P
    <3>1. CASE \E g \in Work!Listed(f), l \in Work!Levels : Work!IsTop(g, l) /\ m = Work!GroupMember(g, l, f)
      <4>1. PICK g \in Work!Listed(f), l \in Work!Levels : Work!IsTop(g, l) /\ m = Work!GroupMember(g, l, f)
        BY <3>1
      <4>2. <<g, l>> \in C
        BY <1>4, <1>6, <4>1
      <4>3. group[<<g, l>>] = m
        BY <1>8, <4>1, <4>2
      <4> QED
        BY <1>9, <4>2, <4>3
    <3>2. CASE \E p \in Work!Live, l \in Work!Levels : Work!IsSummed(p, l, f) /\ m = Work!ProcMember(p, l, f)
      <4>1. PICK p \in Work!Live, l \in Work!Levels : Work!IsSummed(p, l, f) /\ m = Work!ProcMember(p, l, f)
        BY <3>2
      <4>2. <<p, l>> \in D
        BY <1>4, <1>6, <4>1
      <4>3. proc[<<p, l>>] = m
        BY <1>8, <4>1, <4>2
      <4> QED
        BY <1>9, <4>2, <4>3
    <3> QED
      BY <2>1, <3>1, <3>2, MemberIs
  <2>2. ASSUME NEW m \in G PROVE m \in Work!Members(f)
    <3>1. PICK x \in C : m = group[x]
      BY <1>9
    <3>2. x[1] \in Work!Listed(f) /\ x[2] \in Work!Levels /\ Work!IsTop(x[1], x[2])
      BY <1>4, <1>6
    <3>3. m = Work!GroupMember(x[1], x[2], f)
      BY <1>8, <3>1
    <3> QED
      BY <3>2, <3>3, MemberIs
  <2>3. ASSUME NEW m \in P PROVE m \in Work!Members(f)
    <3>1. PICK x \in D : m = proc[x]
      BY <1>9
    <3>2. x[1] \in Work!Live /\ x[2] \in Work!Levels /\ Work!IsSummed(x[1], x[2], f)
      BY <1>4, <1>6
    <3>3. m = Work!ProcMember(x[1], x[2], f)
      BY <1>8, <3>1
    <3> QED
      BY <3>2, <3>3, MemberIs
  <2> QED
    BY <2>1, <2>2, <2>3
<1> QED
  BY <1>2, <1>11, <1>12

(* What a member is can be told from its record.                           *)
IsGroup(m, f) ==
  /\ m.kind = "cgroup" /\ m.id[1] \in Work!Listed(f) /\ Work!IsTop(m.id[1], m.row.level)
  /\ m = Work!GroupMember(m.id[1], m.row.level, f)
IsProc(m, f) ==
  /\ m.kind = "process" /\ m.id[1] \in Work!Live /\ Work!IsSummed(m.id[1], m.row.level, f)
  /\ m = Work!ProcMember(m.id[1], m.row.level, f)

LEMMA MemberKinds ==
  ASSUME NEW f, NEW m \in Work!Members(f)
  PROVE  m.row.level \in Work!Levels /\ (IsGroup(m, f) \/ IsProc(m, f))
<1>1. ASSUME NEW g \in Work!Listed(f), NEW l \in Work!Levels, Work!IsTop(g, l), m = Work!GroupMember(g, l, f)
      PROVE  m.row.level \in Work!Levels /\ IsGroup(m, f)
  <2>1. m.kind = "cgroup" /\ m.id = <<g, inode[g]>> /\ m.row = Work!RowOf(GroupClass[g], l)
    BY <1>1, WorkSums DEF Work!GroupMember
  <2>2. m.id[1] = g /\ m.row.level = l
    BY <2>1 DEF Work!RowOf
  <2> QED
    BY <1>1, <2>1, <2>2 DEF IsGroup
<1>2. ASSUME NEW p \in Work!Live, NEW l \in Work!Levels, Work!IsSummed(p, l, f), m = Work!ProcMember(p, l, f)
      PROVE  m.row.level \in Work!Levels /\ IsProc(m, f)
  <2>1. m.kind = "process" /\ m.id = <<p, started[p]>> /\ m.row = Work!RowOf(Work!ProcClass(p, f), l)
    BY <1>2 DEF Work!ProcMember
  <2>2. m.id[1] = p /\ m.row.level = l
    BY <2>1 DEF Work!RowOf
  <2> QED
    BY <1>2, <2>1, <2>2 DEF IsProc
<1> QED
  BY <1>1, <1>2, MemberIs

(* A cgroup or a process is a member of one row of each level.             *)
LEMMA MembersTold ==
  ASSUME NEW f, NEW m \in Work!Members(f), NEW n \in Work!Members(f),
         m.row.level = n.row.level, m.id[1] = n.id[1]
  PROVE  m = n
<1>1. Work!Listed(f) \subseteq Groups /\ Work!Live \subseteq Procs
  BY DEF Work!Listed, Work!Live
<1>2. ~(IsGroup(m, f) /\ IsProc(n, f)) /\ ~(IsProc(m, f) /\ IsGroup(n, f))
  BY <1>1, WorkloadsAssumption DEF IsGroup, IsProc
<1>3. (IsGroup(m, f) /\ IsGroup(n, f)) \/ (IsProc(m, f) /\ IsProc(n, f))
  BY <1>2, MemberKinds
<1> QED
  BY <1>3 DEF IsGroup, IsProc

LEMMA KeysTell ==
  ASSUME NEW f, NEW m \in Work!Members(f), NEW n \in Work!Members(f), Work!Key(m) = Work!Key(n)
  PROVE  m = n
<1>1. m.row = n.row /\ m.id = n.id
  BY DEF Work!Key
<1> QED
  BY <1>1, MembersTold

-----------------------------------------------------------------------------
(* What a sample keeps of its members.                                     *)
LEMMA KeysTaken ==
  ASSUME Work!Counted, NEW f, state' = Work!Taken(f, Work!Members(f))
  PROVE  /\ state'.taken = workNow /\ state'.complete = (f.lost = {})
         /\ DOMAIN state'.members = {Work!Key(m) : m \in Work!Members(f)}
         /\ IsFiniteSet(DOMAIN state'.members)
         /\ \A m \in Work!Members(f) : state'.members[Work!Key(m)] = m.cpu
<1>1. /\ state'.taken = workNow /\ state'.complete = (f.lost = {})
      /\ state'.members = [k \in {Work!Key(m) : m \in Work!Members(f)} |->
                            (CHOOSE m \in Work!Members(f) : Work!Key(m) = k).cpu]
  BY WorkSums DEF Work!Taken
<1>2. PICK keyOf : keyOf = [m \in Work!Members(f) |-> Work!Key(m)]
  OBVIOUS
<1>3. IsFiniteSet({keyOf[m] : m \in Work!Members(f)})
  BY MembersAreFinite, ImageFinite
<1>4. {keyOf[m] : m \in Work!Members(f)} = {Work!Key(m) : m \in Work!Members(f)}
  BY <1>2
<1>5. ASSUME NEW m \in Work!Members(f)
      PROVE  state'.members[Work!Key(m)] = m.cpu
  <2>1. PICK n : n = CHOOSE c \in Work!Members(f) : Work!Key(c) = Work!Key(m)
    OBVIOUS
  <2>2. n \in Work!Members(f) /\ Work!Key(n) = Work!Key(m)
    BY <2>1
  <2>3. n = m
    BY <2>2, KeysTell
  <2> QED
    BY <1>1, <2>1, <2>3
<1> QED
  BY <1>1, <1>3, <1>4, <1>5

LEMMA CountsTaken ==
  ASSUME NEW f, state' = Work!Taken(f, Work!Members(f)),
         DOMAIN state'.members = {Work!Key(m) : m \in Work!Members(f)}, IsFiniteSet(DOMAIN state'.members)
  PROVE  state'.counts = [r \in {k[1] : k \in DOMAIN state'.members} |->
                           Cardinality({k \in DOMAIN state'.members : k[1] = r})]
<1>1. PICK K : K = DOMAIN state'.members
  OBVIOUS
<1>2. state'.counts = [r \in {m.row : m \in Work!Members(f)} |-> Cardinality(Work!Own(r, Work!Members(f)))]
  BY WorkSums DEF Work!Taken
<1>3. \A m \in Work!Members(f) : Work!Key(m)[1] = m.row
  BY DEF Work!Key
<1>4. {m.row : m \in Work!Members(f)} = {k[1] : k \in K}
  BY <1>1, <1>3
<1>5. ASSUME NEW r
      PROVE  Cardinality(Work!Own(r, Work!Members(f))) = Cardinality({k \in K : k[1] = r})
  <2>1. PICK M, N : M = Work!Own(r, Work!Members(f)) /\ N = {k \in K : k[1] = r}
    OBVIOUS
  <2>2. PICK h : h = [m \in M |-> Work!Key(m)]
    OBVIOUS
  <2>3. \A m \in M : m \in Work!Members(f) /\ h[m] \in N
    BY <1>1, <1>3, <2>1, <2>2 DEF Work!Own
  <2>4. \A m, n \in M : h[m] = h[n] => m = n
    BY <2>2, <2>3, KeysTell
  <2>5. \A k \in N : \E m \in M : h[m] = k
    BY <1>1, <1>3, <2>1, <2>2 DEF Work!Own
  <2>6. h \in Bijection(M, N)
    BY <2>2, <2>3, <2>4, <2>5 DEF Bijection, Injection, Surjection, IsInjective
  <2>7. IsFiniteSet(M)
    <3>1. M \in SUBSET Work!Members(f)
      BY <2>3
    <3> QED
      BY <3>1, MembersAreFinite, FS_Subset
  <2>8. ExistsBijection(M, N)
    BY <2>6 DEF ExistsBijection
  <2>9. IsFiniteSet(N) /\ Cardinality(N) = Cardinality(M)
    BY <2>7, <2>8, FS_Bijection
  <2> QED
    BY <2>1, <2>9
<1> QED
  BY <1>1, <1>2, <1>4, <1>5

LEMMA SampleTaken == Work!Counted /\ Work!Sample => Work!SinceTheSample'
<1> SUFFICES ASSUME Work!Counted, Work!Sample PROVE Work!SinceTheSample'
  OBVIOUS
<1>1. PICK f \in Work!Faults : state' = Work!Taken(f, Work!Members(f))
  BY DEF Work!Sample
<1>2. /\ spentIn' = [g \in Groups |-> 0] /\ spentBy' = [p \in Procs |-> 0] /\ strayed' = {}
      /\ UNCHANGED <<inode, usage, place, started, time, workNow>>
  BY DEF Work!Sample
<1>3. PICK K : K = DOMAIN state'.members
  OBVIOUS
<1>4. /\ state'.taken = workNow /\ state'.complete = (f.lost = {})
      /\ K = {Work!Key(m) : m \in Work!Members(f)} /\ IsFiniteSet(K)
      /\ \A m \in Work!Members(f) : state'.members[Work!Key(m)] = m.cpu
  BY <1>1, <1>3, KeysTaken
<1>5. ASSUME NEW g \in Work!Listed(f), NEW l \in Work!Levels, Work!IsTop(g, l)
      PROVE  /\ <<Work!RowOf(GroupClass[g], l), <<g, inode[g]>>>> \in K
             /\ state'.members[<<Work!RowOf(GroupClass[g], l), <<g, inode[g]>>>>] \in {Nothing, usage[g]}
  <2>1. PICK m : m = Work!GroupMember(g, l, f)
    OBVIOUS
  <2>2. m \in Work!Members(f)
    BY <1>5, <2>1, MemberIs
  <2>3. /\ m.row = Work!RowOf(GroupClass[g], l) /\ m.id = <<g, inode[g]>>
        /\ m.cpu = IF g \in f.noTime THEN Nothing ELSE usage[g]
    BY <2>1, WorkSums DEF Work!GroupMember
  <2>4. Work!Key(m) = <<Work!RowOf(GroupClass[g], l), <<g, inode[g]>>>>
    BY <2>3 DEF Work!Key
  <2> QED
    BY <1>4, <2>2, <2>3, <2>4
<1>6. \A g \in Work!Listed(f) : g \in Groups /\ Work!Exists(g) /\ inode[g] \in 1..inode[g] /\ usage[g] \in Nat
  BY DEF Work!Listed, Work!Exists, Work!Counted
<1>7. ASSUME NEW k \in K
      PROVE  Work!IsKept(k)'
  <2>1. PICK m \in Work!Members(f) : k = Work!Key(m)
    BY <1>4
  <2>2. k[2] = m.id /\ state'.members[k] = m.cpu
    BY <1>4, <2>1 DEF Work!Key
  <2>3. CASE IsGroup(m, f)
    <3>1. PICK g \in Work!Listed(f) : g = m.id[1]
      BY <2>3 DEF IsGroup
    <3>2. m = Work!GroupMember(g, m.row.level, f)
      BY <2>3, <3>1 DEF IsGroup
    <3>3. m.id = <<g, inode[g]>> /\ m.cpu \in {Nothing, usage[g]}
      BY <3>2, WorkSums DEF Work!GroupMember
    <3>4. \A l \in Work!Levels : Work!IsTop(g, l) => <<Work!RowOf(GroupClass[g], l), k[2]>> \in K
      BY <1>5, <2>2, <3>3
    <3>5. k[2][1] = g /\ k[2][2] = inode[g] /\ state'.members[k] \in Nat \cup {Nothing}
      BY <1>6, <2>2, <3>3
    <3>6. Work!Made(g)' = inode[g]
      BY <1>2, <1>6 DEF Work!Made, Work!Exists
    <3> QED
      BY <1>2, <1>3, <1>6, <3>4, <3>5, <3>6 DEF Work!IsKept
  <2>4. CASE IsProc(m, f)
    <3>1. PICK p \in Work!Live : p = m.id[1]
      BY <2>4 DEF IsProc
    <3>2. m = Work!ProcMember(p, m.row.level, f)
      BY <2>4, <3>1 DEF IsProc
    <3>3. m.id = <<p, started[p]>> /\ m.cpu = time[p]
      BY <3>2 DEF Work!ProcMember
    <3>4. p \in Procs /\ started[p] # Nothing /\ time[p] \in Nat
      BY DEF Work!Live, Work!Counted
    <3>5. spentBy'[p] = 0
      BY <1>2, <3>4
    <3> QED
      BY <1>2, <2>2, <3>3, <3>4, <3>5 DEF Work!IsKept
  <2> QED
    BY <2>1, <2>3, <2>4, MemberKinds
<1>8. ASSUME NEW g \in Groups, NEW l \in Work!Levels, Work!IsTop(g, l)
      PROVE  Work!Fits(g, Work!RowOf(GroupClass[g], l))'
  <2>1. PICK r : r = Work!RowOf(GroupClass[g], l)
    OBVIOUS
  <2>2. spentIn'[g] = 0
    BY <1>2
  <2>3. CASE ~Work!Exists(g)
    <3>1. ~(inode'[g] > 0)
      BY <1>2, <2>3 DEF Work!Exists
    <3> QED
      BY <2>1, <2>2, <3>1 DEF Work!Fits, Work!Exists
  <2>4. CASE Work!Exists(g)
    <3>1. inode'[g] > 0 /\ inode'[g] = inode[g] /\ usage'[g] = usage[g] /\ usage[g] \in Nat
      BY <1>2, <2>4 DEF Work!Exists, Work!Counted
    <3>2. CASE g \in Work!Listed(f)
      <4>1. <<r, <<g, inode[g]>>>> \in K /\ state'.members[<<r, <<g, inode[g]>>>>] \in {Nothing, usage[g]}
        BY <1>5, <1>8, <2>1, <3>2
      <4> QED
        BY <1>3, <2>1, <2>2, <3>1, <4>1 DEF Work!Fits, Work!Exists
    <3>3. CASE g \notin Work!Listed(f)
      <4>1. ~state'.complete
        BY <1>4, <2>4, <3>3 DEF Work!Listed
      <4>2. <<r, <<g, inode[g]>>>> \notin K
        <5>1. ASSUME NEW m \in Work!Members(f), Work!Key(m) = <<r, <<g, inode[g]>>>>
              PROVE  FALSE
          <6>1. m.id[1] = g
            BY <5>1 DEF Work!Key
          <6>2. g \notin Work!Live
            BY WorkloadsAssumption DEF Work!Live
          <6> QED
            BY <3>3, <6>1, <6>2, MemberKinds DEF IsGroup, IsProc
        <5> QED
          BY <1>4, <5>1
      <4> QED
        BY <1>3, <2>1, <3>1, <4>1, <4>2 DEF Work!Fits, Work!Exists
    <3> QED
      BY <3>2, <3>3
  <2> QED
    BY <2>3, <2>4
<1>9. \A p \in Procs : started'[p] # Nothing => ~(started'[p] > state'.taken)
  BY <1>2, <1>4 DEF Work!Counted
<1>10. workNow' \in Nat /\ state'.taken \in Nat /\ state'.taken <= workNow'
  BY <1>2, <1>4 DEF Work!Counted
<1>11. state'.counts = [r \in {k[1] : k \in K} |-> Cardinality({k \in K : k[1] = r})]
  BY <1>1, <1>3, <1>4, CountsTaken
<1> QED
  BY <1>3, <1>4, <1>7, <1>8, <1>9, <1>10, <1>11, WorkSums DEF Work!SinceTheSample

-----------------------------------------------------------------------------
(* What a step of the world has to keep for SinceTheSample.                *)
LEMMA StillSince ==
  ASSUME Work!SinceTheSample, state # Nothing, state' = state, workNow' \in Nat, workNow <= workNow', workNow \in Nat,
         \A k \in DOMAIN state.members : Work!IsKept(k)',
         \A p \in Procs : started'[p] # Nothing /\ started'[p] > state.taken => time'[p] = spentBy'[p],
         \A g \in Groups, l \in Work!Levels : Work!IsTop(g, l) => Work!Fits(g, Work!RowOf(GroupClass[g], l))'
  PROVE  Work!SinceTheSample'
<1>1. state.taken \in Nat /\ state.taken <= workNow'
  BY WorkSums DEF Work!SinceTheSample
<1> QED
  BY <1>1, WorkSums DEF Work!SinceTheSample

(* A step that changes no cgroup and no counter of one.                    *)
LEMMA StillFits ==
  ASSUME state' = state, inode' = inode, usage' = usage, spentIn' = spentIn,
         strayed \subseteq strayed'
  PROVE  \A g, r : Work!Fits(g, r) => Work!Fits(g, r)'
  BY DEF Work!Fits, Work!Gone, Work!Exists

LEMMA SinceMake ==
  ASSUME Work!Counted, Work!Counted', Work!SinceTheSample, NEW g \in Groups \ {Root}, Work!Make(g)
  PROVE  Work!SinceTheSample'
<1>1. /\ state # Nothing /\ ~Work!Exists(g) /\ inode' = [inode EXCEPT ![g] = 1 - @]
      /\ UNCHANGED <<usage, place, started, time, workNow, state, spentIn, spentBy, strayed>>
  BY DEF Work!Make, Work!Step
<1>2. /\ inode[g] \in Int /\ ~(inode[g] > 0) /\ inode'[g] = 1 - inode[g]
      /\ \A h \in Groups \ {g} : inode'[h] = inode[h]
  BY <1>1 DEF Work!Exists, Work!Counted
<1>3. \A k \in DOMAIN state.members : Work!IsKept(k)
  BY <1>1, WorkSums DEF Work!SinceTheSample
<1>4. ASSUME NEW k \in DOMAIN state.members
      PROVE  Work!IsKept(k)'
  <2>1. CASE k[2][1] = g
    <3>1. g \notin Procs
      BY WorkloadsAssumption
    <3>2. k[2][2] \in 1..Work!Made(g)
      BY <1>3, <2>1, <3>1 DEF Work!IsKept
    <3>3. Work!Made(g) = -inode[g] /\ Work!Made(g)' = 1 - inode[g]
      BY <1>2 DEF Work!Made, Work!Exists
    <3>4. k[2][2] \in 1..Work!Made(g)'
      BY <1>2, <3>2, <3>3
    <3> QED
      BY <1>1, <1>3, <2>1, <3>1, <3>4 DEF Work!IsKept
  <2>2. CASE k[2][1] # g
    <3>1. k[2][1] \in Groups => Work!Made(k[2][1])' = Work!Made(k[2][1])
      BY <1>2, <2>2 DEF Work!Made, Work!Exists
    <3> QED
      BY <1>1, <1>3, <3>1 DEF Work!IsKept
  <2> QED
    BY <2>1, <2>2
<1>5. ASSUME NEW h \in Groups, NEW l \in Work!Levels, Work!IsTop(h, l)
      PROVE  Work!Fits(h, Work!RowOf(GroupClass[h], l))'
  <2>1. PICK r : r = Work!RowOf(GroupClass[h], l)
    OBVIOUS
  <2>2. Work!Fits(h, r)
    BY <1>1, <1>5, <2>1, WorkSums DEF Work!SinceTheSample
  <2>3. CASE h # g
    <3>1. inode'[h] = inode[h]
      BY <1>2, <2>3
    <3> QED
      BY <1>1, <2>1, <2>2, <3>1 DEF Work!Fits, Work!Gone, Work!Exists
  <2>4. CASE h = g
    <3>1. usage[g] = 0 /\ spentIn[g] \in Nat
      BY <1>1 DEF Work!Counted
    <3>2. spentIn[g] = 0 \/ g \in strayed \/ Work!Gone(g, r)
      BY <1>1, <2>2, <2>4 DEF Work!Fits
    <3>3. ASSUME NEW k \in DOMAIN state.members, k[2][1] = g PROVE k[2][2] # inode'[g]
      <4>1. g \notin Procs
        BY WorkloadsAssumption
      <4>2. k[2][2] \in 1..Work!Made(g)
        BY <1>3, <3>3, <4>1 DEF Work!IsKept
      <4>3. Work!Made(g) = -inode[g]
        BY <1>2 DEF Work!Made, Work!Exists
      <4> QED
        BY <1>2, <4>2, <4>3
    <3>4. <<r, <<g, inode'[g]>>>> \notin DOMAIN state.members
      <4>1. <<r, <<g, inode'[g]>>>>[2] = <<g, inode'[g]>>
        OBVIOUS
      <4> QED
        BY <3>3, <4>1
    <3>5. Work!Gone(g, r) => Work!Gone(g, r)'
      BY <1>1, <3>3 DEF Work!Gone
    <3>6. inode'[g] > 0
      BY <1>2
    <3> QED
      BY <1>1, <2>1, <2>4, <3>1, <3>2, <3>4, <3>5, <3>6 DEF Work!Fits, Work!Exists
  <2> QED
    BY <2>3, <2>4
<1>6. \A p \in Procs : started'[p] # Nothing /\ started'[p] > state.taken => time'[p] = spentBy'[p]
  BY <1>1, WorkSums DEF Work!SinceTheSample
<1>7. workNow \in Nat /\ workNow' \in Nat /\ workNow <= workNow'
  BY <1>1 DEF Work!Counted
<1> QED
  BY <1>1, <1>4, <1>5, <1>6, <1>7, StillSince

LEMMA SinceUnmake ==
  ASSUME Work!Counted, Work!Counted', Work!SinceTheSample, NEW g \in Groups \ {Root}, Work!Unmake(g)
  PROVE  Work!SinceTheSample'
<1>1. /\ state # Nothing /\ Work!Exists(g) /\ inode' = [inode EXCEPT ![g] = -@]
      /\ usage' = [usage EXCEPT ![g] = 0]
      /\ strayed' = IF \E k \in DOMAIN state.members : k[2] = <<g, inode[g]>>
                    THEN strayed ELSE strayed \cup {g}
      /\ UNCHANGED <<place, started, time, workNow, state, spentIn, spentBy>>
  BY DEF Work!Unmake, Work!Step
<1>2. /\ inode[g] \in Int /\ inode[g] > 0 /\ inode'[g] = -inode[g]
      /\ \A h \in Groups \ {g} : inode'[h] = inode[h] /\ usage'[h] = usage[h]
  BY <1>1 DEF Work!Exists, Work!Counted
<1>3. \A k \in DOMAIN state.members : Work!IsKept(k)
  BY <1>1, WorkSums DEF Work!SinceTheSample
<1>4. ASSUME NEW k \in DOMAIN state.members
      PROVE  Work!IsKept(k)'
  <2>1. Work!Made(g)' = Work!Made(g)
    BY <1>2 DEF Work!Made, Work!Exists
  <2>2. k[2][1] \in Groups => Work!Made(k[2][1])' = Work!Made(k[2][1])
    BY <1>2, <2>1 DEF Work!Made, Work!Exists
  <2> QED
    BY <1>1, <1>3, <2>2 DEF Work!IsKept
<1>5. ASSUME NEW h \in Groups, NEW l \in Work!Levels, Work!IsTop(h, l)
      PROVE  Work!Fits(h, Work!RowOf(GroupClass[h], l))'
  <2>1. PICK r : r = Work!RowOf(GroupClass[h], l)
    OBVIOUS
  <2>2. Work!Fits(h, r)
    BY <1>1, <1>5, <2>1, WorkSums DEF Work!SinceTheSample
  <2>3. CASE h # g
    <3>1. inode'[h] = inode[h] /\ usage'[h] = usage[h]
      BY <1>2, <2>3
    <3> QED
      BY <1>1, <2>1, <2>2, <3>1 DEF Work!Fits, Work!Gone, Work!Exists
  <2>4. CASE h = g
    <3>1. ~(inode'[g] > 0)
      BY <1>2
    <3>2. g \in strayed' \/ Work!Gone(g, r)'
      <4>1. CASE \E k \in DOMAIN state.members : k[2] = <<g, inode[g]>>
        <5>1. PICK k \in DOMAIN state.members : k[2] = <<g, inode[g]>>
          BY <4>1
        <5>2. k[2][1] = g /\ g \notin Procs
          BY <5>1, WorkloadsAssumption
        <5>3. \A j \in Work!Levels : Work!IsTop(g, j) => <<Work!RowOf(GroupClass[g], j), k[2]>> \in DOMAIN state.members
          BY <1>3, <5>2 DEF Work!IsKept
        <5>4. PICK i : i = <<r, k[2]>>
          OBVIOUS
        <5>5. i \in DOMAIN state.members
          BY <1>5, <2>1, <2>4, <5>3, <5>4
        <5>6. i[1] = r /\ i[2][1] = g /\ i[2][2] = inode[g]
          BY <5>1, <5>4
        <5>7. i[2][2] # inode'[g]
          BY <1>2, <5>6
        <5> QED
          BY <1>1, <5>5, <5>6, <5>7 DEF Work!Gone
      <4>2. CASE ~\E k \in DOMAIN state.members : k[2] = <<g, inode[g]>>
        BY <1>1, <4>2
      <4> QED
        BY <4>1, <4>2
    <3> QED
      BY <2>1, <2>4, <3>1, <3>2 DEF Work!Fits, Work!Exists
  <2> QED
    BY <2>3, <2>4
<1>6. \A p \in Procs : started'[p] # Nothing /\ started'[p] > state.taken => time'[p] = spentBy'[p]
  BY <1>1, WorkSums DEF Work!SinceTheSample
<1>7. workNow \in Nat /\ workNow' \in Nat /\ workNow <= workNow'
  BY <1>1 DEF Work!Counted
<1> QED
  BY <1>1, <1>4, <1>5, <1>6, <1>7, StillSince

(* A process starts, moves or ends.                                        *)
LEMMA SinceStart ==
  ASSUME Work!Counted, Work!Counted', Work!SinceTheSample, NEW p \in Procs, NEW g \in Groups,
         Work!Start(p, g) \/ Work!Move(p, g) \/ Work!End(p)
  PROVE  Work!SinceTheSample'
<1>1. /\ state # Nothing /\ strayed \subseteq strayed'
      /\ UNCHANGED <<inode, usage, time, workNow, state, spentIn, spentBy>>
      /\ started' = started \/ (started[p] = Nothing /\ started' = [started EXCEPT ![p] = workNow])
  BY DEF Work!Start, Work!Move, Work!End, Work!Step
<1>2. started \in [Procs -> Nat \cup {Nothing}] /\ \A h : Work!Made(h)' = Work!Made(h)
  BY <1>1 DEF Work!Counted, Work!Made, Work!Exists
<1>3. \A q \in Procs : started[q] # Nothing => started'[q] = started[q]
  BY <1>1, <1>2
<1>4. ASSUME NEW k \in DOMAIN state.members
      PROVE  Work!IsKept(k)'
  <2>1. Work!IsKept(k)
    BY <1>1, WorkSums DEF Work!SinceTheSample
  <2> QED
    BY <1>1, <1>2, <1>3, <2>1 DEF Work!IsKept
<1>5. \A h \in Groups, l \in Work!Levels : Work!IsTop(h, l) => Work!Fits(h, Work!RowOf(GroupClass[h], l))'
  <2>1. \A h \in Groups, l \in Work!Levels : Work!IsTop(h, l) => Work!Fits(h, Work!RowOf(GroupClass[h], l))
    BY <1>1, WorkSums DEF Work!SinceTheSample
  <2> QED
    BY <1>1, <2>1, StillFits
<1>6. ASSUME NEW q \in Procs, started'[q] # Nothing, started'[q] > state.taken
      PROVE  time'[q] = spentBy'[q]
  <2>1. CASE started[q] = Nothing
    BY <1>1, <2>1 DEF Work!Counted
  <2>2. CASE started[q] # Nothing
    <3>1. started'[q] = started[q]
      BY <1>3, <2>2
    <3>2. started[q] > state.taken
      BY <1>6, <3>1
    <3>3. time[q] = spentBy[q]
      BY <1>1, <2>2, <3>2, WorkSums DEF Work!SinceTheSample
    <3> QED
      BY <1>1, <3>3
  <2> QED
    BY <2>1, <2>2
<1>7. workNow \in Nat /\ workNow' \in Nat /\ workNow <= workNow'
  BY <1>1 DEF Work!Counted
<1> QED
  BY <1>1, <1>4, <1>5, <1>6, <1>7, StillSince

LEMMA SinceRun ==
  ASSUME Work!Counted, Work!Counted', Work!SinceTheSample, NEW p \in Procs, Work!Run(p)
  PROVE  Work!SinceTheSample'
<1>1. PICK where : where = Work!AtOrAbove[place[p]]
  OBVIOUS
<1>2. /\ state # Nothing /\ workNow' = workNow + 1
      /\ time' = [time EXCEPT ![p] = @ + 1] /\ spentBy' = [spentBy EXCEPT ![p] = @ + 1]
      /\ usage' = [g \in Groups |-> IF g \in where THEN usage[g] + 1 ELSE usage[g]]
      /\ spentIn' = [g \in Groups |-> IF g \in where THEN spentIn[g] + 1 ELSE spentIn[g]]
      /\ UNCHANGED <<inode, place, started, state, strayed>>
  BY <1>1 DEF Work!Run, Work!Step
<1>3. \A g \in where : Work!Exists(g)
  BY <1>1, RunAbove
<1>4. \A h : Work!Made(h)' = Work!Made(h)
  BY <1>2 DEF Work!Made, Work!Exists
<1>5. \A q \in Procs : /\ time[q] \in Nat /\ spentBy[q] \in Nat
                       /\ \/ time'[q] = time[q] /\ spentBy'[q] = spentBy[q]
                          \/ time'[q] = time[q] + 1 /\ spentBy'[q] = spentBy[q] + 1
  BY <1>2 DEF Work!Counted
<1>6. ASSUME NEW k \in DOMAIN state.members
      PROVE  Work!IsKept(k)'
  <2>1. Work!IsKept(k)
    BY <1>2, WorkSums DEF Work!SinceTheSample
  <2>2. CASE k[2][1] \in Procs
    <3>1. k[2][1] \notin Groups
      BY <2>2, WorkloadsAssumption
    <3>2. /\ k[2][2] = started[k[2][1]] /\ started[k[2][1]] # Nothing /\ state.members[k] \in Nat
          /\ time[k[2][1]] = state.members[k] + spentBy[k[2][1]]
      BY <2>1, <3>1 DEF Work!IsKept
    <3>3. time'[k[2][1]] = state.members[k] + spentBy'[k[2][1]]
      BY <1>5, <2>2, <3>2
    <3> QED
      BY <1>2, <2>2, <3>2, <3>3 DEF Work!IsKept
  <2>3. CASE k[2][1] \notin Procs
    BY <1>2, <1>4, <2>1, <2>3 DEF Work!IsKept
  <2> QED
    BY <2>2, <2>3
<1>7. ASSUME NEW g \in Groups, NEW l \in Work!Levels, Work!IsTop(g, l)
      PROVE  Work!Fits(g, Work!RowOf(GroupClass[g], l))'
  <2>1. PICK r : r = Work!RowOf(GroupClass[g], l)
    OBVIOUS
  <2>2. Work!Fits(g, r)
    BY <1>2, <1>7, <2>1, WorkSums DEF Work!SinceTheSample
  <2>3. usage[g] \in Nat /\ spentIn[g] \in Nat
    BY DEF Work!Counted
  <2>4. Work!Gone(g, r)' <=> Work!Gone(g, r)
    BY <1>2 DEF Work!Gone
  <2>5. CASE g \notin where
    <3>1. usage'[g] = usage[g] /\ spentIn'[g] = spentIn[g]
      BY <1>2, <2>5
    <3> QED
      BY <1>2, <2>1, <2>2, <2>4, <3>1 DEF Work!Fits, Work!Exists
  <2>6. CASE g \in where
    <3>1. usage'[g] = usage[g] + 1 /\ spentIn'[g] = spentIn[g] + 1 /\ inode[g] > 0
      BY <1>2, <1>3, <2>6 DEF Work!Exists
    <3>2. PICK k : k = <<r, <<g, inode[g]>>>>
      OBVIOUS
    <3>3. CASE k \in DOMAIN state.members
      <4>1. state.members[k] # Nothing => state.members[k] \in Nat
        <5>1. Work!IsKept(k)
          BY <1>2, <3>3, WorkSums DEF Work!SinceTheSample
        <5> QED
          BY <5>1 DEF Work!IsKept
      <4>2. state.members[k] # Nothing => usage[g] = state.members[k] + spentIn[g]
        BY <2>2, <3>1, <3>2, <3>3 DEF Work!Fits, Work!Exists
      <4>3. state.members[k] # Nothing => usage'[g] = state.members[k] + spentIn'[g]
        BY <2>3, <3>1, <4>1, <4>2
      <4> QED
        BY <1>2, <2>1, <3>1, <3>2, <3>3, <4>3 DEF Work!Fits, Work!Exists
    <3>4. CASE k \notin DOMAIN state.members
      <4>1. state.complete => /\ usage[g] <= spentIn[g]
                              /\ usage[g] = spentIn[g] \/ g \in strayed \/ Work!Gone(g, r)
        BY <2>2, <3>1, <3>2, <3>4 DEF Work!Fits, Work!Exists
      <4>2. state.complete => /\ usage'[g] <= spentIn'[g]
                              /\ usage'[g] = spentIn'[g] \/ g \in strayed' \/ Work!Gone(g, r)'
        BY <1>2, <2>3, <2>4, <3>1, <4>1
      <4> QED
        BY <1>2, <2>1, <3>1, <3>2, <3>4, <4>2 DEF Work!Fits, Work!Exists
    <3> QED
      BY <3>3, <3>4
  <2> QED
    BY <2>5, <2>6
<1>8. ASSUME NEW q \in Procs, started'[q] # Nothing, started'[q] > state.taken
      PROVE  time'[q] = spentBy'[q]
  <2>1. time[q] = spentBy[q]
    BY <1>2, <1>8, WorkSums DEF Work!SinceTheSample
  <2> QED
    BY <1>5, <2>1
<1>9. workNow \in Nat /\ workNow' \in Nat /\ workNow <= workNow'
  BY <1>2 DEF Work!Counted
<1> QED
  BY <1>2, <1>6, <1>7, <1>8, <1>9, StillSince

LEMMA SinceNext == Work!Counted /\ Work!Counted' /\ Work!SinceTheSample /\ [Work!Next]_workVars => Work!SinceTheSample'
<1> SUFFICES ASSUME Work!Counted, Work!Counted', Work!SinceTheSample, [Work!Next]_workVars PROVE Work!SinceTheSample'
  OBVIOUS
<1>1. CASE UNCHANGED workVars
  BY <1>1, WorkSums DEF workVars, Work!SinceTheSample, Work!IsKept, Work!Made, Work!Fits, Work!Gone, Work!Exists
<1>2. CASE Root \in Groups
  BY <1>1, <1>2, SinceMake, SinceUnmake, SinceStart, SinceRun, SampleTaken DEF Work!Next
<1> QED
  BY <1>2, WorkloadsAssumption
-----------------------------------------------------------------------------
(* The rows of a table, and the members of a level that no row hosts.      *)
Free(r, all) == {m \in Work!Own(r, all) : m.host = Nothing}
Hostless(f) == {m \in Work!Members(f) : m.row.level = "class" /\ m.host = Nothing}

LEMMA RowIs ==
  ASSUME NEW r, NEW all
  PROVE  /\ Work!Row(r, all).row = r
         /\ Work!Row(r, all).memory = Work!MemoryOf(Work!Own(r, all))
         /\ Work!Row(r, all).overlay = Work!MemoryOf(Work!Overlay(r, all))
         /\ Work!Row(r, all).partial = ({m \in Work!Own(r, all) : m.memory # Nothing} # Work!Own(r, all))
         /\ Work!Row(r, all).doubled = (\E m \in Work!Own(r, all) : m.unplaced)
         /\ Work!Row(r, all).cpu = Work!Bounded(Work!CpuOf(Work!Own(r, all)))
         /\ Work!Row(r, all).cpu_overlay = Work!Bounded(Work!CpuOf(Work!Overlay(r, all)))
  BY WorkSums DEF Work!Row

LEMMA TableIs ==
  ASSUME NEW f
  PROVE  /\ IsFiniteSet(Work!Table(Work!Members(f)))
         /\ \A t \in Work!Table(Work!Members(f)) : t = Work!Row(t.row, Work!Members(f))
         /\ \A m \in Work!Members(f) : Work!Row(m.row, Work!Members(f)) \in Work!Table(Work!Members(f))
<1>1. PICK all : all = Work!Members(f)
  OBVIOUS
<1>2. PICK keys : keys = Work!ClassRows \cup {m.row : m \in all}
  OBVIOUS
<1>3. IsFiniteSet(Work!ClassRows)
  <2>1. PICK plain : plain = {h \in Groups : ~GroupClass[h].mixed}
    OBVIOUS
  <2>2. plain \in SUBSET Groups
    BY <2>1
  <2>3. IsFiniteSet(plain)
    BY <2>2, WorkloadsAssumption, FS_Subset
  <2>4. PICK classOf : classOf = [g \in plain |-> GroupClass[g].class]
    OBVIOUS
  <2>5. PICK names : names = {classOf[g] : g \in plain}
    OBVIOUS
  <2>6. IsFiniteSet(names)
    BY <2>3, <2>5, ImageFinite
  <2>7. PICK known : known = (names \cup {"agent_sessions"}) \cup {"unclassified"}
    OBVIOUS
  <2>8. IsFiniteSet(known)
    BY <2>6, <2>7, FS_AddElement
  <2>9. PICK rowOf : rowOf = [c \in known |-> [level |-> "class", class |-> c, key |-> Work!NoName]]
    OBVIOUS
  <2>10. IsFiniteSet({rowOf[c] : c \in known})
    BY <2>8, ImageFinite
  <2>11. {GroupClass[g].class : g \in plain} = names
    BY <2>4, <2>5
  <2>12. {GroupClass[g].class : g \in plain} \cup {"agent_sessions", "unclassified"} = known
    BY <2>7, <2>11
  <2>13. Work!ClassRows = {[level |-> "class", class |-> c, key |-> Work!NoName] : c \in known}
    BY <2>1, <2>12 DEF Work!ClassRows
  <2>14. Work!ClassRows = {rowOf[c] : c \in known}
    BY <2>9, <2>13
  <2> QED
    BY <2>10, <2>14
<1>4. IsFiniteSet(keys)
  <2>1. PICK ofRow : ofRow = [m \in all |-> m.row]
    OBVIOUS
  <2>2. IsFiniteSet({ofRow[m] : m \in all})
    BY <1>1, MembersAreFinite, ImageFinite
  <2>3. {ofRow[m] : m \in all} = {m.row : m \in all}
    BY <2>1
  <2> QED
    BY <1>2, <1>3, <2>2, <2>3, FS_Union
<1>5. Work!Table(all) = {Work!Row(r, all) : r \in keys}
  BY <1>2 DEF Work!Table
<1>6. PICK made : made = [r \in keys |-> Work!Row(r, all)]
  OBVIOUS
<1>7. IsFiniteSet({made[r] : r \in keys})
  BY <1>4, ImageFinite
<1>8. {made[r] : r \in keys} = Work!Table(all)
  BY <1>5, <1>6
<1>9. ASSUME NEW t \in Work!Table(all) PROVE t = Work!Row(t.row, all)
  <2>1. PICK r \in keys : t = Work!Row(r, all)
    BY <1>5
  <2>2. t.row = r
    BY <2>1, RowIs
  <2> QED
    BY <2>1, <2>2
<1>10. \A m \in all : Work!Row(m.row, all) \in Work!Table(all)
  BY <1>2, <1>5
<1> QED
  BY <1>1, <1>7, <1>8, <1>9, <1>10

(* What the class rows' hostless members have together is what all have.   *)
LEMMA ClassesAdd ==
  ASSUME NEW f, NEW v, \A m \in Work!Members(f) : v[m] \in Int, NEW sum,
         \A t \in Work!Classes(Work!Table(Work!Members(f))) : sum[t] = SumFunctionOnSet(v, Free(t.row, Work!Members(f)))
  PROVE  SumFunctionOnSet(sum, Work!Classes(Work!Table(Work!Members(f)))) = SumFunctionOnSet(v, Hostless(f))
<1>1. PICK all, R, D : all = Work!Members(f) /\ R = Work!Classes(Work!Table(all)) /\ D = Hostless(f)
  OBVIOUS
<1>2. /\ R \in SUBSET Work!Table(all) /\ \A t \in R : t.row.level = "class"
      /\ \A t \in Work!Table(all) : t.row.level = "class" => t \in R
  BY <1>1 DEF Work!Classes
<1>3. D \in SUBSET all
  BY <1>1 DEF Hostless
<1>4. IsFiniteSet(R) /\ IsFiniteSet(D)
  BY <1>1, <1>2, <1>3, TableIs, MembersAreFinite, FS_Subset
<1>5. PICK parts : parts = [t \in R |-> Free(t.row, all)]
  OBVIOUS
<1>6. \A m \in D : v[m] \in Int /\ \E t \in R : m \in parts[t]
  <2> SUFFICES ASSUME NEW m \in D PROVE \E t \in R : m \in parts[t]
    BY <1>1, <1>3
  <2>1. m \in all /\ m.row.level = "class" /\ m.host = Nothing
    BY <1>1 DEF Hostless
  <2>2. PICK t : t = Work!Row(m.row, all)
    OBVIOUS
  <2>3. t.row = m.row /\ t \in Work!Table(all)
    BY <1>1, <2>1, <2>2, RowIs, TableIs
  <2>4. t \in R /\ m \in Free(t.row, all)
    BY <1>2, <2>1, <2>3 DEF Free, Work!Own
  <2> QED
    BY <1>5, <2>4
<1>7. \A t \in R : parts[t] \in SUBSET D /\ sum[t] = SumFunctionOnSet(v, parts[t])
  BY <1>1, <1>2, <1>5 DEF Free, Work!Own, Hostless
<1>8. \A t, u \in R : t # u => parts[t] \cap parts[u] = {}
  <2> SUFFICES ASSUME NEW t \in R, NEW u \in R, NEW m \in parts[t] \cap parts[u] PROVE t = u
    OBVIOUS
  <2>1. m.row = t.row /\ m.row = u.row
    BY <1>5 DEF Free, Work!Own
  <2>2. t = Work!Row(t.row, all) /\ u = Work!Row(u.row, all)
    BY <1>1, <1>2, TableIs
  <2> QED
    BY <2>1, <2>2
<1>9. SumFunctionOnSet(sum, R) = SumFunctionOnSet(v, D)
  BY <1>4, <1>6, <1>7, <1>8, SumOfParts
<1> QED
  BY <1>1, <1>9

(* A sum over a row's members, less its overlay's.                         *)
LEMMA FreeSum ==
  ASSUME NEW f, NEW v, \A m \in Work!Members(f) : v[m] \in Int, NEW r
  PROVE  /\ SumFunctionOnSet(v, Work!Own(r, Work!Members(f))) \in Int
         /\ SumFunctionOnSet(v, Work!Overlay(r, Work!Members(f))) \in Int
         /\ SumFunctionOnSet(v, Free(r, Work!Members(f))) \in Int
         /\ SumFunctionOnSet(v, Work!Own(r, Work!Members(f))) =
              SumFunctionOnSet(v, Free(r, Work!Members(f))) + SumFunctionOnSet(v, Work!Overlay(r, Work!Members(f)))
<1>1. PICK all, A, B : all = Work!Members(f) /\ A = Free(r, all) /\ B = Work!Overlay(r, all)
  OBVIOUS
<1>2. Work!Own(r, all) = A \cup B /\ A \cap B = {} /\ A \in SUBSET all /\ B \in SUBSET all
  BY <1>1 DEF Free, Work!Overlay, Work!Own
<1>3. IsFiniteSet(A) /\ IsFiniteSet(B)
  BY <1>1, <1>2, MembersAreFinite, FS_Subset
<1>4. \A m \in A \cup B : v[m] \in Int
  BY <1>1, <1>2
<1>5. SumFunctionOnSet(v, A \cup B) = SumFunctionOnSet(v, A) + SumFunctionOnSet(v, B)
  BY <1>2, <1>3, <1>4, SumSplit
<1>6. SumFunctionOnSet(v, A) \in Int /\ SumFunctionOnSet(v, B) \in Int
  BY <1>3, <1>4, SumInt
<1> QED
  BY <1>1, <1>2, <1>5, <1>6
-----------------------------------------------------------------------------
(* A host is a row, so a member without one is below no other row's cgroup *)
(* of its level, nor in a held one.                                        *)
LEMMA TopIsHostless ==
  ASSUME NEW f, NEW h \in Groups, Work!IsTop(h, "class"), Work!HostOfGroup(h, "class") = Nothing
  PROVE  \A g \in Work!AtOrAbove[h] \ {h} : GroupClass[g].mixed
<1> SUFFICES ASSUME h # Root PROVE GroupClass[ParentOf[h]].mixed
  <2>1. CASE h = Root
    <3>1. Work!AtOrAbove[h] = {h}
      BY <2>1, PathsDefined
    <3> QED
      BY <3>1
  <2>2. CASE h # Root
    <3>1. Work!AtOrAbove[h] = {h} \cup Work!AtOrAbove[ParentOf[h]] /\ ParentOf[h] \in Groups
      BY <2>2, PathsDefined, WorkloadsAssumption
    <3>2. GroupClass[ParentOf[h]].mixed
      BY <2>2
    <3> QED
      BY <3>1, <3>2, MixedAbove
  <2> QED
    BY <2>1, <2>2
<1>1. PICK p : p = ParentOf[h]
  OBVIOUS
<1>2. p \in Groups /\ p \in Work!AtOrAbove[h] /\ "class" \in Work!Levels
  BY <1>1, WorkloadsAssumption, PathsAreClosed DEF Work!Levels
<1>3. p # h
  <2>1. {h} \in (SUBSET Groups) \ {{}}
    OBVIOUS
  <2>2. PICK g \in {h} : g = Root \/ ParentOf[g] \notin {h}
    BY <2>1, WorkloadsAssumption
  <2> QED
    BY <1>1, <2>2
<1>4. \A g \in Work!Hosts(h, "class") : g \in Work!AtOrAbove[h] /\ g \in Groups
  BY PathsAreClosed DEF Work!Hosts
<1>5. Work!Hosts(h, "class") = {}
  <2> SUFFICES ASSUME Work!Hosts(h, "class") # {} PROVE FALSE
    OBVIOUS
  <2>1. Work!Nearest(Work!Hosts(h, "class")) \in Work!Hosts(h, "class")
    BY <1>4, NearestIs
  <2>2. Work!RowOf(GroupClass[Work!Nearest(Work!Hosts(h, "class"))], "class") # Nothing
    BY <1>2, <1>4, <2>1, WorkloadsAssumption
  <2> QED
    BY <2>2 DEF Work!HostOfGroup
<1>6. p \notin Work!Hosts(h, "class")
  BY <1>5
<1>7. GroupClass[p].mixed \/ Work!RowOf(GroupClass[p], "class") # Work!RowOf(GroupClass[h], "class")
  BY <1>1 DEF Work!IsTop
<1>8. GroupClass[p].mixed \/ Work!HasRow(GroupClass[p], "class")
  BY DEF Work!HasRow
<1> QED
  BY <1>1, <1>2, <1>3, <1>6, <1>7, <1>8 DEF Work!Hosts

LEMMA HolderIs ==
  ASSUME Work!Counted, NEW f, NEW p \in Work!Live, p \notin f.unplaced, Work!Holder(p, f) = Nothing
  PROVE  \A g \in Work!AtOrAbove[place[p]] \cap Work!Listed(f) : GroupClass[g].mixed
<1> SUFFICES ASSUME NEW g \in Work!AtOrAbove[place[p]] \cap Work!Listed(f) PROVE GroupClass[g].mixed
  OBVIOUS
<1>1. place[p] \in Groups
  BY DEF Work!Live, Work!Counted
<1>2. PICK S : S = Work!AtOrAbove[place[p]] \cap Work!Listed(f)
  OBVIOUS
<1>3. Work!Nearest(S) \in S /\ S \subseteq Work!AtOrAbove[Work!Nearest(S)] /\ Work!Nearest(S) \in Groups
  BY <1>1, <1>2, NearestIs, PathsAreClosed
<1>4. GroupClass[Work!Nearest(S)] # Nothing
  BY <1>3, WorkloadsAssumption
<1>5. GroupClass[Work!Nearest(S)].mixed
  BY <1>2, <1>4 DEF Work!Holder
<1> QED
  BY <1>2, <1>3, <1>5, MixedAbove

LEMMA NoHost ==
  ASSUME Work!Counted, NEW f, NEW p \in Work!Live, NEW l \in Work!Levels, Work!Host(Work!Holder(p, f), l) = Nothing
  PROVE  Work!Holder(p, f) = Nothing
<1> SUFFICES ASSUME Work!Holder(p, f) # Nothing PROVE FALSE
  OBVIOUS
<1>1. place[p] \in Groups
  BY DEF Work!Live, Work!Counted
<1>2. PICK S : S = Work!AtOrAbove[place[p]] \cap Work!Listed(f)
  OBVIOUS
<1>3. S # {} /\ Work!Holder(p, f) = GroupClass[Work!Nearest(S)]
  BY <1>2 DEF Work!Holder
<1>4. Work!Nearest(S) \in Groups
  BY <1>1, <1>2, <1>3, NearestIs, PathsAreClosed
<1>5. "class" \in Work!Levels
  BY DEF Work!Levels
<1>6. Work!RowOf(Work!Holder(p, f), l) # Nothing /\ Work!RowOf(Work!Holder(p, f), "class") # Nothing
  BY <1>3, <1>4, <1>5, WorkloadsAssumption
<1> QED
  BY <1>6 DEF Work!Host

-----------------------------------------------------------------------------
(* The processes a member stands for.                                      *)
Whose(m) == IF m.memory = Nothing THEN {}
            ELSE IF m.kind = "cgroup" THEN Work!Within(m.id[1]) ELSE {m.id[1]}

LEMMA MemoryIs ==
  ASSUME NEW f, NEW m \in Work!Members(f)
  PROVE  /\ Work!Memory(m) \in Nat /\ Whose(m) \in SUBSET Work!Live
         /\ Work!Memory(m) = SumFunctionOnSet(Pages, Whose(m))
<1>0. Work!Live \in SUBSET Procs
  BY DEF Work!Live
<1>1. CASE m.memory = Nothing
  BY <1>1, SumEmpty DEF Work!Memory, Whose
<1>2. CASE m.memory # Nothing /\ IsGroup(m, f)
  <2>1. PICK T : T = Work!Within(m.id[1])
    OBVIOUS
  <2>2. T \in SUBSET Work!Live /\ T \in SUBSET Procs
    BY <1>0, <2>1 DEF Work!Within
  <2>3. IsFiniteSet(T) /\ \A p \in T : Pages[p] \in Nat
    BY <2>2, WorkloadsAssumption, FS_Subset
  <2>4. SumFunctionOnSet(Pages, T) \in Nat
    BY <2>3, SumNat
  <2>5. m.memory = SumFunctionOnSet(Pages, T) /\ m.kind = "cgroup"
    BY <1>2, <2>1, WorkSums DEF IsGroup, Work!GroupMember
  <2> QED
    BY <1>2, <2>1, <2>2, <2>4, <2>5 DEF Work!Memory, Whose
<1>3. CASE m.memory # Nothing /\ IsProc(m, f)
  <2>1. PICK p : p = m.id[1]
    OBVIOUS
  <2>2. p \in Work!Live /\ p \in Procs /\ m.kind = "process" /\ m.memory = Pages[p]
    BY <1>0, <1>3, <2>1 DEF IsProc, Work!ProcMember
  <2>3. Pages[p] \in Nat
    BY <2>2, WorkloadsAssumption
  <2>4. SumFunctionOnSet(Pages, {p}) = Pages[p]
    BY <2>3, SumSingle
  <2> QED
    BY <1>3, <2>1, <2>2, <2>3, <2>4 DEF Work!Memory, Whose
<1> QED
  BY <1>1, <1>2, <1>3, MemberKinds

(* With every path known, what no row hosts is apart from each other.      *)
LEMMA HostlessApart ==
  ASSUME Work!Counted, NEW f, Work!Live \cap f.unplaced = {},
         NEW m \in Hostless(f), NEW n \in Hostless(f), NEW p \in Whose(m) \cap Whose(n)
  PROVE  m = n
<1>1. /\ m \in Work!Members(f) /\ n \in Work!Members(f) /\ m.row.level = "class" /\ n.row.level = "class"
      /\ m.host = Nothing /\ n.host = Nothing
  BY DEF Hostless
<1>2. "class" \in Work!Levels
  BY DEF Work!Levels
<1>3. p \in Work!Live /\ place[p] \in Groups
  <2>1. p \in Work!Live
    BY <1>1, MemoryIs
  <2> QED
    BY <2>1 DEF Work!Live, Work!Counted
<1>4. ASSUME NEW k \in Hostless(f), p \in Whose(k), IsGroup(k, f)
      PROVE  /\ k.id[1] \in Work!AtOrAbove[place[p]] /\ k.id[1] \in Work!Listed(f) /\ k.id[1] \in Groups
             /\ ~GroupClass[k.id[1]].mixed
             /\ \A g \in Work!AtOrAbove[k.id[1]] \ {k.id[1]} : GroupClass[g].mixed
  <2>1. PICK g : g = k.id[1]
    OBVIOUS
  <2>2. k.row.level = "class" /\ k.host = Nothing
    BY DEF Hostless
  <2>3. k.kind = "cgroup" /\ k.host = Work!HostOfGroup(g, "class") /\ Work!IsTop(g, "class") /\ g \in Work!Listed(f)
    BY <1>4, <2>1, <2>2, WorkSums DEF IsGroup, Work!GroupMember
  <2>4. p \in Work!Within(g)
    BY <1>4, <2>1, <2>3 DEF Whose
  <2>5. g \in Work!AtOrAbove[place[p]] /\ g \in Groups /\ ~GroupClass[g].mixed
    BY <2>3, <2>4 DEF Work!Within, Work!Listed, Work!IsTop, Work!HasRow
  <2> QED
    BY <2>1, <2>2, <2>3, <2>5, TopIsHostless
<1>5. ASSUME NEW k \in Hostless(f), p \in Whose(k), IsProc(k, f)
      PROVE  k.id[1] = p /\ \A g \in Work!AtOrAbove[place[p]] \cap Work!Listed(f) : GroupClass[g].mixed
  <2>1. k.kind = "process" /\ k.row.level = "class" /\ k.host = Nothing
    BY <1>5 DEF Hostless, IsProc
  <2>2. k.id[1] = p
    BY <1>5, <2>1 DEF Whose
  <2>3. Work!Host(Work!Holder(p, f), "class") = Nothing
    BY <1>5, <2>1, <2>2 DEF IsProc, Work!ProcMember
  <2>4. Work!Holder(p, f) = Nothing
    BY <1>2, <1>3, <2>3, NoHost
  <2>5. p \notin f.unplaced
    BY <1>3
  <2> QED
    BY <1>3, <2>2, <2>4, <2>5, HolderIs
<1>6. CASE IsGroup(m, f) /\ IsGroup(n, f)
  <2>1. PICK g, h : g = m.id[1] /\ h = n.id[1]
    OBVIOUS
  <2>2. /\ g \in Work!AtOrAbove[place[p]] /\ h \in Work!AtOrAbove[place[p]]
        /\ ~GroupClass[g].mixed /\ ~GroupClass[h].mixed
        /\ \A x \in Work!AtOrAbove[g] \ {g} : GroupClass[x].mixed
        /\ \A x \in Work!AtOrAbove[h] \ {h} : GroupClass[x].mixed
    BY <1>4, <1>6, <2>1
  <2>3. g = h
    BY <1>3, <2>2, PathsAreChains
  <2> QED
    BY <1>1, <2>1, <2>3, MembersTold
<1>7. CASE IsProc(m, f) /\ IsProc(n, f)
  <2>1. m.id[1] = p /\ n.id[1] = p
    BY <1>5, <1>7
  <2> QED
    BY <1>1, <2>1, MembersTold
<1>8. ~(IsGroup(m, f) /\ IsProc(n, f)) /\ ~(IsProc(m, f) /\ IsGroup(n, f))
  BY <1>4, <1>5
<1> QED
  BY <1>1, <1>6, <1>7, <1>8, MemberKinds

(* With nothing lost, every process is in one of them.                     *)
LEMMA HostlessHoldAll ==
  ASSUME Work!Counted, NEW f, f.lost = {}, NEW p \in Work!Live
  PROVE  \E m \in Hostless(f) : \/ IsGroup(m, f) /\ p \in Work!Within(m.id[1])
                                \/ IsProc(m, f) /\ p = m.id[1]
<1>1. place[p] \in Groups /\ Work!Exists(place[p]) /\ "class" \in Work!Levels
  BY DEF Work!Live, Work!Counted, Work!Levels
<1>2. \A g \in Work!AtOrAbove[place[p]] : g \in Work!Listed(f) /\ g \in Groups
  BY <1>1, AboveExists, PathsAreClosed DEF Work!Listed
<1>3. ASSUME Work!Holder(p, f) = Nothing, Work!HasRow(Work!ProcClass(p, f), "class")
      PROVE  \E m \in Hostless(f) : IsProc(m, f) /\ p = m.id[1]
  <2>1. PICK m : m = Work!ProcMember(p, "class", f)
    OBVIOUS
  <2>2. Work!IsSummed(p, "class", f)
    BY <1>3 DEF Work!IsSummed
  <2>3. m \in Work!Members(f)
    BY <1>1, <2>1, <2>2, MemberIs
  <2>4. m.row.level = "class" /\ m.id[1] = p /\ m.kind = "process" /\ m.host = Nothing
    BY <1>3, <2>1 DEF Work!ProcMember, Work!RowOf, Work!Host
  <2> QED
    BY <2>1, <2>2, <2>3, <2>4 DEF Hostless, IsProc
<1>4. CASE p \in f.unplaced
  <2>1. Work!ProcClass(p, f) = Work!Unclassified /\ Work!Holder(p, f) = Nothing
    BY <1>4 DEF Work!ProcClass, Work!Holder
  <2>2. Work!HasRow(Work!Unclassified, "class")
    BY DEF Work!HasRow, Work!Unclassified
  <2> QED
    BY <1>3, <2>1, <2>2
<1>5. CASE p \notin f.unplaced /\ GroupClass[place[p]].mixed
  <2>1. Work!ProcClass(p, f) = Work!Unclassified
    BY <1>5 DEF Work!ProcClass
  <2>2. Work!HasRow(Work!Unclassified, "class")
    BY DEF Work!HasRow, Work!Unclassified
  <2>3. PICK S : S = Work!AtOrAbove[place[p]] \cap Work!Listed(f)
    OBVIOUS
  <2>4. S \subseteq Work!AtOrAbove[place[p]] /\ (S # {} => Work!Nearest(S) \in S)
    BY <1>1, <2>3, NearestIs
  <2>5. S # {} => GroupClass[Work!Nearest(S)].mixed
    BY <1>1, <1>5, <2>4, MixedAbove
  <2>6. Work!Holder(p, f) = Nothing
    BY <2>3, <2>5 DEF Work!Holder
  <2> QED
    BY <1>3, <2>1, <2>2, <2>6
<1>6. CASE ~GroupClass[place[p]].mixed
  <2>1. PICK S : S = {x \in Work!AtOrAbove[place[p]] : ~GroupClass[x].mixed}
    OBVIOUS
  <2>2. S \in (SUBSET Groups) \ {{}}
    BY <1>1, <1>2, <1>6, <2>1, PathsAreClosed
  <2>3. PICK g \in S : g = Root \/ ParentOf[g] \notin S
    BY <2>2, WorkloadsAssumption
  <2>4. g \in Work!AtOrAbove[place[p]] /\ g \in Work!Listed(f) /\ g \in Groups /\ ~GroupClass[g].mixed
    BY <1>2, <2>1
  <2>5. g # Root => ParentOf[g] \in Groups /\ GroupClass[ParentOf[g]].mixed
    BY <1>1, <1>2, <2>1, <2>3, <2>4, PathsAreClosed
  <2>6. Work!IsTop(g, "class")
    BY <2>4, <2>5 DEF Work!IsTop, Work!HasRow
  <2>7. \A x \in Work!AtOrAbove[g] \ {g} : GroupClass[x].mixed
    <3>1. Work!AtOrAbove[g] = IF g = Root THEN {g} ELSE {g} \cup Work!AtOrAbove[ParentOf[g]]
      BY <2>4, PathsDefined
    <3> QED
      BY <2>5, <3>1, MixedAbove
  <2>8. Work!HostOfGroup(g, "class") = Nothing
    <3>1. Work!Hosts(g, "class") = {}
      BY <2>7 DEF Work!Hosts, Work!HasRow
    <3> QED
      BY <3>1 DEF Work!HostOfGroup
  <2>9. PICK m : m = Work!GroupMember(g, "class", f)
    OBVIOUS
  <2>10. m \in Work!Members(f)
    BY <1>1, <2>4, <2>6, <2>9, MemberIs
  <2>11. m.row.level = "class" /\ m.id[1] = g /\ m.kind = "cgroup" /\ m.host = Nothing
    BY <2>8, <2>9, WorkSums DEF Work!GroupMember, Work!RowOf
  <2>12. m \in Hostless(f) /\ IsGroup(m, f)
    BY <2>4, <2>6, <2>9, <2>10, <2>11 DEF Hostless, IsGroup
  <2>13. p \in Work!Within(g)
    BY <2>4 DEF Work!Within
  <2> QED
    BY <2>11, <2>12, <2>13
<1> QED
  BY <1>4, <1>5, <1>6
LEMMA MemoryOfIs ==
  ASSUME NEW f, NEW v, v = [m \in Work!Members(f) |-> Work!Memory(m)], NEW S \in SUBSET Work!Members(f)
  PROVE  Work!MemoryOf(S) = SumFunctionOnSet(v, S)
<1>1. PICK w : w = [m \in S |-> Work!Memory(m)]
  OBVIOUS
<1>2. IsFiniteSet(S)
  BY MembersAreFinite, FS_Subset
<1>3. \A m \in S : w[m] \in Int /\ w[m] = v[m]
  <2> SUFFICES ASSUME NEW m \in S PROVE w[m] \in Int /\ w[m] = v[m]
    OBVIOUS
  <2>1. m \in Work!Members(f)
    OBVIOUS
  <2>2. Work!Memory(m) \in Nat
    BY <2>1, MemoryIs
  <2> QED
    BY <1>1, <2>1, <2>2
<1>4. SumFunctionOnSet(w, S) = SumFunctionOnSet(v, S)
  BY <1>2, <1>3, SumSame
<1> QED
  BY <1>1, <1>4, WorkSums DEF Work!MemoryOf

LEMMA MemoryAdds ==
  ASSUME NEW f, NEW v, v = [m \in Work!Members(f) |-> Work!Memory(m)]
  PROVE  SumFunctionOnSet([t \in Work!Table(Work!Members(f)) |-> t.memory - t.overlay],
                          Work!Classes(Work!Table(Work!Members(f)))) = SumFunctionOnSet(v, Hostless(f))
<1>1. PICK all, made : all = Work!Members(f) /\ made = Work!Table(all)
  OBVIOUS
<1>2. PICK sum : sum = [t \in made |-> t.memory - t.overlay]
  OBVIOUS
<1>3. \A m \in all : v[m] \in Int
  <2> SUFFICES ASSUME NEW m \in all PROVE v[m] \in Int
    OBVIOUS
  <2>1. Work!Memory(m) \in Nat
    BY <1>1, MemoryIs
  <2> QED
    BY <1>1, <2>1
<1>4. ASSUME NEW t \in Work!Classes(made)
      PROVE  sum[t] = SumFunctionOnSet(v, Free(t.row, all))
  <2>1. t \in made /\ t = Work!Row(t.row, all)
    BY <1>1, TableIs DEF Work!Classes
  <2>2. Work!Own(t.row, all) \in SUBSET all /\ Work!Overlay(t.row, all) \in SUBSET all
    BY DEF Work!Own, Work!Overlay
  <2>3. t.memory = Work!MemoryOf(Work!Own(t.row, all)) /\ t.overlay = Work!MemoryOf(Work!Overlay(t.row, all))
    <3>1. PICK r : r = t.row
      OBVIOUS
    <3>2. Work!Row(r, all).memory = Work!MemoryOf(Work!Own(r, all)) /\ Work!Row(r, all).overlay = Work!MemoryOf(Work!Overlay(r, all))
      BY RowIs
    <3>3. t = Work!Row(r, all)
      BY <2>1, <3>1
    <3> QED
      BY <3>1, <3>2, <3>3
  <2>4. t.memory = SumFunctionOnSet(v, Work!Own(t.row, all))
    BY <1>1, <2>2, <2>3, MemoryOfIs
  <2>5. t.overlay = SumFunctionOnSet(v, Work!Overlay(t.row, all))
    BY <1>1, <2>2, <2>3, MemoryOfIs
  <2>6. PICK x, y, z : /\ x = SumFunctionOnSet(v, Work!Own(t.row, all))
                       /\ y = SumFunctionOnSet(v, Free(t.row, all))
                       /\ z = SumFunctionOnSet(v, Work!Overlay(t.row, all))
    OBVIOUS
  <2>7. x \in Int /\ y \in Int /\ z \in Int /\ x = y + z
    BY <1>1, <1>3, <2>6, FreeSum
  <2>8. sum[t] = x - z
    BY <1>2, <2>1, <2>4, <2>5, <2>6
  <2> QED
    BY <2>6, <2>7, <2>8
<1>5. SumFunctionOnSet(sum, Work!Classes(made)) = SumFunctionOnSet(v, Hostless(f))
  BY <1>1, <1>3, <1>4, ClassesAdd
<1> QED
  BY <1>1, <1>2, <1>5

(* A row that holds a process of unknown path says so.                     *)
LEMMA DoubledIsTold ==
  ASSUME NEW f, NEW p \in Work!Live \cap f.unplaced
  PROVE  \E t \in Work!Classes(Work!Table(Work!Members(f))) : t.doubled
<1>1. Work!ProcClass(p, f) = Work!Unclassified /\ Work!Holder(p, f) = Nothing /\ "class" \in Work!Levels
  BY DEF Work!ProcClass, Work!Holder, Work!Levels
<1>2. Work!IsSummed(p, "class", f)
  BY <1>1 DEF Work!IsSummed, Work!HasRow, Work!Unclassified
<1>3. PICK m : m = Work!ProcMember(p, "class", f)
  OBVIOUS
<1>4. m \in Work!Members(f) /\ m.row.level = "class" /\ m.unplaced
  <2>1. m \in Work!Members(f)
    BY <1>1, <1>2, <1>3, MemberIs
  <2>2. m.row.level = "class" /\ m.unplaced = (p \in f.unplaced)
    BY <1>3 DEF Work!ProcMember, Work!RowOf
  <2> QED
    BY <2>1, <2>2
<1>5. PICK t : t = Work!Row(m.row, Work!Members(f))
  OBVIOUS
<1>6. t.row = m.row /\ t \in Work!Table(Work!Members(f)) /\ t.doubled = \E n \in Work!Own(m.row, Work!Members(f)) : n.unplaced
  BY <1>4, <1>5, RowIs, TableIs
<1>7. m \in Work!Own(m.row, Work!Members(f))
  BY <1>4 DEF Work!Own
<1> QED
  BY <1>4, <1>6, <1>7 DEF Work!Classes

LEMMA AllMeasured ==
  ASSUME NEW f, \A t \in Work!Classes(Work!Table(Work!Members(f))) : ~t.partial
  PROVE  \A m \in Hostless(f) : m.memory # Nothing
<1> SUFFICES ASSUME NEW m \in Hostless(f) PROVE m.memory # Nothing
  OBVIOUS
<1>1. m \in Work!Members(f) /\ m.row.level = "class"
  BY DEF Hostless
<1>2. PICK t : t = Work!Row(m.row, Work!Members(f))
  OBVIOUS
<1>3. t \in Work!Classes(Work!Table(Work!Members(f)))
  BY <1>1, <1>2, RowIs, TableIs DEF Work!Classes
<1>4. {n \in Work!Own(m.row, Work!Members(f)) : n.memory # Nothing} = Work!Own(m.row, Work!Members(f))
  BY <1>2, <1>3, RowIs
<1> QED
  BY <1>1, <1>4 DEF Work!Own

LEMMA MemoryOnce == ASSUME Work!Counted, NEW f PROVE Work!MemoryCountedOnce(f, Work!Table(Work!Members(f)))
<1>1. PICK all, made, D : all = Work!Members(f) /\ made = Work!Table(all) /\ D = Hostless(f)
  OBVIOUS
<1>2. PICK v, whose : v = [m \in all |-> Work!Memory(m)] /\ whose = [m \in D |-> Whose(m)]
  OBVIOUS
<1>3. PICK total : total = SumFunctionOnSet([t \in made |-> t.memory - t.overlay], Work!Classes(made))
  OBVIOUS
<1>4. PICK used : used = SumFunctionOnSet(Pages, Work!Live)
  OBVIOUS
<1>5. total = SumFunctionOnSet(v, D)
  BY <1>1, <1>2, <1>3, MemoryAdds
<1>6. D \in SUBSET all /\ IsFiniteSet(D) /\ IsFiniteSet(Work!Live) /\ \A p \in Work!Live : Pages[p] \in Nat
  <2>1. D \in SUBSET all
    BY <1>1 DEF Hostless
  <2>2. \A p \in Work!Live : Pages[p] \in Nat
    BY WorkloadsAssumption DEF Work!Live
  <2> QED
    BY <1>1, <2>1, <2>2, MembersAreFinite, FS_Subset
<1>7. ASSUME NEW m \in D
      PROVE  /\ v[m] \in Nat /\ whose[m] \in SUBSET Work!Live
             /\ v[m] = SumFunctionOnSet(Pages, whose[m])
  <2>1. m \in Work!Members(f)
    BY <1>1, <1>6
  <2> QED
    BY <1>1, <1>2, <2>1, MemoryIs
<1>8. total \in Nat /\ used \in Nat
  BY <1>4, <1>5, <1>6, <1>7, SumNat
<1>9. total <= used \/ \E t \in Work!Classes(made) : t.doubled
  <2>1. CASE Work!Live \cap f.unplaced # {}
    BY <1>1, <2>1, DoubledIsTold
  <2>2. CASE Work!Live \cap f.unplaced = {}
    <3>1. \A m, n \in D : m # n => whose[m] \cap whose[n] = {}
      BY <1>1, <1>2, <2>2, HostlessApart
    <3>2. PICK C : C = UNION {whose[m] : m \in D}
      OBVIOUS
    <3>3. C \in SUBSET Work!Live
      BY <1>7, <3>2
    <3>4. IsFiniteSet(C) /\ \A p \in C : Pages[p] \in Int /\ \E m \in D : p \in whose[m]
      BY <1>6, <3>2, <3>3, FS_Subset
    <3>5. \A m \in D : whose[m] \in SUBSET C /\ v[m] = SumFunctionOnSet(Pages, whose[m])
      BY <1>7, <3>2
    <3>6. SumFunctionOnSet(v, D) = SumFunctionOnSet(Pages, C)
      BY <1>6, <3>1, <3>4, <3>5, SumOfParts
    <3>7. SumFunctionOnSet(Pages, C) <= SumFunctionOnSet(Pages, Work!Live)
      BY <1>6, <3>3, SumPart
    <3> QED
      BY <1>4, <1>5, <3>6, <3>7
  <2> QED
    BY <2>1, <2>2
<1>10. total >= used \/ f.lost # {} \/ \E t \in Work!Classes(made) : t.partial
  <2> SUFFICES ASSUME f.lost = {}, \A t \in Work!Classes(made) : ~t.partial PROVE total >= used
    OBVIOUS
  <2>1. \A m \in D : m.memory # Nothing
    BY <1>1, AllMeasured
  <2>2. ASSUME NEW p \in Work!Live PROVE Pages[p] \in Nat /\ \E m \in D : p \in whose[m]
    <3>1. PICK m \in D : \/ IsGroup(m, f) /\ p \in Work!Within(m.id[1])
                         \/ IsProc(m, f) /\ p = m.id[1]
      BY <1>1, HostlessHoldAll
    <3>2. p \in Whose(m)
      BY <2>1, <3>1 DEF Whose, IsGroup, IsProc
    <3> QED
      BY <1>2, <1>6, <3>2
  <2>3. SumFunctionOnSet(Pages, Work!Live) <= SumFunctionOnSet(v, D)
    BY <1>6, <1>7, <2>2, SumCovered
  <2> QED
    BY <1>4, <1>5, <1>8, <2>3
<1> QED
  BY <1>1, <1>3, <1>4, <1>9, <1>10, WorkSums DEF Work!MemoryCountedOnce
-----------------------------------------------------------------------------
(* What a member used since, as its counter and the one before tell it.    *)
LEMMA DeltaOfGroup ==
  ASSUME Work!Counted, Work!SinceTheSample, state # Nothing, NEW f, NEW m \in Work!Members(f), IsGroup(m, f)
  PROVE  /\ Work!Delta(m) \in Nat /\ Work!Delta(m) <= spentIn[m.id[1]]
         /\ \/ Work!cpuDelta(m).bound \/ Work!Delta(m) = spentIn[m.id[1]]
            \/ m.id[1] \in strayed \/ Work!Gone(m.id[1], m.row)
<1>1. PICK g, r : g = m.id[1] /\ r = m.row
  OBVIOUS
<1>2. /\ g \in Groups /\ Work!Exists(g) /\ r.level \in Work!Levels /\ Work!IsTop(g, r.level)
      /\ r = Work!RowOf(GroupClass[g], r.level) /\ m.id = <<g, inode[g]>> /\ m.kind = "cgroup"
      /\ ~m.born /\ m.cpu \in {Nothing, usage[g]}
  <2>1. m = Work!GroupMember(g, r.level, f) /\ g \in Work!Listed(f) /\ Work!IsTop(g, r.level)
    BY <1>1 DEF IsGroup
  <2>2. /\ m.row = Work!RowOf(GroupClass[g], r.level) /\ m.id = <<g, inode[g]>> /\ m.kind = "cgroup"
        /\ ~m.born /\ m.cpu = IF g \in f.noTime THEN Nothing ELSE usage[g]
    BY <2>1, WorkSums DEF Work!GroupMember
  <2> QED
    BY <1>1, <2>1, <2>2, MemberKinds DEF Work!Listed
<1>3. PICK k : k = <<r, <<g, inode[g]>>>>
  OBVIOUS
<1>4. Work!Key(m) = k
  BY <1>1, <1>2, <1>3 DEF Work!Key
<1>5. Work!Fits(g, r)
  BY <1>2, WorkSums DEF Work!SinceTheSample
<1>6. usage[g] \in Nat /\ spentIn[g] \in Nat /\ usage[g] # Nothing
  BY <1>2, WorkloadsAssumption DEF Work!Counted
<1>7. CASE m.cpu = Nothing
  BY <1>1, <1>6, <1>7 DEF Work!Delta, Work!cpuDelta, Work!AtLeast
<1>8. CASE m.cpu # Nothing /\ k \in DOMAIN state.members
  <2>1. m.cpu = usage[g]
    BY <1>2, <1>8
  <2>2. CASE state.members[k] = Nothing
    <3>1. Work!Delta(m) = 0 /\ Work!cpuDelta(m).bound
      BY <1>4, <1>8, <2>2 DEF Work!Delta, Work!cpuDelta, Work!AtLeast
    <3> QED
      BY <1>1, <1>6, <3>1
  <2>3. CASE state.members[k] # Nothing
    <3>1. state.members[k] \in Nat
      <4>1. Work!IsKept(k)
        BY <1>8, WorkSums DEF Work!SinceTheSample
      <4>2. k[2][1] = g
        BY <1>3
      <4>3. state.members[k] \in Nat \cup {Nothing}
        BY <1>2, <4>1, <4>2, WorkloadsAssumption DEF Work!IsKept
      <4> QED
        BY <2>3, <4>3
    <3>2. usage[g] = state.members[k] + spentIn[g]
      BY <1>2, <1>3, <1>5, <1>8, <2>3 DEF Work!Fits
    <3>3. m.cpu >= state.members[k] /\ m.cpu - state.members[k] = spentIn[g]
      BY <1>6, <2>1, <3>1, <3>2
    <3>4. Work!cpuDelta(m) = Work!Exactly(m.cpu - state.members[k])
      BY <1>4, <1>8, <2>3, <3>3 DEF Work!cpuDelta
    <3>5. Work!Delta(m) = spentIn[g]
      BY <3>3, <3>4 DEF Work!Delta, Work!Exactly
    <3> QED
      BY <1>1, <1>6, <3>5
  <2> QED
    BY <2>2, <2>3
<1>9. CASE m.cpu # Nothing /\ k \notin DOMAIN state.members
  <2>1. m.cpu = usage[g]
    BY <1>2, <1>9
  <2>2. CASE state.complete
    <3>1. Work!cpuDelta(m) = Work!Exactly(m.cpu)
      BY <1>2, <1>4, <1>9, <2>2 DEF Work!cpuDelta
    <3>2. Work!Delta(m) = usage[g]
      BY <2>1, <3>1 DEF Work!Delta, Work!Exactly
    <3>3. /\ usage[g] <= spentIn[g]
          /\ usage[g] = spentIn[g] \/ g \in strayed \/ Work!Gone(g, r)
      BY <1>2, <1>3, <1>5, <1>9, <2>2 DEF Work!Fits
    <3> QED
      BY <1>1, <1>6, <3>2, <3>3
  <2>3. CASE ~state.complete
    <3>1. Work!Delta(m) = 0 /\ Work!cpuDelta(m).bound
      BY <1>2, <1>4, <1>9, <2>3 DEF Work!Delta, Work!cpuDelta, Work!AtLeast
    <3> QED
      BY <1>1, <1>6, <3>1
  <2> QED
    BY <2>2, <2>3
<1> QED
  BY <1>7, <1>8, <1>9

LEMMA DeltaOfProc ==
  ASSUME Work!Counted, Work!SinceTheSample, state # Nothing, NEW f, NEW m \in Work!Members(f), IsProc(m, f)
  PROVE  Work!Delta(m) \in Nat /\ Work!Delta(m) <= spentBy[m.id[1]]
<1>1. PICK p, r : p = m.id[1] /\ r = m.row
  OBVIOUS
<1>2. /\ p \in Procs /\ p \notin Groups /\ started[p] # Nothing
      /\ m.id = <<p, started[p]>> /\ m.kind = "process"
      /\ m.born = (started[p] > state.taken) /\ m.cpu = time[p]
  <2>1. m = Work!ProcMember(p, r.level, f) /\ p \in Work!Live
    BY <1>1 DEF IsProc
  <2>2. /\ m.id = <<p, started[p]>> /\ m.kind = "process"
        /\ m.born = (state # Nothing => started[p] > state.taken) /\ m.cpu = time[p]
    BY <2>1 DEF Work!ProcMember
  <2>3. p \in Procs /\ p \notin Groups /\ started[p] # Nothing
    BY <2>1, WorkloadsAssumption DEF Work!Live, Work!Counted
  <2> QED
    BY <2>2, <2>3
<1>3. PICK k : k = <<r, <<p, started[p]>>>>
  OBVIOUS
<1>4. Work!Key(m) = k
  BY <1>1, <1>2, <1>3 DEF Work!Key
<1>5. time[p] \in Nat /\ spentBy[p] \in Nat /\ time[p] # Nothing
  BY <1>2, WorkloadsAssumption DEF Work!Counted
<1>6. CASE k \in DOMAIN state.members
  <2>1. Work!IsKept(k)
    BY <1>6, WorkSums DEF Work!SinceTheSample
  <2>2. k[2][1] = p
    BY <1>3
  <2>3. state.members[k] \in Nat /\ time[p] = state.members[k] + spentBy[p]
    BY <1>2, <2>1, <2>2 DEF Work!IsKept
  <2>4. state.members[k] # Nothing
    BY <2>3, WorkloadsAssumption
  <2>5. m.cpu >= state.members[k] /\ m.cpu - state.members[k] = spentBy[p]
    BY <1>2, <1>5, <2>3
  <2>6. Work!cpuDelta(m) = Work!Exactly(m.cpu - state.members[k])
    BY <1>2, <1>4, <1>5, <1>6, <2>4, <2>5 DEF Work!cpuDelta
  <2>7. Work!Delta(m) = spentBy[p]
    BY <2>5, <2>6 DEF Work!Delta, Work!Exactly
  <2> QED
    BY <1>1, <1>5, <2>7
<1>7. CASE k \notin DOMAIN state.members /\ started[p] > state.taken
  <2>1. Work!cpuDelta(m) = Work!Exactly(m.cpu)
    BY <1>2, <1>4, <1>5, <1>7 DEF Work!cpuDelta
  <2>2. time[p] = spentBy[p]
    BY <1>2, <1>7, WorkSums DEF Work!SinceTheSample
  <2>3. Work!Delta(m) = spentBy[p]
    BY <1>2, <2>1, <2>2 DEF Work!Delta, Work!Exactly
  <2> QED
    BY <1>1, <1>5, <2>3
<1>8. CASE k \notin DOMAIN state.members /\ ~(started[p] > state.taken)
  <2>1. Work!cpuDelta(m) = Work!AtLeast(0)
    BY <1>2, <1>4, <1>5, <1>8 DEF Work!cpuDelta
  <2>2. Work!Delta(m) = 0
    BY <2>1 DEF Work!Delta, Work!AtLeast
  <2> QED
    BY <1>1, <1>5, <2>2
<1> QED
  BY <1>6, <1>7, <1>8

(* What members used, by what they are: no more than their cgroups and     *)
(* their processes did.                                                    *)
LEMMA CpuOfIs ==
  ASSUME Work!Counted, Work!SinceTheSample, state # Nothing,
         NEW f, NEW v, v = [m \in Work!Members(f) |-> Work!Delta(m)], NEW S \in SUBSET Work!Members(f)
  PROVE  /\ \A m \in Work!Members(f) : v[m] \in Nat
         /\ Work!CpuOf(S) = SumFunctionOnSet(v, S) /\ Work!CpuOf(S) \in Nat
<1>1. \A m \in Work!Members(f) : Work!Delta(m) \in Nat
  BY MemberKinds, DeltaOfGroup, DeltaOfProc
<1>2. PICK w : w = [m \in S |-> Work!Delta(m)]
  OBVIOUS
<1>3. IsFiniteSet(S)
  BY MembersAreFinite, FS_Subset
<1>4. \A m \in S : w[m] \in Int /\ w[m] = v[m] /\ w[m] \in Nat
  BY <1>1, <1>2
<1>5. SumFunctionOnSet(w, S) = SumFunctionOnSet(v, S) /\ SumFunctionOnSet(w, S) \in Nat
  BY <1>3, <1>4, SumSame, SumNat
<1> QED
  BY <1>1, <1>2, <1>5, WorkSums DEF Work!CpuOf

LEMMA CpuIsSpent ==
  ASSUME Work!Counted, Work!SinceTheSample, state # Nothing, NEW f,
         NEW S \in SUBSET Work!Members(f),
         \A m, n \in S : m.row.level = n.row.level,
         NEW G \in SUBSET Groups, \A m \in S : m.kind = "cgroup" => m.id[1] \in G,
         NEW P \in SUBSET Procs, \A m \in S : m.kind = "process" => m.id[1] \in P
  PROVE  Work!CpuOf(S) <= SumFunctionOnSet(spentIn, G) + SumFunctionOnSet(spentBy, P)
<1>1. PICK v : v = [m \in Work!Members(f) |-> Work!Delta(m)]
  OBVIOUS
<1>2. PICK A, B : A = {m \in S : m.kind = "cgroup"} /\ B = {m \in S : m.kind = "process"}
  OBVIOUS
<1>3. S = A \cup B /\ A \cap B = {} /\ A \in SUBSET Work!Members(f) /\ B \in SUBSET Work!Members(f)
  <2>1. \A m \in S : m.kind \in {"cgroup", "process"}
    BY MemberKinds DEF IsGroup, IsProc
  <2> QED
    BY <1>2, <2>1
<1>4. IsFiniteSet(A) /\ IsFiniteSet(B) /\ IsFiniteSet(G) /\ IsFiniteSet(P)
  BY <1>3, MembersAreFinite, WorkloadsAssumption, FS_Subset
<1>5. \A m \in Work!Members(f) : v[m] \in Nat /\ v[m] \in Int
  BY <1>1, <1>3, CpuOfIs
<1>6. PICK who : who = [m \in Work!Members(f) |-> m.id[1]]
  OBVIOUS
<1>7. \A m, n \in S : who[m] = who[n] => m = n
  BY <1>6, MembersTold
<1>8. SumFunctionOnSet(v, A) <= SumFunctionOnSet(spentIn, G)
  <2>1. ASSUME NEW m \in A PROVE who[m] \in G /\ v[m] \in Int /\ v[m] <= spentIn[who[m]]
    <3>1. m \in Work!Members(f) /\ m.kind = "cgroup" /\ m \in S
      BY <1>2, <1>3
    <3>2. IsGroup(m, f)
      BY <3>1, MemberKinds DEF IsProc
    <3>3. Work!Delta(m) <= spentIn[m.id[1]]
      BY <3>1, <3>2, DeltaOfGroup
    <3> QED
      BY <1>1, <1>5, <1>6, <3>1, <3>3
  <2>2. \A g \in G : spentIn[g] \in Nat
    BY DEF Work!Counted
  <2>3. \A m, n \in A : who[m] = who[n] => m = n
    BY <1>3, <1>7
  <2> QED
    BY <1>4, <2>1, <2>2, <2>3, SumMatched
<1>9. SumFunctionOnSet(v, B) <= SumFunctionOnSet(spentBy, P)
  <2>1. ASSUME NEW m \in B PROVE who[m] \in P /\ v[m] \in Int /\ v[m] <= spentBy[who[m]]
    <3>1. m \in Work!Members(f) /\ m.kind = "process" /\ m \in S
      BY <1>2, <1>3
    <3>2. IsProc(m, f)
      BY <3>1, MemberKinds DEF IsGroup
    <3>3. Work!Delta(m) <= spentBy[m.id[1]]
      BY <3>1, <3>2, DeltaOfProc
    <3> QED
      BY <1>1, <1>5, <1>6, <3>1, <3>3
  <2>2. \A p \in P : spentBy[p] \in Nat
    BY DEF Work!Counted
  <2>3. \A m, n \in B : who[m] = who[n] => m = n
    BY <1>3, <1>7
  <2> QED
    BY <1>4, <2>1, <2>2, <2>3, SumMatched
<1>10. Work!CpuOf(S) = SumFunctionOnSet(v, A) + SumFunctionOnSet(v, B)
  <2>1. Work!CpuOf(S) = SumFunctionOnSet(v, S)
    BY <1>1, CpuOfIs
  <2>2. SumFunctionOnSet(v, A \cup B) = SumFunctionOnSet(v, A) + SumFunctionOnSet(v, B)
    BY <1>3, <1>4, <1>5, SumSplit
  <2> QED
    BY <1>3, <2>1, <2>2
<1>11. SumFunctionOnSet(v, A) \in Nat /\ SumFunctionOnSet(v, B) \in Nat
  BY <1>3, <1>4, <1>5, SumNat
<1>12. SumFunctionOnSet(spentIn, G) \in Nat /\ SumFunctionOnSet(spentBy, P) \in Nat
  BY SpentIsNat
<1> QED
  BY <1>8, <1>9, <1>10, <1>11, <1>12
-----------------------------------------------------------------------------
LEMMA BoundedIs ==
  ASSUME NEW x \in Nat, NEW y \in Nat, NEW z \in Nat, x = y + z,
         state # Nothing, state.taken \in Nat, workNow \in Nat
  PROVE  /\ Work!Bounded(x) \in Nat /\ Work!Bounded(x) <= x /\ Work!Bounded(z) \in Nat
         /\ Work!Bounded(x) - Work!Bounded(z) <= y
<1>1. PICK most : most = (workNow - state.taken) * Online
  OBVIOUS
<1>2. most \in Int
  <2>1. PICK d : d = workNow - state.taken
    OBVIOUS
  <2>2. d \in Int /\ Online \in Int
    BY <2>1, WorkloadsAssumption
  <2>3. d * Online \in Int
    BY <2>2, SMT
  <2> QED
    BY <1>1, <2>1, <2>3
<1>3. PICK a, b : a = Work!Bounded(x) /\ b = Work!Bounded(z)
  OBVIOUS
<1>4. a = IF Online > 0 /\ x > most THEN 0 ELSE x
  BY <1>1, <1>3 DEF Work!Bounded, Work!Exceeds
<1>5. b = IF Online > 0 /\ z > most THEN 0 ELSE z
  BY <1>1, <1>3 DEF Work!Bounded, Work!Exceeds
<1>6. a \in Nat /\ a <= x /\ b \in Nat /\ a - b <= y
  BY <1>2, <1>4, <1>5
<1> QED
  BY <1>3, <1>6

(* The CPU time of a row is its own members' to within the bound.          *)
LEMMA RowCpuIs ==
  ASSUME Work!Counted, Work!SinceTheSample, state # Nothing, NEW f,
         NEW v, v = [m \in Work!Members(f) |-> Work!Delta(m)],
         NEW t \in Work!Table(Work!Members(f))
  PROVE  /\ t.cpu = Work!Bounded(Work!CpuOf(Work!Own(t.row, Work!Members(f))))
         /\ t.cpu \in Nat /\ t.cpu_overlay \in Nat
         /\ t.cpu <= Work!CpuOf(Work!Own(t.row, Work!Members(f))) /\ Work!CpuOf(Work!Own(t.row, Work!Members(f))) \in Nat
         /\ t.cpu - t.cpu_overlay <= SumFunctionOnSet(v, Free(t.row, Work!Members(f)))
<1>1. PICK r, all : r = t.row /\ all = Work!Members(f)
  OBVIOUS
<1>2. t = Work!Row(r, all)
  BY <1>1, TableIs
<1>3. Work!Row(r, all).cpu = Work!Bounded(Work!CpuOf(Work!Own(r, all))) /\ Work!Row(r, all).cpu_overlay = Work!Bounded(Work!CpuOf(Work!Overlay(r, all)))
  BY RowIs
<1>4. t.cpu = Work!Bounded(Work!CpuOf(Work!Own(r, all))) /\ t.cpu_overlay = Work!Bounded(Work!CpuOf(Work!Overlay(r, all)))
  BY <1>2, <1>3
<1>5. Work!Own(r, all) \in SUBSET all /\ Work!Overlay(r, all) \in SUBSET all /\ Free(r, all) \in SUBSET all
  BY DEF Work!Own, Work!Overlay, Free
<1>6. PICK x, y, z : /\ x = SumFunctionOnSet(v, Work!Own(r, all)) /\ y = SumFunctionOnSet(v, Free(r, all))
                     /\ z = SumFunctionOnSet(v, Work!Overlay(r, all))
  OBVIOUS
<1>7. Work!CpuOf(Work!Own(r, all)) = x /\ x \in Nat
  BY <1>1, <1>5, <1>6, CpuOfIs
<1>8. Work!CpuOf(Work!Overlay(r, all)) = z /\ z \in Nat
  BY <1>1, <1>5, <1>6, CpuOfIs
<1>9. y \in Nat
  <2>1. Work!CpuOf(Free(r, all)) = y /\ Work!CpuOf(Free(r, all)) \in Nat
    BY <1>1, <1>5, <1>6, CpuOfIs
  <2> QED
    BY <2>1
<1>10. x = y + z
  <2>1. \A m \in Work!Members(f) : v[m] \in Int
    <3>1. \A m \in Work!Members(f) : v[m] \in Nat
      BY CpuOfIs, Work!Members(f) \in SUBSET Work!Members(f)
    <3> QED
      BY <3>1
  <2> QED
    BY <1>1, <1>6, <2>1, FreeSum
<1>11. state.taken \in Nat /\ workNow \in Nat
  BY WorkSums DEF Work!SinceTheSample, Work!Counted
<1>12. Work!Bounded(x) \in Nat /\ Work!Bounded(x) <= x /\ Work!Bounded(z) \in Nat /\ Work!Bounded(x) - Work!Bounded(z) <= y
  BY <1>7, <1>8, <1>9, <1>10, <1>11, BoundedIs
<1>13. t.cpu = Work!Bounded(x) /\ t.cpu_overlay = Work!Bounded(z)
  BY <1>4, <1>7, <1>8
<1> QED
  BY <1>1, <1>4, <1>6, <1>7, <1>12, <1>13

LEMMA RowClaims ==
  ASSUME Work!Counted, Work!SinceTheSample, state # Nothing, NEW f, NEW t \in Work!Table(Work!Members(f))
  PROVE  t.cpu <= Work!Spent(t.row, Work!Members(f))
<1>1. PICK r, all : r = t.row /\ all = Work!Members(f)
  OBVIOUS
<1>2. PICK S, G, P : S = Work!Own(r, all) /\ G = Work!Tops(r) /\ P = {m.id[1] : m \in {m \in Work!Own(r, all) : m.kind = "process"}}
  OBVIOUS
<1>3. S \in SUBSET all /\ G \in SUBSET Groups /\ \A m \in S : m.row = r
  BY <1>2 DEF Work!Own, Work!Tops
<1>4. \A m \in S : m.kind = "cgroup" => m.id[1] \in G
  <2> SUFFICES ASSUME NEW m \in S, m.kind = "cgroup" PROVE m.id[1] \in G
    OBVIOUS
  <2>1. m \in Work!Members(f) /\ m.row = r
    BY <1>1, <1>3
  <2>2. IsGroup(m, f) /\ r.level \in Work!Levels
    BY <2>1, MemberKinds DEF IsProc
  <2>3. m.id[1] \in Groups /\ Work!IsTop(m.id[1], r.level) /\ m = Work!GroupMember(m.id[1], r.level, f)
    BY <2>1, <2>2 DEF IsGroup, Work!Listed
  <2>4. m.row = Work!RowOf(GroupClass[m.id[1]], r.level)
    BY <2>3, WorkSums DEF Work!GroupMember
  <2> QED
    BY <1>2, <2>1, <2>2, <2>3, <2>4 DEF Work!Tops
<1>5. P \in SUBSET Procs /\ \A m \in S : m.kind = "process" => m.id[1] \in P
  <2>1. ASSUME NEW m \in S, m.kind = "process" PROVE m.id[1] \in Procs
    <3>1. m \in Work!Members(f)
      BY <1>1, <1>3
    <3>2. IsProc(m, f)
      BY <2>1, <3>1, MemberKinds DEF IsGroup
    <3> QED
      BY <3>2 DEF IsProc, Work!Live
  <2> QED
    BY <1>2, <2>1
<1>6. Work!CpuOf(S) <= SumFunctionOnSet(spentIn, G) + SumFunctionOnSet(spentBy, P)
  BY <1>1, <1>3, <1>4, <1>5, CpuIsSpent
<1>7. SumFunctionOnSet(spentIn, G) \in Nat /\ SumFunctionOnSet(spentBy, P) \in Nat
  BY <1>3, <1>5, SpentIsNat
<1>8. t.cpu \in Nat /\ t.cpu <= Work!CpuOf(S) /\ Work!CpuOf(S) \in Nat
  BY <1>1, <1>2, RowCpuIs
<1>9. Work!Spent(r, all) = SumFunctionOnSet(spentIn, G) + SumFunctionOnSet(spentBy, P)
  BY <1>2, WorkSums DEF Work!Spent
<1>10. t.cpu <= Work!Spent(r, all)
  BY <1>6, <1>7, <1>8, <1>9
<1> QED
  BY <1>1, <1>10

(* The hostless members' cgroups and processes are apart, so the time they *)
(* used was used once.                                                     *)
LEMMA HostlessUsedOnce ==
  ASSUME Work!Counted, Work!SinceTheSample, Work!UsedOnce, state # Nothing, NEW f,
         strayed \cap Procs = {}, f.unplaced = {}
  PROVE  Work!CpuOf(Hostless(f)) <= workNow - state.taken
<1>1. PICK S : S = Hostless(f)
  OBVIOUS
<1>2. PICK G : G = {m.id[1] : m \in {m \in S : m.kind = "cgroup"}}
  OBVIOUS
<1>3. "class" \in Work!Levels /\ S \in SUBSET Work!Members(f)
      /\ \A m \in S : m.row.level = "class" /\ m.host = Nothing
  BY <1>1 DEF Work!Levels, Hostless
<1>4. ASSUME NEW g \in G
      PROVE  /\ g \in Groups /\ g \in Work!Listed(f) /\ ~GroupClass[g].mixed
             /\ \A x \in Work!AtOrAbove[g] \ {g} : GroupClass[x].mixed
  <2>1. PICK m \in S : m.kind = "cgroup" /\ g = m.id[1]
    BY <1>2
  <2>2. m \in Work!Members(f) /\ m.row.level = "class" /\ m.host = Nothing
    BY <1>3
  <2>3. IsGroup(m, f)
    BY <2>1, <2>2, MemberKinds DEF IsProc
  <2>4. g \in Work!Listed(f) /\ Work!IsTop(g, "class") /\ m = Work!GroupMember(g, "class", f)
    BY <2>1, <2>2, <2>3 DEF IsGroup
  <2>5. Work!HostOfGroup(g, "class") = Nothing
    BY <2>2, <2>4, WorkSums DEF Work!GroupMember
  <2>6. g \in Groups /\ ~GroupClass[g].mixed
    BY <2>4 DEF Work!Listed, Work!IsTop, Work!HasRow
  <2> QED
    BY <2>4, <2>5, <2>6, TopIsHostless
<1>5. G \in SUBSET Groups /\ \A m \in S : m.kind = "cgroup" => m.id[1] \in G
  BY <1>2, <1>4
<1>6. Work!Apart(G)
  BY <1>4 DEF Work!Apart
<1>7. ASSUME NEW m \in S, m.kind = "process" PROVE m.id[1] \in Work!Outside(G)
  <2>1. m \in Work!Members(f) /\ m.row.level = "class" /\ m.host = Nothing
    BY <1>3
  <2>2. IsProc(m, f)
    BY <1>7, <2>1, MemberKinds DEF IsGroup
  <2>3. PICK p : p = m.id[1]
    OBVIOUS
  <2>4. p \in Work!Live /\ m = Work!ProcMember(p, "class", f)
    BY <2>1, <2>2, <2>3 DEF IsProc
  <2>5. Work!Host(Work!Holder(p, f), "class") = Nothing
    BY <2>1, <2>4 DEF Work!ProcMember
  <2>6. Work!Holder(p, f) = Nothing
    BY <1>3, <2>4, <2>5, NoHost
  <2>7. \A g \in Work!AtOrAbove[place[p]] \cap Work!Listed(f) : GroupClass[g].mixed
    BY <2>4, <2>6, HolderIs
  <2>8. Work!AtOrAbove[place[p]] \cap G = {}
    BY <1>4, <2>7
  <2> QED
    BY <2>3, <2>4, <2>8 DEF Work!Outside, Work!Live
<1>8. PICK P : P = Work!Outside(G)
  OBVIOUS
<1>9. P \in SUBSET Procs /\ \A m \in S : m.kind = "process" => m.id[1] \in P
  BY <1>7, <1>8 DEF Work!Outside
<1>10. Work!CpuOf(S) <= SumFunctionOnSet(spentIn, G) + SumFunctionOnSet(spentBy, P)
  BY <1>3, <1>5, <1>9, CpuIsSpent
<1>11. SumFunctionOnSet(spentIn, G) + SumFunctionOnSet(spentBy, P) <= workNow - state.taken
  BY <1>5, <1>6, <1>8, WorkSums DEF Work!UsedOnce
<1>12. SumFunctionOnSet(spentIn, G) \in Nat /\ SumFunctionOnSet(spentBy, P) \in Nat
  BY <1>5, <1>9, SpentIsNat
<1>13. Work!CpuOf(S) \in Nat
  BY <1>3, CpuOfIs
<1>14. workNow - state.taken \in Int
  BY WorkSums DEF Work!SinceTheSample, Work!Counted
<1>15. Work!CpuOf(S) <= workNow - state.taken
  BY <1>10, <1>11, <1>12, <1>13, <1>14
<1> QED
  BY <1>1, <1>15

LEMMA CpuNoMore ==
  ASSUME Work!Counted, Work!SinceTheSample, Work!UsedOnce, state # Nothing, NEW f
  PROVE  Work!CpuIsLowerBound(f, Work!Members(f), Work!Table(Work!Members(f)))
<1>1. PICK all, made : all = Work!Members(f) /\ made = Work!Table(all)
  OBVIOUS
<1>2. \A t \in made : t.cpu <= Work!Spent(t.row, all)
  BY <1>1, RowClaims
<1>3. ASSUME strayed \cap Procs = {}, f.unplaced = {}
      PROVE  SumFunctionOnSet([t \in made |-> t.cpu - t.cpu_overlay], Work!Classes(made))
               <= workNow - state.taken
  <2>1. PICK v : v = [m \in all |-> Work!Delta(m)]
    OBVIOUS
  <2>2. PICK claim, sum : /\ claim = [t \in made |-> t.cpu - t.cpu_overlay]
                          /\ sum = [t \in made |-> SumFunctionOnSet(v, Free(t.row, all))]
    OBVIOUS
  <2>3. \A m \in all : v[m] \in Int
    <3>1. \A m \in Work!Members(f) : v[m] \in Nat
      BY <1>1, <2>1, CpuOfIs, Work!Members(f) \in SUBSET Work!Members(f)
    <3> QED
      BY <1>1, <3>1
  <2>4. PICK R : R = Work!Classes(made)
    OBVIOUS
  <2>5. R \in SUBSET made /\ IsFiniteSet(R)
    <3>1. R \in SUBSET made
      BY <2>4 DEF Work!Classes
    <3> QED
      BY <1>1, <3>1, TableIs, FS_Subset
  <2>6. SumFunctionOnSet(sum, R) = SumFunctionOnSet(v, Hostless(f))
    <3>1. \A t \in R : sum[t] = SumFunctionOnSet(v, Free(t.row, all))
      BY <2>2, <2>5
    <3> QED
      BY <1>1, <2>3, <2>4, <3>1, ClassesAdd
  <2>7. ASSUME NEW t \in R PROVE claim[t] \in Int /\ sum[t] \in Int /\ claim[t] <= sum[t]
    <3>1. t \in made
      BY <2>5
    <3>2. t.cpu \in Nat /\ t.cpu_overlay \in Nat
          /\ t.cpu - t.cpu_overlay <= SumFunctionOnSet(v, Free(t.row, all))
      BY <1>1, <2>1, <3>1, RowCpuIs
    <3>3. SumFunctionOnSet(v, Free(t.row, all)) \in Int
      BY <1>1, <2>3, FreeSum
    <3> QED
      BY <2>2, <3>1, <3>2, <3>3
  <2>8. SumFunctionOnSet(claim, R) <= SumFunctionOnSet(sum, R)
    BY <2>5, <2>7, SumAtMost
  <2>9. Hostless(f) \in SUBSET Work!Members(f)
    BY DEF Hostless
  <2>10. Work!CpuOf(Hostless(f)) = SumFunctionOnSet(v, Hostless(f)) /\ Work!CpuOf(Hostless(f)) \in Nat
    BY <1>1, <2>1, <2>9, CpuOfIs
  <2>11. Work!CpuOf(Hostless(f)) <= workNow - state.taken
    BY <1>3, HostlessUsedOnce
  <2>12. SumFunctionOnSet(claim, R) \in Int /\ workNow - state.taken \in Int
    BY <2>5, <2>7, SumInt, WorkSums DEF Work!SinceTheSample, Work!Counted
  <2>13. SumFunctionOnSet(claim, R) <= workNow - state.taken
    BY <2>6, <2>8, <2>10, <2>11, <2>12
  <2> QED
    BY <2>2, <2>4, <2>13
<1> QED
  BY <1>1, <1>2, <1>3, WorkSums DEF Work!CpuIsLowerBound
-----------------------------------------------------------------------------
(* A cgroup that was in the row under another inode leaves the row with    *)
(* fewer matched members than it had.                                      *)
LEMMA GoneIsCounted ==
  ASSUME Work!Counted, Work!SinceTheSample, state # Nothing, NEW f, NEW r, NEW g \in Groups, Work!Gone(g, r)
  PROVE  r \in DOMAIN state.counts /\ state.counts[r] > Cardinality(Work!Matched(r, Work!Members(f)))
<1>1. PICK k \in DOMAIN state.members : k[1] = r /\ k[2][1] = g /\ k[2][2] # inode[g]
  BY DEF Work!Gone
<1>2. PICK K : K = {x \in DOMAIN state.members : x[1] = r}
  OBVIOUS
<1>3. K \in SUBSET (DOMAIN state.members) /\ k \in K
  BY <1>1, <1>2
<1>4. IsFiniteSet(K)
  BY <1>3, FS_Subset, WorkSums DEF Work!SinceTheSample
<1>5. r \in DOMAIN state.counts /\ state.counts[r] = Cardinality(K)
  <2>1. state.counts = [s \in {x[1] : x \in DOMAIN state.members} |->
                          Cardinality({x \in DOMAIN state.members : x[1] = s})]
    BY WorkSums DEF Work!SinceTheSample
  <2>2. r \in {x[1] : x \in DOMAIN state.members}
    BY <1>1
  <2> QED
    BY <1>2, <2>1, <2>2
<1>6. PICK M : M = Work!Matched(r, Work!Members(f))
  OBVIOUS
<1>7. /\ M \in SUBSET Work!Members(f)
      /\ \A m \in M : m.row = r /\ Work!Key(m) \in DOMAIN state.members
  BY <1>6 DEF Work!Matched, Work!Own
<1>8. IsFiniteSet(M)
  BY <1>7, MembersAreFinite, FS_Subset
<1>9. PICK T : T = K \ {k}
  OBVIOUS
<1>10. IsFiniteSet(T) /\ Cardinality(T) = Cardinality(K) - 1 /\ Cardinality(K) \in Nat
  BY <1>3, <1>4, <1>9, FS_RemoveElement, FS_CardinalityType
<1>11. PICK one, each, keyOf : /\ one = [x \in T |-> 1] /\ each = [m \in M |-> 1]
                               /\ keyOf = [m \in M |-> Work!Key(m)]
  OBVIOUS
<1>12. ASSUME NEW m \in M PROVE keyOf[m] \in T
  <2>1. m \in Work!Members(f) /\ m.row = r /\ Work!Key(m) \in DOMAIN state.members
    BY <1>7
  <2>2. Work!Key(m) = <<r, m.id>>
    BY <2>1 DEF Work!Key
  <2>3. Work!Key(m) \in K
    BY <1>2, <2>1, <2>2
  <2>4. CASE IsGroup(m, f)
    <3>1. m.id[1] \in Groups /\ m.id = <<m.id[1], inode[m.id[1]]>>
      BY <2>4, WorkSums DEF IsGroup, Work!GroupMember, Work!Listed
    <3>2. Work!Key(m) # k
      BY <1>1, <2>2, <3>1
    <3> QED
      BY <1>9, <1>11, <2>3, <3>2
  <2>5. CASE IsProc(m, f)
    <3>1. m.id[1] \notin Groups
      BY <2>5, WorkloadsAssumption DEF IsProc, Work!Live
    <3>2. Work!Key(m) # k
      BY <1>1, <2>2, <3>1
    <3> QED
      BY <1>9, <1>11, <2>3, <3>2
  <2> QED
    BY <2>1, <2>4, <2>5, MemberKinds
<1>13. \A m, n \in M : keyOf[m] = keyOf[n] => m = n
  BY <1>7, <1>11, KeysTell
<1>14. \A m \in M : keyOf[m] \in T /\ each[m] \in Int /\ each[m] <= one[keyOf[m]]
  BY <1>11, <1>12
<1>15. \A x \in T : one[x] \in Nat /\ one[x] = 1
  BY <1>11
<1>16. SumFunctionOnSet(each, M) <= SumFunctionOnSet(one, T)
  BY <1>8, <1>10, <1>13, <1>14, <1>15, SumMatched
<1>17. SumFunctionOnSet(each, M) = Cardinality(M) /\ SumFunctionOnSet(one, T) = Cardinality(T)
  <2>1. \A m \in M : each[m] = 1
    BY <1>11
  <2>2. SumFunctionOnSet(each, M) = Cardinality(M)
    BY <1>8, <2>1, SumOnes
  <2>3. SumFunctionOnSet(one, T) = Cardinality(T)
    BY <1>10, <1>15, SumOnes
  <2> QED
    BY <2>2, <2>3
<1>18. Cardinality(M) \in Nat
  BY <1>8, FS_CardinalityType
<1>19. Cardinality(K) > Cardinality(M)
  BY <1>10, <1>16, <1>17, <1>18
<1> QED
  BY <1>5, <1>6, <1>19

LEMMA RowBoundIs ==
  ASSUME state # Nothing, NEW f, NEW t \in Work!Table(Work!Members(f)), ~t.bound
  PROVE  /\ \A m \in Work!Own(t.row, Work!Members(f)) : ~Work!cpuDelta(m).bound /\ m.kind # "process"
         /\ ~(t.row \in DOMAIN state.counts
                /\ state.counts[t.row] > Cardinality(Work!Matched(t.row, Work!Members(f))))
         /\ ~Work!Exceeds(Work!CpuOf(Work!Own(t.row, Work!Members(f))))
<1>1. PICK r, all : r = t.row /\ all = Work!Members(f)
  OBVIOUS
<1>2. t = Work!Row(r, all)
  BY <1>1, TableIs
<1>3. Work!Row(r, all).bound = (state # Nothing =>
        \/ \E m \in Work!Own(r, all) : Work!cpuDelta(m).bound
        \/ (r \in DOMAIN state.counts /\ state.counts[r] > Cardinality(Work!Matched(r, all)))
        \/ \E m \in Work!Own(r, all) : m.kind = "process"
        \/ Work!Exceeds(Work!CpuOf(Work!Own(r, all))) \/ Work!Exceeds(Work!CpuOf(Work!Overlay(r, all)))
        \/ Work!Exceeds(Work!CpuOf({m \in all : m.host = r /\ m.row.level = r.level})))
  BY WorkSums DEF Work!Row
<1> QED
  BY <1>1, <1>2, <1>3

LEMMA UnmarkedExact ==
  ASSUME Work!Counted, Work!SinceTheSample, state # Nothing, NEW f
  PROVE  Work!UnmarkedIsExact(f, Work!Members(f), Work!Table(Work!Members(f)))
<1>1. PICK all, made : all = Work!Members(f) /\ made = Work!Table(all)
  OBVIOUS
<1> SUFFICES ASSUME f.lost = {}, NEW t \in made, ~t.bound, strayed \cap Work!Tops(t.row) = {}
             PROVE  t.cpu = Work!Spent(t.row, all)
  BY <1>1 DEF Work!UnmarkedIsExact
<1>2. PICK r : r = t.row
  OBVIOUS
<1>3. PICK S, G : S = Work!Own(r, all) /\ G = Work!Tops(r)
  OBVIOUS
<1>4. /\ S \in SUBSET all /\ \A m \in S : m.row = r
      /\ \A m \in all : m.row = r => m \in S
      /\ G \in SUBSET Groups /\ strayed \cap G = {}
  BY <1>2, <1>3 DEF Work!Own, Work!Tops
<1>5. /\ \A m \in S : ~Work!cpuDelta(m).bound /\ m.kind # "process"
      /\ ~(r \in DOMAIN state.counts /\ state.counts[r] > Cardinality(Work!Matched(r, all)))
      /\ ~Work!Exceeds(Work!CpuOf(S))
  BY <1>1, <1>2, <1>3, RowBoundIs
<1>6. \A g \in G : ~Work!Gone(g, r)
  BY <1>1, <1>4, <1>5, GoneIsCounted
<1>7. PICK v : v = [m \in all |-> Work!Delta(m)]
  OBVIOUS
<1>8. ASSUME NEW m \in S
      PROVE  /\ m \in Work!Members(f) /\ IsGroup(m, f) /\ m.id[1] \in G /\ Work!Exists(m.id[1])
             /\ v[m] = spentIn[m.id[1]]
  <2>1. m \in Work!Members(f) /\ m.row = r
    BY <1>1, <1>4
  <2>2. IsGroup(m, f) /\ r.level \in Work!Levels
    BY <1>5, <2>1, MemberKinds DEF IsProc
  <2>3. /\ m.id[1] \in Groups /\ Work!Exists(m.id[1]) /\ Work!IsTop(m.id[1], r.level)
        /\ m.row = Work!RowOf(GroupClass[m.id[1]], r.level)
    BY <2>1, <2>2, WorkSums DEF IsGroup, Work!Listed, Work!GroupMember
  <2>4. m.id[1] \in G
    BY <1>3, <2>1, <2>2, <2>3 DEF Work!Tops
  <2>5. Work!Delta(m) = spentIn[m.id[1]]
    <3>1. ~Work!Gone(m.id[1], m.row) /\ m.id[1] \notin strayed /\ ~Work!cpuDelta(m).bound
      BY <1>4, <1>5, <1>6, <2>1, <2>4
    <3> QED
      BY <2>1, <2>2, <3>1, DeltaOfGroup
  <2> QED
    BY <1>1, <1>7, <2>1, <2>2, <2>3, <2>4, <2>5
<1>9. ASSUME NEW g \in G
      PROVE  /\ Work!Exists(g) => \E m \in S : m.id[1] = g
             /\ ~Work!Exists(g) => spentIn[g] = 0
             /\ spentIn[g] \in Int
  <2>1. PICK l \in Work!Levels : Work!IsTop(g, l) /\ Work!RowOf(GroupClass[g], l) = r
    BY <1>3 DEF Work!Tops
  <2>2. g \in Groups
    BY <1>4
  <2>3. ASSUME Work!Exists(g) PROVE \E m \in S : m.id[1] = g
    <3>1. g \in Work!Listed(f)
      BY <2>2, <2>3 DEF Work!Listed
    <3>2. PICK m : m = Work!GroupMember(g, l, f)
      OBVIOUS
    <3>3. m \in all
      BY <1>1, <2>1, <3>1, <3>2, MemberIs
    <3>4. m.row = r /\ m.id[1] = g
      BY <2>1, <3>2, WorkSums DEF Work!GroupMember
    <3> QED
      BY <1>4, <3>3, <3>4
  <2>4. ASSUME ~Work!Exists(g) PROVE spentIn[g] = 0
    <3>1. Work!Fits(g, r)
      BY <2>1, <2>2, WorkSums DEF Work!SinceTheSample
    <3>2. g \notin strayed /\ ~Work!Gone(g, r)
      BY <1>4, <1>6
    <3> QED
      BY <2>4, <3>1, <3>2 DEF Work!Fits
  <2> QED
    BY <2>2, <2>3, <2>4 DEF Work!Counted
<1>10. PICK D, parts : D = {g \in G : Work!Exists(g)} /\ parts = [m \in S |-> {m.id[1]}]
  OBVIOUS
<1>11. IsFiniteSet(S) /\ IsFiniteSet(G) /\ IsFiniteSet(D) /\ D \in SUBSET G
  <2>1. D \in SUBSET G /\ D \in SUBSET Groups
    BY <1>4, <1>10
  <2> QED
    BY <1>1, <1>4, <2>1, MembersAreFinite, WorkloadsAssumption, FS_Subset
<1>12. SumFunctionOnSet(v, S) = SumFunctionOnSet(spentIn, D)
  <2>1. \A g \in D : spentIn[g] \in Int /\ \E m \in S : g \in parts[m]
    BY <1>9, <1>10
  <2>2. ASSUME NEW m \in S
        PROVE  parts[m] \in SUBSET D /\ v[m] = SumFunctionOnSet(spentIn, parts[m])
    <3>1. PICK g : g = m.id[1]
      OBVIOUS
    <3>2. g \in D /\ v[m] = spentIn[g] /\ parts[m] = {g}
      BY <1>8, <1>10, <3>1
    <3>3. SumFunctionOnSet(spentIn, {g}) = spentIn[g]
      BY <2>1, <3>2, SumSingle
    <3> QED
      BY <3>2, <3>3
  <2>3. ASSUME NEW m \in S, NEW n \in S, m # n PROVE parts[m] \cap parts[n] = {}
    <3>1. m \in Work!Members(f) /\ n \in Work!Members(f) /\ m.row = n.row
      BY <1>4, <1>8
    <3>2. m.id[1] # n.id[1]
      BY <2>3, <3>1, MembersTold
    <3> QED
      BY <1>10, <3>2
  <2>4. \A m, n \in S : m # n => parts[m] \cap parts[n] = {}
    BY <2>3
  <2>5. \A m \in S : parts[m] \in SUBSET D /\ v[m] = SumFunctionOnSet(spentIn, parts[m])
    BY <2>2
  <2>6. IsFiniteSet(S) /\ IsFiniteSet(D)
    BY <1>11
  <2> QED
    BY <2>1, <2>4, <2>5, <2>6, SumOfParts
<1>13. SumFunctionOnSet(spentIn, G) = SumFunctionOnSet(spentIn, D)
  BY <1>9, <1>10, <1>11, SumExtend
<1>14. Work!CpuOf(S) = SumFunctionOnSet(v, S) /\ Work!CpuOf(S) \in Nat
  BY <1>1, <1>4, <1>7, CpuOfIs
<1>15. t.cpu = Work!CpuOf(S)
  <2>1. t.cpu = Work!Bounded(Work!CpuOf(S))
    BY <1>1, <1>2, <1>3, RowCpuIs
  <2> QED
    BY <1>5, <2>1 DEF Work!Bounded
<1>16. Work!Spent(r, all) = SumFunctionOnSet(spentIn, G)
  <2>1. {m.id[1] : m \in {m \in S : m.kind = "process"}} = {}
    BY <1>5
  <2>2. Work!Spent(r, all) = SumFunctionOnSet(spentIn, G) + SumFunctionOnSet(spentBy, {})
    BY <1>3, <2>1, WorkSums DEF Work!Spent
  <2>3. SumFunctionOnSet(spentIn, G) \in Int
    BY <1>9, <1>11, SumInt
  <2>4. SumFunctionOnSet(spentBy, {}) = 0
    BY SumEmpty
  <2> QED
    BY <2>2, <2>3, <2>4
<1> QED
  BY <1>2, <1>12, <1>13, <1>14, <1>15, <1>16

-----------------------------------------------------------------------------
LEMMA TableTrue == Work!Counted /\ Work!SinceTheSample /\ Work!UsedOnce => Work!TableIsTrue
<1> SUFFICES ASSUME Work!Counted, Work!SinceTheSample, Work!UsedOnce, NEW f \in Work!Faults
             PROVE  LET all == Work!Members(f)
                        made == Work!Table(all)
                    IN /\ Work!MemoryCountedOnce(f, made)
                       /\ state # Nothing => /\ Work!CpuIsLowerBound(f, all, made)
                                            /\ Work!UnmarkedIsExact(f, all, made)
  BY DEF Work!TableIsTrue
<1> QED
  BY MemoryOnce, CpuNoMore, UnmarkedExact

WorkInv == part = "groups" => Work!Counted /\ Work!SinceTheSample /\ Work!UsedOnce

(* The memory of every process is counted once over the class rows unless  *)
(* a row says otherwise, no row claims more CPU than was used in it, all   *)
(* together no more than was used at all, and a row that is not marked as  *)
(* a lower bound misses nothing; for any tree of cgroups, any processes    *)
(* that start, move, run and end in it between two samples, and whatever   *)
(* the walks of either sample could not read.                              *)
THEOREM RowsClaimNoMore == Spec => []GroupsSound
<1>1. Init => WorkInv
  <2> SUFFICES ASSUME Init, part = "groups"
               PROVE  Work!Counted /\ Work!SinceTheSample /\ Work!UsedOnce
    BY DEF WorkInv
  <2>1. Work!Init
    BY DEF Init
  <2>2. state = Nothing
    BY <2>1 DEF Work!Init
  <2> QED
    BY <2>1, <2>2, CountedInit DEF Work!SinceTheSample, Work!UsedOnce
<1>2. WorkInv /\ [Next]_partsVars => WorkInv'
  <2> SUFFICES ASSUME WorkInv, [Next]_partsVars, part' = "groups"
               PROVE  Work!Counted' /\ Work!SinceTheSample' /\ Work!UsedOnce'
    BY DEF WorkInv
  <2>1. part = "groups" /\ [Work!Next]_workVars
    <3>1. CASE Next
      BY <3>1 DEF Next
    <3>2. CASE UNCHANGED partsVars
      BY <3>2 DEF partsVars
    <3> QED
      BY <3>1, <3>2
  <2>2. Work!Counted /\ Work!SinceTheSample /\ Work!UsedOnce
    BY <2>1 DEF WorkInv
  <2>3. Work!Counted' /\ Work!SinceTheSample'
    BY <2>1, <2>2, CountedNext, SinceNext
  <2>4. state # Nothing => state.taken \in Nat
    BY <2>2 DEF Work!SinceTheSample
  <2> QED
    BY <2>1, <2>2, <2>3, <2>4, UsedOnceNext
<1>3. WorkInv => GroupsSound
  BY TableTrue DEF WorkInv, GroupsSound
<1> QED
  BY <1>1, <1>2, <1>3, PTL DEF Spec, partsVars
=============================================================================
