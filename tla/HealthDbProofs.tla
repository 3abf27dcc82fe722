--------------------------- MODULE HealthDbProofs ---------------------------
(***************************************************************************)
(* Proofs about HealthDb: where the UI never holds the write lock past the *)
(* busy timeout and no INSERT fails for want of disk space, no delta is    *)
(* lost, none is counted twice, every flush is all or nothing, and the     *)
(* database implements BlameRecord; whatever commits fail, whenever the    *)
(* sampler dies and whenever the user clears the record.                   *)
(***************************************************************************)
EXTENDS HealthDb, FiniteSetTheorems, TLAPS

(* Every INSERT is executed: the hypothesis of the theorems.               *)
InsertsExecuted ==
  /\ LockTimeouts = FALSE
  /\ "statement" \notin Faults

InFlush == phase \in {"flush", "commit"}

(* What a flush has inserted so far.                                       *)
Written == {[chunk |-> c, key |-> row[c], run |-> runs] : c \in pending \ unwritten}

Shape ==
  /\ now \in 0..MaxNow
  /\ runs \in 0..MaxFlushes
  /\ pending \subseteq Chunks
  /\ unwritten \subseteq pending
  /\ key \in [Chunks -> RowKeys \cup {NoKey}]
  /\ batch \in [1..MaxFlushes -> SUBSET Chunks]
  /\ phase \in {"idle", "record", "flush", "commit"}
  /\ tx = sqlTx
  /\ tx \in BOOLEAN

(* The transaction holds exactly what the running flush has inserted.      *)
Transaction ==
  /\ phase # "idle" => tx
  /\ ~InFlush => staged = {} /\ unwritten = {}
  /\ InFlush => /\ staged = Written
                /\ runs \in 1..MaxFlushes
                /\ batch[runs] = pending
  /\ phase = "commit" => unwritten = {}

(* The table, against what was recorded.                                   *)
Ledger ==
  /\ Recorded = pending \cup SavedChunks \cup erased \cup lost
  /\ pending \cap (SavedChunks \cup erased \cup lost) = {}
  /\ \A r, s \in stored : r.chunk = s.chunk => r = s
  /\ \A r \in stored : r.run \in 1..runs /\ (InFlush => r.run # runs)

IInv == Shape /\ Transaction /\ Ledger /\ FlushAtomic

(* The day of an hour is not after it.                                     *)
LEMMA DayBound == \A t \in 0..MaxNow : Day(t) \in 0..MaxNow
  BY ConstantsAssumption DEF Day

LEMMA RowKeyIsKey ==
  ASSUME now \in 0..MaxNow, NEW r \in Rows
  PROVE  RowKey(r) \in RowKeys /\ RowKey(r) # NoKey
  BY DayBound, NoKeyAssumption DEF RowKey, RowKeys

LEMMA InitIInv == Init => IInv
<1> SUFFICES ASSUME Init PROVE IInv
  OBVIOUS
<1>1. Shape
  <2>1. now \in 0..MaxNow /\ runs \in 0..MaxFlushes
    BY ConstantsAssumption DEF ConstantsAssumption, Init
  <2>2. key \in [Chunks -> RowKeys \cup {NoKey}]
    BY DEF Init
  <2>3. batch \in [1..MaxFlushes -> SUBSET Chunks]
    BY DEF Init
  <2>4. phase \in {"idle", "record", "flush", "commit"} /\ tx = sqlTx /\ tx \in BOOLEAN
    BY DEF Init
  <2> QED
    BY <2>1, <2>2, <2>3, <2>4 DEF Init, Shape
<1>2. Transaction
  BY DEF Init, Transaction, InFlush
<1>3. Ledger
  BY DEF Init, Ledger, Recorded, SavedChunks
<1>4. FlushAtomic
  BY DEF Init, FlushAtomic
<1> QED
  BY <1>1, <1>2, <1>3, <1>4 DEF IInv

-----------------------------------------------------------------------------
(* What Exec does when every INSERT is executed and a transaction is open. *)
LEMMA ExecStages ==
  ASSUME InsertsExecuted, sqlTx, NEW ins, NEW upd, Exec(ins, upd)
  PROVE  staged' = staged \cup ins /\ stored' = stored /\ sqlTx' = sqlTx
  BY DEF InsertsExecuted, Exec, Staged, AutoCommitted, TimedOut, DiskFull

(* Steps that leave everything the invariant speaks of alone.              *)
LEMMA UntouchedKeepsIInv ==
  ASSUME IInv, UNCHANGED <<now, pending, unwritten, key, batch, phase, tx, sqlTx, runs,
                           row, staged, stored, erased, lost>>
  PROVE  IInv'
<1>1. Shape'
  BY DEF IInv, Shape
<1>2. Transaction'
  BY DEF IInv, Transaction, Written, InFlush
<1>3. Ledger'
  BY DEF IInv, Ledger, Recorded, SavedChunks, InFlush
<1>4. FlushAtomic'
  BY DEF IInv, FlushAtomic
<1> QED
  BY <1>1, <1>2, <1>3, <1>4 DEF IInv

LEMMA RecordBlameRowKeepsIInv ==
  ASSUME IInv, NEW c \in Chunks, NEW r \in Rows, RecordBlameRow(c, r)
  PROVE  IInv'
<1> USE DEF RecordBlameRow, IInv, db, ghosts
<1>1. RowKey(r) \in RowKeys /\ RowKey(r) # NoKey
  BY RowKeyIsKey DEF Shape
<1>2. Shape'
  BY <1>1 DEF Shape
<1>3. Transaction'
  BY DEF Transaction, InFlush
<1>4. Recorded' = Recorded \cup {c} /\ c \notin Recorded
  BY <1>1 DEF Recorded, Shape
<1>5. Ledger'
  BY <1>4 DEF Ledger, SavedChunks, InFlush
<1>6. FlushAtomic'
  BY DEF FlushAtomic
<1> QED
  BY <1>2, <1>3, <1>5, <1>6

LEMMA CallKeepsIInv ==
  ASSUME IInv, NEW readings, Call(readings)
  PROVE  IInv'
<1> USE DEF Call, begin, ghosts, InFlush
<1>1. Shape'
  BY DEF IInv, Shape
<1>2. Transaction'
  BY DEF IInv, Shape, Transaction, Written
<1>3. Ledger'
  BY DEF IInv, Ledger, Recorded, SavedChunks
<1>4. FlushAtomic'
  BY DEF IInv, FlushAtomic
<1> QED
  BY <1>1, <1>2, <1>3, <1>4 DEF IInv

LEMMA WriteReadingKeepsIInv ==
  ASSUME InsertsExecuted, IInv, NEW r \in todo, WriteReading(r)
  PROVE  IInv'
<1>1. sqlTx
  BY DEF IInv, Shape, Transaction, WriteReading
<1>2. staged' = staged /\ stored' = stored /\ sqlTx' = sqlTx
  <2>1. PICK upd : Exec({}, upd)
    BY Zenon DEF WriteReading
  <2>2. staged' = staged \cup {} /\ stored' = stored /\ sqlTx' = sqlTx
    BY <1>1, <2>1, ExecStages
  <2> QED
    BY <2>2
<1>3. phase = "record" /\ phase' \in {"idle", "record"}
  BY DEF WriteReading
<1> USE <1>2, <1>3 DEF WriteReading, ghosts, InFlush
<1>4. Shape'
  BY DEF IInv, Shape
<1>5. Transaction'
  BY DEF IInv, Transaction
<1>6. Ledger'
  BY DEF IInv, Ledger, Recorded, SavedChunks
<1>7. FlushAtomic'
  BY DEF IInv, FlushAtomic
<1> QED
  BY <1>4, <1>5, <1>6, <1>7 DEF IInv

LEMMA StartFlushKeepsIInv ==
  ASSUME IInv, StartFlush
  PROVE  IInv'
<1>1. /\ runs' \in 1..MaxFlushes /\ runs' = runs + 1 /\ runs \in Nat
      /\ phase = "idle" /\ phase' = "flush"
      /\ unwritten' = pending
      /\ UNCHANGED <<now, pending, key, staged, stored, erased, lost>>
  BY ConstantsAssumption DEF ConstantsAssumption, IInv, Shape, StartFlush
<1>2. tx' = TRUE /\ sqlTx' = TRUE
  BY DEF StartFlush, begin, IInv, Shape
<1>3. batch' = [batch EXCEPT ![runs'] = pending]
  BY DEF StartFlush
<1>4. /\ batch' \in [1..MaxFlushes -> SUBSET Chunks] /\ batch'[runs'] = pending
      /\ \A n \in 1..runs : batch'[n] = batch[n]
  BY <1>1, <1>3 DEF IInv, Shape
<1> USE DEF InFlush
<1>5. Shape'
  BY <1>1, <1>2, <1>4 DEF IInv, Shape
<1>6. Transaction'
  <2>1. staged = {}
    BY <1>1 DEF IInv, Transaction
  <2>2. Written' = {}
    BY <1>1 DEF Written
  <2> QED
    BY <1>1, <1>2, <1>4, <2>1, <2>2 DEF Transaction
<1>7. Ledger'
  BY <1>1 DEF IInv, Ledger, Recorded, SavedChunks
<1>8. FlushAtomic'
  <2> SUFFICES ASSUME NEW n \in 1..runs'
               PROVE  LET written == {r.chunk : r \in {q \in stored : q.run = n}}
                      IN  written = {} \/ written = batch'[n]
    BY <1>1 DEF FlushAtomic
  <2>1. CASE n = runs'
    <3>1. {q \in stored : q.run = n} = {}
      BY <1>1, <2>1 DEF IInv, Ledger
    <3> QED
      BY <1>1, <3>1
  <2>2. CASE n \in 1..runs
    BY <1>1, <1>4, <2>2 DEF IInv, FlushAtomic
  <2> QED
    BY <1>1, <2>1, <2>2
<1> QED
  BY <1>5, <1>6, <1>7, <1>8 DEF IInv

LEMMA StoreBlameRowKeepsIInv ==
  ASSUME InsertsExecuted, IInv, NEW k, store_blame_row(k)
  PROVE  IInv'
<1> DEFINE cs  == {c \in unwritten : row[c] = k}
           ins == {[chunk |-> c, key |-> k, run |-> runs] : c \in cs}
<1>1. sqlTx /\ phase = "flush"
  BY DEF IInv, Shape, Transaction, store_blame_row
<1>2. staged' = staged \cup ins /\ stored' = stored /\ sqlTx' = sqlTx
  BY <1>1, ExecStages DEF store_blame_row
<1>3. /\ unwritten' = unwritten \ cs
      /\ UNCHANGED <<now, pending, key, tx, phase, row, runs, batch, erased, lost>>
  BY DEF store_blame_row, ghosts
<1> USE DEF InFlush
<1>4. Shape'
  BY <1>2, <1>3 DEF IInv, Shape
<1>5. Transaction'
  <2>1. pending \ unwritten' = (pending \ unwritten) \cup cs
    BY <1>3 DEF IInv, Shape
  <2>2. ins = {[chunk |-> c, key |-> row[c], run |-> runs] : c \in cs}
    OBVIOUS
  <2> HIDE DEF cs, ins
  <2>3. staged = Written
    BY <1>1 DEF IInv, Transaction
  <2>4. Written' = Written \cup ins
    BY <1>3, <2>1, <2>2 DEF Written
  <2> QED
    BY <1>1, <1>2, <1>3, <2>3, <2>4 DEF IInv, Transaction
<1>6. Ledger'
  BY <1>1, <1>2, <1>3 DEF IInv, Ledger, Recorded, SavedChunks
<1>7. FlushAtomic'
  BY <1>2, <1>3 DEF IInv, FlushAtomic
<1> QED
  BY <1>4, <1>5, <1>6, <1>7 DEF IInv

LEMMA WriteLastFlushKeepsIInv ==
  ASSUME InsertsExecuted, IInv, WriteLastFlush
  PROVE  IInv'
<1>1. sqlTx /\ phase = "flush" /\ phase' = "commit" /\ unwritten = {}
  BY DEF IInv, Shape, Transaction, WriteLastFlush
<1>2. staged' = staged /\ stored' = stored /\ sqlTx' = sqlTx
  <2>1. PICK upd : Exec({}, upd)
    BY Zenon DEF WriteLastFlush
  <2>2. staged' = staged \cup {} /\ stored' = stored /\ sqlTx' = sqlTx
    BY <1>1, <2>1, ExecStages
  <2> QED
    BY <2>2
<1> USE <1>1, <1>2 DEF WriteLastFlush, ghosts, InFlush
<1>3. Shape'
  BY DEF IInv, Shape
<1>4. Transaction'
  BY DEF IInv, Transaction, Written, Shape
<1>5. Ledger'
  BY DEF IInv, Ledger, Recorded, SavedChunks
<1>6. FlushAtomic'
  BY DEF IInv, FlushAtomic
<1> QED
  BY <1>3, <1>4, <1>5, <1>6 DEF IInv

(* A commit adds exactly the pending deltas to the table, under this run.  *)
LEMMA CommitSaves ==
  ASSUME IInv, CommitSucceeds
  PROVE  /\ \A r \in staged : r.run = runs /\ r.chunk \in pending
         /\ \A r, s \in staged : r.chunk = s.chunk => r = s
         /\ {r.chunk : r \in staged} = pending
         /\ SavedChunks' = SavedChunks \cup pending
<1>1. unwritten = {} /\ staged = Written /\ stored' = stored \cup staged
  BY DEF IInv, Transaction, InFlush, CommitSucceeds
<1>2. staged = {[chunk |-> c, key |-> row[c], run |-> runs] : c \in pending}
  BY <1>1, pending \ {} = pending DEF Written
<1>3. \A r \in staged : r.run = runs /\ r.chunk \in pending
  BY <1>2
<1>4. \A r, s \in staged : r.chunk = s.chunk => r = s
  BY <1>2
<1>5. {r.chunk : r \in staged} = pending
  <2>1. ASSUME NEW c \in pending
        PROVE  \E r \in staged : r.chunk = c
    <3>1. [chunk |-> c, key |-> row[c], run |-> runs] \in staged
      BY <1>2
    <3> QED
      BY <3>1
  <2> QED
    BY <1>3, <2>1
<1>6. SavedChunks' = SavedChunks \cup pending
  BY <1>1, <1>5 DEF SavedChunks
<1> QED
  BY <1>3, <1>4, <1>5, <1>6

LEMMA CommitSucceedsKeepsIInv ==
  ASSUME IInv, CommitSucceeds
  PROVE  IInv'
<1>1. /\ phase = "commit" /\ phase' = "idle"
      /\ stored' = stored \cup staged /\ staged' = {}
      /\ pending' = {} /\ tx' = FALSE /\ sqlTx' = FALSE
      /\ UNCHANGED <<now, key, unwritten, runs, batch, erased, lost>>
  BY DEF CommitSucceeds, CloseTransaction, ghosts
<1>2. unwritten = {} /\ runs \in 1..MaxFlushes /\ batch[runs] = pending
  BY <1>1 DEF IInv, Transaction, InFlush
<1>3. {r.chunk : r \in staged} = pending /\ SavedChunks' = SavedChunks \cup pending
  BY CommitSaves
<1>4. /\ \A r \in staged : r.run = runs /\ r.chunk \in pending
      /\ \A r, s \in staged : r.chunk = s.chunk => r = s
  BY CommitSaves
<1>6. \A r \in stored : r.run \in 1..runs /\ r.run # runs /\ r.chunk \in SavedChunks
  BY <1>1 DEF IInv, Ledger, InFlush, SavedChunks
<1>7. Shape'
  BY <1>1, <1>2 DEF IInv, Shape
<1>8. Transaction'
  BY <1>1, <1>2 DEF Transaction, InFlush
<1>9. Ledger'
  <2>1. Recorded' = Recorded
    BY <1>1 DEF Recorded
  <2>2. \A r, s \in stored' : r.chunk = s.chunk => r = s
    BY <1>1, <1>4, <1>6 DEF IInv, Ledger
  <2>3. \A r \in stored' : r.run \in 1..runs'
    BY <1>1, <1>2, <1>4, <1>6
  <2> QED
    BY <1>1, <1>3, <2>1, <2>2, <2>3 DEF IInv, Ledger, InFlush
<1>10. FlushAtomic'
  <2> SUFFICES ASSUME NEW n \in 1..runs
               PROVE  LET written == {r.chunk : r \in {q \in stored' : q.run = n}}
                      IN  written = {} \/ written = batch[n]
    BY <1>1 DEF FlushAtomic
  <2>1. CASE n = runs
    <3>1. {q \in stored' : q.run = n} = staged
      BY <1>1, <1>4, <1>6, <2>1
    <3> QED
      BY <1>2, <1>3, <2>1, <3>1
  <2>2. CASE n # runs
    <3>1. {q \in stored' : q.run = n} = {q \in stored : q.run = n}
      BY <1>1, <1>4, <2>2
    <3> QED
      BY <3>1 DEF IInv, FlushAtomic
  <2> QED
    BY <2>1, <2>2
<1> QED
  BY <1>7, <1>8, <1>9, <1>10 DEF IInv

(* A failed commit, and the end of the process without one: the table is   *)
(* as it was.                                                              *)
LEMMA CommitFailsKeepsIInv ==
  ASSUME IInv, CommitFails
  PROVE  IInv'
<1>1. /\ phase = "commit" /\ phase' = "idle" /\ staged' = {}
      /\ tx' = FALSE /\ sqlTx' = FALSE
      /\ UNCHANGED <<now, pending, key, unwritten, stored, runs, batch, erased, lost>>
  BY DEF CommitFails, CloseTransaction, ghosts
<1>2. unwritten = {}
  BY <1>1 DEF IInv, Transaction
<1>3. Shape'
  BY <1>1 DEF IInv, Shape
<1>4. Transaction'
  BY <1>1, <1>2 DEF Transaction, InFlush
<1>5. Ledger'
  BY <1>1 DEF IInv, Ledger, Recorded, SavedChunks, InFlush
<1>6. FlushAtomic'
  BY <1>1 DEF IInv, FlushAtomic
<1> QED
  BY <1>3, <1>4, <1>5, <1>6 DEF IInv

LEMMA EndKeepsTable ==
  ASSUME IInv, Finalize \/ Crash
  PROVE  /\ stored' = stored /\ erased' = erased
         /\ pending' = {} /\ lost' = lost \cup pending
<1>1. stored' = stored
  <2>1. CASE Crash
    BY <2>1 DEF Crash
  <2>2. CASE Finalize
    <3>1. staged = {}
      BY <2>2 DEF Finalize, IInv, Transaction, InFlush
    <3> QED
      BY <2>2, <3>1 DEF Finalize
  <2> QED
    BY <2>1, <2>2
<1> QED
  BY <1>1 DEF Finalize, Crash, ForgetMemory

LEMMA EndKeepsIInv ==
  ASSUME IInv, Finalize \/ Crash
  PROVE  IInv'
<1>1. stored' = stored
  BY EndKeepsTable
<1>2. /\ phase' = "idle" /\ staged' = {} /\ unwritten' = {}
      /\ tx' = FALSE /\ sqlTx' = FALSE
      /\ pending' = {} /\ lost' = lost \cup pending
      /\ UNCHANGED <<now, key, runs, batch, erased>>
  BY DEF Finalize, Crash, ForgetMemory, CloseTransaction
<1>3. Shape'
  BY <1>1, <1>2 DEF IInv, Shape
<1>4. Transaction'
  BY <1>1, <1>2 DEF Transaction, InFlush
<1>5. Ledger'
  BY <1>1, <1>2 DEF IInv, Ledger, Recorded, SavedChunks, InFlush
<1>6. FlushAtomic'
  BY <1>1, <1>2 DEF IInv, FlushAtomic
<1> QED
  BY <1>3, <1>4, <1>5, <1>6 DEF IInv

LEMMA DeleteBlameKeepsIInv ==
  ASSUME IInv, DeleteBlame
  PROVE  IInv'
<1>1. /\ stored' = {} /\ erased' = erased \cup SavedChunks
      /\ UNCHANGED <<now, pending, key, tx, phase, unwritten, row, sqlTx, staged,
                     runs, batch, lost>>
  BY DEF DeleteBlame, SavedChunks, memory
<1>2. Shape'
  BY <1>1 DEF IInv, Shape
<1>3. Transaction'
  BY <1>1 DEF IInv, Transaction, Written, InFlush
<1>4. Ledger'
  BY <1>1 DEF IInv, Ledger, Recorded, SavedChunks, InFlush
<1>5. FlushAtomic'
  BY <1>1 DEF FlushAtomic
<1> QED
  BY <1>2, <1>3, <1>4, <1>5 DEF IInv

(* The steps of a clear that touch neither the deltas nor their table.     *)
LEMMA OtherClearStepsKeepIInv ==
  ASSUME IInv,
         \/ StartClear
         \/ DeleteFails
         \/ DeleteSamples
         \/ DeleteBattery
         \/ VacuumStarts
         \/ VacuumFails
         \/ VacuumEnds
  PROVE  IInv'
<1>1. UNCHANGED <<now, pending, unwritten, key, batch, phase, tx, sqlTx, runs,
                  row, staged, stored, erased, lost>>
  BY DEF StartClear, DeleteFails, DeleteSamples, DeleteBattery, DeleteReadings,
         VacuumStarts, VacuumFails, VacuumEnds, memory, db, ghosts
<1> QED
  BY <1>1, UntouchedKeepsIInv

LEMMA ClockKeepsIInv ==
  ASSUME IInv, Clock
  PROVE  IInv'
<1>1. /\ now' \in 0..MaxNow
      /\ UNCHANGED <<pending, unwritten, key, batch, phase, tx, sqlTx, runs,
                     row, staged, stored, erased, lost>>
  BY ConstantsAssumption
     DEF ConstantsAssumption, Clock, IInv, Shape, memory, db, ghosts
<1>2. Shape'
  BY <1>1 DEF IInv, Shape
<1>3. Transaction'
  BY <1>1 DEF IInv, Transaction, Written, InFlush
<1>4. Ledger'
  BY <1>1 DEF IInv, Ledger, Recorded, SavedChunks, InFlush
<1>5. FlushAtomic'
  BY <1>1 DEF IInv, FlushAtomic
<1> QED
  BY <1>2, <1>3, <1>4, <1>5 DEF IInv

-----------------------------------------------------------------------------
(* The reading calls are Call with the readings that are due.              *)
LEMMA ReadingCalls ==
  ASSUME \/ \E v \in Values, h \in Values \cup {None} : RecordDrive(v, h)
         \/ \E v \in Values : RecordBattery(v) \/ SetMeta(v)
  PROVE  \E readings : Call(readings)
  BY Zenon DEF RecordDrive, RecordBattery, SetMeta

LEMMA NextKeepsIInv ==
  ASSUME InsertsExecuted, IInv, [Next]_vars
  PROVE  IInv'
<1>1. CASE \E c \in Chunks, r \in Rows : RecordBlameRow(c, r)
  BY <1>1, RecordBlameRowKeepsIInv
<1>2. CASE \/ \E v \in Values, h \in Values \cup {None} : RecordDrive(v, h)
           \/ \E v \in Values : RecordBattery(v) \/ SetMeta(v)
  BY <1>2, ReadingCalls, CallKeepsIInv
<1>3. CASE \E r \in todo : WriteReading(r)
  BY <1>3, WriteReadingKeepsIInv
<1>4. CASE StartFlush
  BY <1>4, StartFlushKeepsIInv
<1>5. CASE FlushStep
  BY <1>5, StoreBlameRowKeepsIInv, WriteLastFlushKeepsIInv, CommitSucceedsKeepsIInv,
     CommitFailsKeepsIInv
     DEF FlushStep
<1>6. CASE Finalize \/ Crash
  BY <1>6, EndKeepsIInv
<1>7. CASE DeleteBlame
  BY <1>7, DeleteBlameKeepsIInv
<1>8. CASE \/ StartClear
           \/ DeleteFails
           \/ DeleteSamples
           \/ DeleteBattery
           \/ VacuumStarts
           \/ VacuumFails
           \/ VacuumEnds
  BY <1>8, OtherClearStepsKeepIInv
<1>9. CASE Clock
  BY <1>9, ClockKeepsIInv
<1>10. CASE UNCHANGED vars
  BY <1>10, UntouchedKeepsIInv DEF vars, memory, db, ghosts
<1> QED
  BY <1>1, <1>2, <1>3, <1>4, <1>5, <1>6, <1>7, <1>8, <1>9, <1>10, Zenon
     DEF Next, ClearStep

LEMMA IInvImplies == IInv => NothingLost /\ CountedOnce /\ FlushAtomic
  BY DEF IInv, Ledger, NothingLost, CountedOnce

THEOREM Inductive == ASSUME InsertsExecuted PROVE Spec => []IInv
<1>1. IInv /\ [Next]_vars => IInv'
  BY NextKeepsIInv
<1> QED
  BY <1>1, InitIInv, PTL DEF Spec

(* No flush drops a delta: whatever was recorded is pending, in the table, *)
(* cleared by the user, or was pending in a process that ended.            *)
THEOREM NoDeltaLost == ASSUME InsertsExecuted PROVE Spec => []NothingLost
  BY Inductive, IInvImplies, PTL

(* No delta is added to the table twice.                                   *)
THEOREM NoDeltaCountedTwice == ASSUME InsertsExecuted PROVE Spec => []CountedOnce
  BY Inductive, IInvImplies, PTL

(* A flush writes everything it set out to write or nothing.               *)
THEOREM FlushIsAtomic == ASSUME InsertsExecuted PROVE Spec => []FlushAtomic
  BY Inductive, IInvImplies, PTL

-----------------------------------------------------------------------------
LEMMA InitImplements == Init => Promise!Init
  BY DEF Init, Promise!Init, SavedChunks

(* Steps that move no delta.                                               *)
LEMMA StutterImplements ==
  ASSUME UNCHANGED <<pending, stored, erased, lost>>
  PROVE  UNCHANGED Promise!vars
  BY DEF Promise!vars, SavedChunks

(* Each step of the database is one step of the record, or none.           *)
LEMMA StepImplements ==
  ASSUME InsertsExecuted, IInv, [Next]_vars
  PROVE  [Promise!Next]_Promise!vars
<1>1. ASSUME NEW c \in Chunks, NEW r \in Rows, RecordBlameRow(c, r)
      PROVE  Promise!Record({c})
  <2>1. c \notin Recorded
    BY <1>1 DEF RecordBlameRow, Recorded
  <2>2. c \in Chunks \ Promise!Known
    BY <2>1 DEF IInv, Ledger, Promise!Known
  <2> QED
    BY <1>1, <2>2 DEF RecordBlameRow, Promise!Record, SavedChunks, db, ghosts
<1>2. CASE CommitSucceeds
  BY <1>2, CommitSaves DEF CommitSucceeds, Promise!Next, Promise!Save, ghosts
<1>3. CASE DeleteBlame
  BY <1>3 DEF DeleteBlame, SavedChunks, Promise!Next, Promise!Erase, memory
<1>4. CASE Finalize \/ Crash
  BY <1>4, EndKeepsTable DEF SavedChunks, Promise!Next, Promise!End
<1>5. CASE \/ \E k \in {row[c] : c \in unwritten} : store_blame_row(k)
           \/ WriteLastFlush
           \/ \E r \in todo : WriteReading(r)
  <2>1. sqlTx
    BY <1>5 DEF IInv, Shape, Transaction, store_blame_row, WriteLastFlush, WriteReading
  <2>2. PICK ins, upd : Exec(ins, upd)
    BY <1>5, Zenon DEF store_blame_row, WriteLastFlush, WriteReading
  <2>3. stored' = stored
    BY <2>1, <2>2, ExecStages
  <2>4. UNCHANGED <<pending, erased, lost>>
    BY <1>5 DEF store_blame_row, WriteLastFlush, WriteReading, ghosts
  <2> QED
    BY <2>3, <2>4, StutterImplements
<1>6. CASE \/ \E readings : Call(readings)
           \/ StartFlush
           \/ CommitFails
  <2>1. UNCHANGED <<pending, stored, erased, lost>>
    BY <1>6 DEF Call, StartFlush, CommitFails, ghosts
  <2> QED
    BY <2>1, StutterImplements
<1>7. CASE \/ StartClear
           \/ DeleteFails
           \/ DeleteSamples
           \/ DeleteBattery
           \/ VacuumStarts
           \/ VacuumFails
           \/ VacuumEnds
           \/ Clock
           \/ UNCHANGED vars
  <2>1. UNCHANGED <<pending, stored, erased, lost>>
    BY <1>7 DEF StartClear, DeleteFails, DeleteSamples, DeleteBattery, DeleteReadings,
               VacuumStarts, VacuumFails, VacuumEnds, Clock, vars, memory, db, ghosts
  <2> QED
    BY <2>1, StutterImplements
<1>8. CASE \E c \in Chunks, r \in Rows : RecordBlameRow(c, r)
  BY <1>1, <1>8, \A c \in Chunks : {c} \in SUBSET Chunks DEF Promise!Next
<1> QED
  BY <1>2, <1>3, <1>4, <1>5, <1>6, <1>7, <1>8, ReadingCalls, Zenon
     DEF Next, FlushStep, ClearStep

(* The database keeps the promise of BlameRecord.                          *)
THEOREM Implements == ASSUME InsertsExecuted PROVE Spec => ImplementsBlameRecord
<1>1. IInv /\ [Next]_vars => [Promise!Next]_Promise!vars
  BY StepImplements
<1> QED
  BY <1>1, Inductive, InitImplements, PTL DEF Spec, ImplementsBlameRecord, Promise!Spec

-----------------------------------------------------------------------------
(***************************************************************************)
(* Type correctness, for every way an INSERT may end.  What is stored is a *)
(* row that was chosen for a pending delta, so the deltas in hand are      *)
(* known to have one.                                                      *)
(***************************************************************************)
TypeInv ==
  /\ TypeOK
  /\ \A c \in pending : key[c] \in Key
  /\ \A c \in unwritten : row[c] \in Key
  /\ InFlush => runs \in 1..MaxFlushes

(* Some row of a set that is not empty is the least certain.               *)
LEMMA SomeRowIsLeastCertain ==
  ASSUME NEW rs, rs # {}, \A r \in rs : r.basis \in {q.basis : q \in Rows}
  PROVE  \E m \in rs : \A r \in rs : basis_uncertainty[r.basis] <= basis_uncertainty[m.basis]
<1> DEFINE u(r) == basis_uncertainty[r.basis]
<1>1. \A r \in rs : u(r) \in 0..3
  BY RowsAssumption DEF basis_uncertainty
<1>2. \E m \in rs : \A r \in rs : u(r) <= u(m)
  <2> HIDE DEF u
  <2>1. CASE \E m \in rs : u(m) = 3
    BY <1>1, <2>1
  <2>2. CASE (\A r \in rs : u(r) # 3) /\ \E m \in rs : u(m) = 2
    BY <1>1, <2>2
  <2>3. CASE (\A r \in rs : u(r) \notin {2, 3}) /\ \E m \in rs : u(m) = 1
    BY <1>1, <2>3
  <2>4. CASE \A r \in rs : u(r) = 0
    BY <2>4
  <2> QED
    BY <1>1, <2>1, <2>2, <2>3, <2>4
<1> QED
  BY <1>2

(* The basis of the row "other" is that of a row it stands for, and none   *)
(* of them is less certain.                                                *)
LEMMA OtherBasisIsTheirs ==
  ASSUME NEW rs, rs # {}, \A r \in rs : r.basis \in {q.basis : q \in Rows}
  PROVE  /\ OtherBasis(rs) \in {q.basis : q \in Rows}
         /\ \A r \in rs : basis_uncertainty[OtherBasis(rs)] >= basis_uncertainty[r.basis]
<1>1. \E b \in {r.basis : r \in rs} :
        \A r \in rs : basis_uncertainty[r.basis] <= basis_uncertainty[b]
  BY SomeRowIsLeastCertain
<1>2. /\ OtherBasis(rs) \in {r.basis : r \in rs}
      /\ \A r \in rs : basis_uncertainty[r.basis] <= basis_uncertainty[OtherBasis(rs)]
  BY <1>1, Zenon DEF OtherBasis
<1>3. OtherBasis(rs) \in {q.basis : q \in Rows}
  BY <1>2
<1>4. /\ basis_uncertainty[OtherBasis(rs)] \in 0..3
      /\ \A r \in rs : basis_uncertainty[r.basis] \in 0..3
  BY <1>3, RowsAssumption DEF basis_uncertainty
<1> QED
  BY <1>2, <1>3, <1>4

LEMMA FoldedRowIsKey ==
  ASSUME \A c \in pending : key[c] \in Key, NEW k \in PendingRows, NEW kept
  PROVE  FoldedRow(k, kept) \in Key
<1>1. \A l \in PendingRows : l \in Key
  BY DEF PendingRows
<1>2. CASE k \in kept
  BY <1>1, <1>2 DEF FoldedRow
<1>3. CASE k \notin kept
  <2>1. k \in Group(k) \ kept
    BY <1>3 DEF Group, same_group
  <2>2. \A l \in Group(k) \ kept : l.basis \in {q.basis : q \in Rows}
    BY <1>1 DEF Group, Key
  <2>3. OtherBasis(Group(k) \ kept) \in {q.basis : q \in Rows}
    BY <2>1, <2>2, OtherBasisIsTheirs
  <2>4. k.day \in Nat
    BY <1>1 DEF Key
  <2> QED
    BY <1>3, <2>3, <2>4 DEF FoldedRow, Key
<1> QED
  BY <1>2, <1>3

LEMMA RowKeyType ==
  ASSUME now \in 0..MaxNow, NEW r \in Rows
  PROVE  RowKey(r) \in Key
<1>1. Day(now) \in Nat
  BY DayBound
<1> QED
  BY <1>1 DEF RowKey, RowAt, Key

LEMMA InitTypeInv == Init => TypeInv
<1> SUFFICES ASSUME Init PROVE TypeInv
  OBVIOUS
<1>1. /\ now \in 0..MaxNow /\ runs \in 0..MaxFlushes /\ clears \in 0..MaxClears
  BY ConstantsAssumption DEF ConstantsAssumption, Init
<1>2. /\ cache \in [Cached -> Reading]
      /\ draft \in [Entries -> Reading] /\ table \in [Entries -> Reading]
  BY DEF Init, Empty, Reading
<1>3. /\ key \in [Chunks -> Key \cup {NoKey}] /\ row \in [Chunks -> Key \cup {NoKey}]
      /\ batch \in [1..MaxFlushes -> SUBSET Chunks]
  BY DEF Init
<1>4. TypeOK
  BY <1>1, <1>2, <1>3 DEF Init, TypeOK
<1> QED
  BY <1>4 DEF Init, TypeInv, InFlush

(* The types of what an INSERT changes.                                    *)
LEMMA ExecType ==
  ASSUME TypeOK, NEW ins \in SUBSET Inserted, NEW D \in SUBSET Entries,
         NEW upd \in [D -> Reading], Exec(ins, upd)
  PROVE  /\ sqlTx' \in BOOLEAN
         /\ staged' \subseteq Inserted /\ stored' \subseteq Inserted
         /\ draft' \in [Entries -> Reading] /\ table' \in [Entries -> Reading]
         /\ lock' \in {"free", "sampler", "ui"}
<1>1. \A f \in [Entries -> Reading] : Override(upd, f) \in [Entries -> Reading]
  BY DEF Override
<1>2. Empty \in [Entries -> Reading]
  BY DEF Empty, Reading
<1>3. CASE Staged(ins, upd)
  BY <1>1, <1>3 DEF Staged, TypeOK
<1>4. CASE AutoCommitted(ins, upd)
  BY <1>1, <1>4 DEF AutoCommitted, TypeOK
<1>5. CASE TimedOut
  BY <1>5 DEF TimedOut, TypeOK, db
<1>6. CASE DiskFull
  BY <1>2, <1>6 DEF DiskFull, Released, TypeOK
<1> QED
  BY <1>3, <1>4, <1>5, <1>6 DEF Exec

(* The readings a call hands to the database are entries with a value.     *)
LEMMA ReadingCallTypes ==
  ASSUME \/ \E v \in Values, h \in Values \cup {None} : RecordDrive(v, h)
         \/ \E v \in Values : RecordBattery(v) \/ SetMeta(v)
  PROVE  \E readings \in SUBSET [entry : Entries, value : Values] : Call(readings)
<1>1. ASSUME NEW e \in Entries, NEW v \in Values
      PROVE  {[entry |-> e, value |-> v]} \in SUBSET [entry : Entries, value : Values]
  OBVIOUS
<1>2. ASSUME NEW v \in Values, RecordBattery(v) \/ SetMeta(v)
      PROVE  \E readings \in SUBSET [entry : Entries, value : Values] : Call(readings)
  BY <1>1, <1>2, Zenon DEF RecordBattery, SetMeta, Entries, Cached
<1>3. ASSUME NEW v \in Values, NEW h \in Values \cup {None}, RecordDrive(v, h)
      PROVE  \E readings \in SUBSET [entry : Entries, value : Values] : Call(readings)
  <2> DEFINE due == (IF drive_identity_changed(v) THEN {[entry |-> "identity", value |-> v]}
                     ELSE {})
                    \cup
                    (IF h # None /\ drive_sample_due(h)
                     THEN {[entry |-> "sample", value |-> h]} ELSE {})
  <2>1. due \subseteq [entry : Entries, value : Values]
    BY DEF Entries, Cached
  <2>2. Call(due)
    BY <1>3 DEF RecordDrive
  <2> QED
    BY <2>1, <2>2
<1> QED
  BY <1>2, <1>3

LEMMA SamplerStepsKeepType ==
  ASSUME TypeInv,
         \/ \E c \in Chunks, r \in Rows : RecordBlameRow(c, r)
         \/ \E readings \in SUBSET [entry : Entries, value : Values] : Call(readings)
         \/ StartFlush
  PROVE  TypeInv'
<1>1. ASSUME NEW c \in Chunks, NEW r \in Rows, RecordBlameRow(c, r)
      PROVE  TypeInv'
  <2>1. RowKey(r) \in Key
    BY RowKeyType DEF TypeInv, TypeOK
  <2>2. /\ key' \in [Chunks -> Key \cup {NoKey}]
        /\ \A d \in pending' : key'[d] \in Key
    BY <1>1, <2>1 DEF RecordBlameRow, TypeInv, TypeOK
  <2> QED
    BY <1>1, <2>2 DEF RecordBlameRow, TypeInv, TypeOK, InFlush, db, ghosts
<1>2. ASSUME NEW readings \in SUBSET [entry : Entries, value : Values], Call(readings)
      PROVE  TypeInv'
  BY <1>2 DEF Call, begin, TypeInv, TypeOK, InFlush, ghosts
<1>3. CASE StartFlush
  <2>1. PICK kept \in SUBSET PendingRows :
          row' = [c \in Chunks |-> IF c \in pending THEN FoldedRow(key[c], kept) ELSE NoKey]
    BY <1>3, Zenon DEF StartFlush, ChooseRows
  <2>2. \A c \in pending : FoldedRow(key[c], kept) \in Key
    BY FoldedRowIsKey DEF TypeInv, PendingRows
  <2>3. row' \in [Chunks -> Key \cup {NoKey}] /\ \A c \in pending : row'[c] \in Key
    BY <2>1, <2>2 DEF TypeInv, TypeOK
  <2>4. /\ runs' \in 1..MaxFlushes /\ pending' = pending /\ key' = key
        /\ unwritten' = pending /\ phase' = "flush"
        /\ batch' \in [1..MaxFlushes -> SUBSET Chunks]
        /\ tx' \in BOOLEAN /\ sqlTx' \in BOOLEAN
        /\ UNCHANGED <<now, cache, todo, staged, draft, stored, table, lock,
                       ui, clears, erased, lost>>
    BY <1>3, ConstantsAssumption
       DEF ConstantsAssumption, StartFlush, begin, TypeInv, TypeOK
  <2>5. TypeOK'
    BY <2>3, <2>4 DEF TypeInv, TypeOK
  <2> QED
    BY <2>3, <2>4, <2>5 DEF TypeInv
<1> QED
  BY <1>1, <1>2, <1>3

LEMMA InsertsKeepType ==
  ASSUME TypeInv,
         \/ \E r \in todo : WriteReading(r)
         \/ \E k \in {row[c] : c \in unwritten} : store_blame_row(k)
         \/ WriteLastFlush
  PROVE  TypeInv'
<1> USE DEF TypeInv
<1>1. ASSUME NEW r \in todo, WriteReading(r)
      PROVE  TypeInv'
  <2> DEFINE new == [value |-> r.value, at |-> now]
  <2>1. new \in Reading /\ r.entry \in Entries
    BY DEF TypeOK, Reading
  <2>2. {} \in SUBSET Inserted /\ {r.entry} \in SUBSET Entries
        /\ [e \in {r.entry} |-> new] \in [{r.entry} -> Reading]
    BY <2>1
  <2>3. Exec({}, [e \in {r.entry} |-> new])
    BY <1>1 DEF WriteReading
  <2>4. /\ sqlTx' \in BOOLEAN
        /\ staged' \subseteq Inserted /\ stored' \subseteq Inserted
        /\ draft' \in [Entries -> Reading] /\ table' \in [Entries -> Reading]
        /\ lock' \in {"free", "sampler", "ui"}
    BY <2>2, <2>3, ExecType
  <2>5. cache' \in [Cached -> Reading]
    BY <1>1, <2>1 DEF WriteReading, TypeOK
  <2> QED
    BY <1>1, <2>4, <2>5 DEF WriteReading, TypeOK, InFlush, ghosts
<1>2. ASSUME NEW k \in {row[c] : c \in unwritten}, store_blame_row(k)
      PROVE  TypeInv'
  <2> DEFINE ins == {[chunk |-> c, key |-> k, run |-> runs] :
                       c \in {d \in unwritten : row[d] = k}}
  <2>1. k \in Key /\ runs \in 1..MaxFlushes
    BY <1>2 DEF store_blame_row, InFlush
  <2>2. ins \in SUBSET Inserted
    BY <2>1 DEF TypeOK, Inserted
  <2>3. NoUpdate \in [{} -> Reading] /\ {} \in SUBSET Entries
    BY DEF NoUpdate
  <2>4. Exec(ins, NoUpdate)
    BY <1>2 DEF store_blame_row
  <2>5. /\ sqlTx' \in BOOLEAN
        /\ staged' \subseteq Inserted /\ stored' \subseteq Inserted
        /\ draft' \in [Entries -> Reading] /\ table' \in [Entries -> Reading]
        /\ lock' \in {"free", "sampler", "ui"}
    BY <2>2, <2>3, <2>4, ExecType
  <2> QED
    BY <1>2, <2>5 DEF store_blame_row, TypeOK, InFlush, ghosts
<1>3. CASE WriteLastFlush
  <2> DEFINE new == [value |-> runs, at |-> now]
  <2>1. new \in Reading
    BY DEF TypeOK, Reading
  <2>2. {} \in SUBSET Inserted /\ {"last_flush"} \in SUBSET Entries
        /\ [e \in {"last_flush"} |-> new] \in [{"last_flush"} -> Reading]
    BY <2>1 DEF Entries
  <2>3. Exec({}, [e \in {"last_flush"} |-> new])
    BY <1>3 DEF WriteLastFlush
  <2>4. /\ sqlTx' \in BOOLEAN
        /\ staged' \subseteq Inserted /\ stored' \subseteq Inserted
        /\ draft' \in [Entries -> Reading] /\ table' \in [Entries -> Reading]
        /\ lock' \in {"free", "sampler", "ui"}
    BY <2>2, <2>3, ExecType
  <2> QED
    BY <1>3, <2>4 DEF WriteLastFlush, TypeOK, InFlush, ghosts
<1> QED
  BY <1>1, <1>2, <1>3

LEMMA EndsKeepType ==
  ASSUME TypeInv, CommitSucceeds \/ CommitFails \/ Finalize \/ Crash
  PROVE  TypeInv'
<1> USE DEF TypeInv
<1>1. Empty \in [Entries -> Reading] /\ [e \in Cached |-> None] \in [Cached -> Reading]
  BY DEF Empty, Reading
<1>2. Merge(draft, table) \in [Entries -> Reading] /\ stored \cup staged \subseteq Inserted
  BY DEF Merge, TypeOK
<1>3. Released \in {"free", "sampler", "ui"}
  BY DEF Released, TypeOK
<1>4. /\ stored' \subseteq Inserted /\ table' \in [Entries -> Reading]
      /\ tx' = FALSE /\ sqlTx' = FALSE /\ staged' = {} /\ draft' = Empty
      /\ lock' = Released /\ phase' = "idle"
  BY <1>2 DEF CommitSucceeds, CommitFails, Finalize, Crash, ForgetMemory,
             CloseTransaction, TypeOK
<1>5. /\ pending' \subseteq pending /\ unwritten' \subseteq unwritten /\ todo' \subseteq todo
      /\ lost' \subseteq Chunks /\ cache' \in [Cached -> Reading]
      /\ UNCHANGED <<now, key, row, ui, runs, batch, clears, erased>>
  BY <1>1 DEF CommitSucceeds, CommitFails, Finalize, Crash, ForgetMemory, TypeOK, ghosts
<1> QED
  BY <1>1, <1>3, <1>4, <1>5 DEF TypeOK, InFlush

LEMMA UiStepsKeepType ==
  ASSUME TypeInv, StartClear \/ ClearStep \/ Clock
  PROVE  TypeInv'
<1> USE DEF TypeInv, memory, db, ghosts, InFlush
<1>1. CASE StartClear
  BY <1>1, ConstantsAssumption DEF ConstantsAssumption, StartClear, Recorded, TypeOK
<1>2. CASE DeleteSamples \/ DeleteBattery
  BY <1>2 DEF DeleteSamples, DeleteBattery, DeleteReadings, TypeOK, Reading
<1>3. CASE DeleteBlame
  <2>1. {r.chunk : r \in stored} \subseteq Chunks
    BY DEF TypeOK, Inserted
  <2> QED
    BY <1>3, <2>1 DEF DeleteBlame, TypeOK
<1>4. CASE DeleteFails \/ VacuumStarts \/ VacuumFails \/ VacuumEnds
  BY <1>4 DEF DeleteFails, VacuumStarts, VacuumFails, VacuumEnds, TypeOK
<1>5. CASE Clock
  BY <1>5, ConstantsAssumption DEF ConstantsAssumption, Clock, TypeOK
<1> QED
  BY <1>1, <1>2, <1>3, <1>4, <1>5 DEF ClearStep

LEMMA NextKeepsType == TypeInv /\ [Next]_vars => TypeInv'
<1> SUFFICES ASSUME TypeInv, [Next]_vars PROVE TypeInv'
  OBVIOUS
<1>1. CASE UNCHANGED vars
  BY <1>1 DEF vars, memory, db, ghosts, TypeInv, TypeOK, InFlush
<1>2. CASE Next
  BY <1>2, ReadingCallTypes, SamplerStepsKeepType, InsertsKeepType, EndsKeepType,
     UiStepsKeepType, Zenon
     DEF Next, FlushStep
<1> QED
  BY <1>1, <1>2

(* Every variable keeps its type, whatever fails: in particular no row is  *)
(* stored under a via that is absent or a basis the table does not know.   *)
THEOREM TypeCorrect == Spec => []TypeOK
<1>1. TypeInv => TypeOK
  BY DEF TypeInv
<1> QED
  BY <1>1, InitTypeInv, NextKeepsType, PTL DEF Spec

-----------------------------------------------------------------------------
(***************************************************************************)
(* What a flush folds, for every way an INSERT may end.  The rows of a     *)
(* flush that is over are related to the deltas it had in hand, which the  *)
(* state no longer shows but for batch and key; hence the operators of the *)
(* folding for any deltas P, each recorded under f[c].                     *)
(***************************************************************************)
RowsOf(P, f)     == {f[c] : c \in P}
BytesOf(P, f, k) == Cardinality({c \in P : f[c] = k})
GroupOf(P, f, k) == {l \in RowsOf(P, f) : same_group(k, l)}

FoldedOf(P, f, k, kept) ==
  IF k \in kept THEN k
  ELSE [day |-> k.day, name |-> OtherName, via |-> "",
        basis |-> OtherBasis(GroupOf(P, f, k) \ kept)]

LargestOf(P, f, kept) ==
  \A k \in RowsOf(P, f) :
    /\ Cardinality(kept \cap GroupOf(P, f, k)) <= BLAME_ROWS_PER_KIND
    /\ \A l \in GroupOf(P, f, k) :
         k \in kept /\ l \notin kept => ~(BytesOf(P, f, l) > BytesOf(P, f, k))

(* The rows of flush n are those of a folding that keeps kept, also those  *)
(* it has still to insert.                                                 *)
FoldsBy(n, kept) ==
  /\ LargestOf(batch[n], key, kept)
  /\ \A s \in stored \cup staged :
       s.run = n => /\ s.chunk \in batch[n]
                    /\ s.key = FoldedOf(batch[n], key, key[s.chunk], kept)
  /\ n = runs /\ phase = "flush" =>
       \A c \in unwritten : /\ c \in batch[n]
                            /\ row[c] = FoldedOf(batch[n], key, key[c], kept)

Folds == \A n \in 1..runs : \E kept \in SUBSET RowsOf(batch[n], key) : FoldsBy(n, kept)

(* Deltas are recorded one at a time, so those in hand are finitely many.  *)
Keyed == \A c \in Recorded : key[c] \in RowKeys

Batches ==
  /\ Keyed
  /\ pending \subseteq Recorded /\ IsFiniteSet(pending)
  /\ \A n \in 1..runs : batch[n] \subseteq Recorded /\ IsFiniteSet(batch[n])
  /\ \A s \in stored \cup staged : s.run \in 1..runs

FoldInv == TypeInv /\ Batches /\ Folds

LEMMA InitFoldInv == Init => FoldInv
<1> SUFFICES ASSUME Init PROVE FoldInv
  OBVIOUS
<1>1. TypeInv
  BY InitTypeInv
<1>2. runs = 0 /\ pending = {} /\ stored = {} /\ staged = {} /\ 1..0 = {}
  BY DEF Init
<1>3. Batches
  BY <1>2, FS_EmptySet DEF Init, Batches, Keyed, Recorded
<1>4. Folds
  BY <1>2 DEF Folds
<1> QED
  BY <1>1, <1>3, <1>4 DEF FoldInv

(* Steps that add no row but those the running flush had still to insert.  *)
LEMMA RowsOfFlushKeepFolding ==
  ASSUME FoldInv, TypeInv',
         UNCHANGED <<key, row, runs, batch>>, pending' \subseteq pending,
         phase' = "flush" => phase = "flush" /\ unwritten' \subseteq unwritten,
         \A s \in stored' \cup staged' :
           \/ s \in stored \cup staged
           \/ /\ phase = "flush"
              /\ s.run = runs /\ s.chunk \in unwritten /\ s.key = row[s.chunk]
  PROVE  FoldInv'
<1>1. Batches'
  <2>1. pending' \subseteq Recorded' /\ IsFiniteSet(pending')
    BY FS_Subset DEF FoldInv, Batches, Recorded
  <2>2. \A n \in 1..runs' : batch'[n] \subseteq Recorded' /\ IsFiniteSet(batch'[n])
    BY DEF FoldInv, Batches, Recorded
  <2>3. phase = "flush" => runs \in 1..runs
    BY DEF FoldInv, TypeInv, InFlush
  <2>4. \A s \in stored' \cup staged' : s.run \in 1..runs'
    BY <2>3 DEF FoldInv, Batches
  <2>5. Keyed'
    BY DEF FoldInv, Batches, Keyed, Recorded
  <2> QED
    BY <2>1, <2>2, <2>4, <2>5 DEF Batches
<1>2. Folds'
  <2> SUFFICES ASSUME NEW n \in 1..runs
               PROVE  \E kept \in SUBSET RowsOf(batch[n], key) : FoldsBy(n, kept)'
    BY DEF Folds
  <2>1. PICK kept \in SUBSET RowsOf(batch[n], key) : FoldsBy(n, kept)
    BY DEF FoldInv, Folds
  <2>2. LargestOf(batch'[n], key', kept)
    BY <2>1 DEF FoldsBy
  <2>3. ASSUME NEW s \in stored' \cup staged', s.run = n
        PROVE  /\ s.chunk \in batch'[n]
               /\ s.key = FoldedOf(batch'[n], key', key'[s.chunk], kept)
    BY <2>1, <2>3 DEF FoldsBy
  <2>4. ASSUME n = runs', phase' = "flush", NEW c \in unwritten'
        PROVE  c \in batch'[n] /\ row'[c] = FoldedOf(batch'[n], key', key'[c], kept)
    BY <2>1, <2>4 DEF FoldsBy
  <2> QED
    BY <2>2, <2>3, <2>4 DEF FoldsBy
<1> QED
  BY <1>1, <1>2 DEF FoldInv

(* A delta recorded later changes nothing of the deltas of a flush.        *)
LEMMA SameFolding ==
  ASSUME NEW P, NEW f, NEW g, \A c \in P : f[c] = g[c], NEW kept
  PROVE  /\ RowsOf(P, f) = RowsOf(P, g)
         /\ \A k : FoldedOf(P, f, k, kept) = FoldedOf(P, g, k, kept)
         /\ LargestOf(P, f, kept) => LargestOf(P, g, kept)
<1>1. RowsOf(P, f) = RowsOf(P, g)
  BY DEF RowsOf
<1>2. ASSUME NEW k PROVE BytesOf(P, f, k) = BytesOf(P, g, k)
  <2>1. {c \in P : f[c] = k} = {c \in P : g[c] = k}
    OBVIOUS
  <2> QED
    BY <2>1 DEF BytesOf
<1>3. ASSUME NEW k PROVE GroupOf(P, f, k) = GroupOf(P, g, k)
  BY <1>1 DEF GroupOf
<1>4. ASSUME NEW k PROVE FoldedOf(P, f, k, kept) = FoldedOf(P, g, k, kept)
  <2>1. GroupOf(P, f, k) = GroupOf(P, g, k)
    BY <1>3
  <2> QED
    BY <2>1, Zenon DEF FoldedOf
<1>5. ASSUME LargestOf(P, f, kept) PROVE LargestOf(P, g, kept)
  <2> SUFFICES ASSUME NEW k \in RowsOf(P, g)
               PROVE  /\ Cardinality(kept \cap GroupOf(P, g, k)) <= BLAME_ROWS_PER_KIND
                      /\ \A l \in GroupOf(P, g, k) :
                           k \in kept /\ l \notin kept => ~(BytesOf(P, g, l) > BytesOf(P, g, k))
    BY DEF LargestOf
  <2>1. GroupOf(P, f, k) = GroupOf(P, g, k) /\ k \in RowsOf(P, f)
    BY <1>1, <1>3
  <2>2. Cardinality(kept \cap GroupOf(P, f, k)) <= BLAME_ROWS_PER_KIND
    BY <1>5, <2>1 DEF LargestOf
  <2>3. ASSUME NEW l \in GroupOf(P, g, k), k \in kept, l \notin kept
        PROVE  ~(BytesOf(P, g, l) > BytesOf(P, g, k))
    <3>1. ~(BytesOf(P, f, l) > BytesOf(P, f, k))
      BY <1>5, <2>1, <2>3 DEF LargestOf
    <3> QED
      BY <1>2, <3>1
  <2> QED
    BY <2>1, <2>2, <2>3
<1> QED
  BY <1>1, <1>4, <1>5

LEMMA RecordBlameRowKeepsFolding ==
  ASSUME FoldInv, TypeInv', NEW d \in Chunks, NEW r \in Rows, RecordBlameRow(d, r)
  PROVE  FoldInv'
<1>1. /\ key[d] = NoKey /\ key' = [key EXCEPT ![d] = RowKey(r)]
      /\ pending' = pending \cup {d} /\ phase # "flush"
      /\ UNCHANGED <<phase, unwritten, row, runs, batch, stored, staged>>
  BY DEF RecordBlameRow, db, ghosts
<1>2. RowKey(r) # NoKey /\ RowKey(r) \in RowKeys
  BY RowKeyIsKey DEF FoldInv, TypeInv, TypeOK
<1>3. /\ d \notin Recorded /\ d \in Recorded' /\ Recorded \subseteq Recorded'
      /\ \A c \in Recorded : key'[c] = key[c]
  BY <1>1, <1>2 DEF Recorded, FoldInv, TypeInv, TypeOK
<1>4. Batches'
  <2>1. IsFiniteSet(pending')
    BY <1>1, FS_AddElement DEF FoldInv, Batches
  <2>2. Keyed'
    BY <1>1, <1>2, <1>3 DEF FoldInv, Batches, Keyed, Recorded, TypeInv, TypeOK
  <2> QED
    BY <1>1, <1>3, <2>1, <2>2 DEF FoldInv, Batches
<1>5. Folds'
  <2> SUFFICES ASSUME NEW n \in 1..runs
               PROVE  \E kept \in SUBSET RowsOf(batch[n], key') : FoldsBy(n, kept)'
    BY <1>1 DEF Folds
  <2>1. PICK kept \in SUBSET RowsOf(batch[n], key) : FoldsBy(n, kept)
    BY DEF FoldInv, Folds
  <2>2. \A c \in batch[n] : key'[c] = key[c]
    BY <1>3 DEF FoldInv, Batches
  <2>3. /\ RowsOf(batch[n], key) = RowsOf(batch[n], key')
        /\ \A k : FoldedOf(batch[n], key, k, kept) = FoldedOf(batch[n], key', k, kept)
        /\ LargestOf(batch[n], key, kept) => LargestOf(batch[n], key', kept)
    <3>1. \A c \in batch[n] : key[c] = key'[c]
      BY <2>2
    <3> QED
      BY <3>1, SameFolding, Zenon
  <2>4. ASSUME NEW s \in stored' \cup staged', s.run = n
        PROVE  /\ s.chunk \in batch'[n]
               /\ s.key = FoldedOf(batch'[n], key', key'[s.chunk], kept)
    <3>1. s.chunk \in batch[n] /\ s.key = FoldedOf(batch[n], key, key[s.chunk], kept)
      BY <1>1, <2>1, <2>4 DEF FoldsBy
    <3> QED
      BY <1>1, <2>2, <2>3, <3>1, Zenon
  <2>5. FoldsBy(n, kept)'
    BY <1>1, <2>1, <2>3, <2>4 DEF FoldsBy
  <2> QED
    BY <2>3, <2>5
<1> QED
  BY <1>4, <1>5 DEF FoldInv

LEMMA StartFlushKeepsFolding ==
  ASSUME FoldInv, TypeInv', StartFlush
  PROVE  FoldInv'
<1>1. /\ runs' = runs + 1 /\ runs \in Nat /\ runs' \in 1..runs'
      /\ unwritten' = pending /\ runs' \in 1..MaxFlushes
      /\ UNCHANGED <<pending, key, staged, stored>>
  BY ConstantsAssumption
     DEF ConstantsAssumption, StartFlush, FoldInv, TypeInv, TypeOK
<1>2. batch'[runs'] = pending /\ \A n \in 1..runs : batch'[n] = batch[n]
  <2>1. batch' = [batch EXCEPT ![runs'] = pending]
    BY DEF StartFlush
  <2>2. \A n \in 1..runs : n \in 1..MaxFlushes /\ n # runs'
    BY <1>1, ConstantsAssumption DEF ConstantsAssumption
  <2> QED
    BY <1>1, <2>1, <2>2 DEF FoldInv, TypeInv, TypeOK
<1>3. \A n \in 1..runs' : n = runs' \/ n \in 1..runs
  BY <1>1
<1>4. \A n \in 1..runs : n # runs' /\ n \in 1..runs'
  BY <1>1
<1>5. Batches'
  BY <1>1, <1>2, <1>3, <1>4 DEF FoldInv, Batches, Keyed, Recorded
<1>6. PICK kept \in SUBSET PendingRows :
        /\ IsLargest(kept)
        /\ row' = [c \in Chunks |-> IF c \in pending THEN FoldedRow(key[c], kept) ELSE NoKey]
  BY Zenon DEF StartFlush, ChooseRows
<1>7. /\ PendingRows = RowsOf(pending, key)
      /\ \A k : Bytes(k) = BytesOf(pending, key, k) /\ Group(k) = GroupOf(pending, key, k)
  BY DEF PendingRows, RowsOf, Bytes, BytesOf, Group, GroupOf
<1>8. LargestOf(pending, key, kept)
  BY <1>6, <1>7 DEF IsLargest, LargestOf, compare_pending
<1>9. ASSUME NEW c \in pending
      PROVE  row'[c] = FoldedOf(pending, key, key[c], kept)
  <2>1. row'[c] = FoldedRow(key[c], kept)
    BY <1>6 DEF FoldInv, TypeInv, TypeOK
  <2>2. Group(key[c]) = GroupOf(pending, key, key[c])
    BY <1>7
  <2> QED
    BY <2>1, <2>2, Zenon DEF FoldedRow, FoldedOf
<1>10. ASSUME NEW n \in 1..runs'
       PROVE  \E some \in SUBSET RowsOf(batch'[n], key') : FoldsBy(n, some)'
  <2>1. CASE n = runs'
    <3>1. \A s \in stored' \cup staged' : s.run # n
      BY <1>1, <1>4, <2>1 DEF FoldInv, Batches
    <3>2. FoldsBy(n, kept)'
      BY <1>1, <1>2, <1>8, <1>9, <2>1, <3>1 DEF FoldsBy
    <3> QED
      BY <1>1, <1>2, <1>7, <2>1, <3>2
  <2>2. CASE n \in 1..runs
    <3>1. PICK old \in SUBSET RowsOf(batch[n], key) : FoldsBy(n, old)
      BY <2>2 DEF FoldInv, Folds
    <3>2. FoldsBy(n, old)'
      BY <1>1, <1>2, <1>4, <2>2, <3>1 DEF FoldsBy
    <3> QED
      BY <1>1, <1>2, <2>2, <3>2
  <2> QED
    BY <1>3, <2>1, <2>2
<1> QED
  BY <1>5, <1>10 DEF FoldInv, Folds

LEMMA OtherStepsKeepFolding ==
  ASSUME FoldInv, TypeInv',
         \/ \E readings : Call(readings)
         \/ \E r \in todo : WriteReading(r)
         \/ FlushStep
         \/ Finalize \/ Crash
         \/ StartClear \/ ClearStep \/ Clock
         \/ UNCHANGED vars
  PROVE  FoldInv'
<1>1. ASSUME NEW ins, NEW upd, Exec(ins, upd)
      PROVE  \A s \in stored' \cup staged' : s \in stored \cup staged \cup ins
  BY <1>1 DEF Exec, Staged, AutoCommitted, TimedOut, DiskFull, db
<1>2. CASE \E readings : Call(readings)
  BY <1>2, RowsOfFlushKeepFolding DEF Call, ghosts
<1>3. ASSUME NEW r \in todo, WriteReading(r) PROVE FoldInv'
  <2>1. PICK upd : Exec({}, upd)
    BY <1>3, Zenon DEF WriteReading
  <2>2. \A s \in stored' \cup staged' : s \in stored \cup staged \cup {}
    BY <1>1, <2>1
  <2>3. /\ phase' # "flush" /\ pending' = pending
        /\ UNCHANGED <<key, row, runs, batch>>
    BY <1>3 DEF WriteReading, ghosts
  <2> QED
    BY <2>2, <2>3, RowsOfFlushKeepFolding
<1>4. ASSUME NEW k, store_blame_row(k) PROVE FoldInv'
  <2> DEFINE ins == {[chunk |-> c, key |-> k, run |-> runs] : c \in {d \in unwritten : row[d] = k}}
  <2>1. Exec(ins, NoUpdate)
    BY <1>4 DEF store_blame_row
  <2>2. \A s \in stored' \cup staged' : s \in stored \cup staged \cup ins
    BY <1>1, <2>1
  <2>3. \A s \in ins : s.run = runs /\ s.chunk \in unwritten /\ s.key = row[s.chunk]
    OBVIOUS
  <2>4. /\ phase = "flush" /\ phase' = "flush" /\ pending' = pending
        /\ unwritten' \subseteq unwritten
        /\ UNCHANGED <<key, row, runs, batch>>
    BY <1>4 DEF store_blame_row, ghosts
  <2> HIDE DEF ins
  <2> QED
    BY <2>2, <2>3, <2>4, RowsOfFlushKeepFolding
<1>5. CASE WriteLastFlush
  <2>1. PICK upd : Exec({}, upd)
    BY <1>5, Zenon DEF WriteLastFlush
  <2>2. \A s \in stored' \cup staged' : s \in stored \cup staged \cup {}
    BY <1>1, <2>1
  <2>3. /\ phase' # "flush" /\ pending' = pending
        /\ UNCHANGED <<key, row, runs, batch>>
    BY <1>5 DEF WriteLastFlush, ghosts
  <2> QED
    BY <2>2, <2>3, RowsOfFlushKeepFolding
<1>6. CASE CommitSucceeds \/ CommitFails \/ Finalize \/ Crash
  <2>1. /\ phase' # "flush" /\ pending' \subseteq pending
        /\ UNCHANGED <<key, row, runs, batch>>
    BY <1>6 DEF CommitSucceeds, CommitFails, Finalize, Crash, ForgetMemory, ghosts
  <2>2. \A s \in stored' \cup staged' : s \in stored \cup staged
    BY <1>6 DEF CommitSucceeds, CommitFails, Finalize, Crash, ForgetMemory, CloseTransaction
  <2> QED
    BY <2>1, <2>2, RowsOfFlushKeepFolding
<1>7. CASE StartClear \/ ClearStep \/ Clock \/ UNCHANGED vars
  <2>1. /\ UNCHANGED <<key, row, runs, batch, pending, phase, unwritten, staged>>
        /\ stored' \subseteq stored
    BY <1>7 DEF StartClear, ClearStep, DeleteFails, DeleteSamples, DeleteBlame, DeleteBattery,
               DeleteReadings, VacuumStarts, VacuumFails, VacuumEnds, Clock, vars, memory, db,
               ghosts
  <2> QED
    BY <2>1, RowsOfFlushKeepFolding
<1> QED
  BY <1>2, <1>3, <1>4, <1>5, <1>6, <1>7, Zenon DEF FlushStep

LEMMA NextKeepsFolding == FoldInv /\ [Next]_vars => FoldInv'
<1> SUFFICES ASSUME FoldInv, [Next]_vars PROVE FoldInv'
  OBVIOUS
<1>1. TypeInv'
  BY NextKeepsType DEF FoldInv
<1>2. CASE UNCHANGED vars
  BY <1>1, <1>2, OtherStepsKeepFolding
<1>3. CASE Next
  BY <1>1, <1>3, ReadingCallTypes, RecordBlameRowKeepsFolding, StartFlushKeepsFolding,
     OtherStepsKeepFolding, Zenon
     DEF Next
<1> QED
  BY <1>2, <1>3

LEMMA AlwaysFolds == Spec => []FoldInv
  BY InitFoldInv, NextKeepsFolding, PTL DEF Spec

LEMMA KeyBasis == \A r \in Key : r.basis \in {q.basis : q \in Rows}
<1> DEFINE B == {q.basis : q \in Rows}
<1>1. \A r \in Key : r.basis \in B
  <2>1. \A N, V : \A r \in [day : Nat, name : N, via : V, basis : B] : r.basis \in B
    <3> HIDE DEF B
    <3> QED
      BY Zenon
  <2> QED
    BY <2>1, Zenon DEF Key
<1> QED
  BY <1>1

(* The fields of a folded row, one record at a time.                       *)
LEMMA FoldedFields ==
  ASSUME NEW P, NEW f, NEW k, NEW kept, k \notin kept
  PROVE  /\ FoldedOf(P, f, k, kept).day = k.day
         /\ FoldedOf(P, f, k, kept).basis = OtherBasis(GroupOf(P, f, k) \ kept)
<1>1. PICK d, n, v, b : /\ d = k.day /\ b = OtherBasis(GroupOf(P, f, k) \ kept)
                        /\ FoldedOf(P, f, k, kept) = [day |-> d, name |-> n, via |-> v, basis |-> b]
  BY Zenon DEF FoldedOf
<1>2. ASSUME NEW r, r = FoldedOf(P, f, k, kept) PROVE r.day = d /\ r.basis = b
  <2>1. r = [day |-> d, name |-> n, via |-> v, basis |-> b]
    BY <1>1, <1>2, Zenon
  <2> QED
    BY ONLY <2>1
<1> QED
  BY <1>1, <1>2, Zenon

LEMMA FoldedName ==
  ASSUME NEW P, NEW f, NEW k, NEW kept, k \notin kept
  PROVE  FoldedOf(P, f, k, kept).name = OtherName
<1>1. PICK d, n, v, b : /\ n = OtherName
                        /\ FoldedOf(P, f, k, kept) = [day |-> d, name |-> n, via |-> v, basis |-> b]
  BY Zenon DEF FoldedOf
<1>2. ASSUME NEW r, r = FoldedOf(P, f, k, kept) PROVE r.name = n
  <2>1. r = [day |-> d, name |-> n, via |-> v, basis |-> b]
    BY <1>1, <1>2, Zenon
  <2> QED
    BY ONLY <2>1
<1> QED
  BY <1>1, <1>2, Zenon

LEMMA FoldingKeepsDayAndBasis == FoldInv => DayAndBasisKept
<1> SUFFICES ASSUME FoldInv, NEW s \in stored
             PROVE  /\ s.key.day = key[s.chunk].day
                    /\ basis_uncertainty[s.key.basis] >= basis_uncertainty[key[s.chunk].basis]
  BY DEF DayAndBasisKept
<1>1. s.run \in 1..runs
  BY DEF FoldInv, Batches
<1>2. PICK kept \in SUBSET RowsOf(batch[s.run], key) : FoldsBy(s.run, kept)
  BY <1>1 DEF FoldInv, Folds
<1> DEFINE P == batch[s.run]
           k == key[s.chunk]
<1>3. s.chunk \in P /\ s.key = FoldedOf(P, key, k, kept)
  BY <1>2 DEF FoldsBy
<1>4. \A c \in P : key[c] \in Key
  BY <1>1 DEF FoldInv, Batches, Recorded, TypeInv, TypeOK
<1>5. k \in Key /\ k \in RowsOf(P, key)
  BY <1>3, <1>4 DEF RowsOf
<1> HIDE DEF P, k
<1>6. CASE k \in kept
  <2>1. k.basis \in {q.basis : q \in Rows}
    BY <1>5, KeyBasis
  <2>2. basis_uncertainty[k.basis] \in 0..3
    BY <2>1, RowsAssumption DEF basis_uncertainty
  <2> QED
    BY <1>3, <1>6, <2>2 DEF FoldedOf, k
<1>7. CASE k \notin kept
  <2>1. k \in GroupOf(P, key, k) \ kept
    BY <1>5, <1>7 DEF GroupOf, same_group
  <2>2. \A r \in GroupOf(P, key, k) \ kept : r.basis \in {q.basis : q \in Rows}
    <3>1. \A r \in RowsOf(P, key) : r \in Key
      BY <1>4 DEF RowsOf
    <3> QED
      BY <3>1, KeyBasis DEF GroupOf
  <2>3. basis_uncertainty[OtherBasis(GroupOf(P, key, k) \ kept)] >= basis_uncertainty[k.basis]
    BY <2>1, <2>2, OtherBasisIsTheirs
  <2>4. s.key.day = k.day /\ s.key.basis = OtherBasis(GroupOf(P, key, k) \ kept)
    <3>1. /\ FoldedOf(P, key, k, kept).day = k.day
          /\ FoldedOf(P, key, k, kept).basis = OtherBasis(GroupOf(P, key, k) \ kept)
      BY <1>7, FoldedFields
    <3> QED
      BY <1>3, <3>1, Zenon
  <2> QED
    BY <2>3, <2>4 DEF k
<1> QED
  BY <1>6, <1>7

(* write_pending_blame folds rows under names, never under days, and takes *)
(* the least certain basis of what it folds: a stored byte keeps its day   *)
(* and is never shown as more certain than it is, whatever fails.          *)
THEOREM DayAndBasisAreKept == Spec => []DayAndBasisKept
  BY AlwaysFolds, FoldingKeepsDayAndBasis, PTL

(***************************************************************************)
(* A row named "other" that was kept cannot be told from one that stands   *)
(* for the folded rest: no writer has that name.                           *)
(***************************************************************************)
NobodyIsOther == \A r \in Rows : r.name # OtherName

LEMMA RowKeyName == NobodyIsOther => \A k \in RowKeys : k.name # OtherName
<1> SUFFICES ASSUME NobodyIsOther, NEW d \in 0..MaxNow, NEW r \in Rows
             PROVE  RowAt(d, r).name # OtherName
  BY DEF RowKeys
<1>1. PICK v : v = (IF r.via = None THEN "" ELSE r.via)
  BY Zenon
<1>2. RowAt(d, r) = [day |-> d, name |-> r.name, via |-> v, basis |-> r.basis]
  BY <1>1, Zenon DEF RowAt
<1>3. ASSUME NEW k, k = RowAt(d, r) PROVE k.name # OtherName
  <2>1. k = [day |-> d, name |-> r.name, via |-> v, basis |-> r.basis]
    BY <1>2, <1>3, Zenon
  <2> QED
    BY <2>1 DEF NobodyIsOther
<1> QED
  BY <1>3, Zenon

(* The rows kept and folded, as the table shows them, are those of the     *)
(* choice made when the flush began.                                       *)
LEMMA FoldingShown ==
  ASSUME NobodyIsOther, FoldInv, NEW n \in 1..runs, NEW kept, FoldsBy(n, kept),
         NEW s \in stored, s.run = n
  PROVE  /\ key[s.chunk] \in RowsOf(batch[n], key)
         /\ s.key = key[s.chunk] <=> key[s.chunk] \in kept
<1>1. s.chunk \in batch[n] /\ s.key = FoldedOf(batch[n], key, key[s.chunk], kept)
  BY DEF FoldsBy
<1>2. key[s.chunk] \in RowKeys
  BY <1>1 DEF FoldInv, Batches, Keyed
<1>3. key[s.chunk] \in RowsOf(batch[n], key)
  BY <1>1 DEF RowsOf
<1>4. CASE key[s.chunk] \in kept
  BY <1>1, <1>3, <1>4 DEF FoldedOf
<1>5. CASE key[s.chunk] \notin kept
  <2>1. s.key.name = OtherName
    <3>1. FoldedOf(batch[n], key, key[s.chunk], kept).name = OtherName
      BY ONLY <1>5, FoldedName
    <3> QED
      BY <1>1, <3>1, Zenon
  <2>2. key[s.chunk].name # OtherName
    BY <1>2, RowKeyName
  <2> QED
    BY <1>3, <1>5, <2>1, <2>2
<1> QED
  BY <1>4, <1>5

LEMMA FoldingKeepsLargest == NobodyIsOther /\ FoldInv => LargestRowsKept
<1> SUFFICES ASSUME NobodyIsOther, FoldInv, NEW n \in 1..runs
             PROVE  LET of     == {s \in stored : s.run = n}
                        size(k) == Cardinality({c \in batch[n] : key[c] = k})
                        shown  == {s.key : s \in {t \in of : t.key = key[t.chunk]}}
                        folded == {key[s.chunk] : s \in {t \in of : t.key # key[t.chunk]}}
                    IN \A k \in shown :
                         /\ Cardinality({l \in shown : same_group(k, l)})
                              <= BLAME_ROWS_PER_KIND
                         /\ \A l \in folded : same_group(k, l) => size(k) >= size(l)
  BY DEF LargestRowsKept
<1>1. PICK kept \in SUBSET RowsOf(batch[n], key) : FoldsBy(n, kept)
  BY DEF FoldInv, Folds
<1> DEFINE P      == batch[n]
           of     == {s \in stored : s.run = n}
           shown  == {s.key : s \in {t \in of : t.key = key[t.chunk]}}
           folded == {key[s.chunk] : s \in {t \in of : t.key # key[t.chunk]}}
<1>2. IsFiniteSet(P) /\ LargestOf(P, key, kept)
  BY <1>1 DEF FoldInv, Batches, FoldsBy
<1>3. shown \subseteq kept
  BY <1>1, FoldingShown
<1>4. folded \subseteq RowsOf(P, key) \ kept
  BY <1>1, FoldingShown
<1> HIDE DEF P, of, shown, folded
<1>5. IsFiniteSet(RowsOf(P, key))
  <2>1. [c \in P |-> key[c]] \in Surjection(P, RowsOf(P, key))
    BY DEF Surjection, RowsOf
  <2> QED
    BY <1>2, <2>1, FS_Surjection
<1>6. ASSUME NEW k \in shown
      PROVE  Cardinality({l \in shown : same_group(k, l)}) <= BLAME_ROWS_PER_KIND
  <2> DEFINE small == {l \in shown : same_group(k, l)}
             large == kept \cap GroupOf(P, key, k)
  <2>1. k \in RowsOf(P, key)
    BY <1>1, <1>3 DEF P
  <2>2. small \subseteq large /\ large \subseteq RowsOf(P, key)
    BY <1>1, <1>3 DEF GroupOf, P
  <2>3. IsFiniteSet(large)
    BY <1>5, <2>2, FS_Subset
  <2> HIDE DEF small, large
  <2>4. /\ Cardinality(small) \in Nat /\ Cardinality(large) \in Nat
        /\ Cardinality(small) <= Cardinality(large)
    BY <2>2, <2>3, FS_Subset, FS_CardinalityType
  <2>5. Cardinality(large) <= BLAME_ROWS_PER_KIND
    BY <1>2, <2>1 DEF LargestOf, large
  <2> QED
    BY <2>4, <2>5, ConstantsAssumption DEF ConstantsAssumption, small
<1>7. ASSUME NEW k \in shown, NEW l \in folded, same_group(k, l)
      PROVE  BytesOf(P, key, k) >= BytesOf(P, key, l)
  <2>1. k \in RowsOf(P, key) /\ k \in kept /\ l \notin kept /\ l \in GroupOf(P, key, k)
    BY <1>1, <1>3, <1>4, <1>7 DEF GroupOf, P
  <2>2. ~(BytesOf(P, key, l) > BytesOf(P, key, k))
    BY <1>2, <2>1 DEF LargestOf
  <2>3. BytesOf(P, key, l) \in Nat /\ BytesOf(P, key, k) \in Nat
    <3>1. \A q : IsFiniteSet({c \in P : key[c] = q})
      BY <1>2, FS_Subset
    <3> QED
      BY <3>1, FS_CardinalityType DEF BytesOf
  <2> QED
    BY <2>2, <2>3
<1> QED
  BY <1>6, <1>7 DEF P, of, shown, folded, BytesOf

(* write_pending_blame sorts by compare_pending and names the first twenty *)
(* of a group: whatever fails, a flush stores no more rows of a day and    *)
(* kind under their own names, and none of those it folds was larger.      *)
THEOREM LargestRowsAreKept == ASSUME NobodyIsOther PROVE Spec => []LargestRowsKept
  BY AlwaysFolds, FoldingKeepsLargest, PTL
=============================================================================
