------------------------------ MODULE HealthDb ------------------------------
(***************************************************************************)
(* src/src/health/gsm-health-db.c: the history database, as the sampler    *)
(* (its one periodic writer) and the UI (which clears it) use it, each     *)
(* through a handle of its own on the same SQLite file.                    *)
(*                                                                         *)
(* The sampler's handle keeps deltas of written bytes in pending_blame     *)
(* and writes them in gsm_health_db_flush; drive and battery readings and  *)
(* small meta values are written when they are handed in, inside a         *)
(* transaction that stays open until the flush.  BEGIN is deferred: the    *)
(* write lock of the file is taken by the first INSERT that succeeds.      *)
(*                                                                         *)
(* No call looks at the result of an INSERT (sqlite3_step).  What SQLite   *)
(* may answer is modelled by the outcomes of Exec: done; given up after    *)
(* the busy timeout because the UI holds the write lock; failed for want   *)
(* of disk space, which also rolls the whole transaction back.             *)
(*                                                                         *)
(* A chunk is one delta handed to record_blame_row, of one unit of bytes;  *)
(* a row's bytes are the number of its chunks.  Time is counted in hours.  *)
(* One drive and one battery stand for all: nothing is shared between two. *)
(***************************************************************************)
EXTENDS Naturals, FiniteSets

CONSTANTS
  Chunks,               \* the deltas that may be recorded
  Rows,                 \* the [name, via, basis] a delta may be recorded under
  OtherName,            \* BLAME_OTHER_NAME
  BLAME_ROWS_PER_KIND,  \* named rows a flush writes per day and kind
  Values,               \* what a drive, a battery or the journal may read
  DayLength,            \* hours in a day
  DRIVE_REWRITE,        \* hours after which an unchanged reading is due again
  LockTimeouts,         \* may the UI hold the write lock past the busy timeout?
  NoKey, None,          \* model values: no row yet, nothing
  Faults,               \* subset of {"statement", "commit"}: disk failures
  MaxNow, MaxFlushes, MaxClears   \* bounds on hours, flushes and clears

ASSUME ConstantsAssumption ==
  /\ BLAME_ROWS_PER_KIND \in Nat
  /\ DayLength \in Nat \ {0}
  /\ DRIVE_REWRITE \in Nat
  /\ LockTimeouts \in BOOLEAN
  /\ Faults \subseteq {"statement", "commit"}
  /\ MaxNow \in Nat /\ MaxFlushes \in Nat /\ MaxClears \in Nat

VARIABLES
  now,        \* the clock, in hours
  \* --- memory of the sampler's handle ---
  pending,    \* pending_blame: the deltas waiting for a flush
  key,        \* the row each delta was recorded under, NoKey before that
  cache,      \* drive_state and battery_state: what is believed stored
  tx,         \* in_transaction
  phase,      \* where the sampler is inside a call
  todo,       \* readings the current call has still to INSERT
  unwritten,  \* deltas the current flush has still to INSERT
  row,        \* the row the current flush stores each delta under
  \* --- SQLite and the file ---
  sqlTx,      \* is a transaction really open on the sampler's connection?
  staged,     \* blame INSERTs of that transaction
  draft,      \* the other INSERTs of that transaction
  stored,     \* blame_daily, one element per delta and flush that added it
  table,      \* the latest row of the other tables
  lock,       \* who holds the write lock of the file
  \* --- the UI ---
  ui,         \* where the UI is inside gsm_health_db_clear
  \* --- history, read by properties only ---
  runs,       \* flushes begun
  batch,      \* what was pending at each of them
  clears,     \* clears begun
  erased,     \* deltas deleted from blame_daily by a clear
  lost        \* deltas pending in a process that ended

db     == <<sqlTx, staged, draft, stored, table, lock>>
memory == <<pending, key, cache, tx, phase, todo, unwritten, row>>
ghosts == <<runs, batch, clears, erased, lost>>
vars   == <<now, memory, db, ui, ghosts>>

Cached  == {"identity", "sample", "battery"}
Entries == Cached \cup {"journal_cursor", "last_flush"}

Day(t)     == t \div DayLength
OnBehalf(k) == k.via # ""
Recorded   == {c \in Chunks : key[c] # NoKey}

(***************************************************************************)
(* Folding a flush: the largest rows of a day and kind keep their name,    *)
(* the rest become one row named "other" whose basis is the least certain  *)
(* of theirs and whose via is empty whatever theirs was.                   *)
(***************************************************************************)
basis_uncertainty ==
  [procfs |-> 3, coredump_proportional |-> 2, journald_lines |-> 2,
   coredump_exact |-> 1, kernel |-> 0, residue |-> 0]

ASSUME RowsAssumption == \A r \in Rows : r.basis \in DOMAIN basis_uncertainty

PendingRows == {key[c] : c \in pending}
Bytes(k)    == Cardinality({c \in pending : key[c] = k})
same_group(k, l) == k.day = l.day /\ OnBehalf(k) = OnBehalf(l)
Group(k)    == {l \in PendingRows : same_group(k, l)}

compare_pending_SmallestFirst(k, l) ==
  Bytes(k) < Bytes(l) \/ (Bytes(k) = Bytes(l) /\ k.name < l.name)

compare_pending(k, l) ==
  Bytes(k) > Bytes(l) \/ (Bytes(k) = Bytes(l) /\ k.name < l.name)

(* The rows that keep their name; rows that compare equal come in the hash *)
(* table's order, which is any.                                            *)
IsLargest(kept) ==
  \A k \in PendingRows :
    /\ Cardinality(kept \cap Group(k)) <= BLAME_ROWS_PER_KIND
    /\ (k \notin kept) => Cardinality(kept \cap Group(k)) = BLAME_ROWS_PER_KIND
    /\ \A l \in Group(k) : (k \in kept /\ l \notin kept) => ~compare_pending(l, k)

OtherBasis_MostCertain(rs) ==
  CHOOSE b \in {r.basis : r \in rs} :
    \A r \in rs : basis_uncertainty[r.basis] >= basis_uncertainty[b]

OtherBasis(rs) ==
  CHOOSE b \in {r.basis : r \in rs} :
    \A r \in rs : basis_uncertainty[r.basis] <= basis_uncertainty[b]

FoldedRow(k, kept) ==
  IF k \in kept THEN k
  ELSE [day |-> k.day, name |-> OtherName, via |-> "",
        basis |-> OtherBasis(Group(k) \ kept)]

-----------------------------------------------------------------------------
(***************************************************************************)
(* One INSERT on the sampler's connection: the blame records ins, or upd,  *)
(* a function giving the new row of some entries.                          *)
(***************************************************************************)
Override(upd, f) == [e \in Entries |-> IF e \in DOMAIN upd THEN upd[e] ELSE f[e]]
NoUpdate == [e \in {} |-> None]
Empty == [e \in Entries |-> None]
Merge(new, old) == [e \in Entries |-> IF new[e] # None THEN new[e] ELSE old[e]]
Released == IF lock = "sampler" THEN "free" ELSE lock

Staged(ins, upd) ==
  /\ sqlTx
  /\ lock # "ui"
  /\ lock' = "sampler"
  /\ staged' = staged \cup ins
  /\ draft' = Override(upd, draft)
  /\ UNCHANGED <<sqlTx, stored, table>>

(* After a rollback SQLite is in autocommit mode, unknown to the handle.   *)
AutoCommitted(ins, upd) ==
  /\ ~sqlTx
  /\ lock = "free"
  /\ stored' = stored \cup ins
  /\ table' = Override(upd, table)
  /\ UNCHANGED <<sqlTx, staged, draft, lock>>

TimedOut ==
  /\ LockTimeouts
  /\ lock = "ui"
  /\ UNCHANGED db

DiskFull ==
  /\ "statement" \in Faults
  /\ lock # "ui"
  /\ sqlTx' = FALSE
  /\ staged' = {}
  /\ draft' = Empty
  /\ lock' = Released
  /\ UNCHANGED <<stored, table>>

Exec(ins, upd) ==
  \/ Staged(ins, upd)
  \/ AutoCommitted(ins, upd)
  \/ TimedOut
  \/ DiskFull

(* Opens a transaction unless the handle believes one is open.             *)
begin_Autocommit ==
  /\ tx' = TRUE
  /\ UNCHANGED sqlTx

begin ==
  /\ tx' = TRUE
  /\ sqlTx' = (sqlTx \/ ~tx)

-----------------------------------------------------------------------------
Init ==
  /\ now = 0
  /\ pending = {} /\ key = [c \in Chunks |-> NoKey]
  /\ cache = [e \in Cached |-> None]
  /\ tx = FALSE /\ phase = "idle" /\ todo = {}
  /\ unwritten = {} /\ row = [c \in Chunks |-> NoKey]
  /\ sqlTx = FALSE /\ staged = {} /\ draft = Empty
  /\ stored = {} /\ table = Empty /\ lock = "free"
  /\ ui = "idle"
  /\ runs = 0 /\ batch = [n \in 1..MaxFlushes |-> {}]
  /\ clears = 0 /\ erased = {} /\ lost = {}

(* gsm_health_db_record_blame_row: the day is taken now, and a NULL via is *)
(* the empty one.                                                          *)
RowKey_KeepsNull(r) ==
  [day |-> Day(now), name |-> r.name, via |-> r.via, basis |-> r.basis]

RowAt(d, r) ==
  [day |-> d, name |-> r.name,
   via |-> IF r.via = None THEN "" ELSE r.via, basis |-> r.basis]

RowKey(r) == RowAt(Day(now), r)

RowKeys == {RowAt(d, r) : d \in 0..MaxNow, r \in Rows}

ASSUME NoKeyAssumption == NoKey \notin RowKeys

RecordBlameRow(c, r) ==
  /\ phase = "idle"
  /\ runs < MaxFlushes
  /\ key[c] = NoKey
  /\ key' = [key EXCEPT ![c] = RowKey(r)]
  /\ pending' = pending \cup {c}
  /\ UNCHANGED <<now, cache, tx, phase, todo, unwritten, row, db, ui, ghosts>>

SameValue(e, v) == cache[e].value = v
Aged(e)         == now - cache[e].at >= DRIVE_REWRITE

drive_identity_changed(v) ==
  cache["identity"] # None => (~SameValue("identity", v) \/ Aged("identity"))
drive_sample_due(v) ==
  cache["sample"] # None => (~SameValue("sample", v) \/ Aged("sample"))
battery_due(v) ==
  cache["battery"] # None =>
    (~SameValue("battery", v) \/ Day(cache["battery"].at) # Day(now))

(* The INSERTs of a call, inside the transaction it opens or finds open.   *)
Call(readings) ==
  /\ phase = "idle"
  /\ runs < MaxFlushes
  /\ readings # {}
  /\ begin
  /\ todo' = readings
  /\ phase' = "record"
  /\ UNCHANGED <<now, pending, key, cache, unwritten, row,
                 staged, draft, stored, table, lock, ui, ghosts>>

(* gsm_health_db_record_drive; h is None when no health was read.          *)
RecordDrive(v, h) ==
  Call((IF drive_identity_changed(v) THEN {[entry |-> "identity", value |-> v]} ELSE {})
       \cup
       (IF h # None /\ drive_sample_due(h) THEN {[entry |-> "sample", value |-> h]} ELSE {}))

RecordBattery(v) ==
  battery_due(v) /\ Call({[entry |-> "battery", value |-> v]})

SetMeta(v) == Call({[entry |-> "journal_cursor", value |-> v]})

(* The INSERT of one reading; the cache is set whatever came of it.        *)
WriteReading(r) ==
  /\ phase = "record"
  /\ r \in todo
  /\ r.entry = "sample" => todo = {r}
  /\ LET new == [value |-> r.value, at |-> now]
     IN /\ Exec({}, [e \in {r.entry} |-> new])
        /\ cache' = [e \in Cached |-> IF e = r.entry THEN new ELSE cache[e]]
  /\ todo' = todo \ {r}
  /\ phase' = IF todo = {r} THEN "idle" ELSE "record"
  /\ UNCHANGED <<now, pending, key, tx, unwritten, row, ui, ghosts>>

(***************************************************************************)
(* gsm_health_db_flush                                                     *)
(***************************************************************************)
ChooseRows ==
  \E kept \in SUBSET PendingRows :
    /\ IsLargest(kept)
    /\ row' = [c \in Chunks |->
                 IF c \in pending THEN FoldedRow(key[c], kept) ELSE NoKey]

StartFlush ==
  /\ phase = "idle"
  /\ runs < MaxFlushes
  /\ begin
  /\ ChooseRows
  /\ unwritten' = pending
  /\ phase' = "flush"
  /\ runs' = runs + 1
  /\ batch' = [batch EXCEPT ![runs'] = pending]
  /\ UNCHANGED <<now, pending, key, cache, todo, staged, draft, stored, table, lock,
                 ui, clears, erased, lost>>

(* store_blame_row, for every row of write_pending_blame.                  *)
store_blame_row(k) ==
  /\ phase = "flush"
  /\ LET cs == {c \in unwritten : row[c] = k}
     IN /\ cs # {}
        /\ Exec({[chunk |-> c, key |-> k, run |-> runs] : c \in cs}, NoUpdate)
        /\ unwritten' = unwritten \ cs
  /\ UNCHANGED <<now, pending, key, cache, tx, phase, todo, row, ui, ghosts>>

WriteLastFlush ==
  /\ phase = "flush"
  /\ unwritten = {}
  /\ Exec({}, [e \in {"last_flush"} |-> [value |-> runs, at |-> now]])
  /\ phase' = "commit"
  /\ UNCHANGED <<now, pending, key, cache, tx, todo, unwritten, row, ui, ghosts>>

CloseTransaction ==
  /\ tx' = FALSE
  /\ sqlTx' = FALSE
  /\ staged' = {}
  /\ draft' = Empty
  /\ lock' = Released

CommitSucceeds_KeepsPending ==
  /\ phase = "commit"
  /\ sqlTx
  /\ stored' = stored \cup staged
  /\ table' = Merge(draft, table)
  /\ CloseTransaction
  /\ phase' = "idle"
  /\ UNCHANGED <<now, pending, key, cache, todo, unwritten, row, ui, ghosts>>

CommitSucceeds ==
  /\ phase = "commit"
  /\ sqlTx
  /\ stored' = stored \cup staged
  /\ table' = Merge(draft, table)
  /\ CloseTransaction
  /\ pending' = {}
  /\ phase' = "idle"
  /\ UNCHANGED <<now, key, cache, todo, unwritten, row, ui, ghosts>>

CommitFails_DropsPending ==
  /\ phase = "commit"
  /\ ~sqlTx \/ ("commit" \in Faults /\ lock = "sampler")
  /\ CloseTransaction
  /\ cache' = [e \in Cached |-> None]
  /\ pending' = {}
  /\ phase' = "idle"
  /\ UNCHANGED <<now, key, todo, unwritten, row, stored, table, ui, ghosts>>

CommitFails_KeepsCache ==
  /\ phase = "commit"
  /\ ~sqlTx \/ ("commit" \in Faults /\ lock = "sampler")
  /\ CloseTransaction
  /\ phase' = "idle"
  /\ UNCHANGED <<now, pending, key, cache, todo, unwritten, row, stored, table, ui, ghosts>>

CommitFails_NoRollback ==
  /\ phase = "commit"
  /\ ~sqlTx \/ ("commit" \in Faults /\ lock = "sampler")
  /\ tx' = FALSE
  /\ cache' = [e \in Cached |-> None]
  /\ phase' = "idle"
  /\ UNCHANGED <<now, pending, key, todo, unwritten, row, db, ui, ghosts>>

(* COMMIT fails when the disk does, or when there is nothing to commit     *)
(* because SQLite has rolled back: ROLLBACK, keep the deltas, forget what  *)
(* was believed stored, return FALSE.                                      *)
CommitFails ==
  /\ phase = "commit"
  /\ ~sqlTx \/ ("commit" \in Faults /\ lock = "sampler")
  /\ CloseTransaction
  /\ cache' = [e \in Cached |-> None]
  /\ phase' = "idle"
  /\ UNCHANGED <<now, pending, key, todo, unwritten, row, stored, table, ui, ghosts>>

-----------------------------------------------------------------------------
(* The process ends and a new one opens the file.                          *)
ForgetMemory ==
  /\ pending' = {}
  /\ lost' = lost \cup pending
  /\ cache' = [e \in Cached |-> None]
  /\ phase' = "idle"
  /\ todo' = {}
  /\ unwritten' = {}
  /\ CloseTransaction
  /\ UNCHANGED <<now, key, row, ui, runs, batch, clears, erased>>

(* gsm_health_db_finalize commits a transaction left open.                 *)
Finalize ==
  /\ phase = "idle"
  /\ ForgetMemory
  /\ IF tx /\ sqlTx
     THEN stored' = stored \cup staged /\ table' = Merge(draft, table)
     ELSE UNCHANGED <<stored, table>>

Crash_HalfWritten ==
  /\ ForgetMemory
  /\ stored' = stored \cup staged
  /\ UNCHANGED table

(* Killed: SQLite discards the uncommitted part of the write-ahead log.    *)
Crash ==
  /\ ForgetMemory
  /\ UNCHANGED <<stored, table>>

-----------------------------------------------------------------------------
(***************************************************************************)
(* gsm_health_db_clear, called by the UI: five DELETEs (three are one      *)
(* here), each its own transaction, the rest skipped when one fails; then  *)
(* VACUUM, the one statement that holds the lock for long.                 *)
(***************************************************************************)
StartClear ==
  /\ ui = "idle"
  /\ clears < MaxClears
  /\ clears' = clears + 1
  /\ ui' = "samples"
  /\ UNCHANGED <<now, memory, db, runs, batch, erased, lost>>

DeleteFails ==
  /\ ui \in {"samples", "blame", "battery"}
  /\ LockTimeouts
  /\ lock = "sampler"
  /\ ui' = "vacuum"
  /\ UNCHANGED <<now, memory, db, ghosts>>

DeleteReadings(at, e, next) ==
  /\ ui = at
  /\ lock = "free"
  /\ table' = [table EXCEPT ![e] = None]
  /\ ui' = next
  /\ UNCHANGED <<now, memory, sqlTx, staged, draft, stored, lock, ghosts>>

DeleteSamples == DeleteReadings("samples", "sample", "blame")
DeleteBattery == DeleteReadings("battery", "battery", "vacuum")

DeleteBlame ==
  /\ ui = "blame"
  /\ lock = "free"
  /\ erased' = erased \cup {r.chunk : r \in stored}
  /\ stored' = {}
  /\ ui' = "battery"
  /\ UNCHANGED <<now, memory, sqlTx, staged, draft, table, lock,
                 runs, batch, clears, lost>>

VacuumStarts ==
  /\ ui = "vacuum"
  /\ lock = "free"
  /\ lock' = "ui"
  /\ ui' = "vacuuming"
  /\ UNCHANGED <<now, memory, sqlTx, staged, draft, stored, table, ghosts>>

VacuumFails ==
  /\ ui = "vacuum"
  /\ LockTimeouts
  /\ lock = "sampler"
  /\ ui' = "idle"
  /\ UNCHANGED <<now, memory, db, ghosts>>

VacuumEnds_Repeats ==
  /\ ui = "vacuuming"
  /\ lock' = "free"
  /\ ui' = "vacuum"
  /\ UNCHANGED <<now, memory, sqlTx, staged, draft, stored, table, ghosts>>

VacuumEnds ==
  /\ ui = "vacuuming"
  /\ lock' = "free"
  /\ ui' = "idle"
  /\ UNCHANGED <<now, memory, sqlTx, staged, draft, stored, table, ghosts>>

Clock ==
  /\ now < MaxNow
  /\ now' = now + 1
  /\ UNCHANGED <<memory, db, ui, ghosts>>

-----------------------------------------------------------------------------
FlushStep ==
  \/ \E k \in {row[c] : c \in unwritten} : store_blame_row(k)
  \/ WriteLastFlush
  \/ CommitSucceeds
  \/ CommitFails

ClearStep ==
  \/ DeleteFails
  \/ DeleteSamples
  \/ DeleteBlame
  \/ DeleteBattery
  \/ VacuumStarts
  \/ VacuumFails
  \/ VacuumEnds

Next ==
  \/ \E c \in Chunks, r \in Rows : RecordBlameRow(c, r)
  \/ \E v \in Values, h \in Values \cup {None} : RecordDrive(v, h)
  \/ \E v \in Values : RecordBattery(v) \/ SetMeta(v)
  \/ \E r \in todo : WriteReading(r)
  \/ StartFlush
  \/ FlushStep
  \/ Finalize
  \/ Crash
  \/ StartClear
  \/ ClearStep
  \/ Clock

Spec == Init /\ [][Next]_vars

(* Each process runs its own code to the end of a call.  The flush is      *)
(* reached however many readings are handed in, because the sampler hands  *)
(* in finitely many before it (strong fairness).                           *)
FairSpec ==
  /\ Spec
  /\ WF_vars(\E r \in todo : WriteReading(r))
  /\ SF_vars(StartFlush)
  /\ WF_vars(FlushStep)
  /\ WF_vars(ClearStep)
-----------------------------------------------------------------------------
Key == [day : Nat, name : {r.name : r \in Rows} \cup {OtherName},
        via : ({r.via : r \in Rows} \ {None}) \cup {""}, basis : {r.basis : r \in Rows}]

Reading == [value : Values \cup (0..MaxFlushes), at : 0..MaxNow] \cup {None}
Inserted == [chunk : Chunks, key : Key, run : 1..MaxFlushes]

TypeOK ==
  /\ now \in 0..MaxNow
  /\ pending \subseteq Chunks
  /\ key \in [Chunks -> Key \cup {NoKey}]
  /\ cache \in [Cached -> Reading]
  /\ tx \in BOOLEAN /\ sqlTx \in BOOLEAN
  /\ phase \in {"idle", "record", "flush", "commit"}
  /\ todo \subseteq [entry : Entries, value : Values]
  /\ unwritten \subseteq Chunks
  /\ row \in [Chunks -> Key \cup {NoKey}]
  /\ staged \subseteq Inserted /\ stored \subseteq Inserted
  /\ draft \in [Entries -> Reading] /\ table \in [Entries -> Reading]
  /\ lock \in {"free", "sampler", "ui"}
  /\ ui \in {"idle", "samples", "blame", "battery", "vacuum", "vacuuming"}
  /\ runs \in 0..MaxFlushes /\ batch \in [1..MaxFlushes -> SUBSET Chunks]
  /\ clears \in 0..MaxClears
  /\ erased \subseteq Chunks /\ lost \subseteq Chunks

SavedChunks == {r.chunk : r \in stored}

(* gsm_health_db_flush keeps the deltas "for the next flush" when the      *)
(* commit fails: a recorded delta is waiting, in the table, cleared by the *)
(* user or gone with a process that ended; no flush drops it.              *)
NothingLost ==
  \A c \in Recorded : c \in pending \cup SavedChunks \cup erased \cup lost

(* No delta is added to the table's sums twice, by two flushes or by two   *)
(* rows of one, and none that is in the table waits to be added again.     *)
CountedOnce ==
  /\ \A r, s \in stored : r.chunk = s.chunk => r = s
  /\ pending \cap (SavedChunks \cup erased) = {}

(* "Everything held in memory in one short transaction": whatever commit   *)
(* failures, crashes and clears came between, the table shows all that a   *)
(* flush set out to write or nothing of it.                                *)
FlushAtomic ==
  \A n \in 1..runs :
    LET written == {r.chunk : r \in {s \in stored : s.run = n}}
    IN written = {} \/ written = batch[n]

(* "At most the 20 largest rows per drive, day and kind": no flush stores  *)
(* more rows under a name of their own, and none of those it folds into    *)
(* "other" was larger than one it kept.                                    *)
LargestRowsKept ==
  \A n \in 1..runs :
    LET of     == {s \in stored : s.run = n}
        size(k) == Cardinality({c \in batch[n] : key[c] = k})
        kept   == {s.key : s \in {t \in of : t.key = key[t.chunk]}}
        folded == {key[s.chunk] : s \in {t \in of : t.key # key[t.chunk]}}
    IN \A k \in kept :
         /\ Cardinality({l \in kept : same_group(k, l)}) <= BLAME_ROWS_PER_KIND
         /\ \A l \in folded : same_group(k, l) => size(k) >= size(l)

(* A delta lands in the bucket of the day its bytes were written in, even  *)
(* when the flush comes after midnight or had to be repeated, and never    *)
(* under a basis more certain than its own.                                *)
DayAndBasisKept ==
  \A r \in stored :
    /\ r.key.day = key[r.chunk].day
    /\ basis_uncertainty[r.key.basis] >= basis_uncertainty[key[r.chunk].basis]

(* What the handle believes stored is the latest row of its table, in the  *)
(* file or in the open transaction: a reading skipped as unchanged is one  *)
(* the database has (until the user clears it).                            *)
CacheTruthful ==
  \A e \in Cached :
    cache[e] # None =>
      IF draft[e] # None THEN draft[e] = cache[e]
      ELSE table[e] = cache[e]

(* The write lock is held only between an INSERT and the end of a flush    *)
(* that is sure to come.                                                   *)
WriteLockReleased == lock = "sampler" ~> lock # "sampler"

(* A clear never waits for ever, however often the sampler writes.         *)
ClearReturns == ui # "idle" ~> ui = "idle"

(* The transitions of the deltas are those of BlameRecord.                 *)
Promise == INSTANCE BlameRecord WITH held <- pending, saved <- SavedChunks
ImplementsBlameRecord == Promise!Spec

(* gsm_health_db_get_blame: "On-behalf rows are left out, since they       *)
(* re-divide bytes already counted": a day's charged-to total is what was  *)
(* charged.  (A flush that folds rows on behalf of others breaks this.)    *)
ChargedTotalExact ==
  \A d \in 0..Day(MaxNow) :
    Cardinality({r \in stored : r.key.via = "" /\ r.key.day = d})
      <= Cardinality({c \in SavedChunks : ~OnBehalf(key[c]) /\ key[c].day = d})
=============================================================================
