------------------------------ MODULE OnBehalf ------------------------------
(***************************************************************************)
(* src/src/health/gsm-onbehalf.c and settle_on_behalf of gsm-sampler.c:    *)
(* systemd-coredump and journald write on behalf of others.  What the      *)
(* kernel charged to them between two flushes is split by what the journal *)
(* said in that interval, while others go on appending to the journal and  *)
(* access to it may be granted or withdrawn.                               *)
(*                                                                         *)
(* An entry is a crash record (written by the instance of the handler), a  *)
(* resource message of systemd about an instance with its exact figure, or *)
(* a line from or about a unit.  How a unit is named is left out; journal  *)
(* files are not rotated, and no sum reaches 2^64.                         *)
(***************************************************************************)
EXTENDS Integers, Sequences, FiniteSetsExt

CONSTANTS
  Drives, Units,
  Instances,          \* handler instances, one for each crash
  CrasherOf,          \* the unit each was run for
  Estimate,           \* core size estimated from the record's maps
  ExactFigures,       \* what resource messages may say
  None,               \* model value: no unit, no cursor
  MaxEntries, MaxCharge   \* bounds: of the journal, and of an interval's bytes

VARIABLES
  journal, readable,  \* of the machine
  charges,            \* bytes of each drive and proxy writer, not yet split
  journal_cursor,     \* index of the last entry read, None without one
  source,             \* the journal while it is open
  rows,               \* rows of the interval being closed, so far
  split,              \* history: the charges it splits
  read,               \* history: intervals that used each entry
  skipped             \* history: entries of no interval, and rightly so

behalfVars == <<journal, readable, charges, journal_cursor, source, rows, split, read, skipped>>
history == <<rows, split, read, skipped>>

Writers == {"coredump", "journald"}
Closed == [phase |-> "closed", at |-> None, exhausted |-> FALSE]
Phase(phase) == source.phase = phase

NoCharges == [d \in Drives |-> [w \in Writers |-> 0]]

CrashRecord(i) == [kind |-> "crash", about |-> i, bytes |-> 0]
Resources(i, bytes) == [kind |-> "exact", about |-> i, bytes |-> bytes]
Line(unit) == [kind |-> "line", about |-> unit, bytes |-> 0]
Entries ==
  {CrashRecord(i) : i \in Instances} \cup {Resources(i, b) : i \in Instances, b \in ExactFigures}
    \cup {Line(u) : u \in Units \cup {None}}

(* main: the journal's baseline, when there is access and an entry.        *)
Init ==
  /\ journal \in {<<>>, <<Line(None)>>}
  /\ readable \in BOOLEAN
  /\ journal_cursor = IF readable /\ journal # <<>> THEN Len(journal) ELSE None
  /\ charges = NoCharges
  /\ source = Closed
  /\ rows = {} /\ split = NoCharges
  /\ read = [k \in 1..MaxEntries |-> 0]
  /\ skipped = 1..Len(journal)

-----------------------------------------------------------------------------
(* The machine.                                                            *)
AppendEntry(entry) ==
  /\ Len(journal) < MaxEntries
  /\ entry.kind = "crash" => \A k \in DOMAIN journal : journal[k] # entry
  /\ journal' = Append(journal, entry)
  /\ UNCHANGED <<readable, charges, journal_cursor, source, history>>

(* Only opening the journal asks for access.                               *)
Access ==
  /\ Phase("closed")
  /\ readable' = ~readable
  /\ UNCHANGED <<journal, charges, journal_cursor, source, history>>

(* gsm_on_behalf_charge, by the tick; zero bytes are no charge.            *)
Charge(d, w, wbytes) ==
  /\ Phase("closed")
  /\ wbytes > 0 /\ charges[d][w] + wbytes <= MaxCharge
  /\ charges' = [charges EXCEPT ![d][w] = @ + wbytes]
  /\ UNCHANGED <<journal, readable, journal_cursor, source, history>>

-----------------------------------------------------------------------------
(* distribute: floor shares, and the units left over to the largest        *)
(* remainders.  Among equal ones any may come first.                       *)
Total(w) == MapThenSumSet(LAMBDA i : w[i], DOMAIN w)

Distribute_FloorsOnly(total, weights) ==
  LET floor == [i \in DOMAIN weights |-> (total * weights[i]) \div Total(weights)]
  IN {[i \in DOMAIN weights |-> floor[i]]}

Distribute(total, weights) ==
  LET sum == Total(weights)
      floor == [i \in DOMAIN weights |-> (total * weights[i]) \div sum]
      remainder == [i \in DOMAIN weights |-> (total * weights[i]) % sum]
      Largest == {more \in kSubset(total - Total(floor), {i \in DOMAIN weights : weights[i] # 0}) :
                    \A i \in more, j \in DOMAIN weights \ more : remainder[i] >= remainder[j]}
  IN {[i \in DOMAIN weights |-> floor[i] + IF i \in more THEN 1 ELSE 0] : more \in Largest}

-----------------------------------------------------------------------------
(* read_interval: what the entries of an interval say.                     *)
Crashes(iv) == {k \in iv : journal[k].kind = "crash"}

(* The last resource message about the handler's instance; {} without one. *)
ExactOf(iv, k) ==
  LET about == {e \in iv : journal[e].kind = "exact" /\ journal[e].about = journal[k].about}
  IN IF about = {} THEN {} ELSE {journal[Max(about)].bytes}

(* A line from or about an instance counts for the crasher, when its       *)
(* record is in the interval.                                              *)
LineOf(iv, k) ==
  LET unit == journal[k].about
  IN IF \E c \in Crashes(iv) : journal[c].about = unit THEN CrasherOf[unit] ELSE unit

LineCounts(iv) ==
  [name \in {LineOf(iv, k) : k \in iv} |-> Cardinality({k \in iv : LineOf(iv, k) = name})]

(* Rows add_share has made of shares that have names; none of zero bytes.  *)
RowsOf(d, w, basis, shares, names) ==
  LET Of(n) == {i \in DOMAIN shares : names[i] = n}
      sum(n) == MapThenSumSet(LAMBDA i : shares[i], Of(n))
  IN {[drive |-> d, via |-> w, basis |-> basis, name |-> n, wbytes |-> sum(n)] :
        n \in {names[i] : i \in {j \in DOMAIN shares : shares[j] > 0}}}

Unknown(d, w, basis, why, wbytes) ==
  IF wbytes = 0 THEN {} ELSE {[drive |-> d, via |-> w, basis |-> basis, name |-> why, wbytes |-> wbytes]}

(* split_coredump: exact figures first, scaled down when they claim more   *)
(* than was charged; the rest by estimate.                                 *)
SplitCoredump(iv, d, charged) ==
  LET crashes == Crashes(iv)
      Known(k) == ExactOf(iv, k) # {}
      crasher == [k \in crashes |-> CrasherOf[journal[k].about]]
      exact == [k \in crashes |-> IF Known(k) THEN Max(ExactOf(iv, k)) ELSE 0]
      estimate == [k \in crashes |-> IF Known(k) THEN 0 ELSE Estimate[journal[k].about]]
      remainder == charged - Total(exact)
      Exact(shares) == RowsOf(d, "coredump", "exact", shares, crasher)
  IN IF Total(exact) >= charged /\ Total(exact) > 0
     THEN {Exact(shares) : shares \in Distribute(charged, exact)}
     ELSE IF Total(estimate) = 0
     THEN {Exact(exact) \cup Unknown(d, "coredump", "proportional", "no crash record", remainder)}
     ELSE {Exact(exact) \cup RowsOf(d, "coredump", "proportional", shares, crasher) :
             shares \in Distribute(remainder, estimate)}

SplitJournald(iv, d, charged) ==
  LET counts == LineCounts(iv)
      itself == [name \in DOMAIN counts |-> name]
  IN IF iv = {} THEN {Unknown(d, "journald", "lines", "no journal entry", charged)}
     ELSE {RowsOf(d, "journald", "lines", shares, itself) : shares \in Distribute(charged, counts)}

-----------------------------------------------------------------------------
(* settle_on_behalf.                                                       *)
Open ==
  /\ Phase("closed")
  /\ source' = [phase |-> IF ~readable THEN "blind" ELSE IF charges = NoCharges THEN "split" ELSE "reading",
                at |-> journal_cursor, exhausted |-> FALSE]
  /\ split' = charges
  /\ UNCHANGED <<journal, readable, charges, journal_cursor, rows, read, skipped>>

(* sd_next: one entry after another, to the end; no entry for a baseline.  *)
NextEntry ==
  /\ Phase("reading") /\ journal_cursor # None /\ source.at < Len(journal)
  /\ source' = [source EXCEPT !.at = @ + 1]
  /\ UNCHANGED <<journal, readable, charges, journal_cursor, history>>

Interval == IF journal_cursor = None THEN {} ELSE journal_cursor + 1 .. source.at

NoMoreEntries ==
  /\ Phase("reading")
  /\ journal_cursor # None => source.at = Len(journal)
  /\ source' = [source EXCEPT !.phase = "split", !.exhausted = journal_cursor # None]
  /\ read' = [k \in DOMAIN read |-> read[k] + IF k \in Interval THEN 1 ELSE 0]
  /\ UNCHANGED <<journal, readable, charges, journal_cursor, rows, split, skipped>>

SplitOf(d, w, charged) ==
  IF Phase("blind") THEN {Unknown(d, w, "default", "no access", charged)}
  ELSE IF w = "coredump" THEN SplitCoredump(Interval, d, charged)
  ELSE SplitJournald(Interval, d, charged)

Settle(d, w) ==
  /\ Phase("split") \/ Phase("blind")
  /\ charges[d][w] > 0
  /\ \E new \in SplitOf(d, w, charges[d][w]) : rows' = rows \cup new
  /\ charges' = [charges EXCEPT ![d][w] = 0]
  /\ UNCHANGED <<journal, readable, journal_cursor, source, split, read, skipped>>

Close(next) ==
  /\ charges = NoCharges
  /\ source' = Closed
  /\ journal_cursor' = next
  /\ skipped' = IF source.exhausted \/ next = None THEN skipped ELSE skipped \cup 1..next
  /\ rows' = {} /\ split' = NoCharges
  /\ UNCHANGED <<journal, readable, charges, read>>

(* Without access the cursor starts over.                                  *)
CloseBlind == Phase("blind") /\ Close(None)

(* sd_end_cursor: behind the last entry read; the tail of the journal when *)
(* none was asked for.                                                     *)
JournalTail == IF journal = <<>> THEN journal_cursor ELSE Len(journal)
EndCursor_AtTheTail == Phase("split") /\ Close(JournalTail)
EndCursor == Phase("split") /\ Close(IF source.exhausted THEN source.at ELSE JournalTail)

Next ==
  \/ \E entry \in Entries : AppendEntry(entry)
  \/ Access
  \/ \E d \in Drives, w \in Writers, wbytes \in 1..MaxCharge : Charge(d, w, wbytes)
  \/ Open
  \/ NextEntry
  \/ NoMoreEntries
  \/ \E d \in Drives, w \in Writers : Settle(d, w)
  \/ CloseBlind
  \/ EndCursor

Spec == Init /\ [][Next]_behalfVars

-----------------------------------------------------------------------------
(* "Rows built here always sum to exactly this, per drive and writer, by   *)
(* largest-remainder rounding": no byte is dropped or invented, whatever   *)
(* the journal says.                                                       *)
Sum(some) == MapThenSumSet(LAMBDA r : r.wbytes, some)

RowsSumToCharged ==
  \A d \in Drives, w \in Writers :
    Sum({r \in rows : r.drive = d /\ r.via = w})
      = split[d][w] - IF Phase("closed") THEN 0 ELSE charges[d][w]

(* "An entry appended since is then counted in the next interval, not      *)
(* lost": every entry before the cursor was used in one interval, or came  *)
(* when nothing was to be split or the journal could not be read.          *)
EntriesUsedOnce ==
  /\ \A k \in DOMAIN journal : read[k] <= 1
  /\ Phase("closed") /\ journal_cursor # None =>
       \A k \in 1..journal_cursor : read[k] = 1 \/ k \in skipped

(* On a drive a program is never said to have written exactly more than    *)
(* the resource messages of its crashes claim.                             *)
ExactWithinFigures ==
  \A r \in rows : r.basis = "exact" =>
    r.wbytes <= Total([i \in {i \in Instances : CrasherOf[i] = r.name} |->
                        Max({0} \cup {journal[k].bytes : k \in {k \in DOMAIN journal : journal[k].about = i}})])
=============================================================================
