------------------------------- MODULE RollUp -------------------------------
(***************************************************************************)
(* src/src/health/gsm-health-db.c, gsm_health_db_roll_up: readings of a    *)
(* drive are kept as they are for a while, then one per hour, then one per *)
(* day; the history shows the rows of all three tables in order of time.   *)
(* One drive stands for all, and only readings that were inserted and      *)
(* committed are readings here (HealthDb has the others).  bytes_written   *)
(* stands for all figures of a row, which are the largest of those folded. *)
(***************************************************************************)
EXTENDS Naturals, FiniteSetsExt

CONSTANTS
  HOUR, DAY,                        \* seconds of each
  RAW_RETENTION_SECS, HOURLY_RETENTION_SECS, ROLL_UP_SECS,
  MaxNow                            \* bound: the end of the clock

VARIABLES
  now,
  counter,        \* the drive's bytes_written
  drive_sample, drive_hourly, drive_daily,   \* rows, one for each ts
  last_roll_up,   \* 0 when this process has not rolled up yet
  recorded        \* history: all readings

tiers == <<drive_sample, drive_hourly, drive_daily>>
rollVars == <<now, counter, tiers, last_roll_up, recorded>>

Init ==
  /\ now = 1 /\ counter = 0
  /\ drive_sample = {} /\ drive_hourly = {} /\ drive_daily = {}
  /\ last_roll_up = 0
  /\ recorded = {}

Clock ==
  /\ now < MaxNow
  /\ now' = now + 1
  /\ UNCHANGED <<counter, tiers, last_roll_up, recorded>>

Bucket(ts, width) == (ts \div width) * width

(* INSERT OR REPLACE: a row takes the place of the row of the same ts.     *)
Replace(old, new) == {r \in old : \A n \in new : n.ts # r.ts} \cup new

(* gsm_health_db_record_drive, with what the drive wrote since.            *)
Record(wrote) ==
  LET reading == [ts |-> now, bytes_written |-> counter + wrote]
  IN /\ \A r \in recorded : r.ts # now
     /\ counter' = counter + wrote
     /\ drive_sample' = Replace(drive_sample, {reading})
     /\ recorded' = recorded \cup {reading}
     /\ UNCHANGED <<now, drive_hourly, drive_daily, last_roll_up>>

Aged(rows, cutoff) == {r \in rows : r.ts < cutoff}

(* SELECT ... GROUP BY: one row for each bucket, of the largest figures.   *)
Folded(rows, width) ==
  {LET same == {r \in rows : Bucket(r.ts, width) = b}
   IN [ts |-> b, bytes_written |-> Max({r.bytes_written : r \in same})]
     : b \in {Bucket(r.ts, width) : r \in rows}}

Before(secs) == IF now > secs THEN now - secs ELSE 0

RollUp_KeepsPromoted ==
  LET hourly == Replace(drive_hourly, Folded(Aged(drive_sample, Before(RAW_RETENTION_SECS)), HOUR))
  IN /\ last_roll_up # 0 => now - last_roll_up >= ROLL_UP_SECS
     /\ last_roll_up' = now
     /\ drive_sample' = drive_sample
     /\ drive_daily' =
          Replace(drive_daily, Folded(Aged(hourly, Before(HOURLY_RETENTION_SECS)), DAY))
     /\ drive_hourly' = hourly \ Aged(hourly, Before(HOURLY_RETENTION_SECS))
     /\ UNCHANGED <<now, counter, recorded>>

RollUp ==
  LET samples == Aged(drive_sample, Before(RAW_RETENTION_SECS))
      hourly  == Replace(drive_hourly, Folded(samples, HOUR))
      hours   == Aged(hourly, Before(HOURLY_RETENTION_SECS))
  IN /\ last_roll_up # 0 => now - last_roll_up >= ROLL_UP_SECS
     /\ last_roll_up' = now
     /\ drive_sample' = drive_sample \ samples
     /\ drive_hourly' = hourly \ hours
     /\ drive_daily' = Replace(drive_daily, Folded(hours, DAY))
     /\ UNCHANGED <<now, counter, recorded>>

(* Its transaction is rolled back: a statement or the COMMIT failed.       *)
RollUpFails ==
  /\ last_roll_up # 0 => now - last_roll_up >= ROLL_UP_SECS
  /\ last_roll_up' = now
  /\ UNCHANGED <<now, counter, tiers, recorded>>

(* Another process opens the database.                                     *)
Restart ==
  /\ last_roll_up' = 0
  /\ UNCHANGED <<now, counter, tiers, recorded>>

Next ==
  \/ Clock
  \/ \E wrote \in {0, 1} : Record(wrote)
  \/ RollUp
  \/ RollUpFails
  \/ Restart

Spec == Init /\ [][Next]_rollVars

-----------------------------------------------------------------------------
(* gsm_health_db_get_history.                                              *)
History == drive_sample \cup drive_hourly \cup drive_daily

RowOf(r, p) ==
  \/ p = r
  \/ p \in drive_hourly /\ p.ts = Bucket(r.ts, HOUR)
  \/ p \in drive_daily /\ p.ts = Bucket(r.ts, DAY)

(* "The right summary of an hour is its last value": however often and     *)
(* whenever rows are rolled up, every reading has a row in the history     *)
(* that does not understate the wear it showed, and the curve never goes   *)
(* backwards.                                                              *)
WearKept ==
  /\ \A r \in recorded : \E p \in History : RowOf(r, p) /\ p.bytes_written >= r.bytes_written
  /\ \A p, q \in History : p.ts < q.ts => p.bytes_written <= q.bytes_written
=============================================================================
