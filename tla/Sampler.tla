------------------------------- MODULE Sampler -------------------------------
(***************************************************************************)
(* src/src/health/gsm-sampler.c: the background daemon.  Every tick it     *)
(* takes the rows of the blame tracker, finds the drive of each in a map   *)
(* it asked udisks for, and hands it to the database; rows of a device the *)
(* map does not know wait in the hold (gsm-blame.c) until a refresh of the *)
(* map settles them.  Every flush interval the bytes of the proxy writers  *)
(* are split again by cause and everything is saved.                       *)
(*                                                                         *)
(* A chunk is one row of one update of the tracker.  The database is what  *)
(* BlameRecord promises: HealthDb shows how it keeps the promise.  A unit  *)
(* of time is one tick; how long ago something was is counted up to the    *)
(* age at which it is due.                                                 *)
(***************************************************************************)
EXTENDS Naturals, FiniteSets

CONSTANTS
  Chunks,               \* the rows of bytes the machine may write
  Proxied,              \* those written by a core dump handler or journald
  Disks, Mappers,       \* device numbers: of whole disks, of anything else
  Drives,               \* drive ids (serials)
  Nothing,              \* model value: no drive
  Hazards,              \* subset of {"unplug", "udisks lags", "silent", "commit", "kill"}
  MAP_MISS_REFRESH,     \* ticks between two refreshes for an unknown device
  FlushInterval         \* ticks between two flushes

ASSUME SamplerAssumption ==
  /\ Proxied \subseteq Chunks
  /\ Disks \cap Mappers = {}
  /\ Nothing \notin Drives
  /\ Hazards \subseteq {"unplug", "udisks lags", "silent", "commit", "kill"}

ASSUME IntervalsAssumption ==
  MAP_MISS_REFRESH \in Nat \ {0} /\ FlushInterval \in Nat \ {0}

VARIABLES
  \* --- the machine ---
  plugged,        \* the drive behind each disk's device number
  listed,         \* the same, as udisks knows it
  device,         \* the device each chunk was written to, Nothing before
  drive,          \* the drive that was behind it then
  \* --- the sampler ---
  phase,
  device_to_drive,
  unknown_devices,
  sinceRefresh,   \* age of the last attempt to refresh the map
  sinceFlush,     \* age of the last flush
  hold,           \* rows waiting for a drive
  on_behalf,      \* proxied rows charged since the last flush
  read,           \* rows the tracker has emitted
  \* --- the database ---
  pending, saved, lost,
  \* --- history ---
  dropped,        \* rows discarded by the hold
  twice           \* rows handed to the database a second time

machine == <<plugged, listed, device, drive>>
map     == <<device_to_drive, unknown_devices, sinceRefresh>>
rows    == <<hold, on_behalf, read, dropped>>
record  == <<pending, saved, lost, twice>>
vars    == <<machine, phase, map, sinceFlush, rows, record>>

Devices == Disks \cup Mappers
Unmapped == [d \in Devices |-> Nothing]
Written == {c \in Chunks : device[c] # Nothing}
DevicesOf(cs) == {device[c] : c \in cs}

(* A row of the database is a chunk charged to its writer, or the same     *)
(* bytes recorded again for what caused them.                              *)
Charged(cs) == cs \X {"charged"}
Caused(cs)  == cs \X {"caused"}

Db == INSTANCE BlameRecord
        WITH Chunks <- Charged(Chunks) \cup Caused(Chunks),
             held <- pending, erased <- {}

(* The database takes whatever it is handed: it is for the sampler to hand *)
(* in every row once.                                                      *)
RecordBlame(rs) ==
  /\ pending' = pending \cup rs
  /\ twice' = twice \cup (rs \cap Db!Known)
  /\ UNCHANGED <<saved, lost>>

SaveRecord == Db!Save /\ UNCHANGED twice
EndRecord  == Db!End /\ UNCHANGED twice

(* main: the map is read once (udisks may be silent), the tracker is       *)
(* primed and an empty flush is done.                                      *)
Init ==
  /\ plugged \in [Disks -> Drives \cup {Nothing}]
  /\ \A d, e \in Disks : plugged[d] = plugged[e] /\ d # e => plugged[d] = Nothing
  /\ listed = plugged
  /\ device = [c \in Chunks |-> Nothing]
  /\ drive = [c \in Chunks |-> Nothing]
  /\ phase = "idle"
  /\ device_to_drive \in
       {[d \in Devices |-> IF d \in Disks THEN listed[d] ELSE Nothing]}
       \cup (IF "silent" \in Hazards THEN {Unmapped} ELSE {})
  /\ unknown_devices = {}
  /\ sinceRefresh = 0 /\ sinceFlush = 0
  /\ hold = {} /\ on_behalf = {} /\ read = {} /\ dropped = {}
  /\ Db!Init
  /\ twice = {}

-----------------------------------------------------------------------------
(* The machine.                                                            *)
Write(c, d) ==
  /\ c \notin Written
  /\ d \in Disks => plugged[d] # Nothing
  /\ device' = [device EXCEPT ![c] = d]
  /\ drive' = [drive EXCEPT ![c] = IF d \in Disks THEN plugged[d] ELSE Nothing]
  /\ UNCHANGED <<plugged, listed, phase, map, sinceFlush, rows, record>>

Notices == IF "udisks lags" \in Hazards THEN listed' = listed ELSE listed' = plugged'

PlugIn(d, r) ==
  /\ plugged[d] = Nothing
  /\ \A e \in Disks : plugged[e] # r
  /\ plugged' = [plugged EXCEPT ![d] = r]
  /\ Notices
  /\ UNCHANGED <<device, drive, phase, map, sinceFlush, rows, record>>

Unplug(d) ==
  /\ "unplug" \in Hazards
  /\ plugged[d] # Nothing
  /\ plugged' = [plugged EXCEPT ![d] = Nothing]
  /\ Notices
  /\ UNCHANGED <<device, drive, phase, map, sinceFlush, rows, record>>

UdisksNotices ==
  /\ listed # plugged
  /\ listed' = plugged
  /\ UNCHANGED <<plugged, device, drive, phase, map, sinceFlush, rows, record>>

-----------------------------------------------------------------------------
(***************************************************************************)
(* The map and the hold.  m is a map, cs are rows.                         *)
(***************************************************************************)
Mapped(cs, m)  == {c \in cs : m[device[c]] # Nothing}
Unknown(ds, m) == {d \in ds : m[d] = Nothing}

(* refresh_drives: what udisks lists; nothing changes when it is silent.   *)
Refreshed == [d \in Devices |-> IF d \in Disks THEN listed[d] ELSE Nothing]
Answers   == IF "silent" \in Hazards THEN BOOLEAN ELSE {TRUE}

(* record_delta, for the rows whose drive m names.                         *)
RecordRows_ChargesEveryWriter(now, later, m, n) ==
  LET known == Mapped(now, m) \cup Mapped(later, n)
  IN /\ on_behalf' = on_behalf \cup known
     /\ RecordBlame(Charged(known))

RecordRows_ForgetsEarlierCharges(now, later, m, n) ==
  LET known == Mapped(now, m) \cup Mapped(later, n)
  IN /\ on_behalf' = IF known = {} THEN on_behalf ELSE known \cap Proxied
     /\ RecordBlame(Charged(known))

RecordRows(now, later, m, n) ==
  LET known == Mapped(now, m) \cup Mapped(later, n)
  IN /\ on_behalf' = on_behalf \cup (known \cap Proxied)
     /\ RecordBlame(Charged(known))

(* refresh_and_resolve: rows in held whose device is still unknown after   *)
(* an answer are discarded, and none when there was no answer.             *)
Kept_DropsWhenSilent(held, answer) == {}

Kept_KeepsResolved(held, answer) == held

Kept(held, answer) == IF answer THEN {} ELSE held

(* Is the map to be refreshed for the sake of an unknown device?           *)
RefreshDue_OnMissesOnly(misses, held, age) ==
  /\ misses # {}
  /\ age >= MAP_MISS_REFRESH

RefreshDue(misses, held, age) ==
  /\ misses # {} \/ held # {}
  /\ age >= MAP_MISS_REFRESH

Older(age, limit) == IF age < limit THEN age + 1 ELSE age

(***************************************************************************)
(* record_interval: take the rows of the tracker, resolve them and what    *)
(* was held; procs are the devices looked up for /proc.  When something is *)
(* unknown and the last refresh is old enough, refresh and resolve again.  *)
(***************************************************************************)
RecordInterval(procs, answer, age) ==
  LET deltas  == Written \ read
      waiting == hold \cup deltas
      held    == waiting \ Mapped(waiting, device_to_drive)
      lookups == DevicesOf(waiting) \cup procs
      misses  == Unknown(lookups, device_to_drive) \ unknown_devices
      asked   == RefreshDue(misses, held, age)
      m       == IF asked /\ answer THEN Refreshed ELSE device_to_drive
      again   == IF asked /\ answer THEN held ELSE {}
  IN /\ read' = read \cup deltas
     /\ device_to_drive' = m
     /\ unknown_devices' =
          IF asked /\ answer THEN Unknown(DevicesOf(held) \cup procs, m)
          ELSE unknown_devices \cup misses
     /\ sinceRefresh' = IF asked THEN 0 ELSE age
     /\ RecordRows(waiting, again, device_to_drive, m)
     /\ hold' = IF asked THEN Kept(held, answer) ELSE held
     /\ dropped' = dropped \cup (held \ (hold' \cup Mapped(again, m)))

Tick(procs, answer) ==
  /\ phase = "idle"
  /\ RecordInterval(procs, answer, Older(sinceRefresh, MAP_MISS_REFRESH))
  /\ phase' = IF sinceFlush + 1 >= FlushInterval THEN "refresh" ELSE "idle"
  /\ sinceFlush' = Older(sinceFlush, FlushInterval)
  /\ UNCHANGED machine

(* flush, with the hardware: the map is refreshed and the hold settled.    *)
FlushRefresh(answer) ==
  /\ phase = "refresh"
  /\ phase' = "settle"
  /\ sinceRefresh' = 0
  /\ device_to_drive' = IF answer THEN Refreshed ELSE device_to_drive
  /\ unknown_devices' = IF answer THEN Unknown(DevicesOf(hold), Refreshed) ELSE unknown_devices
  /\ RecordRows({}, IF answer THEN hold ELSE {}, device_to_drive, Refreshed)
  /\ hold' = Kept(hold, answer)
  /\ dropped' = dropped \cup (hold \ (hold' \cup Mapped(IF answer THEN hold ELSE {}, Refreshed)))
  /\ UNCHANGED <<machine, sinceFlush, read>>

(* settle_on_behalf: the same bytes again, under what caused them; then    *)
(* the charges start over.                                                 *)
Settle(at, next) ==
  /\ phase = at
  /\ phase' = next
  /\ RecordBlame(Caused(on_behalf))
  /\ on_behalf' = {}
  /\ UNCHANGED <<machine, map, sinceFlush, hold, read, dropped>>

FlushSettle == Settle("settle", "save")

(* gsm_health_db_flush; when it fails the database keeps the rows.         *)
FlushSave ==
  /\ phase = "save"
  /\ phase' = "idle"
  /\ SaveRecord
  /\ sinceFlush' = 0
  /\ UNCHANGED <<machine, map, rows>>

FlushFails_DropsRows ==
  /\ "commit" \in Hazards
  /\ phase = "save"
  /\ phase' = "idle"
  /\ sinceFlush' = 0
  /\ pending' = {}
  /\ UNCHANGED <<machine, map, rows, saved, lost, twice>>

FlushFails ==
  /\ "commit" \in Hazards
  /\ phase = "save"
  /\ phase' = "idle"
  /\ sinceFlush' = 0
  /\ UNCHANGED <<machine, map, rows, record>>

-----------------------------------------------------------------------------
(* SIGTERM: one more interval, a flush without the hardware, the end.      *)
Terminate(procs, answer) ==
  /\ phase = "idle"
  /\ RecordInterval(procs, answer, sinceRefresh)
  /\ phase' = "last settle"
  /\ UNCHANGED <<machine, sinceFlush>>

LastSettle == Settle("last settle", "last save")

LastSave ==
  /\ phase = "last save"
  /\ phase' = "stopped"
  /\ SaveRecord
  /\ UNCHANGED <<machine, map, sinceFlush, rows>>

LastSaveFails ==
  /\ "commit" \in Hazards
  /\ phase = "last save"
  /\ phase' = "stopped"
  /\ EndRecord
  /\ UNCHANGED <<machine, map, sinceFlush, rows>>

Kill ==
  /\ "kill" \in Hazards
  /\ phase # "stopped"
  /\ phase' = "killed"
  /\ EndRecord
  /\ UNCHANGED <<machine, map, sinceFlush, rows>>

Flush ==
  \/ \E answer \in Answers : FlushRefresh(answer)
  \/ FlushSettle
  \/ FlushSave
  \/ FlushFails

Next ==
  \/ \E c \in Chunks, d \in Devices : Write(c, d)
  \/ \E d \in Disks, r \in Drives : PlugIn(d, r)
  \/ \E d \in Disks : Unplug(d)
  \/ UdisksNotices
  \/ \E procs \in SUBSET Devices, answer \in Answers :
       Tick(procs, answer) \/ Terminate(procs, answer)
  \/ Flush
  \/ LastSettle
  \/ LastSave
  \/ LastSaveFails
  \/ Kill

Spec == Init /\ [][Next]_vars

(* The main loop runs its timer and finishes its handlers; udisks is not   *)
(* silent, nor the disk full, every time it is asked.                      *)
TickRefreshes ==
  \E procs \in SUBSET Devices : Tick(procs, TRUE) /\ sinceRefresh' = 0

FairSpec ==
  /\ Spec
  /\ WF_vars(\E procs \in SUBSET Devices, answer \in Answers : Tick(procs, answer))
  /\ SF_vars(TickRefreshes)
  /\ WF_vars(\E answer \in Answers : FlushRefresh(answer))
  /\ WF_vars(FlushSettle)
  /\ WF_vars(FlushSave \/ FlushFails)
  /\ SF_vars(FlushSave)
  /\ WF_vars(LastSettle)
  /\ WF_vars(LastSave \/ LastSaveFails)

-----------------------------------------------------------------------------
Ended == phase \in {"stopped", "killed"}
Serial == Drives \cup {Nothing}

TypeOK ==
  /\ plugged \in [Disks -> Serial] /\ listed \in [Disks -> Serial]
  /\ device \in [Chunks -> Devices \cup {Nothing}] /\ drive \in [Chunks -> Serial]
  /\ phase \in {"idle", "refresh", "settle", "save", "last settle", "last save",
                "stopped", "killed"}
  /\ device_to_drive \in [Devices -> Serial] /\ unknown_devices \subseteq Devices
  /\ sinceRefresh \in 0..MAP_MISS_REFRESH /\ sinceFlush \in 0..FlushInterval
  /\ hold \subseteq Chunks /\ on_behalf \subseteq Proxied
  /\ read \subseteq Chunks /\ dropped \subseteq Chunks
  /\ Db!TypeOK

InRecord == {c \in Chunks : <<c, "charged">> \in Db!Known}

(* A row the tracker has emitted cannot be read again.  Each is in exactly *)
(* one place: waiting for its drive, discarded, or handed to the database, *)
(* once, whatever udisks answers and whatever is saved.                    *)
RowsAccountedFor ==
  /\ twice = {}
  /\ read = hold \cup dropped \cup InRecord
  /\ hold \cap dropped = {} /\ (hold \cup dropped) \cap InRecord = {}

(* "Those it still does not know are not a tracked drive and are dropped.  *)
(* Nothing is dropped when udisks was silent": a row is dropped only while *)
(* udisks does not list the drive it was written to.                       *)
OnlyUntrackedDropped ==
  [][\A c \in dropped' \ dropped : drive[c] = Nothing \/ listed[device[c]] # drive[c]]_vars

(* The rows on behalf of others re-divide what the table charges to the    *)
(* proxy writers: never more, never less, whatever flush fails.            *)
RedividedExactly ==
  {c \in Chunks : <<c, "caused">> \in saved} =
    {c \in Proxied : <<c, "charged">> \in saved}

(* While rows wait for a drive the map is asked for again within a minute, *)
(* also for a device already known to be unknown.                          *)
RetriedEachMinute == phase = "idle" /\ hold # {} => sinceRefresh < MAP_MISS_REFRESH

(* What the tracker emitted is in the table in the end, or was no tracked  *)
(* drive's.                                                                *)
ReachesTable ==
  \A c \in Chunks :
    c \in read ~> (<<c, "charged">> \in saved \/ c \in dropped \/ Ended)

(* The calls the daemon makes are those BlameRecord allows.                *)
UsesRecordProperly == Db!Spec
=============================================================================
