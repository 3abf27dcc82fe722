---------------------------- MODULE SamplerProofs ----------------------------
(***************************************************************************)
(* Proofs about Sampler, for any rows, devices and drives and whatever     *)
(* udisks, the disk and the machine do: every row the tracker emitted is   *)
(* in one place, the database is handed each once and used as BlameRecord  *)
(* allows, bytes are re-divided exactly, only untracked rows are dropped,  *)
(* and the map is asked for again while rows wait.                         *)
(***************************************************************************)
EXTENDS Sampler, TLAPS

Known == pending \cup saved \cup lost
Rows  == Charged(Chunks) \cup Caused(Chunks)

(* The machine.  Only rows that were written are read, and no drive is     *)
(* behind a device that is no disk.  Nothing is lost before the end.       *)
MachineInv ==
  /\ read \subseteq Written
  /\ ~Ended => lost = {}
  /\ \A c \in Written : device[c] \notin Disks => drive[c] = Nothing

(* What is waiting to be re-divided was charged since the last flush, and  *)
(* what was re-divided is with what was charged.                           *)
Causes ==
  /\ Ended => pending = {}
  /\ ~Ended => \A c \in on_behalf : <<c, "charged">> \in pending /\ <<c, "caused">> \notin Known
  /\ \A c \in Proxied : <<c, "charged">> \in pending => c \in on_behalf \/ <<c, "caused">> \in pending
  /\ \A c \in Chunks : <<c, "caused">> \in pending => c \in Proxied /\ <<c, "charged">> \in pending
  /\ phase \in {"save", "last save"} => on_behalf = {}

(* The map is never old while a flush is under way.                        *)
Ages ==
  /\ phase \in {"settle", "save"} => sinceRefresh = 0
  /\ RetriedEachMinute

IInv == TypeOK /\ MachineInv /\ RowsAccountedFor /\ Causes /\ RedividedExactly /\ Ages

LEMMA KnownIsKnown == Db!Known = Known
  BY DEF Db!Known, Known

(* Ages.                                                                   *)
LEMMA ZeroIsAge == 0 \in 0..MAP_MISS_REFRESH /\ 0 < MAP_MISS_REFRESH /\ 0 \in 0..FlushInterval
  BY IntervalsAssumption

LEMMA OldEnoughOrNot ==
  \A age \in 0..MAP_MISS_REFRESH : age < MAP_MISS_REFRESH \/ age >= MAP_MISS_REFRESH
  BY IntervalsAssumption

LEMMA OlderIsAge ==
  /\ \A age \in 0..MAP_MISS_REFRESH : Older(age, MAP_MISS_REFRESH) \in 0..MAP_MISS_REFRESH
  /\ \A age \in 0..FlushInterval : Older(age, FlushInterval) \in 0..FlushInterval
  BY IntervalsAssumption DEF Older

LEMMA InitIInv == Init => IInv
<1> SUFFICES ASSUME Init PROVE IInv
  OBVIOUS
<1> USE KnownIsKnown DEF Init, Db!Init
<1>1. TypeOK
  <2>1. device_to_drive \in [Devices -> Serial]
    <3>1. listed \in [Disks -> Serial]
      BY DEF Serial
    <3>2. [d \in Devices |-> IF d \in Disks THEN listed[d] ELSE Nothing] \in [Devices -> Serial]
      BY <3>1 DEF Serial
    <3>3. Unmapped \in [Devices -> Serial]
      BY DEF Unmapped, Serial
    <3> QED
      BY <3>2, <3>3
  <2>2. Db!TypeOK
    BY DEF Db!TypeOK
  <2>3. device \in [Chunks -> Devices \cup {Nothing}] /\ drive \in [Chunks -> Serial]
    BY DEF Serial
  <2>4. sinceRefresh \in 0..MAP_MISS_REFRESH /\ sinceFlush \in 0..FlushInterval
    BY ZeroIsAge
  <2>5. plugged \in [Disks -> Serial] /\ listed \in [Disks -> Serial]
    BY DEF Serial
  <2> QED
    BY <2>1, <2>2, <2>3, <2>4, <2>5 DEF TypeOK
<1>2. MachineInv
  BY DEF MachineInv, Written
<1>3. RowsAccountedFor
  BY DEF RowsAccountedFor, InRecord, Known
<1>4. Causes
  BY DEF Causes, Ended, Known
<1>5. RedividedExactly
  BY DEF RedividedExactly
<1>6. Ages
  BY DEF Ages, RetriedEachMinute
<1> QED
  BY <1>1, <1>2, <1>3, <1>4, <1>5, <1>6 DEF IInv

-----------------------------------------------------------------------------
(* Handing rows over.  Rows the database does not know are each taken      *)
(* once, and none already there becomes another.                           *)
LEMMA TakenOnce ==
  ASSUME TypeOK, NEW rs \in SUBSET Rows, rs \cap Known = {}, RecordBlame(rs)
  PROVE  /\ twice' = twice /\ pending' = pending \cup rs /\ Known' = Known \cup rs
         /\ saved' = saved /\ lost' = lost
         /\ Db!TypeOK'
         /\ Db!Record(rs)
  BY KnownIsKnown DEF RecordBlame, Known, TypeOK, Db!TypeOK, Rows, Db!Record

(* Rows charged to their writers.                                          *)
LEMMA ChargedOnce ==
  ASSUME IInv, NEW known \in SUBSET Chunks, known \cap InRecord = {}, ~Ended,
         RecordBlame(Charged(known)), on_behalf' = on_behalf \cup (known \cap Proxied)
  PROVE  /\ twice' = {} /\ InRecord' = InRecord \cup known
         /\ on_behalf' \subseteq Proxied /\ Db!TypeOK'
         /\ RedividedExactly'
         /\ phase \notin {"save", "last save"} /\ phase' \notin {"stopped", "killed", "save", "last save"}
              => Causes'
         /\ Charged(known) \subseteq Rows /\ Db!Record(Charged(known))
<1> USE KnownIsKnown
<1>1. Charged(known) \in SUBSET Rows
  BY DEF Charged, Rows
<1>2. Charged(known) \cap Known = {}
  <2> SUFFICES ASSUME NEW c \in known, <<c, "charged">> \in Known PROVE FALSE
    BY DEF Charged
  <2> QED
    BY DEF InRecord
<1>3. /\ twice' = twice /\ pending' = pending \cup Charged(known)
      /\ Known' = Known \cup Charged(known) /\ saved' = saved /\ lost' = lost
      /\ Db!TypeOK' /\ Db!Record(Charged(known))
  BY <1>1, <1>2, TakenOnce DEF IInv
<1>4. /\ \A c : <<c, "charged">> \in Charged(known) <=> c \in known
      /\ \A c : <<c, "caused">> \notin Charged(known)
  BY DEF Charged
<1>5. InRecord' = InRecord \cup known
  BY <1>3, <1>4 DEF InRecord, Db!Known, Known
<1>6. on_behalf' \subseteq Proxied /\ twice' = {}
  BY <1>3 DEF IInv, TypeOK, RowsAccountedFor
<1>7. RedividedExactly'
  BY <1>3 DEF IInv, RedividedExactly
<1>8. ASSUME phase \notin {"save", "last save"}, phase' \notin {"stopped", "killed", "save", "last save"}
      PROVE  Causes'
  <2> USE <1>3, <1>4, <1>8 DEF Causes, Ended
  <2>1. \A c \in on_behalf' : <<c, "charged">> \in pending' /\ <<c, "caused">> \notin Known'
    <3> SUFFICES ASSUME NEW c \in on_behalf'
                 PROVE  <<c, "charged">> \in pending' /\ <<c, "caused">> \notin Known'
      OBVIOUS
    <3>1. CASE c \in on_behalf
      BY <3>1 DEF IInv
    <3>2. CASE c \in known \cap Proxied
      <4>1. c \notin InRecord /\ <<c, "charged">> \notin pending /\ <<c, "charged">> \notin saved
        BY <3>2 DEF InRecord, Known
      <4>2. <<c, "caused">> \notin pending
        BY <3>2, <4>1 DEF IInv
      <4>3. <<c, "caused">> \notin saved
        BY <3>2, <4>1 DEF IInv, RedividedExactly
      <4>4. lost = {}
        BY DEF IInv, MachineInv
      <4> QED
        BY <4>2, <4>3, <4>4, <3>2 DEF Known
    <3> QED
      BY <3>1, <3>2
  <2>2. \A c \in Proxied : <<c, "charged">> \in pending' => c \in on_behalf' \/ <<c, "caused">> \in pending'
    BY DEF IInv
  <2>3. \A c \in Chunks : <<c, "caused">> \in pending' => c \in Proxied /\ <<c, "charged">> \in pending'
    BY DEF IInv
  <2> QED
    BY <2>1, <2>2, <2>3
<1> QED
  BY <1>1, <1>3, <1>5, <1>6, <1>7, <1>8

-----------------------------------------------------------------------------
(* Steps of the machine leave the sampler and the database alone.          *)
LEMMA UntouchedKeeps ==
  ASSUME IInv, UNCHANGED <<phase, map, sinceFlush, rows, record>>, MachineInv',
         plugged' \in [Disks -> Serial], listed' \in [Disks -> Serial],
         device' \in [Chunks -> Devices \cup {Nothing}], drive' \in [Chunks -> Serial]
  PROVE  IInv' /\ UNCHANGED <<dropped, pending, saved, lost>>
<1> USE DEF map, rows, record
<1>1. TypeOK'
  BY DEF IInv, TypeOK, Db!TypeOK
<1>2. RowsAccountedFor' /\ RedividedExactly'
  BY DEF IInv, RowsAccountedFor, InRecord, Db!Known, RedividedExactly
<1>3. Causes' /\ Ages'
  BY DEF IInv, Causes, Known, Ended, Ages, RetriedEachMinute
<1> QED
  BY <1>1, <1>2, <1>3 DEF IInv

LEMMA WriteKeeps ==
  ASSUME IInv, NEW c \in Chunks, NEW d \in Devices, Write(c, d)
  PROVE  IInv' /\ UNCHANGED <<dropped, pending, saved, lost>>
<1>1. UNCHANGED <<plugged, listed, phase, map, sinceFlush, rows, record>>
  BY DEF Write
<1>2. /\ plugged' \in [Disks -> Serial] /\ listed' \in [Disks -> Serial]
      /\ device' \in [Chunks -> Devices \cup {Nothing}] /\ drive' \in [Chunks -> Serial]
  BY DEF Write, IInv, TypeOK, Serial
<1>3. /\ Written \subseteq Written' /\ c \notin Written
      /\ \A b \in Chunks : b # c => device'[b] = device[b] /\ drive'[b] = drive[b]
      /\ device'[c] = d /\ (d \notin Disks => drive'[c] = Nothing)
  BY DEF Write, Written, IInv, TypeOK
<1>4. MachineInv'
  BY <1>1, <1>3 DEF IInv, MachineInv, Written, rows, Ended, record
<1> QED
  BY <1>1, <1>2, <1>4, UntouchedKeeps

LEMMA DrivesKeep ==
  ASSUME IInv, \/ \E d \in Disks, r \in Drives : PlugIn(d, r)
               \/ \E d \in Disks : Unplug(d)
               \/ UdisksNotices
  PROVE  IInv' /\ UNCHANGED <<dropped, pending, saved, lost>>
<1>1. UNCHANGED <<device, drive, phase, map, sinceFlush, rows, record>>
  BY DEF PlugIn, Unplug, UdisksNotices
<1>2. plugged' \in [Disks -> Serial] /\ listed' \in [Disks -> Serial]
  <2> USE DEF IInv, TypeOK, Serial
  <2>1. ASSUME NEW d \in Disks, NEW r \in Drives, PlugIn(d, r)
        PROVE  plugged' \in [Disks -> Serial] /\ listed' \in [Disks -> Serial]
    BY <2>1 DEF PlugIn, Notices
  <2>2. ASSUME NEW d \in Disks, Unplug(d)
        PROVE  plugged' \in [Disks -> Serial] /\ listed' \in [Disks -> Serial]
    BY <2>2 DEF Unplug, Notices
  <2>3. CASE UdisksNotices
    BY <2>3 DEF UdisksNotices
  <2> QED
    BY <2>1, <2>2, <2>3
<1>3. MachineInv'
  BY <1>1 DEF IInv, MachineInv, Written, rows, Ended, record
<1>4. device' \in [Chunks -> Devices \cup {Nothing}] /\ drive' \in [Chunks -> Serial]
  BY <1>1 DEF IInv, TypeOK
<1> QED
  BY <1>1, <1>2, <1>3, <1>4, UntouchedKeeps

-----------------------------------------------------------------------------
(* The map and the hold.                                                   *)
LEMMA RefreshedIsMap == ASSUME TypeOK PROVE Refreshed \in [Devices -> Serial]
  BY DEF Refreshed, TypeOK, Serial

(* A row that is discarded after an answer is of a drive udisks does not   *)
(* list.                                                                   *)
LEMMA UnmappedIsUntracked ==
  ASSUME IInv, NEW c \in Written, Refreshed[device[c]] = Nothing
  PROVE  drive[c] = Nothing \/ listed[device[c]] # drive[c]
<1>1. device[c] \in Devices
  BY DEF IInv, TypeOK, Written
<1>2. CASE device[c] \in Disks
  BY <1>1, <1>2 DEF Refreshed
<1>3. CASE device[c] \notin Disks
  BY <1>3 DEF IInv, MachineInv
<1> QED
  BY <1>2, <1>3

Untracked(cs) == \A c \in cs : drive[c] = Nothing \/ listed[device[c]] # drive[c]

(* One interval: what it reads and what was waiting is handed over,        *)
(* discarded or waits again.                                               *)
LEMMA IntervalKeeps ==
  ASSUME IInv, phase = "idle", NEW procs \in SUBSET Devices, NEW answer \in BOOLEAN,
         NEW age \in 0..MAP_MISS_REFRESH, RecordInterval(procs, answer, age), UNCHANGED machine,
         phase' \in {"idle", "refresh", "last settle"}, sinceFlush' \in 0..FlushInterval
  PROVE  /\ IInv'
         /\ Untracked(dropped' \ dropped)
         /\ \E rs \in SUBSET Rows : Db!Record(rs)
<1> DEFINE deltas  == Written \ read
           waiting == hold \cup deltas
           held    == waiting \ Mapped(waiting, device_to_drive)
           lookups == DevicesOf(waiting) \cup procs
           misses  == Unknown(lookups, device_to_drive) \ unknown_devices
           asked   == RefreshDue(misses, held, age)
           m       == IF asked /\ answer THEN Refreshed ELSE device_to_drive
           again   == IF asked /\ answer THEN held ELSE {}
           known   == Mapped(waiting, device_to_drive) \cup Mapped(again, m)
<1>1. /\ read' = read \cup deltas
      /\ device_to_drive' = m
      /\ unknown_devices' =
           IF asked /\ answer THEN Unknown(DevicesOf(held) \cup procs, m)
           ELSE unknown_devices \cup misses
      /\ sinceRefresh' = IF asked THEN 0 ELSE age
      /\ on_behalf' = on_behalf \cup (known \cap Proxied)
      /\ RecordBlame(Charged(known))
      /\ hold' = IF asked THEN Kept(held, answer) ELSE held
      /\ dropped' = dropped \cup (held \ (hold' \cup Mapped(again, m)))
  BY DEF RecordInterval, RecordRows
<1>2. /\ waiting \subseteq Written /\ Written \subseteq Chunks /\ read \subseteq Written
      /\ hold \subseteq read /\ dropped \subseteq read /\ InRecord \subseteq read
  BY DEF IInv, MachineInv, Written, RowsAccountedFor
<1>3. /\ held \subseteq waiting /\ Mapped(waiting, device_to_drive) = waiting \ held
      /\ Mapped(again, m) \subseteq held /\ again \subseteq held
  BY DEF Mapped
<1>4. /\ waiting \cap InRecord = {} /\ waiting \cap dropped = {}
  BY <1>2 DEF IInv, RowsAccountedFor
<1>5. known \in SUBSET Chunks /\ known \cap InRecord = {} /\ known \subseteq waiting
  BY <1>2, <1>3, <1>4
<1>6. \A c \in Written : device[c] \in Devices
  BY DEF Written, IInv, TypeOK
<1> HIDE DEF known
<1>7. /\ twice' = {} /\ InRecord' = InRecord \cup known
      /\ on_behalf' \subseteq Proxied /\ Db!TypeOK'
      /\ RedividedExactly' /\ Causes'
      /\ Charged(known) \subseteq Rows /\ Db!Record(Charged(known))
  BY <1>1, <1>5, ChargedOnce DEF Ended
<1>8. hold' \subseteq held /\ hold' \cap Mapped(again, m) = {}
  <2>1. CASE asked /\ answer
    BY <1>1, <2>1 DEF Kept
  <2>2. CASE ~(asked /\ answer)
    BY <1>1, <2>2 DEF Kept, Mapped
  <2> QED
    BY <2>1, <2>2
<1> HIDE DEF m, again, misses, asked, lookups, waiting, held
<1>a. sinceRefresh' = IF asked THEN 0 ELSE age
  BY <1>1
<1>9. RowsAccountedFor'
  <2>1. read' = hold' \cup dropped' \cup InRecord'
    <3>1. read' = read \cup waiting
      BY <1>1, <1>2 DEF waiting
    <3>2. read = hold \cup dropped \cup InRecord
      BY DEF IInv, RowsAccountedFor
    <3>3. waiting = hold' \cup (held \ (hold' \cup Mapped(again, m))) \cup known
      BY <1>3, <1>8 DEF known
    <3>4. hold \subseteq waiting
      BY DEF waiting
    <3> QED
      BY <1>1, <1>7, <3>1, <3>2, <3>3, <3>4
  <2>2. hold' \cap dropped' = {}
    BY <1>1, <1>4, <1>3, <1>8
  <2>3. (hold' \cup dropped') \cap InRecord' = {}
    <3>1. (hold' \cup dropped') \cap InRecord = {}
      BY <1>1, <1>3, <1>4, <1>8 DEF IInv, RowsAccountedFor
    <3>2. (hold' \cup dropped') \cap known = {}
      BY <1>1, <1>3, <1>4, <1>8 DEF known
    <3> QED
      BY <1>7, <3>1, <3>2
  <2> QED
    BY <1>7, <2>1, <2>2, <2>3 DEF RowsAccountedFor
<1>10. TypeOK'
  <2>1. device_to_drive' \in [Devices -> Serial]
    BY <1>1, RefreshedIsMap DEF IInv, TypeOK, m
  <2>2. unknown_devices' \subseteq Devices
    <3>1. DevicesOf(held) \subseteq Devices /\ DevicesOf(waiting) \subseteq Devices
      BY <1>2, <1>3, <1>6 DEF DevicesOf
    <3> QED
      BY <1>1, <3>1 DEF Unknown, misses, lookups, IInv, TypeOK
  <2>3. sinceRefresh' \in 0..MAP_MISS_REFRESH
    BY <1>a, ZeroIsAge
  <2>4. hold' \subseteq Chunks /\ read' \subseteq Chunks /\ dropped' \subseteq Chunks
    BY <1>1, <1>2, <1>3, <1>8 DEF IInv, TypeOK
  <2> QED
    BY <1>7, <2>1, <2>2, <2>3, <2>4 DEF IInv, TypeOK, machine
<1>11. MachineInv'
  BY <1>1, <1>2, <1>7 DEF IInv, MachineInv, Written, machine, RecordBlame, Ended
<1>12. Ages'
  <2>1. hold' # {} => sinceRefresh' < MAP_MISS_REFRESH
    <3>1. CASE asked
      BY <1>a, <3>1, ZeroIsAge
    <3>2. CASE ~asked /\ hold' # {}
      <4>1. held # {}
        BY <1>8, <3>2
      <4>2. ~(age >= MAP_MISS_REFRESH)
        BY <3>2, <4>1 DEF asked, RefreshDue
      <4> QED
        BY <1>a, <3>2, <4>2, OldEnoughOrNot
    <3> QED
      BY <3>1, <3>2
  <2> QED
    BY <2>1 DEF Ages, RetriedEachMinute
<1>13. Untracked(dropped' \ dropped)
  <2> SUFFICES ASSUME NEW c \in held, c \notin hold', c \notin Mapped(again, m)
               PROVE  drive[c] = Nothing \/ listed[device[c]] # drive[c]
    BY <1>1 DEF Untracked
  <2>1. asked /\ answer
    BY <1>1 DEF Kept
  <2>2. m = Refreshed /\ again = held
    BY <2>1 DEF m, again
  <2>3. Refreshed[device[c]] = Nothing /\ c \in Written
    BY <1>2, <1>3, <2>2 DEF Mapped
  <2> QED
    BY <2>3, UnmappedIsUntracked
<1> QED
  BY <1>7, <1>9, <1>10, <1>11, <1>12, <1>13 DEF IInv

LEMMA TickKeeps ==
  ASSUME IInv, NEW procs \in SUBSET Devices, NEW answer \in BOOLEAN,
         Tick(procs, answer) \/ Terminate(procs, answer)
  PROVE  /\ IInv' /\ Untracked(dropped' \ dropped)
         /\ \E rs \in SUBSET Rows : Db!Record(rs)
<1>1. sinceRefresh \in 0..MAP_MISS_REFRESH /\ sinceFlush \in 0..FlushInterval
  BY DEF IInv, TypeOK
<1>2. CASE Tick(procs, answer)
  <2>1. sinceFlush' \in 0..FlushInterval
    BY <1>1, <1>2, OlderIsAge DEF Tick
  <2> QED
    BY <1>1, <1>2, <2>1, OlderIsAge, IntervalKeeps DEF Tick
<1>3. CASE Terminate(procs, answer)
  BY <1>1, <1>3, IntervalKeeps DEF Terminate
<1> QED
  BY <1>2, <1>3

LEMMA FlushRefreshKeeps ==
  ASSUME IInv, NEW answer \in BOOLEAN, FlushRefresh(answer)
  PROVE  /\ IInv' /\ Untracked(dropped' \ dropped)
         /\ \E rs \in SUBSET Rows : Db!Record(rs)
<1> DEFINE again == IF answer THEN hold ELSE {}
           known == Mapped(again, Refreshed)
<1>1. /\ phase = "refresh" /\ phase' = "settle" /\ sinceRefresh' = 0
      /\ device_to_drive' = IF answer THEN Refreshed ELSE device_to_drive
      /\ unknown_devices' = IF answer THEN Unknown(DevicesOf(hold), Refreshed) ELSE unknown_devices
      /\ on_behalf' = on_behalf \cup (known \cap Proxied)
      /\ RecordBlame(Charged(known))
      /\ hold' = Kept(hold, answer)
      /\ dropped' = dropped \cup (hold \ (hold' \cup known))
      /\ UNCHANGED <<machine, sinceFlush, read>>
  <2>1. Mapped({}, device_to_drive) \cup known = known
    BY DEF Mapped
  <2> QED
    BY <2>1 DEF FlushRefresh, RecordRows
<1>2. /\ hold \subseteq read /\ read \subseteq Written /\ Written \subseteq Chunks
      /\ hold \cap InRecord = {} /\ hold \cap dropped = {}
  BY DEF IInv, MachineInv, Written, RowsAccountedFor
<1>3. known \in SUBSET Chunks /\ known \cap InRecord = {} /\ known \subseteq hold
  BY <1>2 DEF Mapped
<1>4. \A c \in Written : device[c] \in Devices
  BY DEF Written, IInv, TypeOK
<1>5. hold' \subseteq hold /\ hold' \cap known = {}
  BY <1>1 DEF Kept, Mapped
<1> HIDE DEF known
<1>6. /\ twice' = {} /\ InRecord' = InRecord \cup known
      /\ on_behalf' \subseteq Proxied /\ Db!TypeOK'
      /\ RedividedExactly' /\ Causes'
      /\ Charged(known) \subseteq Rows /\ Db!Record(Charged(known))
  BY <1>1, <1>3, ChargedOnce DEF Ended
<1>7. RowsAccountedFor'
  BY <1>1, <1>2, <1>3, <1>5, <1>6 DEF IInv, RowsAccountedFor
<1>8. TypeOK'
  <2>1. device_to_drive' \in [Devices -> Serial]
    BY <1>1, RefreshedIsMap DEF IInv, TypeOK
  <2>2. unknown_devices' \subseteq Devices
    BY <1>1, <1>2, <1>4 DEF DevicesOf, Unknown, IInv, TypeOK
  <2>3. sinceRefresh' \in 0..MAP_MISS_REFRESH
    BY <1>1, ZeroIsAge
  <2>4. hold' \subseteq Chunks /\ dropped' \subseteq Chunks
    BY <1>1, <1>2, <1>5 DEF IInv, TypeOK
  <2> QED
    BY <1>1, <1>6, <2>1, <2>2, <2>3, <2>4 DEF IInv, TypeOK, machine
<1>9. MachineInv'
  BY <1>1, <1>6 DEF IInv, MachineInv, Written, machine, RecordBlame, Ended
<1>10. Ages'
  BY <1>1 DEF Ages, RetriedEachMinute
<1>11. Untracked(dropped' \ dropped)
  <2> SUFFICES ASSUME NEW c \in hold, c \notin hold', c \notin known
               PROVE  drive[c] = Nothing \/ listed[device[c]] # drive[c]
    BY <1>1 DEF Untracked
  <2>1. answer
    BY <1>1 DEF Kept
  <2>2. Refreshed[device[c]] = Nothing /\ c \in Written
    BY <1>2, <2>1 DEF known, Mapped
  <2> QED
    BY <2>2, UnmappedIsUntracked
<1> QED
  BY <1>6, <1>7, <1>8, <1>9, <1>10, <1>11 DEF IInv

-----------------------------------------------------------------------------
(* The charges re-divided: each under its cause, once, into the same flush.*)
LEMMA SettleKeeps ==
  ASSUME IInv, FlushSettle \/ LastSettle
  PROVE  IInv' /\ UNCHANGED dropped /\ \E rs \in SUBSET Rows : Db!Record(rs)
<1>1. /\ \/ phase = "settle" /\ phase' = "save"
         \/ phase = "last settle" /\ phase' = "last save"
      /\ RecordBlame(Caused(on_behalf)) /\ on_behalf' = {}
      /\ UNCHANGED <<machine, map, sinceFlush, hold, read, dropped>>
  BY DEF FlushSettle, LastSettle, Settle
<1>2. on_behalf \subseteq Proxied /\ Proxied \subseteq Chunks
  BY SamplerAssumption DEF IInv, TypeOK
<1>3. /\ Caused(on_behalf) \in SUBSET Rows
      /\ \A c : <<c, "caused">> \in Caused(on_behalf) <=> c \in on_behalf
      /\ \A c : <<c, "charged">> \notin Caused(on_behalf)
  BY <1>2 DEF Caused, Rows
<1>4. Caused(on_behalf) \cap Known = {}
  <2> SUFFICES ASSUME NEW c \in on_behalf, <<c, "caused">> \in Known PROVE FALSE
    BY DEF Caused
  <2> QED
    BY <1>1 DEF IInv, Causes, Ended
<1>5. /\ twice' = twice /\ pending' = pending \cup Caused(on_behalf)
      /\ Known' = Known \cup Caused(on_behalf) /\ saved' = saved /\ lost' = lost
      /\ Db!TypeOK' /\ Db!Record(Caused(on_behalf))
  BY <1>1, <1>3, <1>4, TakenOnce DEF IInv
<1>6. InRecord' = InRecord
  BY <1>3, <1>5 DEF InRecord, Known, Db!Known
<1>7. TypeOK'
  BY <1>1, <1>5 DEF IInv, TypeOK, machine, map
<1>8. MachineInv' /\ RedividedExactly'
  BY <1>1, <1>5 DEF IInv, MachineInv, RedividedExactly, Written, machine, Ended
<1>9. RowsAccountedFor'
  BY <1>1, <1>5, <1>6 DEF IInv, RowsAccountedFor
<1>10. Causes'
  BY <1>1, <1>2, <1>3, <1>5 DEF IInv, Causes, Ended
<1>11. Ages'
  BY <1>1 DEF IInv, Ages, RetriedEachMinute, map
<1> QED
  BY <1>1, <1>3, <1>5, <1>7, <1>8, <1>9, <1>10, <1>11 DEF IInv

(* A flush that succeeds: every row the database held, charged and caused. *)
LEMMA SaveKeeps ==
  ASSUME IInv, FlushSave \/ LastSave
  PROVE  IInv' /\ UNCHANGED dropped /\ Db!Save
<1>1. /\ \/ phase = "save" /\ phase' = "idle" /\ sinceFlush' = 0
         \/ phase = "last save" /\ phase' = "stopped" /\ sinceFlush' = sinceFlush
      /\ Db!Save /\ UNCHANGED <<machine, map, rows, twice>>
  BY DEF FlushSave, LastSave, SaveRecord
<1>2. saved' = saved \cup pending /\ pending' = {} /\ lost' = lost
  BY <1>1 DEF Db!Save
<1>3. Known' = Known
  BY <1>2 DEF Known
<1>4. InRecord' = InRecord
  BY <1>3 DEF InRecord, Known, Db!Known
<1>5. on_behalf = {} /\ on_behalf' = {}
  BY <1>1 DEF IInv, Causes, rows
<1>6. TypeOK'
  BY <1>1, <1>2, ZeroIsAge DEF IInv, TypeOK, Db!TypeOK, machine, map, rows
<1>7. MachineInv'
  BY <1>1, <1>2 DEF IInv, MachineInv, Written, machine, rows, Ended
<1>8. RowsAccountedFor'
  BY <1>1, <1>4 DEF IInv, RowsAccountedFor, rows
<1>9. RedividedExactly'
  <2> SUFFICES ASSUME NEW c \in Chunks
               PROVE  <<c, "caused">> \in saved' <=> c \in Proxied /\ <<c, "charged">> \in saved'
    BY SamplerAssumption DEF RedividedExactly
  <2>1. <<c, "caused">> \in pending <=> c \in Proxied /\ <<c, "charged">> \in pending
    BY <1>5 DEF IInv, Causes
  <2>2. <<c, "caused">> \in saved <=> c \in Proxied /\ <<c, "charged">> \in saved
    BY DEF IInv, RedividedExactly
  <2> QED
    BY <1>2, <2>1, <2>2
<1>10. Causes'
  BY <1>1, <1>2, <1>5 DEF Causes
<1>11. Ages'
  BY <1>1, ZeroIsAge DEF IInv, Ages, RetriedEachMinute, map
<1> QED
  BY <1>1, <1>6, <1>7, <1>8, <1>9, <1>10, <1>11 DEF IInv, rows

LEMMA FailKeeps ==
  ASSUME IInv, FlushFails
  PROVE  IInv' /\ UNCHANGED <<dropped, record>>
<1>1. /\ phase = "save" /\ phase' = "idle" /\ sinceFlush' = 0
      /\ UNCHANGED <<machine, map, rows, record>>
  BY DEF FlushFails
<1>2. Known' = Known /\ InRecord' = InRecord
  BY <1>1 DEF Known, Db!Known, InRecord, record
<1>3. TypeOK'
  BY <1>1, ZeroIsAge DEF IInv, TypeOK, Db!TypeOK, machine, map, rows, record
<1>4. MachineInv' /\ RowsAccountedFor' /\ RedividedExactly'
  BY <1>1, <1>2 DEF IInv, MachineInv, RowsAccountedFor, RedividedExactly, Written, machine, rows,
     record, Ended
<1>5. Causes'
  BY <1>1, <1>2 DEF IInv, Causes, Ended, rows, record
<1>6. Ages'
  BY <1>1, ZeroIsAge DEF IInv, Ages, RetriedEachMinute, map
<1> QED
  BY <1>1, <1>3, <1>4, <1>5, <1>6 DEF IInv, rows

(* The end, by a failing last flush or by SIGKILL: what was held is lost.  *)
LEMMA EndKeeps ==
  ASSUME IInv, LastSaveFails \/ Kill
  PROVE  IInv' /\ UNCHANGED dropped /\ Db!End
<1>1. /\ phase' \in {"stopped", "killed"}
      /\ Db!End /\ UNCHANGED <<machine, map, sinceFlush, rows, twice>>
  BY DEF LastSaveFails, Kill, EndRecord
<1>2. lost' = lost \cup pending /\ pending' = {} /\ saved' = saved
  BY <1>1 DEF Db!End
<1>3. Known' = Known
  BY <1>2 DEF Known
<1>4. InRecord' = InRecord
  BY <1>3 DEF InRecord, Known, Db!Known
<1>5. TypeOK'
  BY <1>1, <1>2 DEF IInv, TypeOK, Db!TypeOK, machine, map, rows
<1>6. MachineInv' /\ RowsAccountedFor' /\ RedividedExactly' /\ Causes'
  BY <1>1, <1>2, <1>4 DEF IInv, MachineInv, RowsAccountedFor, RedividedExactly, Causes, Written,
     machine, rows, Ended
<1>7. Ages'
  BY <1>1 DEF Ages, RetriedEachMinute
<1> QED
  BY <1>1, <1>5, <1>6, <1>7 DEF IInv, rows

-----------------------------------------------------------------------------
LEMMA StutterKeeps == ASSUME IInv, UNCHANGED vars PROVE IInv'
<1> USE DEF vars, machine, map, rows, record
<1>1. TypeOK' /\ MachineInv'
  BY DEF IInv, TypeOK, Db!TypeOK, MachineInv, Written, Ended
<1>2. RowsAccountedFor' /\ RedividedExactly'
  BY DEF IInv, RowsAccountedFor, InRecord, Db!Known, RedividedExactly
<1>3. Causes' /\ Ages'
  BY DEF IInv, Causes, Known, Ages, RetriedEachMinute, Ended
<1> QED
  BY <1>1, <1>2, <1>3 DEF IInv

(* Every step keeps the invariant, discards only what is untracked, and is *)
(* a step BlameRecord allows, or none of its business.                     *)
LEMMA Step ==
  ASSUME IInv, Next
  PROVE  /\ IInv'
         /\ Untracked(dropped' \ dropped)
         /\ Db!Next \/ UNCHANGED <<pending, saved, lost>>
<1> USE DEF Db!Next, Untracked
<1>1. ASSUME NEW c \in Chunks, NEW d \in Devices, Write(c, d)
      PROVE  IInv' /\ UNCHANGED <<dropped, pending, saved, lost>>
  BY <1>1, WriteKeeps
<1>2. ASSUME NEW d \in Disks, NEW r \in Drives, PlugIn(d, r)
      PROVE  IInv' /\ UNCHANGED <<dropped, pending, saved, lost>>
  BY <1>2, DrivesKeep
<1>3. ASSUME NEW d \in Disks, Unplug(d)
      PROVE  IInv' /\ UNCHANGED <<dropped, pending, saved, lost>>
  BY <1>3, DrivesKeep
<1>4. ASSUME UdisksNotices
      PROVE  IInv' /\ UNCHANGED <<dropped, pending, saved, lost>>
  BY <1>4, DrivesKeep
<1>5. ASSUME NEW procs \in SUBSET Devices, NEW answer \in Answers,
             Tick(procs, answer) \/ Terminate(procs, answer)
      PROVE  IInv' /\ Untracked(dropped' \ dropped) /\ \E rs \in SUBSET Rows : Db!Record(rs)
  BY <1>5, TickKeeps DEF Answers
<1>6. ASSUME NEW answer \in Answers, FlushRefresh(answer)
      PROVE  IInv' /\ Untracked(dropped' \ dropped) /\ \E rs \in SUBSET Rows : Db!Record(rs)
  BY <1>6, FlushRefreshKeeps DEF Answers
<1>7. CASE FlushSettle \/ LastSettle
  BY <1>7, SettleKeeps DEF Rows
<1>8. CASE FlushSave \/ LastSave
  BY <1>8, SaveKeeps
<1>9. CASE FlushFails
  BY <1>9, FailKeeps DEF record
<1>10. CASE LastSaveFails \/ Kill
  BY <1>10, EndKeeps
<1> QED
  BY <1>1, <1>2, <1>3, <1>4, <1>5, <1>6, <1>7, <1>8, <1>9, <1>10 DEF Next, Flush, Rows

LEMMA Inductive == IInv /\ [Next]_vars => IInv'
  BY Step, StutterKeeps

LEMMA Always == Spec => []IInv
  BY InitIInv, Inductive, PTL DEF Spec

(* The types of all variables, whatever happens.                           *)
THEOREM TypeCorrect == Spec => []TypeOK
  BY Always, PTL DEF IInv

(* main and record_interval (gsm-sampler.c): every row the tracker emitted *)
(* waits in the hold, was discarded or was handed to the database, in      *)
(* exactly one of them and once, for any number of rows and devices.       *)
THEOREM EveryRowInOnePlace == Spec => []RowsAccountedFor
  BY Always, PTL DEF IInv

(* settle_on_behalf and gsm_health_db_flush: what is saved under its cause *)
(* is what is saved of the proxy writers, also when flushes fail between.  *)
THEOREM RedivisionIsExact == Spec => []RedividedExactly
  BY Always, PTL DEF IInv

(* record_interval and flush: no tick leaves rows waiting beside a map     *)
(* that is due to be asked for again.                                      *)
THEOREM MapAskedForAgain == Spec => []RetriedEachMinute
  BY Always, PTL DEF IInv, Ages

(* refresh_and_resolve: a row is discarded only while udisks does not list *)
(* the drive it was written to.                                            *)
THEOREM DropsUntrackedOnly == Spec => OnlyUntrackedDropped
<1>1. IInv /\ [Next]_vars =>
        [\A c \in dropped' \ dropped : drive[c] = Nothing \/ listed[device[c]] # drive[c]]_vars
  BY Step DEF Untracked
<1> QED
  BY <1>1, Always, PTL DEF Spec, OnlyUntrackedDropped

(* The daemon implements BlameRecord with the database's sets as its own:  *)
(* each row is recorded when it is not known, all that is held is saved,   *)
(* and the end loses what was held.                                        *)
THEOREM Implements == Spec => UsesRecordProperly
<1>1. Init => Db!Init
  BY DEF Init
<1>2. IInv /\ [Next]_vars => [Db!Next]_Db!vars
  <2>1. ASSUME IInv, Next PROVE [Db!Next]_Db!vars
    BY <2>1, Step DEF Db!vars
  <2>2. ASSUME UNCHANGED vars PROVE [Db!Next]_Db!vars
    BY <2>2 DEF vars, record, Db!vars
  <2> QED
    BY <2>1, <2>2
<1> QED
  BY <1>1, <1>2, Always, PTL DEF Spec, UsesRecordProperly, Db!Spec
=============================================================================
