----------------------------- MODULE SmartReader -----------------------------
(***************************************************************************)
(* src/src/health/gsm-smart-reader-core.c and gsm-smart-file.c: a root     *)
(* helper, run by a timer and by udev, asks each USB disk for its SMART    *)
(* figures and leaves them in a file for the user's programs.  What it     *)
(* wrote last time is its only memory.  Disks are swapped, sleep, fail and *)
(* answer wrongly; the helper may be killed at any point.                  *)
(*                                                                         *)
(* One kernel name and one bridge stand for all: records of different ones *)
(* never meet.  One figure, a counter, stands for those that only grow.    *)
(* The swap of a disk takes longer than reading it.  A disk on a bridge    *)
(* that is not in the table is sent no command and has no figures, and is  *)
(* left out.  Which bridge a disk is on is in SmartScan, what is asked of  *)
(* it in SmartCommands, and the text of the file in SmartFile.             *)
(***************************************************************************)
EXTENDS Integers

CONSTANTS
  Drives,
  Nameless,         \* those whose bridge gives no USB serial
  Figures,          \* what a disk may answer
  Nothing,          \* model value: no disk, record, serial, figure or file
  Torn,             \* model value: a file that is not wholly written
  MAX_AGE_SECONDS,
  MaxNow, MaxRuns   \* bounds: the end of the clock, runs of the helper

VARIABLES
  attached,         \* the disk that has the name now
  now,
  \* --- the helper ---
  phase,
  run,              \* when the run started, and what the one before left
  current,          \* the snapshot it is about to leave
  \* --- its directory, in memory ---
  tmp, ini,         \* smart.ini.tmp and smart.ini
  \* --- history ---
  runs,
  gave              \* every answer: disk, figure, run

machine == <<attached, now>>
helper  == <<phase, run, current>>
files   == <<tmp, ini>>
history == <<runs, gave>>
smartVars == <<machine, helper, files, history>>

Idle == [at |-> 0, previous |-> Nothing]

Init ==
  /\ attached \in Drives \cup {Nothing}
  /\ now = 1
  /\ phase = "idle" /\ run = Idle /\ current = Nothing
  /\ tmp = Nothing /\ ini = Nothing
  /\ runs = 0 /\ gave = {}

-----------------------------------------------------------------------------
Clock ==
  /\ now < MaxNow
  /\ now' = now + 1
  /\ UNCHANGED <<attached, helper, files, history>>

Swap(d) ==
  /\ attached' = d
  /\ UNCHANGED <<now, helper, files, history>>

(* The time, then what the run before left (previous_load).                *)
Start ==
  /\ phase = "idle" /\ runs < MaxRuns
  /\ phase' = "read"
  /\ run' = [at |-> now, previous |-> IF ini = Nothing THEN Nothing ELSE ini.drive]
  /\ runs' = runs + 1
  /\ UNCHANGED <<machine, current, files, gave>>

UsbSerial(d) == IF d \in Nameless THEN Nothing ELSE d

(* snapshot_match: the same name is not enough.                            *)
SnapshotMatch_ByName(previous, d) == previous

SnapshotMatch(previous, d) ==
  IF previous # Nothing /\ d \notin Nameless /\ previous.usb_serial = UsbSerial(d)
  THEN previous ELSE Nothing

(* What a read may end with: the power mode asked first, then the answer.  *)
Readings ==
  {[status |-> s, figure |-> Nothing] : s \in {"asleep", "failed", "garbled"}}
    \cup {[status |-> "ok", figure |-> f] : f \in Figures}

FiguresRegress(figure, before) ==
  before # Nothing /\ before.figure # Nothing /\ figure < before.figure

(* drive_apply_previous: what carries over from the record before.         *)
Carried_AsNew(status, before, at) ==
  IF before = Nothing THEN [last_ok |-> 0, figure |-> Nothing]
  ELSE [last_ok |-> at, figure |-> IF status = "asleep" THEN before.figure ELSE Nothing]

Carried(status, before, at) ==
  IF before = Nothing THEN [last_ok |-> 0, figure |-> Nothing]
  ELSE [last_ok |-> before.last_ok,
        figure |-> IF status = "asleep" /\ before.last_ok # 0 THEN before.figure ELSE Nothing]

RecordOf(d, reading) ==
  LET before == SnapshotMatch(run.previous, d)
      status == IF reading.status = "ok" /\ FiguresRegress(reading.figure, before)
                THEN "garbled" ELSE reading.status
      kept   == IF status = "ok" THEN [last_ok |-> run.at, figure |-> reading.figure]
                ELSE Carried(status, before, run.at)
  IN [usb_serial |-> UsbSerial(d),
      serial |-> IF reading.status = "ok" THEN d ELSE UsbSerial(d),
      status |-> status, figure |-> kept.figure, last_ok |-> kept.last_ok]

ReadDrive(reading) ==
  /\ phase = "read" /\ attached # Nothing
  /\ phase' = "write"
  /\ current' = [generated_at |-> run.at, drive |-> RecordOf(attached, reading)]
  /\ gave' = IF reading.status = "ok" THEN gave \cup {<<attached, reading.figure, run.at>>} ELSE gave
  /\ UNCHANGED <<machine, run, files, runs>>

NoDrive ==
  /\ phase = "read" /\ attached = Nothing
  /\ phase' = "write"
  /\ current' = [generated_at |-> run.at, drive |-> Nothing]
  /\ UNCHANGED <<machine, run, files, history>>

(* write_snapshot.                                                         *)
OpenFile_InPlace ==
  /\ phase = "write"
  /\ phase' = "close"
  /\ ini' = [generated_at |-> run.at, drive |-> Torn]
  /\ tmp' = Torn
  /\ UNCHANGED <<machine, run, current, history>>

OpenFile ==
  /\ phase = "write"
  /\ phase' = "close"
  /\ tmp' = Torn
  /\ UNCHANGED <<machine, run, current, ini, history>>

CloseFile ==
  /\ phase = "close"
  /\ phase' = "rename"
  /\ tmp' = current
  /\ UNCHANGED <<machine, run, current, ini, history>>

Ended ==
  /\ phase' = "idle"
  /\ run' = Idle
  /\ current' = Nothing

(* The record of the disk that smart.ini had is the one carried over.      *)
Rename ==
  /\ phase = "rename"
  /\ ini' = tmp
  /\ tmp' = Nothing
  /\ Ended
  /\ UNCHANGED <<machine, runs, gave>>

WriteFails ==
  /\ phase \in {"write", "close", "rename"}
  /\ tmp' = Nothing
  /\ Ended
  /\ UNCHANGED <<machine, ini, history>>

(* TimeoutStartSec, or the end of the session.                             *)
Kill ==
  /\ phase # "idle"
  /\ Ended
  /\ UNCHANGED <<machine, files, history>>

Reboot ==
  /\ tmp' = Nothing /\ ini' = Nothing
  /\ Ended
  /\ UNCHANGED <<machine, runs, gave>>

Next ==
  \/ Clock
  \/ \E d \in Drives \cup {Nothing} : Swap(d)
  \/ Start
  \/ \E reading \in Readings : ReadDrive(reading)
  \/ NoDrive
  \/ OpenFile
  \/ CloseFile
  \/ Rename
  \/ WriteFails
  \/ Kill
  \/ Reboot

Spec == Init /\ [][Next]_smartVars

-----------------------------------------------------------------------------
(***************************************************************************)
(* The user's side, which loads the file afresh each time: the entry of a  *)
(* disk udisks knows by its serial (gsm_smart_file_find), when the file is *)
(* not stale.                                                              *)
(***************************************************************************)
Fresh_Always == TRUE

Fresh == now - ini.generated_at <= MAX_AGE_SECONDS

Entry(d) ==
  IF ini # Nothing /\ ini.drive = Torn THEN Torn
  ELSE IF ini # Nothing /\ ini.drive # Nothing /\ Fresh /\ d \in {ini.drive.serial, ini.drive.usb_serial}
  THEN ini.drive ELSE Nothing

(* gsm_smart_file_fill_info; the Health page also asks it for the figures  *)
(* of a disk asleep, which it shows with their age.                        *)
Shown(d) == Entry(d) # Nothing /\ (Entry(d) = Torn \/ Entry(d).figure # Nothing)

(* What is shown of a disk is what that disk answered, in the run it is    *)
(* said to be of; an answer shown as a new one is no older than three      *)
(* runs of the timer; whatever disks share the name, whenever they sleep,  *)
(* and wherever the helper was killed.                                     *)
ShownIsTheDrives ==
  \A d \in Drives :
    Shown(d) =>
      /\ Entry(d) # Torn
      /\ <<d, Entry(d).figure, Entry(d).last_ok>> \in gave
      /\ Entry(d).status = "ok" => now - Entry(d).last_ok <= MAX_AGE_SECONDS
=============================================================================
