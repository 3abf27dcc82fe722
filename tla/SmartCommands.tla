---------------------------- MODULE SmartCommands ----------------------------
(***************************************************************************)
(* src/src/health/gsm-smart-reader-core.c: the commands sent to one USB    *)
(* disk, and which answers are believed.  A bridge is what it answers to   *)
(* each command: the result of the transport, and what is in the buffer.   *)
(* A bridge that does not know a command may refuse it, answer GOOD and    *)
(* leave the zeros, or give the data of the command before.                *)
(*                                                                         *)
(* A page of data is the record of its fields.  Bytes of a CDB, and names  *)
(* longer than the fields, are left out.                                   *)
(***************************************************************************)
EXTENDS Integers, Sequences

CONSTANTS
  Zero,                  \* model value: a buffer of zeros
  Refused,               \* model value: no figures, the page is not believed
  UINT64_MAX,            \* the width of a counter
  NVME_DATA_UNIT_BYTES

TEMPERATURE_MIN_KELVIN == 233
TEMPERATURE_MAX_KELVIN == 400
POWER_ON_HOURS_MAX == 100 * 366 * 24
NVME_IDENTIFY_LEN == 4096
SECTOR == 512            \* of the log, of an ATA sector and of JMicron's messages

-----------------------------------------------------------------------------
(* One SCSI command: GOOD, no error on the way, no sense, some data.       *)
scsi_good(r, len) ==
  /\ r.issued
  /\ r.scsi_status = 0 /\ r.host_status = 0 /\ r.driver_status = 0
  /\ r.sense_len = 0
  /\ ~(len > 0 /\ r.resid > 0 /\ r.resid >= len)

(* An exchange: its commands in order, each with what the reader makes of  *)
(* the answer; all but "next" end it.                                      *)
Exchange(steps, serial, figures) ==
  LET ends == {i \in DOMAIN steps : steps[i][2] # "next"}
      last == CHOOSE i \in ends : \A j \in ends : i <= j
      sent == [i \in 1..last |-> steps[i][1]]
  IN IF steps[last][2] = "ok" THEN [status |-> "ok", sent |-> sent, serial |-> serial, figures |-> figures]
     ELSE [status |-> steps[last][2], sent |-> sent, serial |-> "", figures |-> Refused]

-----------------------------------------------------------------------------
(* NVMe. A tunnel's steps for one admin command, the last with "verdict".  *)
nvme_command_allowed(opcode, len) ==
  \/ opcode = "identify" /\ len = NVME_IDENTIFY_LEN
  \/ opcode = "log" /\ len = SECTOR

Verdict(answer, len, verdict) == IF scsi_good(answer.result, len) THEN verdict ELSE "failed"

tunnel_asmedia(bridge, opcode, len, verdict) ==
  << <<opcode, Verdict(bridge[opcode], len, verdict)>> >>

(* What is asked for is clamped: beyond a sector the bridge gives the data *)
(* of the command before.                                                  *)
RealtekData_Whole(bridge, opcode, len) ==
  IF len > SECTOR THEN bridge.stale ELSE bridge[opcode].data

RealtekData(bridge, opcode, len) ==
  LET size == IF len > SECTOR THEN SECTOR ELSE len
  IN IF size > SECTOR THEN bridge.stale ELSE bridge[opcode].data

tunnel_realtek(bridge, opcode, len, verdict) ==
  << <<opcode, Verdict(bridge[opcode], IF len > SECTOR THEN SECTOR ELSE len, verdict)>> >>

(* The command, the data, the completion.                                  *)
tunnel_jmicron_Trusting(bridge, opcode, len, verdict) ==
  << <<"hand over", Verdict(bridge.handed, SECTOR, "next")>>,
     <<opcode, Verdict(bridge[opcode], len, "next")>>,
     <<"completion", Verdict(bridge.completion[opcode], SECTOR, verdict)>> >>

tunnel_jmicron(bridge, opcode, len, verdict) ==
  << <<"hand over", Verdict(bridge.handed, SECTOR, "next")>>,
     <<opcode, Verdict(bridge[opcode], len, "next")>>,
     <<"completion", Verdict(bridge.completion[opcode], SECTOR,
         IF bridge.completion[opcode].data = [signature |-> TRUE, status |-> 0] THEN verdict ELSE "failed")>> >>

Tunnel(bridge, opcode, len, verdict) ==
  IF ~nvme_command_allowed(opcode, len) THEN << <<"none", "failed">> >>
  ELSE CASE bridge.protocol = "asmedia" -> tunnel_asmedia(bridge, opcode, len, verdict)
         [] bridge.protocol = "realtek" -> tunnel_realtek(bridge, opcode, len, verdict)
         [] bridge.protocol = "jmicron" -> tunnel_jmicron(bridge, opcode, len, verdict)

NvmeData(bridge, opcode, len) ==
  IF bridge.protocol = "realtek" THEN RealtekData(bridge, opcode, len) ELSE bridge[opcode].data

(* nvme_log_to_figures. A counter has 128 bits in the log.                 *)
NvmeBelieved(log) ==
  /\ log # Zero
  /\ log.warning < 64
  /\ log.spare <= 100
  /\ log.kelvin = 0 \/ log.kelvin \in TEMPERATURE_MIN_KELVIN..TEMPERATURE_MAX_KELVIN
  /\ \A n \in {log.read, log.written, log.hours, log.unsafe, log.media} : n <= UINT64_MAX
  /\ log.read <= UINT64_MAX \div NVME_DATA_UNIT_BYTES
  /\ log.written <= UINT64_MAX \div NVME_DATA_UNIT_BYTES
  /\ log.hours <= POWER_ON_HOURS_MAX

InBytes(units) == (units * NVME_DATA_UNIT_BYTES) % (UINT64_MAX + 1)

nvme_log_to_figures(log) ==
  IF ~NvmeBelieved(log) THEN Refused
  ELSE [bytes_read |-> InBytes(log.read), bytes_written |-> InBytes(log.written),
        percent_used |-> log.used, power_on_hours |-> log.hours,
        unsafe_shutdowns |-> log.unsafe, media_errors |-> log.media,
        temperature_kelvin |-> IF log.kelvin = 0 THEN -1 ELSE log.kelvin]

text_has_printable(text) == text # ""

NvmeIdentity(id) ==
  IF id # Zero /\ text_has_printable(id.model) /\ text_has_printable(id.serial) /\ id.version # 0
  THEN "next" ELSE "garbled"

NvmeExchange(bridge, id, figures) ==
  Exchange(Tunnel(bridge, "identify", NVME_IDENTIFY_LEN, NvmeIdentity(id))
             \o Tunnel(bridge, "log", SECTOR, IF figures = Refused THEN "garbled" ELSE "ok"),
           IF id = Zero THEN "" ELSE id.serial, figures)

read_nvme(bridge) ==
  NvmeExchange(bridge, NvmeData(bridge, "identify", NVME_IDENTIFY_LEN),
               nvme_log_to_figures(NvmeData(bridge, "log", SECTOR)))

-----------------------------------------------------------------------------
(* ATA. The sense of CHECK POWER MODE is walked byte by byte: byte i of C  *)
(* is byte i + 1 here.                                                     *)
Count(sense, end) ==
  LET from[pos \in Nat] ==
        IF pos + 6 > end THEN -1
        ELSE IF sense[pos + 1] = 9 /\ sense[pos + 2] >= 12 THEN sense[pos + 6]
        ELSE from[pos + 2 + sense[pos + 2]]
  IN from[8]

Lower(a, b) == IF a < b THEN a ELSE b

PowerOf_Hopeful(count) == IF count = 0 THEN "standby" ELSE "awake"

PowerOf(count) ==
  CASE count = -1 -> "unknown"
    [] count = 0 -> "standby"
    [] OTHER -> "awake"

sat_power_mode(r) ==
  IF /\ r.issued /\ r.host_status = 0 /\ r.driver_status \in {0, 8}
     /\ r.scsi_status = 2 /\ r.sense_len >= 14
     /\ r.sense[1] \in {114, 115} /\ r.sense[2] % 16 = 1 /\ r.sense[3] = 0 /\ r.sense[4] = 29
  THEN PowerOf(Count(r.sense, Lower(8 + r.sense[8], r.sense_len)))
  ELSE "unknown"

(* Attributes 9 and 194 only; the raw value is its high and low parts. An  *)
(* id listed twice, or none, is no table.                                  *)
Values(page, id) == {page.attributes[i].low : i \in {i \in DOMAIN page.attributes : page.attributes[i].id = id}}
KelvinOf(low) == (low % 256) + 273

AtaTable_Empty(page) ==
  \A i, j \in DOMAIN page.attributes : i # j => page.attributes[i].id # page.attributes[j].id

AtaTable(page) ==
  /\ page.attributes # <<>>
  /\ \A i, j \in DOMAIN page.attributes : i # j => page.attributes[i].id # page.attributes[j].id

AtaPlausible(page) ==
  /\ \A v \in Values(page, 194) :
       v % 256 = 0 \/ KelvinOf(v) \in TEMPERATURE_MIN_KELVIN..TEMPERATURE_MAX_KELVIN
  /\ \A v \in Values(page, 9) : v <= POWER_ON_HOURS_MAX

ata_smart_to_figures(page) ==
  IF ~AtaTable(page) \/ ~AtaPlausible(page) THEN Refused
  ELSE [power_on_hours |-> IF Values(page, 9) = {} THEN -1 ELSE CHOOSE v \in Values(page, 9) : TRUE,
        temperature_kelvin |->
          LET warm == {v \in Values(page, 194) : v % 256 # 0}
          IN IF warm = {} THEN -1 ELSE KelvinOf(CHOOSE v \in warm : TRUE)]

(* A sector of zeros has a good checksum, no model and no attribute.       *)
Sector(data) == IF data = Zero THEN [checksum |-> "none", model |-> "", serial |-> "", attributes |-> <<>>] ELSE data

AtaIdentity(page) == IF page.checksum = "bad" \/ page.model = "" THEN "garbled" ELSE "next"

AtaFigures(page) == IF page.checksum = "bad" THEN Refused ELSE ata_smart_to_figures(page)

SatPower(mode) ==
  CASE mode = "standby" -> "asleep"
    [] mode = "unknown" -> "failed"
    [] mode = "awake" -> "next"

SatExchange(bridge, ident, figures) ==
  Exchange(<< <<"check power mode", SatPower(sat_power_mode(bridge.power))>>,
              <<"identify", Verdict(bridge.identify, SECTOR, AtaIdentity(ident))>>,
              <<"log", Verdict(bridge.log, SECTOR, IF figures = Refused THEN "garbled" ELSE "ok")>> >>,
           ident.serial, figures)

read_sat(bridge) ==
  SatExchange(bridge, Sector(bridge.identify.data), AtaFigures(Sector(bridge.log.data)))

-----------------------------------------------------------------------------
(* drive_read: what the kernel says of the device comes first.             *)
Silent(status) == [status |-> status, sent |-> <<>>, serial |-> "", figures |-> Refused]

drive_read(bridge) ==
  CASE ~bridge.known -> Silent("unsupported")
    [] bridge.known /\ bridge.suspended -> Silent("asleep")
    [] bridge.known /\ ~bridge.suspended /\ ~bridge.opens -> Silent("failed")
    [] OTHER -> IF bridge.protocol = "sat" THEN read_sat(bridge) ELSE read_nvme(bridge)

-----------------------------------------------------------------------------
(* A disk asleep is not woken: one that the kernel suspended, or whose     *)
(* bridge nobody knows, is sent nothing, and a SATA disk in standby, or of *)
(* which it cannot be told, nothing but the question.                      *)
SleepersLeftAlone(bridge, standby) ==
  LET sent == drive_read(bridge).sent
  IN /\ (~bridge.known \/ bridge.suspended) => sent = <<>>
     /\ standby => Len(sent) <= 1
     /\ (sent # <<>> /\ Len(sent) > 1 /\ bridge.protocol = "sat") => sat_power_mode(bridge.power) = "awake"

(* Whatever a bridge does not run, refuses, answers with the data of the   *)
(* command before or with a page no drive can have: the figures believed   *)
(* are those of the disk that is attached, in bytes, and under its own     *)
(* serial; what it does not give is absent.                                *)
BelievedIsTheDrives(bridge, disk) ==
  LET found == drive_read(bridge)
  IN found.status = "ok" =>
       /\ found.serial = disk.serial
       /\ found.figures.power_on_hours = disk.hours
       /\ found.figures.temperature_kelvin = disk.kelvin
       /\ bridge.protocol # "sat" =>
            /\ found.figures.bytes_written \div NVME_DATA_UNIT_BYTES = disk.units
            /\ found.figures.bytes_written % NVME_DATA_UNIT_BYTES = 0

(* And a bridge that runs what it is asked gets its disk read.             *)
HonestIsBelieved(bridge, honest, awake) ==
  (honest /\ awake /\ bridge.known /\ ~bridge.suspended /\ bridge.opens) => drive_read(bridge).status = "ok"
=============================================================================
