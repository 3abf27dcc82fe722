---------------------------- MODULE DriveFigures ----------------------------
(***************************************************************************)
(* What is known of one drive: gsm-udisks.c turns what udisks says of it   *)
(* into an info, gsm-drive.c merges infos into the drive and judges its    *)
(* health, gsm-drive-spec.c says how much it can still write; and          *)
(* gsm-battery.c, which does the same for a battery.                       *)
(* A figure nobody reported is 0, or -1 where 0 would be a figure.         *)
(***************************************************************************)
EXTENDS Integers, Sequences, FiniteSets, SequencesExt

CONSTANT Failed          \* model value: a call to udisks that failed

KELVIN_OFFSET == 273
SECTOR == 512

Bigger(a, b) == IF a > b THEN a ELSE b
Smaller(a, b) == IF a < b THEN a ELSE b

-----------------------------------------------------------------------------
(* gsm_udisks_collect: one object of udisks.  Properties are 0, "" or      *)
(* FALSE when udisks has none of that name.                                *)
make_drive_id(o) == IF o.serial # "" THEN o.serial ELSE IF o.wwn # "" THEN o.wwn ELSE o.id

NewInfo == [source |-> "locked", temperature |-> -1, percent |-> -1, spare |-> -1,
            threshold |-> -1, written |-> 0, hours |-> 0, reallocated |-> 0, media |-> 0,
            failing |-> FALSE, wearless |-> FALSE]

read_nvme_health(o, info) ==
  LET summary == [info EXCEPT !.source = "udisks", !.hours = o.hours,
                    !.temperature = IF o.kelvin > 0 THEN o.kelvin - KELVIN_OFFSET ELSE -1,
                    !.failing = o.failing]
  IN IF o.attributes = Failed THEN summary
     ELSE [summary EXCEPT !.written = o.attributes.written, !.media = o.attributes.media,
             !.percent = o.attributes.percent, !.spare = o.attributes.spare,
             !.threshold = o.attributes.threshold]

(* One attribute of an ATA drive: its number, its value from 100 down, and *)
(* its raw figure with a unit.                                             *)
Attribute(info, a) ==
  CASE a.id = 5 /\ a.pretty > 0 ->
         [info EXCEPT !.reallocated = Bigger(@, a.pretty)]
    [] a.id = 194 /\ info.temperature < 0 /\ a.unit = "mK" /\ a.pretty > 0 ->
         [info EXCEPT !.temperature = (a.pretty \div 1000) - KELVIN_OFFSET]
    [] a.id \in {231, 202} /\ info.percent < 0 /\ a.value \in 0..100 ->
         [info EXCEPT !.percent = 100 - a.value]
    [] a.id = 241 /\ a.unit = "sectors" /\ a.pretty > 0 ->
         [info EXCEPT !.written = a.pretty * SECTOR]
    [] a.id = 246 /\ info.written = 0 /\ a.pretty > 0 ->
         [info EXCEPT !.written = a.pretty * SECTOR]
    [] a.id = 9 /\ info.hours = 0 /\ a.unit = "ms" /\ a.pretty > 0 ->
         [info EXCEPT !.hours = a.pretty \div (1000 * 3600)]
    [] OTHER -> info

read_ata_health(o, info) ==
  IF ~o.supported \/ ~o.enabled THEN [info EXCEPT !.source = "unsupported"]
  ELSE IF o.updated = 0 THEN [info EXCEPT !.source = "locked"]
  ELSE LET summary == [info EXCEPT !.source = "udisks", !.failing = o.failing,
                         !.hours = o.seconds \div 3600, !.reallocated = o.bad,
                         !.temperature = IF o.kelvin > 0 THEN o.kelvin - KELVIN_OFFSET ELSE -1]
       IN IF o.attributes = Failed THEN summary ELSE FoldLeft(Attribute, summary, o.attributes)

(* The whole disk among the block devices of a drive: not a partition.     *)
attach_block_device_AnyPart(blocks, drive) ==
  LET own == SelectSeq(blocks, LAMBDA b : b.drive = drive)
  IN IF own = <<>> THEN "" ELSE Head(own).device

attach_block_device(blocks, drive) ==
  LET whole == SelectSeq(blocks, LAMBDA b : ~b.partition /\ b.drive = drive)
  IN IF whole = <<>> THEN "" ELSE Head(whole).device

Collected(o, blocks) ==
  [id |-> make_drive_id(o), device |-> attach_block_device(blocks, o.path),
   figures |-> CASE o.health = "nvme" -> read_nvme_health(o, NewInfo)
                 [] o.health = "ata" -> read_ata_health(o, NewInfo)
                 [] o.health = "none" -> NewInfo]

gsm_udisks_collect(objects, blocks) ==
  LET known == SelectSeq(objects, LAMBDA o : make_drive_id(o) # "")
  IN [i \in DOMAIN known |-> Collected(known[i], blocks)]

-----------------------------------------------------------------------------
(* gsm_drive_apply_info: only a source at least as good is believed, and   *)
(* what only counts up never comes down.                                   *)
source_rank(source) ==
  CASE source = "helper" -> 3
    [] source = "udisks" -> 2
    [] source \in {"locked", "unsupported"} -> 1
    [] source = "none" -> 0

NewDrive == [NewInfo EXCEPT !.source = "none"]
IfKnown(new, old) == IF new >= 0 THEN new ELSE old

gsm_drive_apply_info(drive, info) ==
  IF source_rank(info.source) < source_rank(drive.source) THEN drive
  ELSE [source |-> info.source,
        temperature |-> IfKnown(info.temperature, drive.temperature),
        percent |-> IfKnown(info.percent, drive.percent),
        spare |-> IfKnown(info.spare, drive.spare),
        threshold |-> IfKnown(info.threshold, drive.threshold),
        written |-> Bigger(info.written, drive.written),
        hours |-> Bigger(info.hours, drive.hours),
        reallocated |-> Bigger(info.reallocated, drive.reallocated),
        media |-> Bigger(info.media, drive.media),
        failing |-> info.failing,
        wearless |-> info.wearless]

gsm_drive_get_health(drive) ==
  CASE drive.source \in {"none", "locked", "unsupported"} -> "unknown"
    [] drive.source \in {"udisks", "helper"} ->
         IF \/ drive.failing
            \/ drive.spare >= 0 /\ drive.threshold >= 0 /\ drive.spare <= drive.threshold
            \/ drive.percent >= 100 THEN "failing"
         ELSE IF drive.media > 0 \/ drive.reallocated > 0 \/ drive.percent >= 90 THEN "attention"
         ELSE "ok"

-----------------------------------------------------------------------------
(* gsm-drive-spec.c: the maker's figure for a model and a capacity, and    *)
(* the range the drive's own percentage, rounded down, implies.            *)
CAPACITY_TOLERANCE_PERCENT == 3
MIN_WEAR_TO_DERIVE == 5

(* The table: a model name is a sequence of words, its letters in one case; *)
(* a family of rows has one beginning, and for each row the words after    *)
(* it, the capacity in GB and the rating in TB.                            *)
Family(words, rows) ==
  [i \in DOMAIN rows |-> [prefix |-> words \o rows[i][1], gb |-> rows[i][2], rated |-> rows[i][3]]]

Sized(words, rows) ==
  Family(words, [i \in DOMAIN rows |-> <<<<rows[i][1]>>, rows[i][2], rows[i][3]>>])

Consumer == <<<<"250GB", 250, 150>>, <<"500GB", 500, 300>>, <<"1TB", 1000, 600>>, <<"2TB", 2000, 1200>>>>
To4TB == Append(Consumer, <<"4TB", 4000, 2400>>)

SamsungRows ==
  LET Samsung(words, rows) == Sized(<<"SAMSUNG", "SSD">> \o words, rows) IN
     Samsung(<<"980", "PRO">>, Consumer)
  \o Samsung(<<"980">>, SubSeq(Consumer, 1, 3))
  \o Samsung(<<"990", "PRO">>, SubSeq(Consumer, 3, 4))
  \o Samsung(<<"970", "EVO">>, Consumer)
  \o Samsung(<<"970", "EVO", "PLUS">>, Consumer)
  \o Samsung(<<"970", "PRO">>, <<<<"512GB", 512, 600>>, <<"1TB", 1000, 1200>>>>)
  \o Samsung(<<"870", "EVO">>, To4TB)
  \o Samsung(<<"860", "EVO">>, To4TB)
  \o Samsung(<<"850", "EVO">>, <<<<"120GB", 120, 75>>, <<"250GB", 250, 75>>, <<"500GB", 500, 150>>,
                                <<"1TB", 1000, 150>>, <<"2TB", 2000, 300>>, <<"4TB", 4000, 300>>>>)

WdRows ==
  LET Oem(sku) == <<<<<<sku, "256G">>, 256, 200>>, <<<<sku, "512G">>, 512, 300>>,
                    <<<<sku, "1T00">>, 1000, 400>>>> IN
     Sized(<<"WD", "BLACK", "SN850X">>, <<<<"1000GB", 1000, 600>>, <<"2000GB", 2000, 1200>>>>)
  \o Sized(<<"WD", "BLACK", "SN770">>, <<<<"250GB", 250, 200>>>> \o SubSeq(Consumer, 2, 4))
  \o Sized(<<"WD", "BLUE", "SN570">>, SubSeq(Consumer, 1, 3) \o <<<<"2TB", 2000, 900>>>>)
  \o Family(<<"WD", "PC", "SN740">>,
       Oem("SDDPNQD") \o Oem("SDDQNQD") \o <<<<<<"SDDPNQE", "2T00">>, 2000, 500>>,
                                              <<<<"SDDQNQE", "2T00">>, 2000, 500>>>>)
  \o Family(<<"WD", "PC", "SN730">>, Oem("SDBPNTY") \o Oem("SDBQNTY"))

OtherRows ==
     Sized(<<>>, <<<<"CT250MX500SSD1", 250, 100>>, <<"CT500MX500SSD1", 500, 180>>,
                   <<"CT1000MX500SSD1", 1000, 360>>, <<"CT2000MX500SSD1", 2000, 700>>,
                   <<"CT500P3SSD8", 500, 110>>, <<"CT1000P3SSD8", 1000, 220>>,
                   <<"CT2000P3SSD8", 2000, 440>>, <<"CT4000P3SSD8", 4000, 800>>,
                   <<"CT500P3PSSD8", 500, 110>>, <<"CT1000P3PSSD8", 1000, 220>>,
                   <<"CT2000P3PSSD8", 2000, 440>>, <<"CT4000P3PSSD8", 4000, 800>>>>)
  \o Sized(<<"KINGSTON">>, <<<<"SA2000M8250G", 250, 150>>, <<"SA2000M8500G", 500, 350>>,
                             <<"SA2000M81000G", 1000, 600>>, <<"SNV2S250G", 250, 80>>,
                             <<"SNV2S500G", 500, 160>>, <<"SNV2S1000G", 1000, 320>>,
                             <<"SNV2S2000G", 2000, 640>>, <<"SNV2S4000G", 4000, 1280>>>>)
  \o Sized(<<"INTEL">>, <<<<"SSDPEKNW512G8", 512, 100>>, <<"SSDPEKNW010T8", 1000, 200>>,
                          <<"SSDPEKNW020T8", 2000, 400>>, <<"SSDPEKNU512GZ", 512, 185>>,
                          <<"SSDPEKNU010TZ", 1000, 370>>, <<"SSDPEKNU020TZ", 2000, 740>>>>)
  \o Sized(<<"SOLIDIGM">>, <<<<"SSDPFKNU512GZ", 512, 200>>, <<"SSDPFKNU010TZ", 1000, 400>>,
                             <<"SSDPFKNU020TZ", 2000, 800>>>>)
  \o Family(<<>>, <<<<<<"SHPP41", "2000GM">>, 2000, 1200>>>>)

drive_spec_rows == SamsungRows \o WdRows \o OtherRows

size_is_in_capacity_class(size, gb) ==
  LET difference == IF size > gb THEN size - gb ELSE gb - size
  IN difference * 100 <= gb * CAPACITY_TOLERANCE_PERCENT

Matches(row, model, size) ==
  IsPrefix(row.prefix, model) /\ size_is_in_capacity_class(size, row.gb)

gsm_drive_spec_lookup(rows, model, size) ==
  IF model = <<>> \/ size = 0 THEN 0
  ELSE LET found == SelectSeq(rows, LAMBDA r : Matches(r, model, size))
       IN IF found = <<>> THEN 0 ELSE Head(found).rated

written_over_percent_Rounded(written, percent) == (written \div percent) * 100
written_over_percent(written, percent) ==
  (written \div percent) * 100 + ((written % percent) * 100) \div percent

NoRange == [low |-> 0, high |-> 0]

gsm_drive_spec_implied_endurance(written, percent) ==
  IF percent < 1 \/ written = 0 THEN NoRange
  ELSE [low |-> written_over_percent(written, percent + 1),
        high |-> written_over_percent(written, percent)]

(* The drive with the three figures of its endurance: the user's, the      *)
(* maker's, and what its wear implies; 0 is none.                          *)
gsm_drive_resolve_endurance(percent, written, maker, user) ==
  LET implied == IF percent >= MIN_WEAR_TO_DERIVE
                 THEN gsm_drive_spec_implied_endurance(written, percent) ELSE NoRange
      projected == IF user > 0 THEN user
                   ELSE IF implied.high > 0 THEN implied.high
                   ELSE maker
      kind == IF user > 0 THEN "user" ELSE IF implied.high > 0 THEN "derived"
              ELSE IF maker > 0 THEN "spec" ELSE "unknown"
  IN [maker |-> maker, implied |-> implied, rated |-> projected, kind |-> kind]

gsm_drive_endurance_is_conflicted(e) ==
  /\ e.maker > 0 /\ e.implied.high > 0
  /\ IF e.maker >= e.implied.high THEN e.maker \div 2 >= e.implied.high
     ELSE e.implied.low \div 2 >= e.maker

(* Bytes that can still be written, in hundredths; -1 when nothing is known *)
(* to project from.  The days and years are this over the rate.            *)
Remaining(percent, written, rated, rate) ==
  IF rate <= 0 \/ rated = 0 THEN -1
  ELSE IF percent \in 0..100 THEN rated * (100 - percent)
  ELSE IF written < rated THEN (rated - written) * 100
  ELSE 0

-----------------------------------------------------------------------------
(* gsm-battery.c: energy, or charge when there is none; a battery clearly  *)
(* aged has not done 0 cycles.                                             *)
read_capacity(b) ==
  IF b.energy_full >= 0 /\ b.energy_design > 0
  THEN [full |-> b.energy_full, design |-> b.energy_design]
  ELSE IF b.charge_full >= 0 /\ b.charge_design > 0
  THEN LET volts == IF b.volts > 0 THEN b.volts ELSE 1
       IN [full |-> b.charge_full * volts, design |-> b.charge_design * volts]
  ELSE [full |-> 0, design |-> 0]

gsm_battery_collect(b) ==
  LET capacity == read_capacity(b)
      health == IF capacity.design = 0 THEN -1
                ELSE Smaller((capacity.full * 100) \div capacity.design, 100)
  IN [health |-> health,
      cycles |-> IF b.cycles = 0 /\ health \in 0..89 THEN -1 ELSE b.cycles]

-----------------------------------------------------------------------------
(* Each drive that says who it is is collected once, with its own whole    *)
(* disk, whatever partitions and other disks udisks lists around it, and   *)
(* what the drive would not tell of its health stays unknown               *)
(* (gsm-udisks.c:343, :417).                                               *)
DrivesAreTheirOwn(objects, blocks) ==
  LET found == gsm_udisks_collect(objects, blocks)
      Says(o) == {o.serial, o.wwn, o.id} \ {""}
      Disks(o) == {blocks[k].device : k \in {k \in DOMAIN blocks :
                                             blocks[k].drive = o.path /\ ~blocks[k].partition}}
  IN /\ Len(found) = Cardinality({i \in DOMAIN objects : Says(objects[i]) # {}})
     /\ \A i \in DOMAIN objects : Says(objects[i]) # {} =>
          \E j \in DOMAIN found :
            /\ found[j].id \in Says(objects[i])
            /\ found[j].device \in (IF Disks(objects[i]) = {} THEN {""} ELSE Disks(objects[i]))
            /\ found[j].figures.percent >= 0 \/ found[j].figures.written > 0 =>
                 objects[i].attributes # Failed

(* The order in which a drive lists its attributes changes nothing, unless *)
(* it gives its wear twice (gsm-udisks.c:257).                             *)
OrderIsNothing(o) ==
  \A i, j \in DOMAIN o.attributes :
    {o.attributes[i].id, o.attributes[j].id} # {202, 231} =>
      LET swapped == [k \in DOMAIN o.attributes |->
                        o.attributes[IF k = i THEN j ELSE IF k = j THEN i ELSE k]]
      IN read_ata_health(o, NewInfo) = read_ata_health([o EXCEPT !.attributes = swapped], NewInfo)

(* A reading that tells less, from a worse source or because udisks would  *)
(* not give the attributes, takes back neither figures nor the verdict     *)
(* (gsm-drive.c:206, :276): only the drive's own word does.                *)
ThinnerTakesNothing(drive, info) ==
  LET after == gsm_drive_apply_info(drive, info) IN
  /\ after.written >= drive.written /\ after.media >= drive.media
  /\ drive.percent >= 0 => after.percent >= 0
  /\ (info.failing = drive.failing /\ info.percent < 0 /\ info.spare < 0 /\ info.threshold < 0) =>
       (gsm_drive_get_health(drive) = "failing" => gsm_drive_get_health(after) = "failing")
  /\ gsm_drive_get_health(drive) # "unknown" => gsm_drive_get_health(after) # "unknown"

(* Every endurance with which the drive would report this percentage, after *)
(* having written this much, lies in the range (gsm-drive-spec.c:451).     *)
RangeHoldsEndurance(written, endurance) ==
  LET percent == (written * 100) \div endurance
      range == gsm_drive_spec_implied_endurance(written, percent)
  IN percent \in 1..100 => endurance \in range.low..range.high

(* What is left by the drive's own wear is what its implied endurance still *)
(* holds: the two ways to project agree within the rounding of one byte    *)
(* (gsm-drive-spec.c:568).                                                 *)
ProjectionsAgree(written, percent) ==
  LET e == gsm_drive_resolve_endurance(percent, written, 0, 0)
      byWear == Remaining(percent, written, e.rated, 1)
      byBytes == Remaining(-1, written, e.rated, 1)
  IN (e.kind = "derived" /\ percent < 100) => byWear - byBytes \in -100..100

(* A conflict is never claimed of a rating within the range, and is of one *)
(* side: the card says which (health.c:750).                               *)
ConflictIsOutside(e) ==
  gsm_drive_endurance_is_conflicted(e) =>
    /\ e.maker \notin e.implied.low..e.implied.high
    /\ e.implied.high > e.maker <=> e.maker < e.implied.low

(* A model that carries a row's name and its capacity, as the drive rounds *)
(* it, has that row's rating, whatever the order of the rows: no capacity  *)
(* or shorter name takes it (gsm-drive-spec.c:29).                         *)
RatingIsTheRows(row, size, more) ==
  size_is_in_capacity_class(size, row.gb) =>
    /\ gsm_drive_spec_lookup(drive_spec_rows, row.prefix \o more, size) = row.rated
    /\ gsm_drive_spec_lookup(Reverse(drive_spec_rows), row.prefix \o more, size) = row.rated

(* A battery's health does not depend on whether the voltage is known, and *)
(* one that has aged never shows 0 cycles (gsm-battery.c:88, :131).        *)
BatterySound(b) ==
  LET seen == gsm_battery_collect(b) IN
  /\ seen.health \in -1..100
  /\ seen.health = gsm_battery_collect([b EXCEPT !.volts = -1]).health
  /\ seen.cycles = 0 => seen.health \notin 0..89
=============================================================================
