----------------------------- MODULE MCFigures -----------------------------
(***************************************************************************)
(* The pure parts of the application and of the health page, with inputs   *)
(* for each: a state of MCAppParts that has read an input holds it in one  *)
(* variable, and the properties below judge it.                            *)
(***************************************************************************)
EXTENDS Integers, Sequences, FiniteSets, TLC

CONSTANTS None, Malformed

Kind == INSTANCE Classify
Read == INSTANCE Readings WITH MISSING <- 99
Scale == INSTANCE GraphScale
Card == INSTANCE HealthCard WITH Failed <- Malformed
Chart == INSTANCE HealthCharts WITH CHARGED_ROWS_SHOWN <- 2, MAX_DOTTED_POINTS <- 2
Disk == INSTANCE SmartCommands WITH Zero <- None, Refused <- Malformed,
                                    UINT64_MAX <- 1000000, NVME_DATA_UNIT_BYTES <- 400
File == INSTANCE SmartFile WITH NULL <- None, TEXT_LEN <- 3, MAX_DRIVES <- 2,
                                SUPPORTED_SCHEMA <- 1, CLOCK_SKEW_SECONDS <- 2
Scan == INSTANCE SmartScan WITH NULL <- None, ANY <- Malformed, MAX_DRIVES <- 2, USB_WALK_DEPTH <- 2, NAME_LEN <- 4

-----------------------------------------------------------------------------
(* Readings: the fields of /proc/meminfo that matter, present or not; texts *)
(* of up to five numbers and signs; the CPUs of a hybrid machine, each     *)
(* online one in its own list of siblings, which its siblings have too,    *)
(* and in at most one of the lists of kinds; peaks of a graph.             *)
Memory ==
  {[total |-> t, free |-> 1, buffers |-> 1, cached |-> c, shmem |-> s, anon |-> a,
    s_reclaimable |-> r, s_unreclaim |-> u, kernel_stack |-> 0, page_tables |-> 1,
    k_reclaimable |-> k, sec_page_tables |-> 99, percpu |-> o, vmalloc_used |-> o] :
     t \in {4, 9, 99}, c \in 0..2, s \in {0, 2, 99}, a \in {0, 3}, r \in {0, 2}, u \in {1, 99},
     k \in {0, 3, 99}, o \in {1, 99}}

Texts == UNION {[1..n -> {0, 2, 5, Read!Dash, Read!Comma}] : n \in 1..5}

Cpus == 0..3
Siblings == {s \in [Cpus -> {Malformed} \cup (SUBSET Cpus \ {{}})] :
               \A c \in Cpus : s[c] # Malformed => c \in s[c] /\ \A d \in s[c] : s[d] = s[c]}
Systems == {[core |-> c, atom |-> a, siblings |-> s] :
               c \in SUBSET Cpus \cup {Malformed}, a \in {{}, {2, 3}, {3}, {1, 3}, {0, 1}, Malformed},
               s \in Siblings}
Hybrids == {s \in Systems : Malformed \in {s.core, s.atom} \/ s.core \cap s.atom = {}}

Peaks == 0..2000 \cup {997 * i : i \in 0..2000}

(* Classify: cgroup paths of up to three components, and those below a     *)
(* user manager; snapshots of three processes, whose parents may be gone   *)
(* or themselves.                                                          *)
Tails == UNION {[1..n -> Kind!Components] : n \in 0..3}
Paths == Tails \cup {<<"user.slice", "user-1000.slice", "user@1000.service">> \o t : t \in Tails}
Families == {[i \in 1..3 |-> [pid |-> i, ppid |-> f[i][1], start |-> f[i][2], agent |-> f[i][3]]] :
               f \in [1..3 -> (0..4) \X (1..2) \X BOOLEAN]}

-----------------------------------------------------------------------------
(* DriveFigures: ATA drives with three attributes, each listed once; the   *)
(* infos two of which a drive has been given; writes and endurances; every *)
(* row of the table with the capacities drives report; batteries.          *)
Attributes(ids, pretty, units) ==
  {[id |-> i, value |-> 90, pretty |-> p, unit |-> u] : i \in ids, p \in pretty, u \in units}
Ata ==
  {o \in {[supported |-> TRUE, enabled |-> TRUE, updated |-> 1, failing |-> FALSE, seconds |-> 0,
           bad |-> b, kelvin |-> k, attributes |-> <<x, y, z>>] :
             b \in {0, 9}, k \in {0, 300}, x \in Attributes({5, 241, 246}, {0, 7}, {"sectors", "none"}),
             y \in Attributes({9, 194, 202}, {7, 300000}, {"mK", "ms"}),
             z \in Attributes({241, 246, 9}, {0, 7, 300000}, {"sectors"})} :
     \A i, j \in 1..3 : i # j => o.attributes[i].id # o.attributes[j].id}
(* Two drives, of which the second may say nothing of itself, and their    *)
(* disks and partitions in any order.                                      *)
Object(path, serial, wwn, id, health, attributes) ==
  [path |-> path, serial |-> serial, wwn |-> wwn, id |-> id, health |-> health, hours |-> 5,
   kelvin |-> 300, failing |-> FALSE, supported |-> TRUE, enabled |-> TRUE, updated |-> 1,
   seconds |-> 7200, bad |-> 0, attributes |-> attributes]
Nvme == [written |-> 9, media |-> 0, percent |-> 4, spare |-> 90, threshold |-> 10]
Block(device, drive, partition) == [device |-> device, drive |-> drive, partition |-> partition]
Managed ==
  {<<Object("nvme", "S", "W", "I", "nvme", a), Object("ata", "", w, i, h, Malformed)>> :
     a \in {Malformed, Nvme}, w \in {"", "w"}, i \in {"", "i"}, h \in {"ata", "none"}}
  \X UNION {[1..n -> {Block("n1", "nvme", FALSE), Block("n1p1", "nvme", TRUE), Block("sda", "ata", FALSE),
                      Block("sda1", "ata", TRUE), Block("zram0", "/", FALSE)}] : n \in 0..3}
Infos ==
  {[source |-> s, temperature |-> -1, percent |-> p, spare |-> a, threshold |-> t, written |-> w,
    hours |-> 0, reallocated |-> 0, media |-> m, failing |-> f, wearless |-> FALSE] :
     s \in {"helper", "udisks", "locked"}, p \in {-1, 95, 100}, a \in {-1, 5},
     t \in {-1, 10}, w \in {0, 3}, m \in {0, 1}, f \in BOOLEAN}
Merged == {Card!gsm_drive_apply_info(Card!gsm_drive_apply_info(Card!NewDrive, i), j) :
             i \in Infos, j \in {i \in Infos : i.source # "locked"}}
Ratings == {Card!gsm_drive_resolve_endurance(p, w, m, 0) : p \in 5..20, w \in 0..6, m \in 0..30}
Sizes == {120, 250, 256, 500, 512, 1000, 1024, 2000, 2048, 4000, 4096}
Models == (DOMAIN Card!drive_spec_rows) \X Sizes \X {<<>>, <<"PLUS">>, <<"X">>}
Batteries ==
  {[energy_full |-> a, energy_design |-> b, charge_full |-> c, charge_design |-> d, volts |-> v,
    cycles |-> n] :
     a \in {-1, 0, 5}, b \in {-1, 0, 4, 6}, c \in {-1, 3, 9}, d \in {-1, 3, 8}, v \in {-1, 0, 11},
     n \in {-1, 0, 4}}

(* HealthCard: what the reader's file can say of a USB disk, drives with   *)
(* figures of every source, and recorded rows of three days.               *)
Usb(applies, file, listed, status, figures) ==
  [applies |-> applies, have_figures |-> figures, file_state |-> file, service |-> "off",
   listed |-> listed, status |-> status, observed |-> FALSE]
Usbs ==
  {Usb(FALSE, "missing", FALSE, "unknown", FALSE), Usb(TRUE, "ok", FALSE, "unknown", FALSE)}
  \cup {Usb(TRUE, f, FALSE, "unknown", FALSE) : f \in {"missing", "unreadable", "malformed", "unknown schema"}}
  \cup {Usb(TRUE, f, TRUE, s, FALSE) : f \in {"stale", "ok"}, s \in {"ok", "asleep", "unsupported", "failed", "garbled"}}
  \cup {[Usb(TRUE, "ok", TRUE, s, TRUE) EXCEPT !.observed = o] : s \in {"ok", "asleep"}, o \in BOOLEAN}
Shown ==
  {[figures |-> [Card!NewDrive EXCEPT !.source = s, !.percent = p, !.written = w, !.media = 1, !.failing = f],
    usb |-> u, endurance |-> Card!gsm_drive_resolve_endurance(p, w, m, x), rate |-> r,
    tracking |-> TRUE, recorded |-> <<>>] :
     s \in {"helper", "udisks", "locked", "unsupported"}, p \in {-1, 3, 50, 100, 120}, w \in {0, 3, 50},
     f \in BOOLEAN, u \in Usbs, m \in {0, 40}, x \in {0, 90}, r \in {-1, 2}}
Hour == 3600
Rising(n, S) == {f \in [1..n -> S] : \A i \in 1..(n - 1) : f[i] < f[i + 1]}
Never(n, S) == {f \in [1..n -> S] : \A i \in 1..(n - 1) : f[i] <= f[i + 1]}
Recorded ==
  UNION {{[recorded |-> [i \in 1..n |-> [ts |-> t[i], written |-> w[i]]]] :
            t \in Rising(n, {0, 59, 3 * Hour, 6 * Hour - 1, 6 * Hour, 50 * Hour}),
            w \in Never(n, {0, 5, 6, 8})} : n \in 0..3}

(* HealthCharts: any of the rows of two daemons and three programs; wear   *)
(* histories of up to four readings; three bars of any size.               *)
Name(text, daemon) == [text |-> text, daemon |-> daemon]
CoreDaemon == Name("coredump", "core")
Row(n, v, b, w) == [name |-> n, via |-> v, basis |-> b, bytes |-> w]
AllRows ==
  <<Row(Name("a", None), None, "cgroup", 3), Row(Name("b", None), None, "procfs", 2),
    Row(Name("c", None), None, "cgroup", 5), Row(Name("dump.slice", "core"), None, "cgroup", 1),
    Row(Name("dump.service", "core"), None, "cgroup", 4), Row(Name("b", None), None, "cgroup", 1),
    Row(Name("b", None), CoreDaemon, "proportional", 1), Row(Name("no access", None), CoreDaemon, "unknown", 1),
    Row(Name("a", None), Name("journald", "jour"), "lines", 4), Row(Name("c", None), CoreDaemon, "exact", 3)>>
Chosen(S) == LET order == SortSeq([i \in 1..Len(AllRows) |-> i], LAMBDA i, j : i \in S /\ j \notin S)
             IN [i \in 1..Cardinality(S) |-> AllRows[order[i]]]
Details == {Chosen(S) : S \in SUBSET DOMAIN AllRows}
Wear ==
  UNION {{[i \in 1..n |-> [ts |-> t[i], value |-> v[i]]] :
            t \in Rising(n, {0, 1, 3, 4, 9, 10}), v \in {f \in [1..n -> {-1, 0, 12, 90}] :
                   \A i, j \in 1..n : (i < j /\ f[i] >= 0 /\ f[j] >= 0) => f[i] <= f[j]}} : n \in 1..4}
ThreeBars == {[i \in 1..3 |-> Chart!Bar(i, v[i], FALSE, IF i = 3 THEN 1 ELSE 0, FALSE)] :
                v \in [1..3 -> {0, 1, 2, 50, 1000}]}

-----------------------------------------------------------------------------
(* SmartCommands: a disk, the pages it would give, and a bridge that gives *)
(* them, refuses, gives nothing, zeros, pages no disk can have, or those   *)
(* of the disk before.                                                     *)
Result(status, host, driver, sense_len, resid) ==
  [issued |-> TRUE, scsi_status |-> status, host_status |-> host, driver_status |-> driver,
   sense_len |-> sense_len, resid |-> resid]
Answer(result, data) == [result |-> result, data |-> data]
Good == Result(0, 0, 0, 0, 0)
Bad(page) ==
  {Answer(Result(2, 0, 0, 18, 0), None), Answer(Result(0, 0, 0, 0, 4096), None), Answer(Good, None),
   Answer(Result(0, 7, 0, 0, 0), page), Answer(Result(0, 0, 8, 0, 0), None),
   Answer(Result(0, 0, 0, 18, 0), None), Answer([Good EXCEPT !.issued = FALSE], None)}
Given(page, garbage) == {Answer(Good, page)} \cup Bad(page) \cup {Answer(Good, g) : g \in garbage}

NvmeId == [serial |-> "S1", model |-> "M1", version |-> 1]
NvmeIds == Given(NvmeId, {[NvmeId EXCEPT !.version = 0], [NvmeId EXCEPT !.model = ""], [NvmeId EXCEPT !.serial = ""]})
Log(disk) ==
  [warning |-> 0, spare |-> 100, kelvin |-> IF disk.kelvin = -1 THEN 0 ELSE disk.kelvin, used |-> 5,
   read |-> 0, written |-> disk.units, hours |-> disk.hours, unsafe |-> 0, media |-> 0]
Logs(disk) ==
  Given(Log(disk), {[Log(disk) EXCEPT !.warning = 64], [Log(disk) EXCEPT !.spare = 101],
                    [Log(disk) EXCEPT !.kelvin = 232], [Log(disk) EXCEPT !.kelvin = 401],
                    [Log(disk) EXCEPT !.written = 2501], [Log(disk) EXCEPT !.written = 1000001],
                    [Log(disk) EXCEPT !.hours = 878401]})
Completions == {Answer(Good, [signature |-> g, status |-> s]) : g \in BOOLEAN, s \in {0, 2}}
Completed == [signature |-> TRUE, status |-> 0]

AtaId == [checksum |-> "good", serial |-> "S1", model |-> "M1", attributes |-> <<>>]
AtaIds == Given(AtaId, {[AtaId EXCEPT !.checksum = "bad"], [AtaId EXCEPT !.model = ""]})
Hours(h) == [id |-> 9, low |-> h]
Warm(low) == [id |-> 194, low |-> low]
Other == [id |-> 5, low |-> 100]
AtaPage(disk) ==
  [AtaId EXCEPT !.attributes =
     (IF disk.hours = -1 THEN <<Other>> ELSE <<Hours(disk.hours)>>)
       \o (IF disk.kelvin = -1 THEN <<>> ELSE <<Warm(disk.kelvin - 273 + 256 * 9)>>)]
AtaPages(disk) ==
  Given(AtaPage(disk), {[AtaPage(disk) EXCEPT !.checksum = "bad", !.attributes = <<Hours(1)>>],
                        [AtaPage(disk) EXCEPT !.attributes = <<>>],
                        [AtaPage(disk) EXCEPT !.attributes = <<Hours(5), Hours(6)>>],
                        [AtaPage(disk) EXCEPT !.attributes = <<Hours(878401)>>],
                        [AtaPage(disk) EXCEPT !.attributes = <<Other, Warm(128)>>]})
ReturnDescriptor(count, length) == <<9, length, 0, 0, 0, count>> \o [i \in 1..(length - 4) |-> 0]
Information == <<0, 10>> \o [i \in 1..10 |-> 0]
Sense(key, descriptors, len) ==
  [issued |-> TRUE, scsi_status |-> 2, host_status |-> 0, driver_status |-> 8, sense_len |-> len, resid |-> 0,
   sense |-> <<114, key, 0, IF key = 1 THEN 29 ELSE 32, 0, 0, 0, Len(descriptors)>> \o descriptors
               \o [i \in 1..12 |-> 0]]
Telling(count) ==
  {Sense(1, ReturnDescriptor(count, 12), 22), Sense(1, Information \o ReturnDescriptor(count, 12), 32)}
Mute ==
  {Sense(5, <<>>, 8), Sense(1, ReturnDescriptor(255, 12), 13), Sense(1, ReturnDescriptor(255, 4), 14),
   Sense(1, Information \o ReturnDescriptor(255, 12), 20), [Sense(1, ReturnDescriptor(255, 12), 22) EXCEPT !.scsi_status = 0],
   [Sense(1, ReturnDescriptor(255, 12), 22) EXCEPT !.host_status = 1]}

Bridge(protocol, id, log, extra) ==
  [protocol |-> protocol, known |-> TRUE, suspended |-> FALSE, opens |-> TRUE, identify |-> id, log |-> log,
   stale |-> [NvmeId EXCEPT !.serial = "S2"], power |-> extra, handed |-> Answer(Good, None), completion |-> extra]
Question(bridge, disk, standby, honest) == [bridge |-> bridge, disk |-> disk, standby |-> standby, honest |-> honest]
NvmeDisks ==
  {[serial |-> "S1", hours |-> h, kelvin |-> k, units |-> u] : h \in {0, 878400}, k \in {-1, 233, 400}, u \in {0, 2500}}
AtaDisks == {[serial |-> "S1", hours |-> h, kelvin |-> k, units |-> 0] : h \in {-1, 0, 878400}, k \in {-1, 300}}
Honest(disk, pages, id, log) == id = Answer(Good, id.data) /\ id.data \in {NvmeId, AtaId} /\ log = Answer(Good, pages)
Asked ==
  UNION {{Question(Bridge(p, i, l, None), d, FALSE, Honest(d, Log(d), i, l)) :
            p \in {"asmedia", "realtek"}, i \in NvmeIds, l \in Logs(d)} : d \in NvmeDisks}
  \cup
  UNION {{Question(Bridge("jmicron", IF a.data = Completed THEN i ELSE Answer(Good, s),
                        IF b.data = Completed THEN l ELSE Answer(Good, Log([d EXCEPT !.hours = 9])),
                        [identify |-> a, log |-> b]),
                 d, FALSE, a.data = Completed /\ b.data = Completed /\ Honest(d, Log(d), i, l)) :
            i \in NvmeIds, l \in Logs(d), a \in Completions, b \in Completions,
            s \in {[NvmeId EXCEPT !.serial = "S2"]}} : d \in {d \in NvmeDisks : d.hours = 0 /\ d.units = 0}}
  \cup
  UNION {{Question(Bridge("sat", i, l, q), d, FALSE, q \in Telling(255) /\ Honest(d, AtaPage(d), i, l)) :
            i \in AtaIds, l \in AtaPages(d), q \in Telling(255) \cup Telling(128) \cup Mute} : d \in AtaDisks}
  \cup
  UNION {{Question(Bridge("sat", i, Answer(Good, AtaPage(d)), q), d, TRUE, FALSE) :
            i \in AtaIds, q \in Telling(0) \cup Mute} : d \in AtaDisks}
  \cup
  {Question([Bridge("sat", Answer(Good, AtaId), Answer(Good, None), q) EXCEPT !.known = k, !.suspended = s, !.opens = FALSE],
          CHOOSE d \in AtaDisks : TRUE, FALSE, FALSE) : q \in Telling(255), k \in BOOLEAN, s \in BOOLEAN}

(* SmartFile: what disks say of themselves, as it gets into a record.      *)
Said == UNION {[1..n -> {"x", " ", "\\", "newline"}] : n \in 0..3}
Clean == {File!copy_clean(t, 3) : t \in Said}
Written(n, serial, usb_serial, status, figures, last_ok) ==
  [name |-> n, model |-> serial, serial |-> serial, usb_id |-> <<"x">>, usb_serial |-> usb_serial,
   status |-> status, figures |-> figures, last_ok |-> last_ok]
Records(n) ==
  {Written(n, s, u, r[1], r[2], r[3]) : s \in Clean, u \in Clean,
     r \in {<<"ok", [bytes_written |-> 0, power_on_hours |-> 7], 9>>, <<"asleep", [media_errors |-> 1], 5>>,
            <<"failed", <<>>, 5>>, <<"unsupported", <<>>, 0>>}}
Snapshots ==
  {[generated_at |-> 9, drives |-> d] :
     d \in {<<>>} \cup {<<a>> : a \in Records("sda")}
           \cup {<<a, b>> : a \in Records("sda"), b \in {r \in Records("sdb") : r.serial = r.usb_serial}}}

(* SmartScan: paths through hubs, and tables with and without a revision.  *)
Node(vendor, product, bcd, suspended) == [vendor |-> vendor, product |-> product, bcd |-> bcd, suspended |-> suspended]
Hub == Node(9, 1, 1, FALSE)
Nodes == {Node(None, None, None, FALSE), Hub, Node(3, 1, 1, TRUE), Node(3, 1, 2, FALSE), Node(3, None, 1, FALSE),
          Node(3, 2, 1, FALSE)}
BridgeRow(vendor, product, bcd) == [vendor |-> vendor, product |-> product, bcd |-> bcd]
Tables == {<<>>, <<BridgeRow(3, 1, Malformed), BridgeRow(3, 1, 2)>>, <<BridgeRow(3, 1, 2), BridgeRow(3, 1, Malformed)>>,
           <<BridgeRow(3, 1, 1), BridgeRow(9, 1, Malformed)>>}
BlockDevice(name, prefix, length, type, path) ==
  [name |-> name, prefix |-> prefix, length |-> length, type |-> type, path |-> path, suspended |-> FALSE]
BlockDevices ==
  UNION {{<<BlockDevice(2, x, 3, t, p), BlockDevice(3, "md", 3, 0, p), BlockDevice(1, "sd", l, 0, <<Node(3, 1, 1, FALSE)>>)>> :
            x \in {"sd", "loop"}, t \in {0, 5}, l \in {3, 4}, p \in [1..n -> Nodes]} : n \in 1..3}

-----------------------------------------------------------------------------
Readings == {"memory", "cpu list", "cpu names", "scale", "paths", "families"}
Cards == {"udisks", "ata", "infos", "range", "projection", "rating", "model", "battery", "card", "recorded",
          "text", "writers", "wear", "bars"}
Reader == {"commands", "file", "scan"}
Pure == Readings \cup Cards \cup Reader

Inputs(part) ==
  CASE part = "memory" -> Memory
    [] part = "cpu list" -> Texts
    [] part = "cpu names" -> Hybrids
    [] part = "scale" -> Peaks \X {1, 2, 4, 5}
    [] part = "paths" -> Paths
    [] part = "families" -> Families
    [] part = "udisks" -> Managed
    [] part = "ata" -> Ata
    [] part = "infos" -> Merged
    [] part = "range" -> (1..60) \X (1..60)
    [] part = "projection" -> (0..60) \X (0..100)
    [] part = "rating" -> Ratings
    [] part = "model" -> Models
    [] part = "battery" -> Batteries
    [] part = "card" -> Shown
    [] part = "recorded" -> Recorded
    [] part = "text" -> 0..400
    [] part = "writers" -> Details
    [] part = "wear" -> Wear \X {1, 2, 5} \X {0, 1, 4, 30}
    [] part = "bars" -> ThreeBars \X {10, 130, 300} \X {240, 241, 500}
    [] part = "commands" -> Asked
    [] part = "file" -> Snapshots
    [] part = "scan" -> BlockDevices

ReadingSound(part, x) ==
  /\ part = "memory" => Read!PartitionAddsUp(x)
  /\ part = "cpu list" => Read!SlotsHoldTheList(x)
  /\ part = "cpu names" => Read!LabelsDiffer(x)
  /\ part = "scale" => Scale!RoundAbovePeak(x[1], x[2])
  /\ part = "paths" => Kind!MixedOnTop(x) /\ Kind!GroupsNest(x) /\ Kind!AgentsAreTheUsers(x)
  /\ part = "families" => Kind!AgentIsOutermost(x)

CardSound(part, x) ==
  /\ part = "udisks" => Card!DrivesAreTheirOwn(x[1], x[2])
  /\ part = "ata" => Card!OrderIsNothing(x)
  /\ part = "infos" => \A i \in Infos : Card!ThinnerTakesNothing(x, i)
  /\ part = "range" => Card!RangeHoldsEndurance(x[1], x[2])
  /\ part = "projection" => Card!ProjectionsAgree(x[1], x[2])
  /\ part = "rating" => Card!ConflictIsOutside(x)
  /\ part = "model" => Card!RatingIsTheRows(Card!drive_spec_rows[x[1]], x[2], x[3])
  /\ part = "battery" => Card!BatterySound(x)
  /\ part = "card" => Card!FiguresHaveTheirSource(x) /\ Card!WornOutHasNoLife(x)
  /\ part = "recorded" => Card!CollectingIsTrue(x) /\ Card!RateIsOverTheSpan(x)
  /\ part = "text" => \A y \in x..400 : Card!TextsKeepOrder(x, y) /\ Card!TextsKeepOrder(x * 450, y * 450)
  /\ part = "writers" => Chart!WritersAddUp(x) /\ Chart!SmallestAreFolded(x)
  /\ part = "wear" => Chart!ReadingsAreSeen(x[1], x[2], x[3], 2)
  /\ part = "bars" => Chart!BarsFit(x[1], x[2], x[3])

FiguresShown(found) ==
  found # Malformed => File!BelievedIsShown([f \in {f \in DOMAIN found : found[f] # -1} |-> found[f]])

SmartSound(part, x) ==
  /\ part = "commands" => /\ Disk!SleepersLeftAlone(x.bridge, x.standby)
                         /\ Disk!BelievedIsTheDrives(x.bridge, x.disk)
                         /\ Disk!HonestIsBelieved(x.bridge, x.honest, ~x.standby)
                         /\ FiguresShown(Disk!drive_read(x.bridge).figures)
  /\ part = "file" => File!WrittenIsReadBack(x)
  /\ part = "scan" => \A bridges \in Tables : Scan!EachDiskOnItsBridge(bridges, x)
=============================================================================
