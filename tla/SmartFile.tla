------------------------------ MODULE SmartFile ------------------------------
(***************************************************************************)
(* src/src/health/gsm-smart-reader-core.c and gsm-smart-file.c: the text   *)
(* of smart.ini, and what its two readers make of it: the reader itself,   *)
(* at its next run, line by line, and the user's program, with GLib.       *)
(*                                                                         *)
(* A text is a sequence of characters, most of them "x".  A line is its    *)
(* key and its value; one that is neither a group nor a key is "junk".     *)
(* GLib gives no string for a value with a bad escape, drops the blanks    *)
(* before a value, and refuses a file with a line it cannot read.          *)
(***************************************************************************)
EXTENDS Integers, Sequences, SequencesExt

CONSTANTS
  NULL,               \* model value
  TEXT_LEN, MAX_DRIVES, SUPPORTED_SCHEMA, CLOCK_SKEW_SECONDS

Figures == {"bytes_written", "bytes_read", "percent_used", "power_on_hours",
            "temperature_kelvin", "media_errors", "unsafe_shutdowns"}
Statuses == {"ok", "asleep", "unsupported", "failed", "garbled"}
Syntax == {"[", "]", "=", "\\", ";", "newline"}

-----------------------------------------------------------------------------
(* copy_clean: what a disk or sysfs says of itself.                        *)
Solid(text) == {i \in DOMAIN text : text[i] # " "}
Chug(text) == IF Solid(text) = {} THEN <<>> ELSE SubSeq(text, Min(Solid(text)), Len(text))
Chomp(text) == IF Solid(text) = {} THEN <<>> ELSE SubSeq(text, 1, Max(Solid(text)))
Plain_Lines(text) == [i \in DOMAIN text |-> IF text[i] \in Syntax \ {"newline"} THEN "?" ELSE text[i]]
Plain(text) == [i \in DOMAIN text |-> IF text[i] \in Syntax THEN "?" ELSE text[i]]
Cut(text, len) == SubSeq(text, 1, IF Len(text) < len THEN Len(text) ELSE len - 1)

copy_clean_Blanks(text, len) == Cut(Plain(text), len)

copy_clean(text, len) == Chomp(Cut(Plain(Chug(text)), len))

-----------------------------------------------------------------------------
(* emit_drive and write_snapshot.                                          *)
TextLines(key, text) ==
  LET broken == {i \in DOMAIN text : text[i] = "newline"}
  IN IF text = <<>> THEN <<>>
     ELSE IF broken = {} THEN << <<key, text>> >>
     ELSE << <<key, SubSeq(text, 1, Min(broken) - 1)>>, <<"junk", <<>> >> >>

FigureLines(figures) ==
  LET known == SetToSeq(DOMAIN figures) IN [i \in DOMAIN known |-> <<known[i], figures[known[i]]>>]

emit_drive(d) ==
  << <<"drive", d.name>> >> \o TextLines("model", d.model) \o TextLines("serial", d.serial)
    \o << <<"usb_id", d.usb_id>> >> \o TextLines("usb_serial", d.usb_serial)
    \o << <<"status", d.status>> >> \o FigureLines(d.figures)
    \o (IF d.last_ok = 0 THEN <<>> ELSE << <<"last_ok_generated_at", d.last_ok>> >>)

write_snapshot(s) ==
  << <<"meta", NULL>>, <<"schema", SUPPORTED_SCHEMA>>, <<"generated_at", s.generated_at>> >>
    \o FoldLeft(LAMBDA lines, d : lines \o emit_drive(d), <<>>, s.drives)

-----------------------------------------------------------------------------
(* previous_apply_line and previous_load.  Keys and groups the reader does *)
(* not know are skipped; those of a group beyond the last record too.      *)
snapshot_add(prev, name) ==
  IF Len(prev.drives) >= MAX_DRIVES THEN [prev EXCEPT !.in = NULL]
  ELSE [prev EXCEPT !.in = "drive",
                    !.drives = Append(@, [name |-> name, usb_id |-> <<>>, usb_serial |-> <<>>, status |-> "unsupported",
                                          figures |-> <<>>, last_ok |-> 0])]

Field(prev, field, value) ==
  [prev EXCEPT !.drives = [@ EXCEPT ![Len(prev.drives)] = [@ EXCEPT ![field] = value]]]

Given(figures, key, number) ==
  [f \in (DOMAIN figures) \cup {key} |-> IF f = key THEN number ELSE figures[f]]

DriveLine(prev, drive, key, value) ==
  CASE key = "status" -> IF value \in Statuses THEN Field(prev, "status", value) ELSE prev
    [] key \in {"usb_id", "usb_serial"} -> Field(prev, key, copy_clean(value, TEXT_LEN))
    [] key = "last_ok_generated_at" -> Field(prev, "last_ok", value)
    [] key \in Figures -> Field(prev, "figures", Given(drive.figures, key, value))
    [] OTHER -> prev

previous_apply_line(prev, line) ==
  CASE line[1] = "meta" -> [prev EXCEPT !.in = "meta"]
    [] line[1] = "drive" -> snapshot_add(prev, line[2])
    [] line[1] = "generated_at" /\ prev.in = "meta" -> [prev EXCEPT !.generated_at = line[2]]
    [] prev.in = "drive" /\ line[1] \notin {"meta", "drive"} ->
         DriveLine(prev, prev.drives[Len(prev.drives)], line[1], line[2])
    [] OTHER -> prev

(* A record that was ok without its own time has the time of the file.     *)
Timed(prev) ==
  [generated_at |-> prev.generated_at,
   drives |-> [i \in DOMAIN prev.drives |->
                [prev.drives[i] EXCEPT !.last_ok = IF prev.drives[i].status = "ok" /\ @ = 0 THEN prev.generated_at ELSE @]]]

previous_load(lines) ==
  Timed(FoldLeft(previous_apply_line, [drives |-> <<>>, in |-> NULL, generated_at |-> 0], lines))

-----------------------------------------------------------------------------
(* The user's side: gsm_smart_file_load. Lines of a group run to the next. *)
Rows(lines, from) ==
  {i \in DOMAIN lines : i > from /\ \A j \in from + 1..i : lines[j][1] \notin {"meta", "drive"}}
Values(lines, from, key) == {lines[i][2] : i \in {i \in Rows(lines, from) : lines[i][1] = key}}
Number(lines, from, key, none) ==
  IF Values(lines, from, key) = {} THEN none ELSE CHOOSE v \in Values(lines, from, key) : TRUE
Text(lines, from, key) ==
  LET given == {v \in Values(lines, from, key) : \A i \in DOMAIN v : v[i] # "\\"}
  IN IF given = {} THEN <<>> ELSE Chug(CHOOSE v \in given : TRUE)

parse_drive(lines, from) ==
  [name |-> lines[from][2],
   model |-> Text(lines, from, "model"), serial |-> Text(lines, from, "serial"),
   usb_id |-> Text(lines, from, "usb_id"), usb_serial |-> Text(lines, from, "usb_serial"),
   status |-> Number(lines, from, "status", "unknown"),
   figures |-> [f \in {f \in Figures : Values(lines, from, f) # {}} |-> Number(lines, from, f, 0)],
   last_ok |-> Number(lines, from, "last_ok_generated_at", 0)]

LoadState(lines, at, now, max_age) ==
  CASE (\E i \in DOMAIN lines : lines[i][1] = "junk") \/ at = 0 -> "malformed"
    [] ~(\E i \in DOMAIN lines : lines[i][1] = "junk") /\ at > now + CLOCK_SKEW_SECONDS -> "malformed"
    [] OTHER -> IF now - at > max_age THEN "stale" ELSE "ok"

gsm_smart_file_load(lines, now, max_age) ==
  [state |-> LoadState(lines, Number(lines, 1, "generated_at", 0), now, max_age),
   drives |-> {parse_drive(lines, i) : i \in {i \in DOMAIN lines : lines[i][1] = "drive"}}]

(* gsm_smart_file_fill_info: which of a record's figures are shown. A disk *)
(* worn beyond its rating has no percentage here.                          *)
Shows(d, f) ==
  CASE f = "percent_used" -> d.figures[f] <= 100
    [] f = "temperature_kelvin" -> d.figures[f] \in 233..400
    [] OTHER -> TRUE

gsm_smart_file_fill_info(state, d) ==
  IF state # "ok" \/ d.status # "ok" THEN <<>>
  ELSE [f \in {f \in DOMAIN d.figures : Shows(d, f)} |->
          IF f = "temperature_kelvin" THEN d.figures[f] - 273 ELSE d.figures[f]]

-----------------------------------------------------------------------------
(* Whatever a disk says its model and its serial are, the reader finds at  *)
(* its next run each record that it wrote, with what it goes by to know    *)
(* the disk again, and the user's program finds the same records and, in a *)
(* file of its time, takes none of them for stale or broken.               *)
Known(d) == [name |-> d.name, usb_id |-> d.usb_id, usb_serial |-> d.usb_serial,
             status |-> d.status, figures |-> d.figures, last_ok |-> d.last_ok]

WrittenIsReadBack(s) ==
  LET lines == write_snapshot(s)
      found == previous_load(lines)
  IN /\ found.generated_at = s.generated_at
     /\ found.drives = [i \in DOMAIN s.drives |-> Known(s.drives[i])]
     /\ gsm_smart_file_load(lines, s.generated_at, 0) =
          [state |-> "ok", drives |-> {s.drives[i] : i \in DOMAIN s.drives}]
     /\ gsm_smart_file_load(lines, s.generated_at + 1, 0).state = "stale"
     /\ gsm_smart_file_load(lines, s.generated_at - CLOCK_SKEW_SECONDS - 1, 0).state = "malformed"

(* Nothing the reader believed of a disk within its rating is lost on the  *)
(* way to the page: both ends have the same ranges.                        *)
BelievedIsShown(figures) ==
  LET shown == gsm_smart_file_fill_info("ok", [status |-> "ok", figures |-> figures])
  IN /\ (DOMAIN figures) \ {f \in {"percent_used"} \cap DOMAIN figures : figures[f] > 100} = DOMAIN shown
     /\ "temperature_kelvin" \in DOMAIN shown => shown["temperature_kelvin"] + 273 = figures["temperature_kelvin"]
=============================================================================
