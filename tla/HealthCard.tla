----------------------------- MODULE HealthCard -----------------------------
(***************************************************************************)
(* The labels of one card of the health page, health.c: a headline with    *)
(* what it rests on, where the figures come from, the endurance and the    *)
(* warning.  A label is the kind of what it says, with the figures in it.  *)
(*                                                                         *)
(* A card is [figures, usb, endurance, rate, tracking, recorded]: the      *)
(* drive and its endurance of DriveFigures, what the reader's snapshot     *)
(* says of a USB disk, bytes a day (-1 unknown), whether the switch is on, *)
(* and the rows [ts, written] of the last 30 days, oldest first.           *)
(***************************************************************************)
EXTENDS DriveFigures

NoLabel == "none"
RATE_NEEDS_SECONDS == 6 * 3600

card_has_figures(card) ==
  /\ card.figures.source \in {"udisks", "helper"}
  /\ ~card.usb.applies \/ card.usb.have_figures

-----------------------------------------------------------------------------
(* Ages are rounded down to a unit, and 0 minutes are "less than a minute"; *)
(* durations, in hundredths of a year, go to the nearest.                  *)
age_text(seconds) ==
  IF seconds < 3600 THEN <<seconds \div 60, 60>>
  ELSE IF seconds < 86400 THEN <<seconds \div 3600, 3600>>
  ELSE <<seconds \div 86400, 86400>>

Nearest(n, d) == (2 * n + d) \div (2 * d)

duration_text(years) ==
  IF years >= 200 THEN <<Nearest(years, 100), "years">>
  ELSE IF years >= 100 THEN <<Nearest(years, 10), "tenths of a year">>
  ELSE IF years * 12 >= 150 THEN <<Nearest(years * 12, 100), "months">>
  ELSE <<2, "months at most">>

-----------------------------------------------------------------------------
(* usb_explanation: why a USB disk has no figures.                         *)
usb_explanation(usb) ==
  CASE usb.file_state = "missing" -> usb.service
    [] usb.file_state \in {"unreadable", "malformed", "unknown schema", "stale"} -> usb.file_state
    [] usb.file_state = "ok" ->
         IF usb.listed THEN IF usb.status = "ok" THEN "no figures given" ELSE usb.status
         ELSE "not listed"

update_source_note(card) ==
  IF ~card_has_figures(card) THEN {}
  ELSE IF card.usb.applies
  THEN {IF card.usb.status = "asleep" THEN "last good figures" ELSE "read by the service"}
         \cup (IF card.usb.observed THEN {"unverified"} ELSE {})
  ELSE {"read through udisks"}

-----------------------------------------------------------------------------
(* gsm_health_db_get_write_rate, in bytes an hour, over rows that have a   *)
(* count; and what the page says of how much is recorded.                  *)
Counts(card) == SelectSeq(card.recorded, LAMBDA p : p.written > 0)

recorded_write_span_seconds(card) ==
  LET counts == Counts(card)
  IN IF counts = <<>> THEN 0 ELSE counts[Len(counts)].ts - counts[1].ts

get_write_rate_Nominal(card) ==
  LET counts == Counts(card)
  IN IF counts = <<>> THEN -1 ELSE (counts[Len(counts)].written - counts[1].written) \div (30 * 24)

get_write_rate(card) ==
  LET counts == Counts(card)
      span == recorded_write_span_seconds(card)
      written == {counts[i].written : i \in DOMAIN counts}
      most == CHOOSE w \in written : \A v \in written : v <= w
      least == CHOOSE w \in written : \A v \in written : w <= v
  IN IF span < RATE_NEEDS_SECONDS THEN -1 ELSE ((most - least) * 3600) \div span

collecting_history_text(card) ==
  LET recorded == recorded_write_span_seconds(card)
  IN IF recorded >= RATE_NEEDS_SECONDS THEN <<"not rising">>
     ELSE IF recorded <= 0 THEN <<"nothing recorded">>
     ELSE <<"recorded">> \o age_text(recorded)

(* project_years_left, in hundredths of a day; -1 unknown.                 *)
Left(card) ==
  LET left == Remaining(card.figures.percent, card.figures.written, card.endurance.rated, card.rate)
  IN IF left <= 0 THEN left ELSE left \div card.rate

maker_rating_line(card) ==
  IF card.endurance.maker = 0 \/ card.rate <= 0 THEN NoLabel
  ELSE IF card.figures.written >= card.endurance.maker THEN "passed"
  ELSE "reached later"

Unread(card) ==
  IF card.usb.applies THEN usb_explanation(card.usb)
  ELSE IF card.figures.source = "unsupported" THEN "does not report" ELSE "not read"

update_headline(card) ==
  IF ~card_has_figures(card) THEN [says |-> "no figures", basis |-> Unread(card), rating |-> NoLabel]
  ELSE IF card.figures.wearless
  THEN [says |-> IF gsm_drive_get_health(card.figures) = "failing" THEN "failing" ELSE "healthy",
        basis |-> "no wear reported", rating |-> NoLabel]
  ELSE IF Left(card) < 0
  THEN [says |-> IF card.figures.percent >= 0 THEN "worn" ELSE "healthy",
        basis |-> IF card.tracking THEN collecting_history_text(card)[1] ELSE "turn on tracking",
        rating |-> NoLabel]
  ELSE [says |-> IF Left(card) = 0 THEN "no life" ELSE "life left", basis |-> "write rate",
        rating |-> maker_rating_line(card)]

-----------------------------------------------------------------------------
(* Three truths, each on a line of its own.                                *)
update_endurance(card) ==
  LET f == card.figures  e == card.endurance IN
  IF ~card_has_figures(card) THEN {}
  ELSE (IF f.written > 0 THEN {"written"} ELSE {})
       \cup (IF f.hours > 0 THEN {"hours"} ELSE {})
       \cup {IF e.maker > 0 THEN "rated" ELSE "not published"}
       \cup (IF f.percent >= 0
             THEN {"worn", IF e.implied.high > 0 THEN "implies" ELSE "too little worn"} ELSE {})
       \cup (IF e.kind = "user" THEN {"set by the user"} ELSE {})
       \cup (IF gsm_drive_endurance_is_conflicted(e)
             THEN {IF e.implied.high > e.maker THEN "less wear than rated" ELSE "more wear than rated"}
             ELSE {})

update_banner_Always(card) ==
  IF gsm_drive_get_health(card.figures) = "failing" THEN "failing"
  ELSE IF card.figures.media > 0 THEN "lost data" ELSE NoLabel

update_banner(card) ==
  LET health == gsm_drive_get_health(card.figures) IN
  IF ~card_has_figures(card) THEN NoLabel
  ELSE IF health = "failing" THEN "failing"
  ELSE IF card.figures.media > 0 THEN "lost data"
  ELSE IF card.figures.reallocated > 0 THEN "remapped"
  ELSE IF health = "attention" THEN "near its end"
  ELSE NoLabel

Labels(card) ==
  [headline |-> update_headline(card), note |-> update_source_note(card),
   endurance |-> update_endurance(card), banner |-> update_banner(card)]

-----------------------------------------------------------------------------
(* Every figure on a card has its source beside it, and a card without     *)
(* figures says why and nothing else: no warning and no wear of an earlier *)
(* reading (health.c:214, :785).                                           *)
FiguresHaveTheirSource(card) ==
  LET labels == Labels(card) IN
  /\ labels.note = {} <=> labels.headline.says = "no figures"
  /\ labels.note = {} => labels.endurance = {} /\ labels.banner = NoLabel
  /\ labels.note # {} => labels.endurance # {}

(* A drive worn out by its own count is given no life from its own figures *)
(* (gsm-drive-spec.c:568), and is warned of (health.c:791).                *)
WornOutHasNoLife(card) ==
  (card_has_figures(card) /\ card.figures.percent >= 100) =>
    /\ update_banner(card) = "failing"
    /\ (card.endurance.kind # "user" /\ card.figures.written > 0) =>
         update_headline(card).says # "life left"

(* The page asks for more history exactly when the database will not give  *)
(* a rate for want of it, and the age it names is less than what it says   *)
(* is needed (health.c:43, :383).                                          *)
CollectingIsTrue(card) ==
  LET text == collecting_history_text(card) IN
  /\ text[1] \in {"recorded", "nothing recorded"} <=> get_write_rate(card) = -1
  /\ text[1] = "recorded" => text[2] * text[3] < RATE_NEEDS_SECONDS

(* The rate is over the time that was recorded, not over the window: no    *)
(* less than the bytes of that time ask for (gsm-health-db.c:1260).        *)
RateIsOverTheSpan(card) ==
  LET counts == Counts(card)  rate == get_write_rate(card) IN
  rate >= 0 =>
    (rate + 1) * recorded_write_span_seconds(card)
      > (counts[Len(counts)].written - counts[1].written) * 3600

(* A longer time never reads as a shorter one, across the units in which   *)
(* ages and durations are written (health.c:163, :449).                    *)
Months(text) == IF text[2] = "years" THEN text[1] * 120
                ELSE IF text[2] = "tenths of a year" THEN text[1] * 12 ELSE text[1] * 10
TextsKeepOrder(a, b) ==
  a <= b =>
    /\ Months(duration_text(a)) <= Months(duration_text(b))
    /\ LET older == age_text(b)  newer == age_text(a) IN
         newer[1] * newer[2] <= older[1] * older[2]
=============================================================================
