---------------------------- MODULE HealthCharts ----------------------------
(***************************************************************************)
(* The two charts of a card: the list of who wrote to the drive, made by   *)
(* health.c of the database's rows, the wear over time with its            *)
(* projection, and how gsm-history-chart.c lays both out.                  *)
(*                                                                         *)
(* A writer's name is [text, daemon]: the daemon is the proxy writer whose *)
(* name it holds, or None.                                                 *)
(***************************************************************************)
EXTENDS Integers, Sequences, FiniteSets, SequencesExt, TLC

CONSTANTS None, CHARGED_ROWS_SHOWN, MAX_DOTTED_POINTS

LOCAL Largest(S) == CHOOSE x \in S : \A y \in S : y <= x
LOCAL Least(S) == CHOOSE x \in S : \A y \in S : x <= y
LOCAL Sum(s, Value(_)) == FoldLeft(LAMBDA acc, x : acc + Value(x), 0, s)

-----------------------------------------------------------------------------
(* A stored row is [name, via, basis, bytes]; via is None for what the     *)
(* kernel charged to the name itself.                                      *)
row_is_proxy_writer(name, via) ==
  name.text = via.text \/ (via.daemon # None /\ name.daemon = via.daemon)

Written(detail) == SelectSeq(detail, LAMBDA d : d.bytes > 0)
ChargedRows(detail) == SelectSeq(Written(detail), LAMBDA d : d.via = None)
OnBehalfRows(detail) == SelectSeq(Written(detail), LAMBDA d : d.via # None)

Distinct(names) == FoldLeft(LAMBDA acc, n : IF Contains(acc, n) THEN acc ELSE Append(acc, n), <<>>, names)
BiggestFirst(rows) == SortSeq(rows, LAMBDA x, y : x.bytes > y.bytes)

Charged(detail) ==
  LET rows == ChargedRows(detail)
      names == Distinct([i \in DOMAIN rows |-> rows[i].name])
      Of(n) == SelectSeq(rows, LAMBDA d : d.name = n)
  IN BiggestFirst([i \in DOMAIN names |->
       [name |-> names[i], bytes |-> Sum(Of(names[i]), LAMBDA d : d.bytes),
        inferred |-> \E j \in DOMAIN rows : rows[j].name = names[i] /\ rows[j].basis = "procfs"]])

(* Rows of one basis together, those that cannot say who last.             *)
Unknown(row) == row.basis = "unknown"
BehalfOrder(x, y) ==
  IF Unknown(x) # Unknown(y) THEN Unknown(y)
  ELSE IF x.basis # y.basis THEN x.basis = "exact" ELSE x.bytes > y.bytes

Groups(detail) ==
  LET rows == OnBehalfRows(detail)
      vias == Distinct([i \in DOMAIN rows |-> rows[i].via])
      Of(v) == SelectSeq(rows, LAMBDA d : d.via = v)
  IN BiggestFirst([i \in DOMAIN vias |->
       [via |-> vias[i], rows |-> SortSeq(Of(vias[i]), BehalfOrder),
        bytes |-> Sum(Of(vias[i]), LAMBDA d : d.bytes)]])

Plain(text) == [text |-> text, daemon |-> None]
Bar(label, value, estimated, indent, caption) ==
  [label |-> label, value |-> value, estimated |-> estimated, indent |-> indent, caption |-> caption]

place_proxy_group(bars, group) ==
  FoldLeft(LAMBDA acc, r :
             LET starts == ~Unknown(r) /\ ~\E i \in DOMAIN acc : i > Len(bars) /\ acc[i].label = Plain(r.basis)
             IN acc \o (IF starts THEN <<Bar(Plain(r.basis), 0, FALSE, 1, TRUE)>> ELSE <<>>)
                    \o <<Bar(r.name, r.bytes, r.basis # "exact", 1, FALSE)>>
                    \o (IF r.name.text = "no access" THEN <<Bar(Plain("why"), 0, FALSE, 1, TRUE)>> ELSE <<>>),
           bars, group.rows)

(* One charged row of the list: shown with the groups that hang from it,   *)
(* or folded into the last line.                                           *)
Keeps_First(list, row, groups) == list.shown < CHARGED_ROWS_SHOWN
Keeps(list, row, groups) ==
  \/ list.shown < CHARGED_ROWS_SHOWN
  \/ \E i \in DOMAIN groups : i \notin list.placed /\ row_is_proxy_writer(row.name, groups[i].via)

Place(list, row, groups) ==
  LET hanging == {i \in DOMAIN groups : i \notin list.placed /\ row_is_proxy_writer(row.name, groups[i].via)}
  IN IF Keeps(list, row, groups)
     THEN [list EXCEPT !.shown = @ + 1, !.placed = @ \cup hanging,
             !.bars = FoldLeft(place_proxy_group,
                               Append(@, Bar(row.name, row.bytes, row.inferred, 0, FALSE)),
                               SelectSeq(groups, LAMBDA g : \E i \in hanging : groups[i] = g))]
     ELSE [list EXCEPT !.folded = @ + row.bytes, !.count = @ + 1, !.inferred = @ \/ row.inferred]

(* The groups no row was found for follow under their own headings, and    *)
(* the folded rows last.                                                   *)
Unplaced(groups, placed) == SelectSeq(groups, LAMBDA g : \E i \in DOMAIN groups \ placed : groups[i] = g)

Close(list, groups) ==
  FoldLeft(LAMBDA acc, g : place_proxy_group(Append(acc, Bar(g.via, 0, FALSE, 0, TRUE)), g),
           list.bars, Unplaced(groups, list.placed))
  \o (IF list.count = 0 THEN <<>>
      ELSE <<Bar(Plain("smaller writers"), list.folded, list.inferred, 0, FALSE)>>)

Listed(charged, groups) ==
  Close(FoldLeft(LAMBDA acc, row : Place(acc, row, groups),
                 [bars |-> <<>>, shown |-> 0, placed |-> {}, folded |-> 0, count |-> 0,
                  inferred |-> FALSE], charged),
        groups)

build_write_bars(detail) == Listed(Charged(detail), Groups(detail))

charged_total_bytes(detail) == Sum(ChargedRows(detail), LAMBDA d : d.bytes)

-----------------------------------------------------------------------------
(* The wear chart: readings [ts, value], value -1 when the drive did not   *)
(* say, and the day a rate of writing leads to, shown only from a reading  *)
(* joined to the one before.                                               *)
Joined(points, gap, i) == gap <= 0 \/ points[i + 1].ts - points[i].ts <= gap

Projected(points, gap, left) ==
  /\ left > 0 /\ Len(points) >= 2
  /\ points[Len(points)].ts - points[Len(points) - 1].ts <= gap

Charted(points, gap, left) ==
  [points |-> points, shown |-> Len(points) >= 2,
   value_max |-> Least({100, (Largest({10} \cup {p.value : p \in Range(points)}) * 14) \div 10}),
   end |-> IF Projected(points, gap, left) THEN points[Len(points)].ts + left ELSE 0]

update_charts(history, gap, left) ==
  Charted(SelectSeq(history, LAMBDA p : p.value >= 0), gap, left)

(* gsm_history_chart: the time axis ends at the last reading, or as far    *)
(* again as the history is long (a day at least) when there is a           *)
(* projection; its line is cut there.                                      *)
Axis(points, end, day) ==
  LET first == points[1].ts  last == points[Len(points)].ts IN
  [from |-> first,
   to |-> IF end > last THEN Least({end, last + Largest({last - first, day})}) ELSE last]

(* x, and where the dashed line ends, in hundredths of what the plot holds. *)
Across(axis, ts) ==
  LET span == Largest({axis.to - axis.from, 1}) IN ((ts - axis.from) * 100) \div span

ProjectionEnd(points, end, day) ==
  LET last == points[Len(points)]  axis == Axis(points, end, day)
  IN last.value + ((100 - last.value) * (axis.to - last.ts)) \div (end - last.ts)

draw_line_chart(points, gap, end, day) ==
  LET all == Len(points) <= MAX_DOTTED_POINTS
      n == Len(points)
      lines == {i \in 1..(n - 1) : Joined(points, gap, i)}
  IN [lines |-> lines, axis |-> Axis(points, end, day),
      dots |-> {i \in 1..n : all \/ ~(i \in lines \/ i - 1 \in lines)},
      dashed |-> end > points[n].ts]

-----------------------------------------------------------------------------
(* The list of writers, in pixels.                                         *)
BAR_LABEL_MIN_W == 140
BAR_VALUE_W == 92
BAR_MIN_FILL == 3
BAR_INDENT_W == 18
MIN_WIDTH == 240

bar_label_column_width(bars, TextWidth, width) ==
  LET texts == {bars[i].indent * BAR_INDENT_W + TextWidth + 12 : i \in {j \in DOMAIN bars : ~bars[j].caption}}
  IN Least({Largest(texts \cup {BAR_LABEL_MIN_W}), Largest({BAR_LABEL_MIN_W, width \div 2})})

track_w(bars, TextWidth, width) == width - bar_label_column_width(bars, TextWidth, width) - BAR_VALUE_W

Fill(bars, i, track) ==
  LET most == Largest({0} \cup {bars[j].value : j \in {k \in DOMAIN bars : ~bars[k].caption}})
      share == IF most > 0 THEN (bars[i].value * track) \div most ELSE 0
  IN IF bars[i].value > 0 THEN Largest({share, BAR_MIN_FILL}) ELSE share

-----------------------------------------------------------------------------
HeadOf(bars, i) == bars[Largest({j \in 1..i : bars[j].indent = 0})]
Hangs(head, via) ==
  IF head.caption THEN head.label = via ELSE row_is_proxy_writer(head.label, via)

Adds(bars, behalf, total) ==
  LET indented == {i \in DOMAIN bars : bars[i].indent = 1 /\ ~bars[i].caption}
  IN /\ Sum(SelectSeq(bars, LAMBDA b : ~b.caption /\ b.indent = 0), LAMBDA b : b.value) = total
     /\ Cardinality(indented) = Len(behalf)
     /\ \A d \in Range(behalf) :
          Cardinality({i \in indented : /\ bars[i].label = d.name /\ bars[i].value = d.bytes
                                        /\ Hangs(HeadOf(bars, i), d.via)})
            >= Cardinality({j \in DOMAIN behalf : behalf[j] = d})

Folds(charged, groups, labels) ==
  \A i \in DOMAIN charged :
    /\ i <= CHARGED_ROWS_SHOWN => charged[i].name \in labels
    /\ \A g \in Range(groups) :
         LET mine == {charged[j].name : j \in {k \in DOMAIN charged : row_is_proxy_writer(charged[k].name, g.via)}}
         IN mine # {} => mine \cap labels # {}

(* What is not indented adds up to what the kernel charged to the drive;   *)
(* every on-behalf row is there once, under the row of its own proxy or    *)
(* under a heading that names it, and adds nothing (health.c:1100).        *)
WritersAddUp(detail) ==
  Adds(build_write_bars(detail), OnBehalfRows(detail), charged_total_bytes(detail))

(* Only writers smaller than every one of the list's first are folded, and *)
(* never a proxy whose rows hang from it (health.c:1166).                  *)
SmallestAreFolded(detail) ==
  Folds(Charged(detail), Groups(detail), {b.label : b \in Range(build_write_bars(detail))})

(* No line bridges a silence, no reading the drive gave vanishes, and all  *)
(* are drawn within both axes as long as the drive counts to 100; a dashed *)
(* line leaves from a reading that has one before it                       *)
(* (gsm-history-chart.c:236, health.c:1325).                               *)
Seen(n, points, value_max, gap, day, end, chart) ==
  /\ \A i \in chart.lines : points[i + 1].ts - points[i].ts <= gap
  /\ \A i \in 1..n : i \in chart.dots \/ {i, i - 1} \cap chart.lines # {}
  /\ \A i \in 1..n : Across(chart.axis, points[i].ts) \in 0..100
  /\ \A i \in 1..n : points[i].value \in 0..100 => points[i].value <= value_max
  /\ chart.dashed => /\ n - 1 \in chart.lines
                     /\ ProjectionEnd(points, end, day) \in points[n].value..100
                     /\ 2 * Across(chart.axis, points[n].ts) >= 100 \/ points[n].ts - points[1].ts < day

Draws(charted, gap, day) ==
  charted.shown => Seen(Len(charted.points), charted.points, charted.value_max, gap, day, charted.end,
                        draw_line_chart(charted.points, gap, charted.end, day))

ReadingsAreSeen(history, gap, left, day) ==
  /\ Draws(update_charts(history, gap, left), gap, day)
  /\ \A p \in Range(history) : p.value >= 0 => p \in Range(update_charts(history, gap, left).points)

(* A chart as wide as it asks for has room for its bars, each of which     *)
(* stays in its track, and longer bars are of more bytes                   *)
(* (gsm-history-chart.c:484, :579).                                        *)
BarsFit(bars, text, width) ==
  LET track == track_w(bars, text, width)
      rows == {i \in DOMAIN bars : ~bars[i].caption}
  IN width >= MIN_WIDTH =>
       /\ track > 0
       /\ \A i \in rows : Fill(bars, i, track) \in 0..track
       /\ \A i, j \in rows : Fill(bars, i, track) < Fill(bars, j, track) => bars[i].value < bars[j].value
=============================================================================
