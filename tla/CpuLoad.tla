------------------------------- MODULE CpuLoad -------------------------------
(***************************************************************************)
(* get_load and update_pressure_label of src/src/load-graph.cpp, with the  *)
(* readings of src/src/procstat.c and psi.c: the share of the time each    *)
(* CPU was busy, and tasks were stalled, between two refreshes.  CPUs go   *)
(* offline, files cannot be read and counters run backwards meanwhile.     *)
(***************************************************************************)
EXTENDS Integers, FiniteSets, Functions

CONSTANTS
  Cpus,             \* the slots: 0..(n - 1)
  None,             \* model value: a line or a file that is not there
  MaxTicks,         \* bound on the counters
  MaxRefreshes      \* bound

VARIABLES
  ticks,            \* cpu -> [busy, idle]: its line of /proc/stat, or None
  stall, elapsed,   \* the counter of /proc/pressure/cpu, the time since the last refresh
  stalled,          \* history: how much the stall moved since then
  iteration,        \* 0 or 1, which stands for more
  last,             \* cpu -> [busy, idle, refresh], or None
  data,             \* cpu -> data[0], in percent; -1 is no point
  pressure,         \* pressure.last: [total, refresh], or None
  some,             \* some_percent, or -1
  drawStacked,
  span,             \* history: how many refreshes the last figures are made over
  misjudged,        \* history: a share of stalls was not that of the interval
  refreshes

loadVars == <<ticks, stall, elapsed, stalled, iteration, last, data, pressure, some,
              drawStacked, span, misjudged, refreshes>>

kernel == <<ticks, stall, elapsed, stalled>>
figures == <<last, data, pressure, some, span, misjudged, refreshes>>

Init ==
  /\ ticks = [c \in Cpus |-> [busy |-> 0, idle |-> 0]]
  /\ stall = 0 /\ elapsed = 0 /\ stalled = 0
  /\ iteration = 0 /\ last = [c \in Cpus |-> None]
  /\ data = [c \in Cpus |-> -1]
  /\ pressure = None /\ some = -1
  /\ drawStacked \in BOOLEAN
  /\ span = {} /\ misjudged = FALSE /\ refreshes = 0

-----------------------------------------------------------------------------
Run(c, what) ==
  /\ ticks[c] # None /\ ticks[c][what] < MaxTicks
  /\ ticks' = [ticks EXCEPT ![c][what] = @ + 1]
  /\ UNCHANGED <<stall, elapsed, stalled, iteration, figures, drawStacked>>

Offline(c) ==
  /\ ticks[c] # None /\ c # 0
  /\ ticks' = [ticks EXCEPT ![c] = None]
  /\ UNCHANGED <<stall, elapsed, stalled, iteration, figures, drawStacked>>

Online(c) ==
  /\ ticks[c] = None
  /\ \E busy, idle \in 0..1 : ticks' = [ticks EXCEPT ![c] = [busy |-> busy, idle |-> idle]]
  /\ UNCHANGED <<stall, elapsed, stalled, iteration, figures, drawStacked>>

(* A task is stalled for all of the time, or none is.                      *)
Elapse ==
  /\ elapsed < 2 /\ elapsed' = elapsed + 1
  /\ \E s \in 0..1 : stall' = stall + s /\ stalled' = stalled + s
  /\ stall' <= MaxTicks
  /\ UNCHANGED <<ticks, iteration, figures, drawStacked>>

-----------------------------------------------------------------------------
(* gsm_cpu_ticks_busy_percent.                                             *)
Percent(before, after) ==
  IF before = None \/ after = None THEN -1
  ELSE IF after.busy < before.busy \/ after.idle < before.idle THEN -1
  ELSE LET busy == after.busy - before.busy
           idle == after.idle - before.idle
       IN IF busy + idle = 0 THEN -1 ELSE (100 * busy) \div (busy + idle)

(* The reading that is kept for the next refresh.                          *)
Kept(c, now) == now[c]

(* gsm_psi_window_share.                                                   *)
Share(before, total) ==
  IF before = None \/ elapsed = 0 \/ total < before.total THEN -1
  ELSE LET percent == (100 * (total - before.total)) \div elapsed
       IN IF percent > 100 THEN 100 ELSE percent

(* get_load: one line of /proc/stat for each CPU, none when the file is    *)
(* not read; without points while nothing is known.                        *)
Refresh(readable) ==
  LET before == IF iteration = 0 THEN [c \in Cpus |-> None] ELSE last
      now == [c \in Cpus |->
               IF readable /\ ticks[c] # None
               THEN [busy |-> ticks[c].busy, idle |-> ticks[c].idle, refresh |-> refreshes]
               ELSE None]
      percent == [c \in Cpus |-> Percent(before[c], now[c])]
      have == {c \in Cpus : percent[c] # -1}
      stack == [c \in Cpus |->
                 SumFunctionOnSet(percent, have \cap 0..c) \div Cardinality(Cpus)]
  IN /\ data' = IF ~drawStacked THEN percent
                ELSE IF have = {} THEN [c \in Cpus |-> -1] ELSE stack
     /\ last' = [c \in Cpus |-> Kept(c, now)]
     /\ span' = {refreshes - before[c].refresh : c \in have}

(* update_pressure_label.                                                  *)
Pressure_KeptOnFailure(readable) ==
  /\ some' = IF readable THEN Share(pressure, stall) ELSE -1
  /\ pressure' = IF readable THEN [total |-> stall, refresh |-> refreshes] ELSE pressure

Pressure(readable) ==
  /\ some' = IF readable THEN Share(pressure, stall) ELSE -1
  /\ pressure' = IF readable THEN [total |-> stall, refresh |-> refreshes] ELSE None

load_graph_update_data ==
  /\ refreshes < MaxRefreshes
  /\ refreshes' = refreshes + 1
  /\ iteration' = 1
  /\ \E stat, psi \in BOOLEAN : Refresh(stat) /\ Pressure(psi)
  /\ misjudged' = (misjudged \/ (some' # -1 /\ some' * elapsed # 100 * stalled))
  /\ elapsed' = 0 /\ stalled' = 0
  /\ UNCHANGED <<ticks, stall, drawStacked>>

(* load_graph_start.                                                       *)
Restart ==
  /\ iteration # 0 /\ iteration' = 0
  /\ UNCHANGED <<kernel, figures, drawStacked>>

(* cb_draw_stacked_changed, load_graph_reset.                              *)
SwitchStacked ==
  /\ iteration' = 0 /\ drawStacked' = ~drawStacked
  /\ data' = [c \in Cpus |-> -1]
  /\ UNCHANGED <<kernel, last, pressure, some, span, misjudged, refreshes>>

Next ==
  \/ \E c \in Cpus : (\E what \in {"busy", "idle"} : Run(c, what)) \/ Offline(c) \/ Online(c)
  \/ Elapse
  \/ load_graph_update_data
  \/ Restart \/ SwitchStacked

Spec == Init /\ [][Next]_loadVars

-----------------------------------------------------------------------------
(* get_load: a figure is a share of the time since the refresh before, of  *)
(* one CPU, and a stack of them is no higher than the graph, whatever goes *)
(* offline, is not read or runs backwards.                                 *)
SharesAreOfOneInterval ==
  /\ span \subseteq {1}
  /\ \A c \in Cpus : data[c] \in -1..100
  /\ drawStacked => \A c \in Cpus : c > 0 => data[c] >= data[c - 1]

(* update_pressure_label: "the share of the time since the previous        *)
(* refresh that tasks were stalled".                                       *)
PressureIsOfOneInterval == ~misjudged

-----------------------------------------------------------------------------
(* What they rest on: what is kept is of the refresh before, and the       *)
(* stall moved since then by what the history says.                        *)
Read ==
  /\ ticks \in [Cpus -> [busy : Nat, idle : Nat] \cup {None}]
  /\ last \in [Cpus -> [busy : Nat, idle : Nat, refresh : Nat] \cup {None}]
  /\ refreshes \in Nat
  /\ iteration # 0 => \A c \in Cpus : last[c] # None => last[c].refresh = refreshes - 1
Stalled ==
  /\ stall \in Nat /\ elapsed \in 0..2 /\ stalled \in 0..elapsed
  /\ pressure \in [total : Nat, refresh : Nat] \cup {None}
  /\ pressure # None => stall = pressure.total + stalled
=============================================================================
