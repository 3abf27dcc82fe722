------------------------------ MODULE LoadGraph ------------------------------
(***************************************************************************)
(* src/src/load-graph.cpp: the ring of points of a graph, the rates of the *)
(* network and disk graphs, their scale and the background drawn for it.   *)
(* A refresh (gsm-graph.c calls load_graph_update_data, see GraphTimer)    *)
(* comes at any moment; devices, settings and the window change meanwhile. *)
(*                                                                         *)
(* A point is its rate and its age in refreshes: the code keeps the        *)
(* fraction of the scale instead and multiplies all of them when the scale *)
(* changes.  The points of "memory" stand for those of the graphs that     *)
(* have no scale; their figures are not told apart.                        *)
(***************************************************************************)
EXTENDS Integers, Sequences, FiniteSets, SequencesExt, GraphScale

CONSTANTS
  Types,            \* of "net", "disk" and "memory"
  Devices,
  Unit,             \* bytes in one step of a counter
  Steps,            \* by how many steps a counter moves
  Sizes,            \* the values of num_points
  None,             \* model value: no background
  MaxCounter, MaxElapsed, MaxRefreshes, MaxChanges   \* bounds

VARIABLES
  \* --- the machine ---
  counters,         \* device -> steps
  selected,         \* the devices that are counted
  moved,            \* history: steps of all devices since the last refresh
  elapsed,          \* since then
  \* --- the graph ---
  type, num_points,
  iteration,        \* 0, 1 or 2, which stands for more
  latest,
  data,             \* the points, newest first
  values,           \* net.values, disk.values: a ring
  max,
  last,             \* [in, hash, timed]: last_in, last_hash, time # 0
  num_bars,         \* 0 before the first drawing
  in_bits,
  background,
  overstated,       \* history: a rate was above what the devices moved
  resized,          \* history: the number of points was changed
  refreshes, changes

graphVars == <<counters, selected, moved, elapsed, type, num_points, iteration, latest, data,
               values, max, last, num_bars, in_bits, background, overstated, resized, refreshes, changes>>

machine  == <<counters, selected, moved, elapsed>>
ring     == <<num_points, resized, iteration, latest, data, values>>
counted  == <<max, last, overstated, refreshes>>
drawing  == <<num_bars, in_bits, background>>

NoPoint == [rate |-> -1, age |-> 0]
Oldest == CHOOSE n \in Sizes : \A m \in Sizes : m <= n
Points(n) == [i \in 1..n |-> NoPoint]

Init ==
  /\ counters = [d \in Devices |-> 0] /\ selected \in SUBSET Devices
  /\ moved = 0 /\ elapsed = 0
  /\ type \in Types /\ num_points \in Sizes
  /\ iteration = 0 /\ latest = 0
  /\ data = Points(num_points) /\ values = [i \in 0..(num_points - 1) |-> 0]
  /\ max = 1 /\ last = [in |-> 0, hash |-> {}, timed |-> FALSE]
  /\ num_bars = 0 /\ in_bits \in IF type = "net" THEN BOOLEAN ELSE {FALSE}
  /\ background = None
  /\ overstated = FALSE /\ resized = FALSE /\ refreshes = 0 /\ changes = 0

-----------------------------------------------------------------------------
Traffic(d, n) ==
  /\ type # "memory" /\ counters[d] + n <= MaxCounter
  /\ counters' = [counters EXCEPT ![d] = @ + n]
  /\ moved' = moved + n
  /\ UNCHANGED <<selected, elapsed, type, ring, counted, drawing, changes>>

Tick ==
  /\ elapsed < MaxElapsed
  /\ elapsed' = elapsed + 1
  /\ UNCHANGED <<counters, selected, moved, type, ring, counted, drawing, changes>>

(* A device is plugged in or gets an address, or it loses that; plugged in *)
(* again, it may count from 0.                                             *)
Attach(d) ==
  /\ type # "memory" /\ changes < MaxChanges /\ d \notin selected
  /\ changes' = changes + 1
  /\ selected' = selected \cup {d}
  /\ counters' \in {counters, [counters EXCEPT ![d] = 0]}
  /\ UNCHANGED <<moved, elapsed, type, ring, counted, drawing>>

Detach(d) ==
  /\ type # "memory" /\ changes < MaxChanges /\ d \in selected
  /\ changes' = changes + 1
  /\ selected' = selected \ {d}
  /\ UNCHANGED <<counters, moved, elapsed, type, ring, counted, drawing>>

-----------------------------------------------------------------------------
Total == SumFunctionOnSet(counters, selected)

(* Of handle_dynamic_max_value.                                            *)
have_rate_AnyDevices ==
  /\ Total >= last.in
  /\ last.timed /\ iteration # 0 /\ elapsed > 0

have_rate ==
  /\ Total >= last.in
  /\ last.hash = selected
  /\ last.timed /\ iteration # 0 /\ elapsed > 0

(* store_rate_history; latest' is of this refresh.                         *)
store_rate_history(rate) ==
  values' = [values EXCEPT ![IF latest' = 0 THEN num_points - 1 ELSE latest' - 1] = rate]

(* The rotation of data, and its new first element.                        *)
Push(point) ==
  data' = [i \in 1..num_points |->
             IF i = 1 THEN point
             ELSE [data[i - 1] EXCEPT !.age = IF @ > Oldest THEN @ ELSE @ + 1]]

Refresh ==
  /\ refreshes < MaxRefreshes /\ refreshes' = refreshes + 1
  /\ latest' = (latest + 1) % num_points
  /\ iteration' = IF iteration = 2 THEN 2 ELSE iteration + 1
  /\ moved' = 0 /\ elapsed' = 0

(* dynamic_scale without the point.                                        *)
Rescaled_KeepsBackground ==
  /\ IF in_bits /\ num_bars = 0 THEN UNCHANGED max
     ELSE max' = gsm_graph_scale_next({values'[i] * Unit : i \in DOMAIN values'}, max, in_bits, num_bars)
  /\ UNCHANGED background

Rescaled ==
  /\ IF in_bits /\ num_bars = 0 THEN UNCHANGED max
     ELSE max' = gsm_graph_scale_next({values'[i] * Unit : i \in DOMAIN values'}, max, in_bits, num_bars)
  /\ background' = IF max' # max THEN None ELSE background

(* get_net, get_disk.                                                      *)
RefreshRate ==
  /\ type # "memory" /\ Refresh /\ have_rate
  /\ LET rate == (Total - last.in) \div elapsed
     IN /\ store_rate_history(rate)
        /\ Push([rate |-> rate, age |-> 0])
        /\ overstated' = (overstated \/ rate * elapsed > moved)
  /\ Rescaled
  /\ last' = [in |-> Total, hash |-> selected, timed |-> TRUE]
  /\ UNCHANGED <<counters, selected, type, num_points, resized, num_bars, in_bits, changes>>

(* Nothing to take a difference with.                                      *)
RefreshNoRate ==
  /\ type # "memory" /\ Refresh /\ ~have_rate
  /\ store_rate_history(0) /\ Push(NoPoint)
  /\ last' = [in |-> Total, hash |-> selected, timed |-> TRUE]
  /\ UNCHANGED <<counters, selected, type, num_points, resized, max, overstated, drawing, changes>>

(* get_disk, when /proc/diskstats cannot be read.                          *)
RefreshFails ==
  /\ type = "disk" /\ Refresh
  /\ store_rate_history(0) /\ Push(NoPoint)
  /\ last' = [last EXCEPT !.timed = FALSE]
  /\ UNCHANGED <<counters, selected, type, num_points, resized, max, overstated, drawing, changes>>

(* get_memory, get_gpu: the first refresh writes no point.                 *)
RefreshMemory ==
  /\ type = "memory" /\ Refresh
  /\ Push(IF iteration = 0
          THEN [data[num_points] EXCEPT !.age = IF @ > Oldest THEN @ ELSE @ + 1]
          ELSE [rate |-> 0, age |-> 0])
  /\ UNCHANGED <<counters, selected, type, num_points, resized, values, max, last, overstated, drawing, changes>>

-----------------------------------------------------------------------------
(* load_graph_start; stop changes nothing here.                            *)
load_graph_start ==
  /\ changes < MaxChanges /\ changes' = changes + 1
  /\ iteration' = 0
  /\ UNCHANGED <<machine, type, num_points, resized, latest, data, values, counted, drawing>>

(* cb_logarithmic_scale_changed, cb_draw_stacked_changed.                  *)
load_graph_reset ==
  /\ type = "memory" /\ changes < MaxChanges /\ changes' = changes + 1
  /\ iteration' = 0 /\ data' = Points(num_points)
  /\ background' = None
  /\ UNCHANGED <<machine, type, num_points, resized, latest, values, counted, num_bars, in_bits>>

(* cb_network_in_bits_changed.                                             *)
ChangeUnits ==
  /\ type = "net" /\ changes < MaxChanges /\ changes' = changes + 1
  /\ in_bits' = ~in_bits /\ background' = None
  /\ UNCHANGED <<machine, type, ring, counted, num_bars>>

(* The points are put in order, the history of rates is not.               *)
load_graph_change_num_points ==
  /\ changes < MaxChanges /\ changes' = changes + 1
  /\ num_points' \in Sizes \ {num_points}
  /\ data' = [i \in 1..num_points' |-> IF i <= num_points THEN data[i] ELSE NoPoint]
  /\ values' = [i \in 0..(num_points' - 1) |-> IF i < num_points THEN values[i] ELSE 0]
  /\ latest' = 0 /\ resized' = TRUE
  /\ background' = None
  /\ UNCHANGED <<machine, type, iteration, counted, num_bars, in_bits>>

(* load_graph_draw, create_background.                                     *)
load_graph_draw ==
  /\ num_bars' = 5
  /\ background' = IF background = None
                   THEN [max |-> max, num_points |-> num_points, in_bits |-> in_bits]
                   ELSE background
  /\ <<num_bars, background>>' # <<num_bars, background>>
  /\ UNCHANGED <<machine, type, ring, counted, in_bits, changes>>

Next ==
  \/ \E d \in Devices : (\E n \in Steps : Traffic(d, n)) \/ Attach(d) \/ Detach(d)
  \/ Tick
  \/ RefreshRate \/ RefreshNoRate \/ RefreshFails \/ RefreshMemory
  \/ load_graph_start \/ load_graph_reset \/ ChangeUnits \/ load_graph_change_num_points
  \/ load_graph_draw

Spec == Init /\ [][Next]_graphVars

-----------------------------------------------------------------------------
(* handle_dynamic_max_value: no interface or disk that appears, vanishes   *)
(* or counts anew makes a rate above what was moved.                       *)
RatesNotOverstated == ~overstated

(* The labels of the axis are those of the scale the points are drawn to,  *)
(* however the scale, the units and the number of points changed.          *)
BackgroundIsCurrent ==
  background # None =>
    background = [max |-> max, num_points |-> num_points, in_bits |-> in_bits]

(* What makes the graph readable: the scale, "at or above" the peak of the *)
(* history (graphscale.h), is at or above every point that is drawn.  The  *)
(* network graph in bits waits for its first layout with that.             *)
PointsWithinScale ==
  type = "disk" /\ num_bars # 0 => \A i \in 1..num_points : data[i].rate * Unit <= max

(* That holds until the number of points is changed.                       *)
PointsWithinScaleAtFirst == resized \/ PointsWithinScale

-----------------------------------------------------------------------------
(* What they rest on.  The devices counted at the last refresh have moved  *)
(* no more than what was moved since.                                      *)
Peak == Cardinality(Devices) * MaxCounter
Counting ==
  /\ counters \in [Devices -> 0..MaxCounter] /\ selected \subseteq Devices
  /\ moved \in Nat /\ elapsed \in Nat
  /\ last \in [in : Nat, hash : SUBSET Devices, timed : BOOLEAN]
  /\ last.timed => /\ type # "memory"
                   /\ SumFunctionOnSet(counters, last.hash) <= last.in + moved

(* Until the number of points changes, each has its place in the history,  *)
(* and the scale fits both.                                                *)
Slot(i) == IF i <= latest THEN latest - i ELSE latest - i + num_points
Ring ==
  /\ num_points \in Sizes /\ latest \in 0..(num_points - 1)
  /\ data \in [1..num_points -> [rate : Int, age : Int]]
  /\ values \in [0..(num_points - 1) -> 0..Peak]
Scaled ==
  type = "disk" =>
    /\ in_bits = FALSE /\ max \in Nat
    /\ resized \/ \A i \in 1..num_points :
                    data[i].rate <= values[Slot(i)] /\ data[i].rate * Unit <= max
=============================================================================
