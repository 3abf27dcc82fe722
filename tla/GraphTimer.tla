----------------------------- MODULE GraphTimer -----------------------------
(***************************************************************************)
(* src/src/gsm-graph.c and load_graph_draw of src/src/load-graph.cpp: the  *)
(* timer that redraws a graph and, every so many frames, has it sample     *)
(* (load_graph_update_data, in LoadGraph).  The frames between two samples *)
(* follow the width of the window and the number of points, the period of  *)
(* the timer what they were when it was started.                           *)
(***************************************************************************)
EXTENDS Integers

CONSTANTS
  Speeds,           \* milliseconds between samples, as the settings have it
  Frames,           \* what width / (num_points - 2) comes to, at most 10
  FRAMES_PER_UNIT,  \* of a new graph: 10
  MaxTicks          \* bound

VARIABLES
  speed, frames_per_unit, render_counter,
  redraw_timeout,   \* the period of the timer, 0 without one
  delayed,          \* the second sample, 300 ms after the first start, is due
  draw, room,       \* is the graph shown, and how many frames fit
  waited,           \* history: ticks since the last sample
  settled           \* history: ticks since frames_per_unit changed

timerVars == <<speed, frames_per_unit, render_counter, redraw_timeout, delayed, draw, room,
               waited, settled>>

Init ==
  /\ speed \in Speeds /\ frames_per_unit = FRAMES_PER_UNIT
  /\ render_counter = FRAMES_PER_UNIT - 1
  /\ redraw_timeout = 0 /\ delayed = FALSE
  /\ draw = FALSE /\ room \in Frames
  /\ waited = 0 /\ settled = 0

Count(n) == IF n < MaxTicks THEN n + 1 ELSE n
Period(s) == IF frames_per_unit > 0 THEN s \div frames_per_unit ELSE s

(* _gsm_graph_update.                                                      *)
Wrapped_AtEnd(counter) == IF counter = frames_per_unit THEN 0 ELSE counter
Wrapped(counter) == IF counter >= frames_per_unit THEN 0 ELSE counter

_gsm_graph_update ==
  /\ redraw_timeout # 0
  /\ waited' = IF render_counter = frames_per_unit - 1 THEN 0 ELSE Count(waited)
  /\ settled' = Count(settled)
  /\ render_counter' = Wrapped(IF render_counter > MaxTicks THEN render_counter ELSE render_counter + 1)
  /\ UNCHANGED <<speed, frames_per_unit, redraw_timeout, delayed, draw, room>>

(* load_graph_draw: the frames fit the room; the timer is as it was.       *)
load_graph_draw ==
  /\ draw /\ frames_per_unit # room
  /\ frames_per_unit' = room
  /\ settled' = 0
  /\ UNCHANGED <<speed, render_counter, redraw_timeout, delayed, draw, room, waited>>

(* The window is resized, or graph-data-points changed.                    *)
Resize ==
  /\ room' \in Frames \ {room}
  /\ UNCHANGED <<speed, frames_per_unit, render_counter, redraw_timeout, delayed, draw, waited, settled>>

gsm_graph_start ==
  /\ draw' = TRUE
  /\ delayed' = (delayed \/ redraw_timeout = 0)
  /\ waited' = IF redraw_timeout = 0 THEN 0 ELSE waited
  /\ redraw_timeout' = Period(speed)
  /\ UNCHANGED <<speed, frames_per_unit, render_counter, room, settled>>

(* run_data_function.                                                      *)
Delayed ==
  /\ delayed
  /\ delayed' = FALSE /\ waited' = 0
  /\ UNCHANGED <<speed, frames_per_unit, render_counter, redraw_timeout, draw, room, settled>>

(* "don't draw anymore, but continue to poll"                              *)
gsm_graph_stop ==
  /\ draw /\ draw' = FALSE
  /\ UNCHANGED <<speed, frames_per_unit, render_counter, redraw_timeout, delayed, room, waited, settled>>

gsm_graph_set_speed ==
  /\ speed' \in Speeds \ {speed}
  /\ redraw_timeout' = IF redraw_timeout = 0 THEN 0 ELSE Period(speed')
  /\ UNCHANGED <<frames_per_unit, render_counter, delayed, draw, room, waited, settled>>

Next ==
  \/ _gsm_graph_update \/ load_graph_draw \/ Resize
  \/ gsm_graph_start \/ Delayed \/ gsm_graph_stop \/ gsm_graph_set_speed

Spec == Init /\ [][Next]_timerVars

-----------------------------------------------------------------------------
(* A graph goes on sampling, shown or not, however often it was started,   *)
(* stopped, resized and set to another speed: once the number of frames    *)
(* has settled for a round, not more than another passes without a sample. *)
SamplesEachRound ==
  redraw_timeout # 0 /\ frames_per_unit > 0 /\ settled > frames_per_unit => waited < frames_per_unit

(* What each step keeps: the first tick after the frames changed brings    *)
(* the counter below their number; a round later it has wrapped, and from  *)
(* then on it is not behind the ticks that were waited.                    *)
Types ==
  /\ speed \in Nat /\ frames_per_unit \in Nat /\ render_counter \in Nat /\ room \in Nat
  /\ waited \in 0..MaxTicks /\ settled \in 0..MaxTicks

KeepsCount ==
  settled >= 1 /\ frames_per_unit > 0 =>
    /\ render_counter < frames_per_unit
    /\ waited <= render_counter \/ settled <= render_counter + 1

Rounds == Types /\ KeepsCount
=============================================================================
