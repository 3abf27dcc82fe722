---------------------------- MODULE RefreshTimer ----------------------------
(***************************************************************************)
(* src/src/smooth_refresh.cpp, update_interval.h and the timer of          *)
(* src/src/proctable.cpp: the interval between two refreshes of the table  *)
(* grows while the program itself takes much CPU and shrinks again.  The   *)
(* timer is stopped and started by the pages, dialogs and actions, at any  *)
(* moment here; the setting changes while it runs or not.                  *)
(***************************************************************************)
EXTENDS Integers

CONSTANTS MIN_UPDATE_INTERVAL, MAX_UPDATE_INTERVAL, Settings

VARIABLES
  update_interval,  \* config.update_interval
  active,           \* the setting of smooth refresh
  interval,         \* SmoothRefresh::interval
  last_pcpu,        \* "low", "middle" or "high": below PCPU_LO, above PCPU_HI
  timeout           \* the period of the timer, 0 when there is none

timerVars == <<update_interval, active, interval, last_pcpu, timeout>>

Loads == {"low", "middle", "high"}
Clamp(x, low, high) == IF x > high THEN high ELSE IF x < low THEN low ELSE x

Init ==
  /\ update_interval \in Settings /\ active \in BOOLEAN
  /\ interval = update_interval /\ last_pcpu = "middle"
  /\ timeout = 0

(* SmoothRefresh::get without its effects.                                 *)
Stretched_Unbounded(pcpu) ==
  IF pcpu = "high" /\ last_pcpu = "high" THEN (interval * 11) \div 10
  ELSE IF interval # update_interval /\ pcpu = "low" /\ last_pcpu = "low"
  THEN (interval * 9) \div 10
  ELSE interval

Stretched(pcpu) ==
  Clamp(Clamp(Stretched_Unbounded(pcpu), update_interval, update_interval * 2),
        MIN_UPDATE_INTERVAL, MAX_UPDATE_INTERVAL)

(* cb_timeout: a changed interval is a new timer.                          *)
Refresh ==
  /\ timeout # 0
  /\ IF active
     THEN \E pcpu \in Loads :
            /\ interval' = Stretched(pcpu)
            /\ last_pcpu' = pcpu
            /\ timeout' = IF interval' # interval THEN interval' ELSE timeout
     ELSE UNCHANGED <<interval, last_pcpu, timeout>>
  /\ UNCHANGED <<update_interval, active>>

(* proctable_freeze, proctable_thaw.                                       *)
Freeze ==
  /\ timeout' = 0
  /\ UNCHANGED <<update_interval, active, interval, last_pcpu>>

Thaw ==
  /\ timeout = 0
  /\ timeout' = update_interval
  /\ UNCHANGED <<update_interval, active, interval, last_pcpu>>

(* cb_timeouts_changed, with SmoothRefresh::reset.                         *)
ChangeInterval_WithoutReset ==
  /\ update_interval' \in Settings \ {update_interval}
  /\ timeout' = IF timeout # 0 THEN update_interval' ELSE 0
  /\ UNCHANGED <<active, interval, last_pcpu>>

ChangeInterval ==
  /\ update_interval' \in Settings \ {update_interval}
  /\ interval' = update_interval' /\ last_pcpu' = "middle"
  /\ timeout' = IF timeout # 0 THEN update_interval' ELSE 0
  /\ UNCHANGED active

(* load_settings_value: nothing is reset.                                  *)
SwitchSmooth ==
  /\ active' = ~active
  /\ UNCHANGED <<update_interval, interval, last_pcpu, timeout>>

Next == Refresh \/ Freeze \/ Thaw \/ ChangeInterval \/ SwitchSmooth

Spec == Init /\ [][Next]_timerVars

-----------------------------------------------------------------------------
(* The assertions and the invariant of SmoothRefresh::get, and what they   *)
(* are for: however the setting, the switch and the timer change between   *)
(* two refreshes, the table waits at least the time of the setting and at  *)
(* most twice that.                                                        *)
IntervalInBounds ==
  /\ interval >= update_interval
  /\ interval <= MAX_UPDATE_INTERVAL
  /\ timeout # 0 => timeout \in update_interval..(2 * update_interval)

(* What each step keeps: the interval is stretched to twice the setting at *)
(* most, and a timer that runs has a period so bounded too.                *)
Stretches ==
  /\ update_interval \in Settings
  /\ interval \in update_interval..(2 * update_interval) /\ interval <= MAX_UPDATE_INTERVAL
  /\ timeout = 0 \/ timeout \in update_interval..(2 * update_interval)
=============================================================================
