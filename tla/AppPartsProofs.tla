--------------------------- MODULE AppPartsProofs ---------------------------
(***************************************************************************)
(* Theorems about the parts of MCAppParts, for any settings, frames,       *)
(* processes, versions, tabs, rows, mounts, memory maps, descriptors and   *)
(* bounds.  Each part keeps an invariant that its module states; the       *)
(* variables have the names that MCAppParts gives them in the instance of  *)
(* the part.                                                               *)
(***************************************************************************)
EXTENDS MCAppParts, SumTheorems, SequenceTheorems

partsVars == <<part, v1, v2, v3, v4, v5, from6>>

-----------------------------------------------------------------------------
(***************************************************************************)
(* RefreshTimer: update_interval v1, active v2, interval v3, last_pcpu v4, *)
(* timeout v5.                                                             *)
(***************************************************************************)
TimerInv == part = "timer" => Timer!Stretches

(* SmoothRefresh::get: clamped first to the setting and twice that, then   *)
(* to the bounds of every setting.                                         *)
LEMMA StretchedIsBounded ==
  ASSUME v1 \in Settings, v3 \in Int, NEW pcpu
  PROVE  Timer!Stretched(pcpu) \in v1..(2 * v1) /\ Timer!Stretched(pcpu) <= MAX_UPDATE_INTERVAL
<1>1. PICK x \in Int : x = Timer!Stretched_Unbounded(pcpu)
  <2>1. (v3 * 11) \div 10 \in Int /\ (v3 * 9) \div 10 \in Int
    OBVIOUS
  <2> QED
    BY <2>1 DEF Timer!Stretched_Unbounded
<1>2. v1 \in Nat /\ v1 >= MIN_UPDATE_INTERVAL /\ v1 <= MAX_UPDATE_INTERVAL
  BY IntervalsAssumption
<1>3. PICK y : y = Timer!Clamp(x, v1, v1 * 2)
  OBVIOUS
<1>4. y \in v1..(2 * v1)
  BY <1>2, <1>3 DEF Timer!Clamp
<1>5. Timer!Stretched(pcpu) = Timer!Clamp(y, MIN_UPDATE_INTERVAL, MAX_UPDATE_INTERVAL)
  BY <1>1, <1>3 DEF Timer!Stretched
<1> QED
  BY <1>2, <1>4, <1>5, IntervalsAssumption DEF Timer!Clamp

LEMMA TimerInvInit == Init => TimerInv
<1> SUFFICES ASSUME Timer!Init PROVE Timer!Stretches
  BY DEF Init, TimerInv, Pure, Readings, Cards, Reader
<1>1. v1 \in Settings /\ v3 = v1 /\ v5 = 0
  BY DEF Timer!Init
<1>2. v1 \in Nat /\ v1 <= MAX_UPDATE_INTERVAL
  BY <1>1, IntervalsAssumption
<1> QED
  BY <1>1, <1>2 DEF Timer!Stretches

LEMMA TimerInvNext == TimerInv /\ [Next]_partsVars => TimerInv'
<1> SUFFICES ASSUME part = "timer", Timer!Stretches, [Timer!Next]_<<v1, v2, v3, v4, v5>>
             PROVE  Timer!Stretches'
  BY DEF TimerInv, Next, partsVars, ReadInput, Pure, Readings, Cards, Reader
<1>1. v1 \in Settings /\ v1 \in Nat /\ v3 \in Int
  BY IntervalsAssumption DEF Timer!Stretches
<1>2. CASE Timer!Refresh
  <2>1. CASE v2
    <3>1. PICK pcpu : /\ v3' = Timer!Stretched(pcpu)
                      /\ v5' = IF v3' # v3 THEN v3' ELSE v5
                      /\ v1' = v1
      BY <1>2, <2>1 DEF Timer!Refresh
    <3>2. v3' \in v1..(2 * v1) /\ v3' <= MAX_UPDATE_INTERVAL
      BY <1>1, <3>1, StretchedIsBounded
    <3> QED
      BY <3>1, <3>2 DEF Timer!Stretches
  <2>2. CASE ~v2
    BY <1>2, <2>2 DEF Timer!Refresh, Timer!Stretches
  <2> QED
    BY <2>1, <2>2
<1>3. CASE Timer!Freeze
  BY <1>3 DEF Timer!Freeze, Timer!Stretches
<1>4. CASE Timer!Thaw
  BY <1>1, <1>4 DEF Timer!Thaw, Timer!Stretches
<1>5. CASE Timer!ChangeInterval
  <2>1. /\ v1' \in Settings /\ v3' = v1'
        /\ v5' = 0 \/ v5' = v1'
    BY <1>5 DEF Timer!ChangeInterval
  <2>2. PICK u \in Nat : u = v1' /\ u <= MAX_UPDATE_INTERVAL
    BY <2>1, IntervalsAssumption
  <2>3. u \in u..(2 * u)
    OBVIOUS
  <2>4. v3' = u /\ v3' <= MAX_UPDATE_INTERVAL /\ v3' \in v1'..(2 * v1')
    BY <2>1, <2>2, <2>3
  <2>5. v5' = 0 \/ v5' \in v1'..(2 * v1')
    BY <2>1, <2>2, <2>3
  <2> QED
    BY <2>1, <2>4, <2>5 DEF Timer!Stretches
<1>6. CASE Timer!SwitchSmooth
  BY <1>6 DEF Timer!SwitchSmooth, Timer!Stretches
<1>7. CASE UNCHANGED <<v1, v2, v3, v4, v5>>
  BY <1>7 DEF Timer!Stretches
<1> QED
  BY <1>2, <1>3, <1>4, <1>5, <1>6, <1>7 DEF Timer!Next

-----------------------------------------------------------------------------
(***************************************************************************)
(* GraphTimer: speed v1, frames_per_unit v2, render_counter v3,            *)
(* redraw_timeout v4, delayed v5, draw v6, room v7, waited v8, settled v9. *)
(***************************************************************************)
RedrawInv == part = "redraw" => Redraw!Rounds

redrawVars == <<v1, v2, v3, v4, v5, v6, v7, v8, v9>>

LEMMA RedrawInvInit == Init => RedrawInv
<1> SUFFICES ASSUME Redraw!Init PROVE Redraw!Rounds
  BY DEF Init, RedrawInv, Pure, Readings, Cards, Reader
<1> QED
  BY FramesAssumption DEF Redraw!Init, Redraw!Rounds, Redraw!Types, Redraw!KeepsCount

LEMMA CountIsBounded ==
  ASSUME NEW n \in 0..MaxTicks
  PROVE  /\ Redraw!Count(n) \in 0..MaxTicks
         /\ Redraw!Count(n) = n + 1 \/ (Redraw!Count(n) = n /\ n = MaxTicks)
BY FramesAssumption DEF Redraw!Count

(* A tick: either the counter wraps, with a sample unless it was left      *)
(* beyond the frames when they became fewer, or it goes up by one.         *)
LEMMA TickKeepsCount ==
  ASSUME Redraw!Rounds, Redraw!_gsm_graph_update
  PROVE  Redraw!Rounds'
<1>1. PICK c \in Nat : c = v3
  BY DEF Redraw!Rounds, Redraw!Types
<1>2. PICK w \in 0..MaxTicks : w = v8
  BY DEF Redraw!Rounds, Redraw!Types
<1>3. PICK s \in 0..MaxTicks : s = v9
  BY DEF Redraw!Rounds, Redraw!Types
<1>4. PICK f \in Nat : f = v2
  BY DEF Redraw!Rounds, Redraw!Types
<1>5. PICK d : d = IF c > MaxTicks THEN c ELSE c + 1
  OBVIOUS
<1>6. /\ v8' = (IF c = f - 1 THEN 0 ELSE Redraw!Count(w))
      /\ v9' = Redraw!Count(s)
      /\ v3' = (IF d >= f THEN 0 ELSE d)
      /\ v1' = v1 /\ v2' = v2 /\ v7' = v7
  BY <1>1, <1>2, <1>3, <1>4, <1>5 DEF Redraw!_gsm_graph_update, Redraw!Wrapped
<1>7. v9' \in 0..MaxTicks /\ (v9' = s + 1 \/ v9' = s)
  BY <1>6, CountIsBounded
<1>8. v8' \in 0..MaxTicks /\ (v8' = 0 \/ (c # f - 1 /\ (v8' = w + 1 \/ v8' = w)))
  BY <1>6, CountIsBounded, FramesAssumption
<1>9. Redraw!Types'
  BY <1>1, <1>4, <1>5, <1>6, <1>7, <1>8 DEF Redraw!Rounds, Redraw!Types
<1>10. s >= 1 /\ f > 0 => c < f /\ (w <= c \/ s <= c + 1)
  BY <1>1, <1>2, <1>3, <1>4 DEF Redraw!Rounds, Redraw!KeepsCount
<1>11. ASSUME v9' >= 1, f > 0
       PROVE  v3' < f /\ (v8' <= v3' \/ v9' <= v3' + 1)
  <2>1. v3' < f /\ v3' \in Nat
    BY <1>5, <1>6, <1>11
  <2>2. CASE s = 0
    <3>1. PICK r \in Nat : r = v3'
      BY <2>1
    <3>2. v9' = 0 \/ v9' = 1
      BY <1>7, <2>2
    <3> QED
      BY <2>1, <3>1, <3>2
  <2>3. CASE s >= 1 /\ c = f - 1
    BY <1>6, <2>1, <2>3
  <2>4. CASE s >= 1 /\ c # f - 1
    BY <1>5, <1>6, <1>7, <1>8, <1>10, <1>11, <2>4, FramesAssumption
  <2> QED
    BY <2>2, <2>3, <2>4
<1> QED
  BY <1>4, <1>6, <1>9, <1>11 DEF Redraw!Rounds, Redraw!KeepsCount

LEMMA RedrawInvNext == RedrawInv /\ [Next]_partsVars => RedrawInv'
<1> SUFFICES ASSUME part = "redraw", Redraw!Rounds, [Redraw!Next]_redrawVars
             PROVE  Redraw!Rounds'
  BY DEF RedrawInv, Next, partsVars, redrawVars, from6, ReadInput, Pure, Readings, Cards, Reader
<1> USE DEF Redraw!Rounds, Redraw!Types, Redraw!KeepsCount
<1>1. CASE Redraw!_gsm_graph_update
  BY <1>1, TickKeepsCount
<1>2. CASE Redraw!load_graph_draw
  BY <1>2, FramesAssumption DEF Redraw!load_graph_draw
<1>3. CASE Redraw!Resize
  BY <1>3, FramesAssumption DEF Redraw!Resize
<1>4. CASE Redraw!gsm_graph_start
  BY <1>4, FramesAssumption DEF Redraw!gsm_graph_start
<1>5. CASE Redraw!Delayed
  BY <1>5, FramesAssumption DEF Redraw!Delayed
<1>6. CASE Redraw!gsm_graph_stop
  BY <1>6 DEF Redraw!gsm_graph_stop
<1>7. CASE Redraw!gsm_graph_set_speed
  BY <1>7, FramesAssumption DEF Redraw!gsm_graph_set_speed
<1>8. CASE UNCHANGED redrawVars
  BY <1>8 DEF redrawVars
<1> QED
  BY <1>1, <1>2, <1>3, <1>4, <1>5, <1>6, <1>7, <1>8 DEF Redraw!Next

(* However the setting and the switch of smooth refresh change and the     *)
(* timer is stopped and started, the table waits between once and twice    *)
(* the setting (SmoothRefresh::get); and a graph samples once a round,     *)
(* however it is started, stopped and resized (_gsm_graph_update).         *)
THEOREM TimersKeepTime == Spec => []TimersSound
<1>1. TimerInv /\ RedrawInv => TimersSound
  <2>1. Timer!Stretches => Timer!IntervalInBounds
    <3> SUFFICES ASSUME Timer!Stretches PROVE Timer!IntervalInBounds
      OBVIOUS
    <3>1. v1 \in Nat
      BY IntervalsAssumption DEF Timer!Stretches
    <3> QED
      BY <3>1 DEF Timer!Stretches, Timer!IntervalInBounds
  <2>2. Redraw!Rounds => Redraw!SamplesEachRound
    BY DEF Redraw!Rounds, Redraw!Types, Redraw!KeepsCount, Redraw!SamplesEachRound
  <2> QED
    BY <2>1, <2>2 DEF TimerInv, RedrawInv, TimersSound
<1> QED
  BY <1>1, TimerInvInit, TimerInvNext, RedrawInvInit, RedrawInvNext, PTL DEF Spec, partsVars

-----------------------------------------------------------------------------
(***************************************************************************)
(* ProcActions: alive v1, starts v2, rows v3, selected v4, properties v5,  *)
(* shown v6, turns v7, timeout v8, dismissed v9, question v10, actions     *)
(* v11, begun v12, astray v13, freed v14.                                  *)
(***************************************************************************)
ActionsInv == part = "actions" => Actions!Thawed

actionVars == <<v1, v2, v3, v4, v5, v6, v7, v8, v9, v10, v11, v12, v13, v14>>

IsAction(a) ==
  a = [kind |-> a.kind, asked |-> a.asked, infos |-> a.infos, now |-> a.now, stage |-> a.stage]

LEMMA ActionsInvInit == Init => ActionsInv
<1> SUFFICES ASSUME Actions!Init PROVE Actions!Thawed
  BY DEF Init, ActionsInv, Pure, Readings, Cards, Reader
<1> QED
  BY DEF Actions!Init, Actions!Thawed, Actions!Types, Actions!SomeoneThaws

(* Update keeps rows of processes.                                         *)
LEMMA UpdateKeepsTypes ==
  ASSUME Actions!Types, Actions!Update, v1' = v1
  PROVE  v3' \subseteq Actions!Procs /\ v4' \subseteq Actions!Procs
BY DEF Actions!Types, Actions!Update, Actions!Holding

(* What begins is an action of the kind it was begun with.                 *)
LEMMA BegunIsAction ==
  ASSUME Actions!Types, NEW kind, NEW asked, NEW infos, Actions!Begin(kind, asked, infos)
  PROVE  /\ \A a \in v11' : IsAction(a)
         /\ v11 \subseteq v11'
         /\ \E a \in v11' : a.kind = kind
<1>1. PICK b : b = [kind |-> kind, asked |-> asked, infos |-> Tail(infos), now |-> Head(infos),
                    stage |-> "direct"]
  OBVIOUS
<1>2. v11' = v11 \cup {b}
  BY <1>1 DEF Actions!Begin
<1>3. IsAction(b) /\ b.kind = kind
  BY <1>1 DEF IsAction
<1> QED
  BY <1>2, <1>3 DEF Actions!Types, IsAction

(* What goes on is still an action of its kind.                            *)
LEMMA ReplacedIsAction ==
  ASSUME Actions!Types, NEW a \in v11, NEW b, IsAction(b), b.kind = a.kind,
         v11' = (v11 \ {a}) \cup {b}
  PROVE  /\ \A c \in v11' : IsAction(c)
         /\ (\E c \in v11 : c.kind # "affinity") => \E c \in v11' : c.kind # "affinity"
BY DEF Actions!Types, IsAction

LEMMA AskedThaws ==
  ASSUME Actions!Thawed, NEW asked, asked \subseteq Actions!Procs, Actions!AskAbout(asked)
  PROVE  Actions!Thawed'
<1>1. v10' = asked /\ asked # None
  BY ActedOnAssumption DEF Actions!AskAbout, Actions!Procs
<1> QED
  BY <1>1 DEF Actions!AskAbout, Actions!machine, Actions!table, Actions!window,
              Actions!Thawed, Actions!Types, Actions!SomeoneThaws

(* A step of one action: it goes on, or it ends and thaws the table unless *)
(* it was an affinity.                                                     *)
LEMMA ActionStepThaws ==
  ASSUME Actions!Thawed, NEW a \in v11,
         \/ Actions!CallSucceeds(a) \/ Actions!CallRefused(a) \/ Actions!CallFails(a)
         \/ Actions!Helper(a) \/ Actions!NextInfo(a) \/ Actions!End(a)
  PROVE  Actions!Thawed'
<1> USE DEF Actions!machine, Actions!table, Actions!window, Actions!timer
<1>1. IsAction(a)
  BY DEF Actions!Thawed, Actions!Types, IsAction
<1>2. ASSUME NEW b, IsAction(b), b.kind = a.kind, Actions!Replace(a, b),
             UNCHANGED <<v1, v3, v4, v6, v8, v9, v10>>
      PROVE  Actions!Thawed'
  <2>1. v11' = (v11 \ {a}) \cup {b}
    BY <1>2 DEF Actions!Replace
  <2>2. /\ \A c \in v11' : IsAction(c)
        /\ (\E c \in v11 : c.kind # "affinity") => \E c \in v11' : c.kind # "affinity"
    BY <1>2, <2>1, ReplacedIsAction DEF Actions!Thawed
  <2> QED
    BY <1>2, <2>2 DEF Actions!Thawed, Actions!Types, Actions!SomeoneThaws, IsAction
<1>3. ASSUME NEW stage, Actions!Replace(a, [a EXCEPT !.stage = stage]),
             UNCHANGED <<v1, v3, v4, v6, v8, v9, v10>>
      PROVE  Actions!Thawed'
  <2>1. IsAction([a EXCEPT !.stage = stage]) /\ [a EXCEPT !.stage = stage].kind = a.kind
    BY <1>1 DEF IsAction
  <2> QED
    BY <1>2, <1>3, <2>1
<1>4. CASE Actions!CallSucceeds(a)
  BY <1>3, <1>4 DEF Actions!CallSucceeds
<1>5. CASE Actions!CallRefused(a)
  BY <1>3, <1>5 DEF Actions!CallRefused
<1>6. CASE Actions!CallFails(a)
  BY <1>3, <1>6 DEF Actions!CallFails
<1>7. CASE Actions!Helper(a)
  BY <1>3, <1>7 DEF Actions!Helper
<1>8. CASE Actions!NextInfo(a)
  <2>1. PICK b : b = [a EXCEPT !.infos = Tail(@), !.now = Head(a.infos), !.stage = "direct"]
    OBVIOUS
  <2>2. IsAction(b) /\ b.kind = a.kind
    BY <1>1, <2>1 DEF IsAction
  <2> QED
    BY <1>2, <1>8, <2>1, <2>2 DEF Actions!NextInfo
<1>9. CASE Actions!End(a)
  <2>1. v11' = v11 \ {a} /\ UNCHANGED <<v1, v6, v10>>
    BY <1>9 DEF Actions!End
  <2>2. CASE a.kind = "affinity"
    <3>1. UNCHANGED <<v3, v4, v8, v9>>
      BY <1>9, <2>2 DEF Actions!End
    <3> QED
      BY <2>1, <2>2, <3>1 DEF Actions!Thawed, Actions!Types, Actions!SomeoneThaws
  <2>3. CASE a.kind # "affinity"
    <3>1. v8' /\ Actions!Update
      BY <1>9, <2>3 DEF Actions!End, Actions!Thaw
    <3>2. v3' \subseteq Actions!Procs /\ v4' \subseteq Actions!Procs
      BY <2>1, <3>1, UpdateKeepsTypes DEF Actions!Thawed
    <3> QED
      BY <2>1, <3>1, <3>2 DEF Actions!Thawed, Actions!Types, Actions!SomeoneThaws
  <2> QED
    BY <2>2, <2>3
<1> QED
  BY <1>4, <1>5, <1>6, <1>7, <1>8, <1>9

LEMMA ActionsInvNext == ActionsInv /\ [Next]_partsVars => ActionsInv'
<1> SUFFICES ASSUME part = "actions", Actions!Thawed, [Actions!Next]_actionVars
             PROVE  Actions!Thawed'
  BY DEF ActionsInv, Next, partsVars, actionVars, from6, ReadInput, Pure, Readings, Cards, Reader
<1> USE DEF Actions!machine, Actions!table, Actions!window, Actions!timer, Actions!history
<1>1. Actions!Types
  BY DEF Actions!Thawed
<1>2. ASSUME UNCHANGED <<v1, v3, v4, v6, v8, v9, v10, v11>> PROVE Actions!Thawed'
  BY <1>2 DEF Actions!Thawed, Actions!Types, Actions!SomeoneThaws
<1>3. ASSUME UNCHANGED <<v1, v11>>, Actions!Update, v8' \/ UNCHANGED <<v6, v8, v9, v10>>
      PROVE  Actions!Thawed'
  <2>1. v3' \subseteq Actions!Procs /\ v4' \subseteq Actions!Procs
    BY <1>1, <1>3, UpdateKeepsTypes
  <2> QED
    BY <1>3, <2>1 DEF Actions!Thawed, Actions!Types, Actions!SomeoneThaws
<1>4. ASSUME NEW p \in Actions!Procs, Actions!Start(p) \/ Actions!Exit(p)
      PROVE  Actions!Thawed'
  <2>1. v1' \subseteq Actions!Procs /\ UNCHANGED <<v3, v4, v6, v8, v9, v10, v11>>
    BY <1>1, <1>4 DEF Actions!Start, Actions!Exit, Actions!Types
  <2> QED
    BY <2>1 DEF Actions!Thawed, Actions!Types, Actions!SomeoneThaws
<1>5. ASSUME NEW p \in Actions!Procs, Actions!ShowProperties(p) PROVE Actions!Thawed'
  BY <1>2, <1>5 DEF Actions!ShowProperties
<1>6. ASSUME NEW kind, NEW asked, NEW infos, Actions!Begin(kind, asked, infos),
             UNCHANGED <<v1, v3, v4, v6, v9, v10>>,
             kind # "affinity" \/ UNCHANGED v8
      PROVE  Actions!Thawed'
  <2>1. /\ \A a \in v11' : IsAction(a)
        /\ v11 \subseteq v11'
        /\ \E a \in v11' : a.kind = kind
    BY <1>1, <1>6, BegunIsAction
  <2> QED
    BY <1>6, <2>1 DEF Actions!Thawed, Actions!Types, Actions!SomeoneThaws, IsAction
<1>7. ASSUME NEW p \in Actions!Procs, Actions!SetAffinity(p) PROVE Actions!Thawed'
  BY <1>6, <1>7 DEF Actions!SetAffinity
<1>8. CASE Actions!Refresh
  BY <1>3, <1>8 DEF Actions!Refresh
<1>9. CASE Actions!RefreshNow
  BY <1>3, <1>9 DEF Actions!RefreshNow
<1>10. CASE Actions!TurnAway
  BY <1>10 DEF Actions!TurnAway, Actions!Thawed, Actions!Types, Actions!SomeoneThaws
<1>11. CASE Actions!TurnBack
  BY <1>3, <1>11 DEF Actions!TurnBack, Actions!Thaw
<1>12. ASSUME NEW S \in SUBSET v3, Actions!Select(S) PROVE Actions!Thawed'
  BY <1>12 DEF Actions!Select, Actions!Thawed, Actions!Types, Actions!SomeoneThaws
<1>13. ASSUME NEW kind \in Kinds \ {"affinity"}, Actions!ActOnSelection(kind)
       PROVE  Actions!Thawed'
  BY <1>6, <1>13 DEF Actions!ActOnSelection, Actions!Freeze
<1>14. CASE Actions!ActOnProperties
  BY <1>6, <1>14 DEF Actions!ActOnProperties, Actions!Freeze
<1>15. CASE Actions!AskFromWindow
  BY <1>1, <1>15, AskedThaws DEF Actions!AskFromWindow, Actions!Types
<1>16. CASE Actions!AskFromProperties
  <2>1. PICK asked \in SUBSET Actions!Procs : Actions!AskAbout(asked)
    BY <1>1, <1>16 DEF Actions!AskFromProperties, Actions!Holding, Actions!Types
  <2> QED
    BY <2>1, AskedThaws
<1>17. CASE Actions!Cancel
  BY <1>17 DEF Actions!Cancel, Actions!Thawed, Actions!Types, Actions!SomeoneThaws
<1>18. CASE Actions!Confirm
  <2>1. PICK infos : Actions!Begin("kill", v10, infos)
    BY <1>18 DEF Actions!Confirm
  <2>2. /\ \A a \in v11' : IsAction(a)
        /\ \E a \in v11' : a.kind = "kill"
    BY <1>1, <2>1, BegunIsAction
  <2>3. v3' \subseteq Actions!Procs /\ v4' \subseteq Actions!Procs /\ v1' = v1
    BY <1>1, <1>18, UpdateKeepsTypes DEF Actions!Confirm
  <2> QED
    BY <1>1, <2>2, <2>3 DEF Actions!Thawed, Actions!Types, Actions!SomeoneThaws, IsAction
<1>19. CASE Actions!NoRowToActOn
  BY <1>2, <1>19 DEF Actions!NoRowToActOn
<1>20. ASSUME NEW a \in v11,
              \/ Actions!CallSucceeds(a) \/ Actions!CallRefused(a) \/ Actions!CallFails(a)
              \/ Actions!Helper(a) \/ Actions!NextInfo(a) \/ Actions!End(a)
       PROVE  Actions!Thawed'
  BY <1>20, ActionStepThaws
<1>21. CASE UNCHANGED actionVars
  BY <1>2, <1>21 DEF actionVars
<1> QED
  BY <1>4, <1>5, <1>7, <1>8, <1>9, <1>10, <1>11, <1>12, <1>13, <1>14, <1>15, <1>16, <1>17,
     <1>18, <1>19, <1>20, <1>21 DEF Actions!Next

(* Whatever overlaps, fails or exits (kill_process, renice, did_kill,      *)
(* kill_dialog_choose, update_page_activities): while the table is on the  *)
(* screen and nothing is asked or done its timer runs, unless a question   *)
(* was cancelled.                                                          *)
THEOREM OnlyCancelFreezes == Spec => []FrozenByCancelOnly
<1>1. ActionsInv => FrozenByCancelOnly
  BY DEF ActionsInv, FrozenByCancelOnly, Actions!Thawed, Actions!SomeoneThaws,
         Actions!FrozenByCancelOnly, Actions!TableRefreshes
<1> QED
  BY <1>1, ActionsInvInit, ActionsInvNext, PTL DEF Spec, partsVars

-----------------------------------------------------------------------------
(***************************************************************************)
(* DevIpc: window v1, visible v2, styled v3, selection v4, expanded v5,    *)
(* switch v6, setting v7, idle v8, serving v9, painted v10, reply v11,     *)
(* commands v12, acts v13, alone v14, hurried v15.                         *)
(***************************************************************************)
SocketInv == part = "socket" => Socket!Served

socketVars == <<v1, v2, v3, v4, v5, v6, v7, v8, v9, v10, v11, v12, v13, v14, v15>>

LEMMA Least ==
  ASSUME NEW S, IsFiniteSet(S), S # {}, S \subseteq Int
  PROVE  Socket!Min(S) \in S
<1> DEFINE Ordered == {T \in SUBSET S : T # {} => \E m \in T : \A x \in T : m <= x}
<1>1. {} \in Ordered
  OBVIOUS
<1>2. ASSUME NEW T \in SUBSET S, T \in Ordered, NEW y \in S \ T PROVE T \cup {y} \in Ordered
  <2>1. CASE T = {}
    BY <2>1
  <2>2. CASE T # {}
    <3>1. PICK m \in T : \A x \in T : m <= x
      BY <1>2, <2>2
    <3>2. PICK n \in T \cup {y} : n = IF y < m THEN y ELSE m
      BY <3>1
    <3>3. \A x \in T \cup {y} : n <= x
      BY <3>1, <3>2
    <3> QED
      BY <3>2, <3>3
  <2> QED
    BY <2>1, <2>2
<1> HIDE DEF Ordered
<1>3. S \in Ordered
  BY <1>1, <1>2, FiniteInduction
<1> QED
  BY <1>3 DEF Ordered, Socket!Min

(* The row that a select finds, if any, is one that has what was asked.    *)
LEMMA FoundRow ==
  ASSUME NEW c, Socket!select_row_matching(c) # {}
  PROVE  /\ Socket!Min(Socket!select_row_matching(c)) \in DOMAIN ListRows
         /\ c.pid # None => ListRows[Socket!Min(Socket!select_row_matching(c))].pid = c.pid
<1>1. PICK found \in SUBSET (DOMAIN ListRows) : found = Socket!select_row_matching(c)
  BY DEF Socket!select_row_matching
<1>2. PICK n \in Nat : DOMAIN ListRows = 1..n
  BY RowsAssumption, LenProperties
<1>3. IsFiniteSet(1..n)
  BY <1>2, FS_Interval
<1>4. IsFiniteSet(found) /\ found \subseteq Int
  BY <1>1, <1>2, <1>3, FS_Subset
<1>5. PICK i : i = Socket!Min(found)
  OBVIOUS
<1>6. i \in found
  BY <1>1, <1>4, <1>5, Least
<1> QED
  BY <1>1, <1>5, <1>6 DEF Socket!select_row_matching

LEMMA SocketInvInit == Init => SocketInv
<1> SUFFICES ASSUME Socket!Init PROVE Socket!Served
  BY DEF Init, SocketInv, Pure, Readings, Cards, Reader
<1> QED
  BY DEF Socket!Init, Socket!Served, Socket!Nested, Socket!Sound, Socket!ShotIsWhole,
         Socket!SelectedIsAsked, Socket!WindowOutlivesHandlers

(* A command that is no shot is answered before the loop goes on.          *)
LEMMA ServedAtOnce ==
  ASSUME Socket!Served, NEW c, Socket!on_incoming(c)
  PROVE  Socket!Served'
<1> USE DEF Socket!Says, Socket!app
<1>1. /\ v9 = None /\ v9' = None /\ v1 = "open" /\ v14' = TRUE /\ v15' = v15
      /\ c.verb # "shot" /\ Socket!handle_command(c)
  BY DEF Socket!on_incoming, Socket!Free
<1>2. PICK ok, what : v11' = [command |-> c, ok |-> ok, what |-> what]
  BY <1>1 DEF Socket!handle_command, Socket!cmd_tab, Socket!cmd_select, Socket!cmd_toggle,
              Socket!cmd_set, Socket!Report, Socket!CloseWhenIdle
<1>3. v1' = v1
  BY <1>1 DEF Socket!handle_command, Socket!cmd_tab, Socket!cmd_select, Socket!cmd_toggle,
              Socket!cmd_set, Socket!Report, Socket!CloseWhenIdle
<1>4. v11'.command = c /\ v11'.ok = ok /\ v11'.what = what
  BY <1>2
<1>5. ASSUME c.verb = "select", ok
      PROVE  v4' = {what} /\ (c.pid # None => v4' = {c.pid})
  <2>1. Socket!cmd_select(c)
    BY <1>1, <1>5 DEF Socket!handle_command
  <2>2. PICK found : found = Socket!select_row_matching(c)
    OBVIOUS
  <2>3. found # {}
    BY <1>2, <1>5, <2>1, <2>2 DEF Socket!cmd_select
  <2>4. PICK i \in DOMAIN ListRows : i = Socket!Min(found) /\ (c.pid # None => ListRows[i].pid = c.pid)
    BY <2>2, <2>3, FoundRow
  <2>5. Socket!select_row(i) /\ v11' = [command |-> c, ok |-> TRUE, what |-> ListRows[i].pid]
    BY <2>1, <2>2, <2>3, <2>4 DEF Socket!cmd_select
  <2>6. v4' = {ListRows[i].pid}
    BY <2>5 DEF Socket!select_row
  <2>7. what = ListRows[i].pid
    BY <1>2, <2>5
  <2> QED
    BY <2>4, <2>6, <2>7
<1>6. Socket!ShotIsWhole'
  BY <1>1, <1>4 DEF Socket!ShotIsWhole
<1>7. Socket!SelectedIsAsked'
  BY <1>4, <1>5 DEF Socket!SelectedIsAsked
<1>8. Socket!WindowOutlivesHandlers'
  BY <1>1, <1>3 DEF Socket!WindowOutlivesHandlers
<1> QED
  BY <1>1, <1>6, <1>7, <1>8 DEF Socket!Served, Socket!Nested, Socket!Sound

LEMMA SocketInvNext == SocketInv /\ [Next]_partsVars => SocketInv'
<1> SUFFICES ASSUME part = "socket", Socket!Served, [Socket!Next]_socketVars
             PROVE  Socket!Served'
  BY DEF SocketInv, Next, partsVars, socketVars, from6, ReadInput, Pure, Readings, Cards, Reader
<1> USE DEF Socket!app, Socket!Nested, Socket!Served, Socket!Sound, Socket!ShotIsWhole,
            Socket!SelectedIsAsked, Socket!WindowOutlivesHandlers
<1>1. ASSUME NEW c \in Socket!Commands, Socket!on_incoming(c) PROVE Socket!Served'
  BY <1>1, ServedAtOnce
<1>2. ASSUME NEW c \in Socket!Commands, Socket!Shot(c) PROVE Socket!Served'
  <2>1. c # None
    BY CommandsAssumption
  <2> QED
    BY <1>2, <2>1 DEF Socket!Shot, Socket!BeginShot, Socket!Free
<1>3. CASE Socket!Paint
  BY <1>3 DEF Socket!Paint
<1>4. CASE Socket!FrameTimeout
  BY <1>4 DEF Socket!FrameTimeout
<1>5. CASE Socket!TakeShot
  <2>1. PICK r : r = [page |-> v2, button |-> v3, painted |-> v10, alone |-> v14]
    OBVIOUS
  <2>2. v11' = [command |-> v9, ok |-> TRUE, what |-> r]
    BY <1>5, <2>1 DEF Socket!TakeShot, Socket!Says
  <2>3. v11'.command.verb = "shot" /\ v11'.what = r
    BY <1>5, <2>2 DEF Socket!TakeShot
  <2>4. r.painted = "yes" /\ r.alone => r.page = r.button
    BY <1>5, <2>1 DEF Socket!TakeShot
  <2>5. v9' = None /\ v15' = v15 /\ (v1' = v1 \/ v1' = "closed")
    BY <1>5 DEF Socket!TakeShot
  <2> QED
    BY <2>3, <2>4, <2>5
<1>6. CASE Socket!Close
  BY <1>6 DEF Socket!Close
<1>7. CASE Socket!Quit
  BY <1>7 DEF Socket!Quit
<1>8. ASSUME NEW pid \in v5, Socket!UserCollapses(pid) PROVE Socket!Served'
  BY <1>8 DEF Socket!UserCollapses, Socket!Act
<1>9. ASSUME NEW t \in Tabs, Socket!UserTurnsTo(t) PROVE Socket!Served'
  BY <1>9 DEF Socket!UserTurnsTo, Socket!Act
<1>10. CASE Socket!UserCloses
  BY <1>10 DEF Socket!UserCloses, Socket!Act
<1>11. CASE UNCHANGED socketVars
  BY <1>11 DEF socketVars
<1> QED
  BY <1>1, <1>2, <1>3, <1>4, <1>5, <1>6, <1>7, <1>8, <1>9, <1>10, <1>11 DEF Socket!Next

(* Whatever the loop runs from inside a shot's handler (cmd_shot,          *)
(* wait_for_next_frame, close_window_idle): a picture that was painted has *)
(* the button of its page, the row selected is the one asked for, and the  *)
(* window is closed under a handler only when a close was hurried.         *)
THEOREM SocketTellsTheTruth == Spec => []SocketSound
<1>1. SocketInv => SocketSound
  BY DEF SocketInv, SocketSound, Socket!Served
<1> QED
  BY <1>1, SocketInvInit, SocketInvNext, PTL DEF Spec, partsVars

-----------------------------------------------------------------------------
(***************************************************************************)
(* DevChannel: content v1, current v2, previous v3, export v4, backup v5,  *)
(* saved v6, command v7, commands v8, original v9, before v10, cut v11,    *)
(* torn v12, halted v13.                                                   *)
(***************************************************************************)
ChannelInv == part = "channel" => Channel!Kept

installVars == <<v1, v2, v3, v4, v5, v6, v7, v8, v9, v10, v11, v12, v13>>

Commands == [do : Channel!Steps, version : Versions, done : 0..2]

LEMMA FileNames ==
  /\ Channel!AllFiles = <<"desktop", "schema", "compiled">> /\ Len(Channel!AllFiles) = 3
  /\ Len(Channel!EXPORTS) = 2
  /\ Channel!Files = {"desktop", "schema", "compiled"}
<1>1. Channel!EXPORTS = <<"desktop", "schema">> /\ Channel!Compiled = "compiled"
  BY DEF Channel!EXPORTS, Channel!Compiled
<1>2. Channel!AllFiles = <<"desktop", "schema", "compiled">>
  BY <1>1 DEF Channel!AllFiles
<1>3. Channel!Files = {"desktop", "schema", "compiled"}
  BY <1>1 DEF Channel!Files
<1> QED
  BY <1>1, <1>2, <1>3

LEMMA ChannelInvInit == Init => ChannelInv
<1> SUFFICES ASSUME Channel!Init PROVE Channel!Kept
  BY DEF Init, ChannelInv, Pure, Readings, Cards, Reader
<1> USE DEF Channel!Init, Channel!At
<1>1. Channel!Types
  BY FileNames DEF Channel!Types, Channel!Held
<1>2. Channel!Directories
  BY DEF Channel!Directories, Channel!LinkedAreComplete
<1>3. Channel!Links
  BY DEF Channel!Links, Channel!WayBack
<1>4. Channel!Exports
  BY DEF Channel!Exports
<1> QED
  BY <1>1, <1>2, <1>3, <1>4 DEF Channel!Kept

(* A command begins with its first step.                                   *)
LEMMA CommandBegins ==
  ASSUME NEW do \in Channel!Steps, NEW v \in Versions, Channel!Command(do, v)
  PROVE  /\ v7 = None /\ v7' \in Commands /\ v7' # None
         /\ v7'.do = do /\ v7'.version = v /\ v7'.done = 0
<1>1. v7 = None /\ v7' = [do |-> do, version |-> v, done |-> 0]
  BY DEF Channel!Command
<1>2. v7' \in [do : Channel!Steps, version : Versions, done : Nat] /\ v7' \in Commands
  BY <1>1 DEF Commands
<1> QED
  BY <1>1, <1>2, VersionsAssumption

(* And goes on with the next, for the same version.                        *)
LEMMA CommandGoesOn ==
  ASSUME Channel!Types, v7 # None, NEW do \in Channel!Steps, Channel!Then(do)
  PROVE  /\ v7' \in Commands /\ v7' # None
         /\ v7'.do = do /\ v7'.version = v7.version /\ v7'.done = v7.done
<1>1. PICK c \in Commands : c = v7
  BY FileNames DEF Channel!Types, Commands
<1>2. v7' = [c EXCEPT !.do = do]
  BY <1>1 DEF Channel!Then
<1>3. /\ v7' \in Commands /\ v7' \in [do : Channel!Steps, version : Versions, done : Nat]
      /\ v7'.do = do /\ v7'.version = c.version /\ v7'.done = c.done
  BY <1>1, <1>2 DEF Commands
<1> QED
  BY <1>1, <1>3, VersionsAssumption

LEMMA RunningCommand ==
  ASSUME Channel!Types, v7 # None
  PROVE  v7 \in Commands /\ v7.do \in Channel!Steps /\ v7.version \in Versions /\ v7.done \in 0..2
BY FileNames DEF Channel!Types, Commands

(* Each step leaves a state of the types.                                  *)
LEMMA ChannelTypes ==
  ASSUME Channel!Types, Channel!Exports, Channel!Next
  PROVE  Channel!Types'
<1> USE FileNames DEF Channel!Types, Channel!KeepLinks, Channel!KeepExport, Channel!At, Commands
<1>1. ASSUME NEW v \in Versions, Channel!Build(v) PROVE Channel!Types'
  BY <1>1, CommandBegins DEF Channel!Build, Channel!Steps, Channel!Parts
<1>2. ASSUME NEW v \in Versions, Channel!Prune(v) PROVE Channel!Types'
  BY <1>2, CommandBegins DEF Channel!Prune, Channel!Steps, Channel!Parts
<1>3. ASSUME NEW v \in Versions, Channel!Switch(v) PROVE Channel!Types'
  <2>1. PICK do \in Channel!Steps : Channel!Command(do, v)
    BY <1>3 DEF Channel!Switch, Channel!Steps
  <2> QED
    BY <1>3, <2>1, CommandBegins DEF Channel!Switch
<1>4. CASE Channel!Rollback
  BY <1>3, <1>4 DEF Channel!Rollback
<1>5. CASE Channel!Install
  <2>1. PICK p \in Channel!Parts :
          /\ Channel!At(p)
          /\ v1' = [v1 EXCEPT ![v7.version] = @ \cup {p}]
          /\ IF p = "installed" THEN v7' = None ELSE Channel!Then(Channel!NextPart[p])
          /\ UNCHANGED <<v11, v2, v3, v4, v6, v9>>
    BY <1>5 DEF Channel!Install
  <2>2. v7.version \in Versions
    BY <2>1, RunningCommand
  <2>3. v1' \in [Versions -> SUBSET Channel!Parts]
    BY <2>1, <2>2
  <2>4. Channel!NextPart[p] \in Channel!Steps
    BY DEF Channel!NextPart, Channel!Steps, Channel!Parts
  <2>5. v7' = None \/ v7' \in Commands
    BY <2>1, <2>4, CommandGoesOn
  <2> QED
    BY <2>1, <2>3, <2>5
<1>6. CASE Channel!InstallFails
  <2>1. v7' = None \/ v7' \in Commands
    BY <1>6, CommandGoesOn DEF Channel!InstallFails, Channel!Steps
  <2> QED
    BY <1>6, <2>1 DEF Channel!InstallFails
<1>7. CASE Channel!Remove
  <2>1. PICK p \in v1[v7.version] : v1' = [v1 EXCEPT ![v7.version] = @ \ {p}]
    BY <1>7 DEF Channel!Remove
  <2>2. v7' = None \/ v7' = v7
    BY <1>7 DEF Channel!Remove
  <2>3. v11' \subseteq Versions
    BY <1>7 DEF Channel!Remove
  <2> QED
    BY <1>7, <2>1, <2>2, <2>3 DEF Channel!Remove
<1>8. CASE Channel!SetPrevious
  BY <1>8, CommandGoesOn DEF Channel!SetPrevious, Channel!Steps
<1>9. CASE Channel!SetCurrent
  BY <1>9, CommandGoesOn, RunningCommand DEF Channel!SetCurrent, Channel!Steps
<1>10. CASE Channel!Backup
  <2>1. v7' = v7 \/ v7' \in Commands
    BY <1>10, CommandGoesOn DEF Channel!Backup, Channel!Steps
  <2>2. v6' \in Seq(Channel!Held) /\ Len(v6') <= 3
    <3>1. CASE v5 = None /\ Len(v6) < 3
      <4>1. PICK i \in 1..3 : i = Len(v6) + 1
        BY <3>1
      <4>2. v4[Channel!AllFiles[i]] \in Channel!Held
        BY <4>1
      <4>3. v6' = Append(v6, v4[Channel!AllFiles[i]])
        BY <1>10, <3>1, <4>1 DEF Channel!Backup
      <4> QED
        BY <3>1, <4>2, <4>3
    <3>2. CASE ~(v5 = None /\ Len(v6) < 3)
      <4>1. v6' = v6 \/ v6' = <<>>
        BY <1>10, <3>2 DEF Channel!Backup
      <4>2. CASE v6' = v6
        BY <4>2
      <4>3. CASE v6' = <<>>
        <5>1. v6' \in Seq(Channel!Held)
          BY <4>3
        <5> QED
          BY <4>3, <5>1, EmptySeq
      <4> QED
        BY <4>1, <4>2, <4>3
    <3> QED
      BY <3>1, <3>2
  <2> QED
    BY <1>10, <2>1, <2>2 DEF Channel!Backup
<1>11. CASE Channel!Export
  <2>1. v7 \in Commands /\ v7.done < 2 /\ v2 \in Channel!Held
    BY <1>11, RunningCommand DEF Channel!Export, Channel!Exports, Channel!Held
  <2>2. v7' = None \/ v7' \in Commands
    BY <1>11, <2>1 DEF Channel!Export
  <2>3. v4' \in [Channel!Files -> Channel!Held]
    <3>1. CASE v4' = v4
      BY <3>1
    <3>2. CASE v4' = [v4 EXCEPT ![Channel!EXPORTS[v7.done + 1]] = v2]
      BY <2>1, <3>2
    <3> QED
      BY <1>11, <3>1, <3>2 DEF Channel!Export
  <2> QED
    BY <1>11, <2>2, <2>3 DEF Channel!Export
<1>12. CASE Channel!Compile
  <2>1. v4' = [v4 EXCEPT !["compiled"] = v4["schema"]] /\ v7' = None
    BY <1>12 DEF Channel!Compile, Channel!Compiled
  <2>2. v4' \in [Channel!Files -> Channel!Held]
    BY <2>1
  <2> QED
    BY <1>12, <2>1, <2>2 DEF Channel!Compile
<1>13. CASE Channel!Crash
  <2>1. v11' \subseteq Versions /\ v7' = None
    BY <1>13, RunningCommand DEF Channel!Crash
  <2> QED
    BY <1>13, <2>1 DEF Channel!Crash
<1> QED
  BY <1>1, <1>2, <1>3, <1>4, <1>5, <1>6, <1>7, <1>8, <1>9, <1>10, <1>11, <1>12, <1>13
  DEF Channel!Next

-----------------------------------------------------------------------------
(* The directories and who names them.                                     *)
LEMMA SwitchingLeavesDirectories ==
  ASSUME Channel!Directories, UNCHANGED <<v1, v2, v3, v11>>, ~Channel!At("remove"),
         v7' = None \/ v7'.do \in {"backup", "export"}
  PROVE  Channel!Directories'
BY DEF Channel!Directories, Channel!Complete, Channel!LinkedAreComplete, Channel!At, Channel!Parts

LEMMA OneStep ==
  /\ \A do \in Channel!Parts : do \notin {"remove", "previous", "current", "backup", "export"}
  /\ \A p \in Channel!Parts :
       p # "installed" =>
         /\ Channel!NextPart[p] \in Channel!Parts
         /\ Channel!Before(Channel!NextPart[p]) = Channel!Before(p) \cup {p}
  /\ Channel!Parts = Channel!Before("installed") \cup {"installed"}
  /\ \A p \in Channel!Parts : "installed" \notin Channel!Before(p)
  /\ Channel!Before("dir") = {}
<1> USE DEF Channel!Parts
<1>1. /\ Channel!NextPart["dir"] = "marker" /\ Channel!NextPart["marker"] = "share"
      /\ Channel!NextPart["share"] = "installed"
  BY DEF Channel!NextPart
<1>2. Channel!Before("dir") = {}
  BY DEF Channel!Before
<1>3. Channel!Before("marker") = {"dir"}
  BY DEF Channel!Before
<1>4. Channel!Before("share") = {"dir", "marker"}
  BY DEF Channel!Before
<1>5. Channel!Before("installed") = {"dir", "marker", "share"}
  BY DEF Channel!Before
<1> QED
  BY <1>1, <1>2, <1>3, <1>4, <1>5

(* build: a version that begins to be made is not linked, for what is      *)
(* linked is complete or cut, and there is something of either.            *)
LEMMA BuildLeavesDirectories ==
  ASSUME Channel!Types, Channel!Directories, NEW v \in Versions, Channel!Build(v)
  PROVE  Channel!Directories'
<1>1. /\ v7 = None /\ v7' # None /\ v7'.do = "dir" /\ v7'.version = v
      /\ v1[v] = {} /\ UNCHANGED <<v1, v2, v3, v11>>
  BY CommandBegins DEF Channel!Build, Channel!KeepLinks, Channel!Steps, Channel!Parts
<1>2. v \notin v11 /\ v1[v] # Channel!Parts
  BY <1>1 DEF Channel!Directories, Channel!Parts
<1>3. v \notin {v2, v3}
  BY <1>2, VersionsAssumption DEF Channel!Directories, Channel!LinkedAreComplete
<1> QED
  BY <1>1, <1>3, OneStep
  DEF Channel!Directories, Channel!Complete, Channel!LinkedAreComplete, Channel!At

LEMMA InstallLeavesDirectories ==
  ASSUME Channel!Types, Channel!Directories, Channel!Install
  PROVE  Channel!Directories'
<1>1. PICK p \in Channel!Parts :
        /\ Channel!At(p)
        /\ v1' = [v1 EXCEPT ![v7.version] = @ \cup {p}]
        /\ IF p = "installed" THEN v7' = None ELSE Channel!Then(Channel!NextPart[p])
        /\ UNCHANGED <<v2, v3, v11>>
  BY DEF Channel!Install, Channel!KeepLinks
<1>2. PICK v \in Versions : v = v7.version
  BY <1>1, RunningCommand DEF Channel!At
<1>3. /\ v7 # None /\ v7.do = p /\ v1[v] = Channel!Before(p) /\ v \notin {v2, v3}
  BY <1>1, <1>2 DEF Channel!Directories, Channel!At
<1>4. /\ v1'[v] = Channel!Before(p) \cup {p}
      /\ \A w \in Versions : w # v => v1'[w] = v1[w]
  BY <1>1, <1>2, <1>3 DEF Channel!Types
<1>5. \A w \in Versions : w # v =>
        ("installed" \in v1'[w] => v1'[w] = Channel!Parts \/ w \in v11')
  BY <1>1, <1>3, <1>4, OneStep DEF Channel!Directories, Channel!Complete, Channel!At
<1>6. \A w \in v11' : v1'[w] # {}
  BY <1>1, <1>4 DEF Channel!Directories, Channel!Types
<1>7. \A w \in {v2', v3'} \ {None} : v1'[w] = Channel!Parts \/ w \in v11'
  BY <1>1, <1>3, <1>4 DEF Channel!Directories, Channel!LinkedAreComplete, Channel!Types
<1>8. CASE p = "installed"
  <2>1. v1'[v] = Channel!Parts
    BY <1>4, <1>8, OneStep
  <2> QED
    BY <1>1, <1>5, <1>6, <1>7, <1>8, <2>1
    DEF Channel!Directories, Channel!Complete, Channel!LinkedAreComplete, Channel!At
<1>9. CASE p # "installed"
  <2>1. PICK q \in Channel!Parts : q = Channel!NextPart[p]
    BY <1>9, OneStep
  <2>2. v7' # None /\ v7'.do = q /\ v7'.version = v
    BY <1>1, <1>2, <1>3, <1>9, <2>1, CommandGoesOn DEF Channel!Steps
  <2>3. v1'[v] = Channel!Before(q) /\ "installed" \notin v1'[v]
    BY <1>4, <1>9, <2>1, OneStep
  <2> QED
    BY <1>1, <1>3, <1>5, <1>6, <1>7, <2>2, <2>3, OneStep
    DEF Channel!Directories, Channel!Complete, Channel!LinkedAreComplete, Channel!At
<1> QED
  BY <1>8, <1>9

LEMMA RemoveLeavesDirectories ==
  ASSUME Channel!Types, Channel!Directories, Channel!Remove
  PROVE  Channel!Directories'
<1>1. PICK p : /\ p \in v1[v7.version] /\ v7 # None /\ v7.do = "remove"
               /\ v1' = [v1 EXCEPT ![v7.version] = @ \ {p}]
               /\ v7' = (IF v1'[v7.version] = {} THEN None ELSE v7)
               /\ v11' = (IF v7' = None THEN v11 \ {v7.version} ELSE v11)
               /\ UNCHANGED <<v2, v3>>
  BY DEF Channel!Remove, Channel!KeepLinks, Channel!At
<1>2. PICK v \in Versions : v = v7.version
  BY <1>1, RunningCommand
<1>3. v \notin {v2, v3}
  BY <1>1, <1>2 DEF Channel!Directories, Channel!At
<1>4. /\ v1'[v] = v1[v] \ {p}
      /\ \A w \in Versions : w # v => v1'[w] = v1[w]
  BY <1>1, <1>2 DEF Channel!Types
<1>5. \A w \in Versions : w # v =>
        ("installed" \in v1'[w] => v1'[w] = Channel!Parts \/ w \in v11')
  BY <1>1, <1>2, <1>4 DEF Channel!Directories, Channel!Complete, Channel!At
<1>6. \A w \in v11' : v1'[w] # {}
  BY <1>1, <1>2, <1>4 DEF Channel!Directories, Channel!Types
<1>7. \A w \in {v2', v3'} \ {None} : v1'[w] = Channel!Parts \/ w \in v11'
  BY <1>1, <1>2, <1>3, <1>4 DEF Channel!Directories, Channel!LinkedAreComplete, Channel!Types
<1>8. CASE v1'[v] = {}
  BY <1>1, <1>2, <1>5, <1>6, <1>7, <1>8
  DEF Channel!Directories, Channel!Complete, Channel!LinkedAreComplete, Channel!At
<1>9. CASE v1'[v] # {}
  BY <1>1, <1>2, <1>3, <1>5, <1>6, <1>7, <1>9, OneStep
  DEF Channel!Directories, Channel!Complete, Channel!LinkedAreComplete, Channel!At
<1> QED
  BY <1>8, <1>9

LEMMA DirectoriesKept ==
  ASSUME Channel!Types, Channel!Directories, Channel!Links, Channel!Exports, Channel!Next
  PROVE  Channel!Directories'
<1> USE DEF Channel!KeepLinks, Channel!KeepExport
<1>1. ASSUME NEW v \in Versions, Channel!Build(v) PROVE Channel!Directories'
  BY <1>1, BuildLeavesDirectories
<1>2. ASSUME NEW v \in Versions, Channel!Prune(v) PROVE Channel!Directories'
  <2>1. /\ v7 = None /\ v7' # None /\ v7'.do = "remove" /\ v7'.version = v
        /\ v1[v] # {} /\ v \notin {v2, v3} /\ UNCHANGED <<v1, v2, v3, v11>>
    BY <1>2, CommandBegins DEF Channel!Prune, Channel!Prunable, Channel!Steps
  <2> QED
    BY <2>1, OneStep DEF Channel!Directories, Channel!Complete, Channel!LinkedAreComplete, Channel!At
<1>3. ASSUME NEW v \in Versions, Channel!Switch(v) PROVE Channel!Directories'
  <2>1. PICK do \in {"backup", "previous", "current"} : Channel!Command(do, v)
    BY <1>3 DEF Channel!Switch
  <2>2. v7 = None /\ v7' # None /\ v7'.do = do /\ v7'.version = v /\ UNCHANGED <<v1, v2, v3, v11>>
    BY <1>3, <2>1, CommandBegins DEF Channel!Switch, Channel!Steps
  <2>3. Channel!Complete(v)
    BY <1>3, <2>2 DEF Channel!Switch, Channel!Installed, Channel!Directories, Channel!At
  <2> QED
    BY <2>2, <2>3, OneStep
    DEF Channel!Directories, Channel!Complete, Channel!LinkedAreComplete, Channel!At
<1>4. CASE Channel!Rollback
  <2>1. v3 \in Versions
    BY <1>4 DEF Channel!Rollback, Channel!Types
  <2> QED
    BY <1>3, <1>4, <2>1 DEF Channel!Rollback
<1>5. CASE Channel!Install
  BY <1>5, InstallLeavesDirectories
<1>6. CASE Channel!InstallFails
  <2>1. PICK p \in Channel!Parts : v7 # None /\ v7.do = p
    BY <1>6 DEF Channel!InstallFails, Channel!At
  <2>2. v7.version \notin {v2, v3} /\ v7.do # "remove" /\ UNCHANGED <<v1, v2, v3, v11>>
    BY <1>6, <2>1, OneStep DEF Channel!InstallFails, Channel!Directories, Channel!At
  <2>3. CASE "marker" \in v1[v7.version]
    <3>1. v7' # None /\ v7'.do = "remove" /\ v7'.version = v7.version
      BY <1>6, <2>1, <2>3, CommandGoesOn DEF Channel!InstallFails, Channel!Steps
    <3> QED
      BY <2>2, <2>3, <3>1, OneStep
      DEF Channel!Directories, Channel!Complete, Channel!LinkedAreComplete, Channel!At
  <2>4. CASE "marker" \notin v1[v7.version]
    BY <1>6, <2>2, <2>4, SwitchingLeavesDirectories DEF Channel!InstallFails, Channel!At
  <2> QED
    BY <2>3, <2>4
<1>7. CASE Channel!Remove
  BY <1>7, RemoveLeavesDirectories
<1>8. CASE Channel!SetPrevious
  <2>1. /\ v7 # None /\ v7.do = "previous" /\ v7' # None /\ v7'.do = "current"
        /\ v7'.version = v7.version /\ v3' = v2 /\ UNCHANGED <<v1, v2, v11>>
    BY <1>8, CommandGoesOn DEF Channel!SetPrevious, Channel!At, Channel!Steps
  <2> QED
    BY <2>1, OneStep DEF Channel!Directories, Channel!Complete, Channel!LinkedAreComplete, Channel!At
<1>9. CASE Channel!SetCurrent
  <2>1. /\ v7 # None /\ v7.do = "current" /\ v7' # None /\ v7'.do = "backup"
        /\ v2' = v7.version /\ UNCHANGED <<v1, v3, v11>>
    BY <1>9, CommandGoesOn DEF Channel!SetCurrent, Channel!At, Channel!Steps
  <2> QED
    BY <2>1, OneStep DEF Channel!Directories, Channel!Complete, Channel!LinkedAreComplete, Channel!At
<1>10. CASE Channel!Backup
  <2>1. v7 # None /\ v7.do = "backup" /\ v7'.do \in {"backup", "export"}
    BY <1>10, CommandGoesOn DEF Channel!Backup, Channel!At, Channel!Steps
  <2> QED
    BY <1>10, <2>1, SwitchingLeavesDirectories DEF Channel!Backup, Channel!At
<1>11. CASE Channel!Export
  <2>1. v7 # None /\ v7.do = "export" /\ v7 \in Commands
    BY <1>11, RunningCommand DEF Channel!Export, Channel!At
  <2>2. v7' = None \/ v7'.do = "export"
    BY <1>11, <2>1 DEF Channel!Export, Commands
  <2> QED
    BY <1>11, <2>1, <2>2, SwitchingLeavesDirectories DEF Channel!Export, Channel!At
<1>12. CASE Channel!Compile
  BY <1>12, SwitchingLeavesDirectories DEF Channel!Compile, Channel!At
<1>13. CASE Channel!Crash
  <2>1. v7' = None /\ UNCHANGED <<v1, v2, v3>>
    BY <1>13 DEF Channel!Crash
  <2>2. v11' = IF Channel!At("remove") THEN v11 \cup {v7.version} ELSE v11
    BY <1>13 DEF Channel!Crash
  <2> QED
    BY <2>1, <2>2 DEF Channel!Directories, Channel!Complete, Channel!LinkedAreComplete, Channel!At
<1> QED
  BY <1>1, <1>2, <1>3, <1>4, <1>5, <1>6, <1>7, <1>8, <1>9, <1>10, <1>11, <1>12, <1>13
  DEF Channel!Next

-----------------------------------------------------------------------------
(* The links.                                                              *)
LEMMA LinksKept ==
  ASSUME Channel!Types, Channel!Links, Channel!Next
  PROVE  Channel!Links'
<1> USE DEF Channel!KeepLinks, Channel!Links, Channel!WayBack
<1>1. ASSUME UNCHANGED <<v2, v3, v10, v12>>, ~Channel!At("current"),
             v7' = None \/ v7'.do # "current" \/ v2 = None
      PROVE  Channel!Links'
  BY <1>1 DEF Channel!At
<1>2. ASSUME NEW v \in Versions, Channel!Build(v) PROVE Channel!Links'
  BY <1>1, <1>2, CommandBegins DEF Channel!Build, Channel!At, Channel!Steps, Channel!Parts
<1>3. ASSUME NEW v \in Versions, Channel!Prune(v) PROVE Channel!Links'
  BY <1>1, <1>3, CommandBegins DEF Channel!Prune, Channel!At, Channel!Steps
<1>4. ASSUME NEW v \in Versions, Channel!Switch(v) PROVE Channel!Links'
  <2>1. PICK do \in {"backup", "previous", "current"} :
          Channel!Command(do, v) /\ (do = "current" => v2 = None)
    BY <1>4 DEF Channel!Switch
  <2> QED
    BY <1>1, <1>4, <2>1, CommandBegins DEF Channel!Switch, Channel!At, Channel!Steps
<1>5. CASE Channel!Rollback
  <2>1. v3 \in Versions
    BY <1>5 DEF Channel!Rollback, Channel!Types
  <2> QED
    BY <1>4, <1>5, <2>1 DEF Channel!Rollback
<1>6. CASE Channel!Install
  <2>1. PICK p \in Channel!Parts :
          /\ v7 # None /\ v7.do = p
          /\ IF p = "installed" THEN v7' = None ELSE Channel!Then(Channel!NextPart[p])
    BY <1>6 DEF Channel!Install, Channel!At
  <2>2. v7' = None \/ v7'.do # "current"
    BY <2>1, CommandGoesOn, OneStep DEF Channel!Steps
  <2> QED
    BY <1>1, <1>6, <2>1, <2>2, OneStep DEF Channel!Install, Channel!At
<1>7. CASE Channel!InstallFails
  <2>1. v7 # None /\ v7.do # "current"
    BY <1>7, OneStep DEF Channel!InstallFails, Channel!At
  <2>2. v7' = None \/ v7'.do # "current"
    BY <1>7, <2>1, CommandGoesOn DEF Channel!InstallFails, Channel!Steps
  <2> QED
    BY <1>1, <1>7, <2>1, <2>2 DEF Channel!InstallFails, Channel!At
<1>8. CASE Channel!Remove
  BY <1>1, <1>8 DEF Channel!Remove, Channel!At
<1>9. CASE Channel!SetPrevious
  <2>1. v7' # None /\ v7'.do = "current" /\ v3' = v2 /\ UNCHANGED <<v2, v10, v12>>
    BY <1>9, CommandGoesOn DEF Channel!SetPrevious, Channel!At, Channel!Steps
  <2> QED
    BY <2>1 DEF Channel!At
<1>10. CASE Channel!SetCurrent
  <2>1. /\ v7 # None /\ v7.do = "current" /\ v7' # None /\ v7'.do = "backup"
        /\ v2' \in Versions /\ v10' = v2 /\ v3' = v3
    BY <1>10, CommandGoesOn, RunningCommand DEF Channel!SetCurrent, Channel!At, Channel!Steps
  <2> QED
    BY <2>1, VersionsAssumption DEF Channel!At
<1>11. CASE Channel!Backup
  <2>1. v7 # None /\ v7.do = "backup" /\ v7'.do \in {"backup", "export"}
    BY <1>11, CommandGoesOn DEF Channel!Backup, Channel!At, Channel!Steps
  <2> QED
    BY <1>1, <1>11, <2>1 DEF Channel!Backup, Channel!At
<1>12. CASE Channel!Export
  <2>1. v7 # None /\ v7.do = "export" /\ v7 \in Commands
    BY <1>12, RunningCommand DEF Channel!Export, Channel!At
  <2>2. v7' = None \/ v7'.do = "export"
    BY <1>12, <2>1 DEF Channel!Export, Commands
  <2> QED
    BY <1>1, <1>12, <2>1, <2>2 DEF Channel!Export, Channel!At
<1>13. CASE Channel!Compile
  BY <1>1, <1>13 DEF Channel!Compile, Channel!At
<1>14. CASE Channel!Crash
  <2>1. v7' = None /\ UNCHANGED <<v2, v3, v10>>
    BY <1>14 DEF Channel!Crash
  <2>2. v12' = (v12 \/ (Channel!At("current") /\ v2 # None))
    BY <1>14 DEF Channel!Crash
  <2> QED
    BY <2>1, <2>2 DEF Channel!At
<1> QED
  BY <1>2, <1>3, <1>4, <1>5, <1>6, <1>7, <1>8, <1>9, <1>10, <1>11, <1>12, <1>13, <1>14
  DEF Channel!Next

-----------------------------------------------------------------------------
(* The exported files and what the user had.                               *)
Had == [i \in 1..3 |-> v9[Channel!AllFiles[i]]]

LEMMA HadIsSomething == Channel!Types => Had \in [1..3 -> Channel!Held] /\ Had # None
<1> SUFFICES ASSUME Channel!Types PROVE Had \in [1..3 -> Channel!Held]
  BY VersionsAssumption
<1>1. \A i \in 1..3 : v9[Channel!AllFiles[i]] \in Channel!Held
  BY FileNames DEF Channel!Types
<1> QED
  BY <1>1 DEF Had

LEMMA ExportsUntouched ==
  ASSUME Channel!Exports, UNCHANGED <<v2, v4, v5, v6, v9, v13>>,
         v7' = None \/ (v7'.do \notin {"previous", "current", "backup", "export"} /\ v7'.done = 0)
  PROVE  Channel!Exports'
BY FileNames DEF Channel!Exports, Channel!At

(* backup_original_export: each file is saved as the user had it, for      *)
(* nothing is exported before all are.                                     *)
LEMMA BackupKeepsExports ==
  ASSUME Channel!Types, Channel!Exports, Channel!Backup
  PROVE  Channel!Exports'
<1>1. /\ v7 # None /\ v7.do = "backup" /\ v7.done = 0 /\ v2 # None
      /\ UNCHANGED <<v2, v4, v9, v13>>
  BY DEF Channel!Backup, Channel!KeepLinks, Channel!At, Channel!Exports
<1>2. /\ v5 = Had \/ (v5 = None /\ v4 = v9)
      /\ \A i \in 1..Len(v6) : v6[i] = v9[Channel!AllFiles[i]]
      /\ v6 \in Seq(Channel!Held) /\ Len(v6) <= 3
  BY FileNames DEF Channel!Exports, Channel!Types, Had
<1>3. Had' = Had
  BY <1>1 DEF Had
<1>4. v7' = v7 \/ (v7' # None /\ v7'.do = "export" /\ v7'.done = 0)
  BY <1>1, CommandGoesOn DEF Channel!Backup, Channel!Steps
<1>5. SUFFICES /\ v5' = Had \/ (v5' = None /\ v4 = v9)
               /\ \A i \in 1..Len(v6') : v6'[i] = v9[Channel!AllFiles[i]]
               /\ v7' = v7 \/ v5' = Had
  BY <1>1, <1>3, <1>4, FileNames DEF Channel!Exports, Channel!At, Had
<1>6. CASE v5 # None
  BY <1>2, <1>6 DEF Channel!Backup
<1>7. CASE v5 = None /\ Len(v6) < 3
  <2>1. v4 = v9 /\ v5' = v5 /\ v7' = v7
    BY <1>2, <1>7, HadIsSomething, FileNames DEF Channel!Backup
  <2>2. PICK n \in 1..3 : n = Len(v6) + 1
    BY <1>2, <1>7
  <2>3. v6' = Append(v6, v9[Channel!AllFiles[n]])
    BY <1>7, <2>1, <2>2, FileNames DEF Channel!Backup
  <2>4. v9[Channel!AllFiles[n]] \in Channel!Held
    BY <2>2, FileNames DEF Channel!Types
  <2>5. PICK s : s = Append(v6, v9[Channel!AllFiles[n]])
    OBVIOUS
  <2>6. /\ Len(s) = n /\ s[n] = v9[Channel!AllFiles[n]]
        /\ \A i \in 1..Len(v6) : s[i] = v6[i]
    BY <1>2, <2>2, <2>4, <2>5, AppendProperties
  <2>7. \A i \in 1..Len(s) : s[i] = v9[Channel!AllFiles[i]]
    BY <1>2, <2>2, <2>6
  <2> QED
    BY <1>7, <2>1, <2>3, <2>5, <2>7
<1>8. CASE v5 = None /\ Len(v6) = 3
  <2>1. v5' = v6 /\ v6' = <<>>
    BY <1>8, FileNames DEF Channel!Backup
  <2>2. v6 = [i \in 1..3 |-> v6[i]]
    BY <1>2, <1>8
  <2>3. v6 = Had
    BY <1>2, <1>8, <2>2 DEF Had
  <2> QED
    BY <2>1, <2>3
<1>9. Len(v6) < 3 \/ Len(v6) = 3
  <2>1. PICK n \in Nat : n = Len(v6)
    BY <1>2, LenProperties
  <2> QED
    BY <1>2, <2>1
<1> QED
  BY <1>6, <1>7, <1>8, <1>9

LEMMA ExportsKept ==
  ASSUME Channel!Types, Channel!Exports, Channel!Next
  PROVE  Channel!Exports'
<1> USE DEF Channel!KeepLinks, Channel!KeepExport
<1>1. ASSUME NEW v \in Versions, Channel!Build(v) PROVE Channel!Exports'
  BY <1>1, CommandBegins, ExportsUntouched DEF Channel!Build, Channel!Steps, Channel!Parts
<1>2. ASSUME NEW v \in Versions, Channel!Prune(v) PROVE Channel!Exports'
  BY <1>2, CommandBegins, ExportsUntouched DEF Channel!Prune, Channel!Steps
<1>3. ASSUME NEW v \in Versions, Channel!Switch(v) PROVE Channel!Exports'
  <2>1. PICK do \in {"backup", "previous", "current"} :
          Channel!Command(do, v) /\ (do = "backup" <=> v = v2)
    BY <1>3 DEF Channel!Switch
  <2>2. v7' # None /\ v7'.do = do /\ v7'.done = 0
    BY <2>1, CommandBegins DEF Channel!Steps
  <2>3. UNCHANGED <<v2, v4, v5, v6, v9>> /\ v13' = (v # v2 \/ v13)
    BY <1>3 DEF Channel!Switch
  <2>4. v2 = v => v2 # None
    BY VersionsAssumption
  <2>5. v13' \/ v13' = v13 \/ (~v13' /\ ~v13)
    BY <2>3
  <2> QED
    BY <2>1, <2>2, <2>3, <2>4, <2>5, FileNames DEF Channel!Exports, Channel!At
<1>4. CASE Channel!Rollback
  <2>1. v3 \in Versions
    BY <1>4 DEF Channel!Rollback, Channel!Types
  <2> QED
    BY <1>3, <1>4, <2>1 DEF Channel!Rollback
<1>5. CASE Channel!Install
  <2>1. PICK p \in Channel!Parts :
          /\ v7 # None /\ v7.do = p
          /\ IF p = "installed" THEN v7' = None ELSE Channel!Then(Channel!NextPart[p])
    BY <1>5 DEF Channel!Install, Channel!At
  <2>2. v7.done = 0
    BY <2>1, OneStep DEF Channel!Exports, Channel!At
  <2>3. v7' = None \/ (v7'.do \in Channel!Parts /\ v7'.done = 0)
    BY <2>1, <2>2, CommandGoesOn, OneStep DEF Channel!Steps
  <2> QED
    BY <1>5, <2>3, ExportsUntouched, OneStep DEF Channel!Install
<1>6. CASE Channel!InstallFails
  <2>1. v7 # None /\ v7.done = 0
    BY <1>6, OneStep DEF Channel!InstallFails, Channel!At, Channel!Exports
  <2>2. v7' = None \/ (v7'.do = "remove" /\ v7'.done = 0)
    BY <1>6, <2>1, CommandGoesOn DEF Channel!InstallFails, Channel!Steps
  <2> QED
    BY <1>6, <2>2, ExportsUntouched DEF Channel!InstallFails
<1>7. CASE Channel!Remove
  <2>1. v7.do = "remove" /\ v7.done = 0 /\ (v7' = None \/ v7' = v7)
    BY <1>7 DEF Channel!Remove, Channel!At, Channel!Exports
  <2> QED
    BY <1>7, <2>1, ExportsUntouched DEF Channel!Remove
<1>8. CASE Channel!SetPrevious
  <2>1. /\ v7 # None /\ v7.do = "previous" /\ v7.done = 0 /\ v13
        /\ v7' # None /\ v7'.do = "current" /\ v7'.done = 0
        /\ UNCHANGED <<v2, v4, v5, v6, v9, v13>>
    BY <1>8, CommandGoesOn DEF Channel!SetPrevious, Channel!At, Channel!Steps, Channel!Exports
  <2> QED
    BY <2>1, FileNames DEF Channel!Exports, Channel!At
<1>9. CASE Channel!SetCurrent
  <2>1. /\ v7 # None /\ v7.do = "current" /\ v7.done = 0 /\ v13
        /\ v7' # None /\ v7'.do = "backup" /\ v7'.done = 0 /\ v2' \in Versions
        /\ UNCHANGED <<v4, v5, v6, v9, v13>>
    BY <1>9, CommandGoesOn, RunningCommand
    DEF Channel!SetCurrent, Channel!At, Channel!Steps, Channel!Exports
  <2> QED
    BY <2>1, FileNames, VersionsAssumption DEF Channel!Exports, Channel!At
<1>10. CASE Channel!Backup
  BY <1>10, BackupKeepsExports
<1>11. CASE Channel!Export
  <2>1. /\ v7 # None /\ v7.do = "export" /\ v7 \in Commands /\ v7.done \in 0..1 /\ v2 # None
        /\ v5 = Had /\ UNCHANGED <<v2, v5, v6, v9, v13>>
        /\ \A i \in 1..v7.done : v4[Channel!EXPORTS[i]] = v2
    BY <1>11, RunningCommand, FileNames DEF Channel!Export, Channel!At, Channel!Exports, Had
  <2>2. Had' = Had
    BY <2>1 DEF Had
  <2>3. CASE v4' = v4 /\ v7' = None
    BY <2>1, <2>2, <2>3, FileNames DEF Channel!Exports, Channel!At
  <2>4. CASE /\ v4' = [v4 EXCEPT ![Channel!EXPORTS[v7.done + 1]] = v2]
             /\ v7' = [v7 EXCEPT !.done = @ + 1]
    <3>1. v7'.do = "export" /\ v7'.done = v7.done + 1
      BY <2>1, <2>4 DEF Commands
    <3>2. \A f \in Channel!Files : v4'[f] = v4[f] \/ v4'[f] = v2
      BY <2>4 DEF Channel!Types
    <3>3. v4'[Channel!EXPORTS[v7.done + 1]] = v2
      BY <2>1, <2>4, FileNames DEF Channel!Types, Channel!EXPORTS
    <3>4. \A i \in 1..v7'.done : v4'[Channel!EXPORTS[i]] = v2
      BY <2>1, <3>1, <3>2, <3>3, FileNames DEF Channel!EXPORTS
    <3>5. (~v13 /\ v2 # None) => \A f \in Channel!Files : v4'[f] = v2
      BY <3>2 DEF Channel!Exports
    <3> QED
      BY <2>1, <2>2, <3>1, <3>4, <3>5, FileNames DEF Channel!Exports, Channel!At, Had
  <2> QED
    BY <1>11, <2>3, <2>4 DEF Channel!Export
<1>12. CASE Channel!Compile
  <2>1. /\ v7 # None /\ v7.do = "export" /\ v7.done = 2 /\ v5 = Had /\ v7' = None
        /\ UNCHANGED <<v2, v5, v6, v9>>
        /\ v4' = [v4 EXCEPT !["compiled"] = v4["schema"]]
        /\ \A i \in 1..v7.done : v4[Channel!EXPORTS[i]] = v2
    BY <1>12, FileNames DEF Channel!Compile, Channel!Compiled, Channel!At, Channel!Exports, Had
  <2>2. v4["desktop"] = v2 /\ v4["schema"] = v2
    BY <2>1 DEF Channel!EXPORTS
  <2>3. \A f \in Channel!Files : v4'[f] = v2
    BY <2>1, <2>2, FileNames DEF Channel!Types
  <2>4. Had' = Had
    BY <2>1 DEF Had
  <2> QED
    BY <2>1, <2>3, <2>4, FileNames DEF Channel!Exports, Channel!At, Had
<1>13. CASE Channel!Crash
  <2>1. v7' = None /\ v6' = <<>> /\ UNCHANGED <<v2, v4, v5, v9, v13>>
    BY <1>13 DEF Channel!Crash
  <2> QED
    BY <2>1, FileNames DEF Channel!Exports, Channel!At
<1> QED
  BY <1>1, <1>2, <1>3, <1>4, <1>5, <1>6, <1>7, <1>8, <1>9, <1>10, <1>11, <1>12, <1>13
  DEF Channel!Next

-----------------------------------------------------------------------------
LEMMA ChannelInvNext == ChannelInv /\ [Next]_partsVars => ChannelInv'
<1> SUFFICES ASSUME part = "channel", Channel!Kept, [Channel!Next]_installVars
             PROVE  Channel!Kept'
  BY DEF ChannelInv, Next, partsVars, installVars, from6, ReadInput, Pure, Readings, Cards, Reader
<1>1. CASE Channel!Next
  BY <1>1, ChannelTypes, DirectoriesKept, LinksKept, ExportsKept DEF Channel!Kept
<1>2. CASE UNCHANGED installVars
  <2>1. Channel!Types'
    BY <1>2 DEF installVars, Channel!Kept, Channel!Types
  <2>2. Channel!Directories'
    BY <1>2 DEF installVars, Channel!Kept, Channel!Directories, Channel!Complete,
                Channel!LinkedAreComplete, Channel!At
  <2>3. Channel!Links'
    BY <1>2 DEF installVars, Channel!Kept, Channel!Links, Channel!WayBack, Channel!At
  <2>4. Channel!Exports'
    BY <1>2 DEF installVars, Channel!Kept, Channel!Exports, Channel!At
  <2> QED
    BY <2>1, <2>2, <2>3, <2>4 DEF Channel!Kept
<1> QED
  BY <1>1, <1>2

(* Wherever a build, a switch, a rollback or a prune of dev-channel.sh is  *)
(* cut short: a linked version is complete or its removal was cut, there   *)
(* is a way back, what the user had is saved before any of it is replaced, *)
(* and a switch that ended has exported every file.                        *)
THEOREM ChannelSurvivesCrashes == Spec => []ChannelSound
<1>1. ChannelInv => ChannelSound
  <2> SUFFICES ASSUME Channel!Kept PROVE Channel!Sound
    BY DEF ChannelInv, ChannelSound
  <2>1. Channel!LinkedAreComplete /\ Channel!WayBack
    BY DEF Channel!Kept, Channel!Directories, Channel!Links
  <2>2. Channel!OriginalIsKept /\ Channel!ExportIsCurrents
    BY FileNames DEF Channel!Kept, Channel!Exports, Channel!OriginalIsKept, Channel!ExportIsCurrents
  <2> QED
    BY <2>1, <2>2 DEF Channel!Sound
<1> QED
  BY <1>1, ChannelInvInit, ChannelInvNext, PTL DEF Spec, partsVars

-----------------------------------------------------------------------------
(***************************************************************************)
(* Disks: mounts v1, filled v2, known_directories v3, list_store v4,       *)
(* show_all_fs v5, update_interval v6, timeout v7, mapped v8, suspended v9, *)
(* seen v10, age v11, changes v12.                                         *)
(***************************************************************************)
MountEntry == [dir : MountDirs, kind : MountKinds \cup {"disk"}, device : Nat]

(* The loop over the mount list, step by step.                             *)
LEMMA MountsHandled ==
  ASSUME NEW all, Len(v1) \in Nat
  PROVE  \E u : /\ u[0] = FileSystems!Before
                /\ \A n \in 1..Len(v1) :
                     u[n] = IF FileSystems!InMountlist(v1[n], all)
                            THEN FileSystems!handle_entry(all, u[n - 1], v1[n]) ELSE u[n - 1]
                /\ FileSystems!Updated(all) = u[Len(v1)]
<1> DEFINE Step(n, was) == IF FileSystems!InMountlist(v1[n], all)
                           THEN FileSystems!handle_entry(all, was, v1[n]) ELSE was
           Runs(N, u) == u = [n \in 0..N |-> IF n = 0 THEN FileSystems!Before ELSE Step(n, u[n - 1])]
           Reached == {N \in 0..Len(v1) : \E u : Runs(N, u)}
<1> HIDE DEF Step
<1>1. 0 \in Reached
  <2> DEFINE u == [n \in 0..0 |-> FileSystems!Before]
  <2>1. Runs(0, u)
    OBVIOUS
  <2> HIDE DEF u, Runs
  <2> QED
    BY <2>1
<1>2. ASSUME NEW N \in 1..Len(v1), N - 1 \in Reached
      PROVE  N \in Reached
  <2>1. PICK u : Runs(N - 1, u)
    BY <1>2
  <2> DEFINE w == [n \in 0..N |-> IF n < N THEN u[n] ELSE Step(N, u[N - 1])]
  <2>2. \A n \in 0..(N - 1) : u[n] = IF n = 0 THEN FileSystems!Before ELSE Step(n, u[n - 1])
    BY <2>1
  <2>3. \A n \in 0..N : w[n] = IF n = 0 THEN FileSystems!Before ELSE Step(n, w[n - 1])
    BY <2>2
  <2>4. Runs(N, w)
    BY <2>3
  <2> HIDE DEF w, Runs
  <2> QED
    BY <2>4
<1>3. \E u : Runs(Len(v1), u)
  <2> HIDE DEF Reached
  <2>1. \A N \in 0..Len(v1) : N \in Reached
    BY <1>1, <1>2, CountedUp
  <2> QED
    BY <2>1 DEF Reached
<1> DEFINE update == CHOOSE u : Runs(Len(v1), u)
<1>4. Runs(Len(v1), update)
  BY <1>3
<1>5. FileSystems!Updated(all) = update[Len(v1)]
  BY DEF FileSystems!Updated, Step
<1> HIDE DEF update
<1>6. /\ update[0] = FileSystems!Before
      /\ \A n \in 1..Len(v1) : update[n] = Step(n, update[n - 1])
  BY <1>4
<1> QED
  BY <1>5, <1>6 DEF Step

Listed(n, all) == {i \in 1..n : FileSystems!InMountlist(v1[i], all)}
Kept(n, all) == {i \in Listed(n, all) : all \/ FileSystems!Usage(v1[i].dir).blocks # 0}
MountRow(i) == [device |-> v1[i].device,
                figures |-> FileSystems!fsusage_stats(FileSystems!Usage(v1[i].dir))]

(* After n of the mounts: the directories saved, the rows there are, those *)
(* of them that are new, and that each shows the last of its mounts or is  *)
(* as it was.                                                              *)
HandledSoFar(n, all, update) ==
  /\ update.leftover = DOMAIN v3 \ {v1[i].dir : i \in Listed(n, all)}
  /\ DOMAIN update.known = DOMAIN v3 \cup {v1[i].dir : i \in Kept(n, all)}
  /\ update.new = [d \in MountDirs |-> IF d \in (DOMAIN update.known) \ DOMAIN v3 THEN 1 ELSE 0]
  /\ \A d \in DOMAIN update.known :
       \/ /\ d \in DOMAIN v3 /\ update.known[d] = v3[d]
          /\ \A i \in Kept(n, all) : v1[i].dir # d
       \/ \E i \in Kept(n, all) : /\ v1[i].dir = d /\ update.known[d] = MountRow(i)
                                 /\ \A j \in Kept(n, all) : v1[j].dir = d => j <= i

LEMMA HandledOneMore ==
  ASSUME v1 \in Seq(MountEntry), NEW all \in BOOLEAN, NEW n \in 1..Len(v1), NEW was,
         HandledSoFar(n - 1, all, was)
  PROVE  HandledSoFar(n, all, IF FileSystems!InMountlist(v1[n], all)
                              THEN FileSystems!handle_entry(all, was, v1[n]) ELSE was)
<1>1. v1[n].dir \in MountDirs
  <2>1. v1[n] \in MountEntry
    OBVIOUS
  <2> QED
    BY <2>1 DEF MountEntry
<1>2. n - 1 \in Nat /\ n \notin 1..(n - 1) /\ 1..n = (1..(n - 1)) \cup {n}
  OBVIOUS
<1>3. CASE ~FileSystems!InMountlist(v1[n], all)
  <2>1. Listed(n, all) = Listed(n - 1, all)
    BY <1>2, <1>3 DEF Listed
  <2>2. Kept(n, all) = Kept(n - 1, all)
    BY <2>1 DEF Kept
  <2> QED
    BY <1>3, <2>1, <2>2 DEF HandledSoFar
<1>4. CASE FileSystems!InMountlist(v1[n], all)
  <2> DEFINE d == v1[n].dir
             usage == FileSystems!Usage(d)
             update == FileSystems!handle_entry(all, was, v1[n])
  <2>1. Listed(n, all) = Listed(n - 1, all) \cup {n}
    BY <1>2, <1>4 DEF Listed
  <2>2. \A i \in Listed(n - 1, all) : i \in 1..(n - 1)
    BY DEF Listed
  <2>3. was.leftover \ {d} = DOMAIN v3 \ {v1[i].dir : i \in Listed(n, all)}
    BY <2>1 DEF HandledSoFar
  <2>4. CASE ~all /\ usage.blocks = 0
    <3>1. update = [was EXCEPT !.leftover = @ \ {d}]
      BY <2>4 DEF FileSystems!handle_entry, FileSystems!handle_entry_DropsKnown
    <3>2. Kept(n, all) = Kept(n - 1, all)
      BY <2>1, <2>4 DEF Kept
    <3>3. update.known = was.known /\ update.new = was.new
      BY <3>1
    <3>4. update.leftover = was.leftover \ {d}
      BY <3>1 DEF HandledSoFar
    <3> HIDE DEF d, update
    <3>5. HandledSoFar(n, all, update)
      BY <2>3, <3>2, <3>3, <3>4 DEF HandledSoFar
    <3> QED
      BY <1>4, <3>5 DEF update
  <2>5. CASE ~(~all /\ usage.blocks = 0)
    <3>1. /\ update.known = [e \in DOMAIN was.known \cup {d} |->
                               IF e = d THEN MountRow(n) ELSE was.known[e]]
          /\ update.new = IF d \in DOMAIN was.known THEN was.new
                          ELSE [was.new EXCEPT ![d] = @ + 1]
          /\ update.leftover = was.leftover \ {d}
      BY <2>5 DEF FileSystems!handle_entry, FileSystems!handle_entry_DropsKnown, MountRow
    <3>2. Kept(n, all) = Kept(n - 1, all) \cup {n}
      BY <2>1, <2>5 DEF Kept
    <3>3. \A i \in Kept(n - 1, all) : i \in 1..(n - 1)
      BY <2>2 DEF Kept
    <3>4. d \in MountDirs
      BY <1>1
    <3>5. d = v1[n].dir
      OBVIOUS
    <3> HIDE DEF d, update
    <3>6. update.leftover = DOMAIN v3 \ {v1[i].dir : i \in Listed(n, all)}
      BY <2>3, <3>1
    <3>7. DOMAIN update.known = DOMAIN v3 \cup {v1[i].dir : i \in Kept(n, all)}
      BY <3>1, <3>2, <3>5 DEF HandledSoFar
    <3>8. update.new = [e \in MountDirs |-> IF e \in (DOMAIN update.known) \ DOMAIN v3 THEN 1 ELSE 0]
      <4>1. DOMAIN update.known = DOMAIN was.known \cup {d}
        BY <3>1
      <4>2. /\ was.new = [e \in MountDirs |-> IF e \in (DOMAIN was.known) \ DOMAIN v3 THEN 1 ELSE 0]
            /\ DOMAIN v3 \subseteq DOMAIN was.known
        BY DEF HandledSoFar
      <4>3. CASE d \in DOMAIN was.known
        <5>1. DOMAIN update.known = DOMAIN was.known /\ update.new = was.new
          BY <3>1, <4>1, <4>3
        <5> QED
          BY <4>2, <5>1
      <4>4. CASE d \notin DOMAIN was.known
        <5>1. update.new = [was.new EXCEPT ![d] = 1]
          BY <3>1, <3>4, <4>2, <4>4
        <5> QED
          BY <3>4, <4>1, <4>2, <4>4, <5>1
      <4> QED
        BY <4>3, <4>4
    <3>9. ASSUME NEW e \in DOMAIN update.known
          PROVE  \/ /\ e \in DOMAIN v3 /\ update.known[e] = v3[e]
                    /\ \A i \in Kept(n, all) : v1[i].dir # e
                 \/ \E i \in Kept(n, all) : /\ v1[i].dir = e /\ update.known[e] = MountRow(i)
                                           /\ \A j \in Kept(n, all) : v1[j].dir = e => j <= i
      <4>1. CASE e = d
        <5>1. n \in Kept(n, all) /\ v1[n].dir = e /\ update.known[e] = MountRow(n)
          BY <3>1, <3>2, <3>5, <4>1
        <5>2. \A j \in Kept(n, all) : j <= n
          BY <3>2, <3>3
        <5> QED
          BY <5>1, <5>2
      <4>2. CASE e # d
        <5>1. e \in DOMAIN was.known /\ update.known[e] = was.known[e]
          BY <3>1, <4>2
        <5>2. \A i \in Kept(n, all) : v1[i].dir = e => i \in Kept(n - 1, all)
          BY <3>2, <3>5, <4>2
        <5>3. Kept(n - 1, all) \subseteq Kept(n, all)
          BY <3>2
        <5> QED
          BY <5>1, <5>2, <5>3 DEF HandledSoFar
      <4> QED
        BY <4>1, <4>2
    <3>10. HandledSoFar(n, all, update)
      BY <3>6, <3>7, <3>8, <3>9 DEF HandledSoFar
    <3> QED
      BY <1>4, <3>10 DEF update
  <2> QED
    BY <2>4, <2>5
<1> QED
  BY <1>3, <1>4

LEMMA AllMountsHandled ==
  ASSUME v1 \in Seq(MountEntry), DOMAIN v3 \subseteq MountDirs, NEW all \in BOOLEAN
  PROVE  HandledSoFar(Len(v1), all, FileSystems!Updated(all))
<1>1. Len(v1) \in Nat
  OBVIOUS
<1>2. PICK u : /\ u[0] = FileSystems!Before
               /\ \A n \in 1..Len(v1) :
                    u[n] = IF FileSystems!InMountlist(v1[n], all)
                           THEN FileSystems!handle_entry(all, u[n - 1], v1[n]) ELSE u[n - 1]
               /\ FileSystems!Updated(all) = u[Len(v1)]
  BY <1>1, MountsHandled
<1> DEFINE Reached == {n \in 0..Len(v1) : HandledSoFar(n, all, u[n])}
<1>3. 0 \in Reached
  <2>1. Listed(0, all) = {} /\ Kept(0, all) = {}
    BY DEF Listed, Kept
  <2>2. HandledSoFar(0, all, FileSystems!Before)
    BY <2>1 DEF HandledSoFar, FileSystems!Before
  <2> QED
    BY <1>1, <1>2, <2>2
<1>4. ASSUME NEW n \in 1..Len(v1), n - 1 \in Reached
      PROVE  n \in Reached
  <2>1. HandledSoFar(n - 1, all, u[n - 1])
    BY <1>4
  <2>2. HandledSoFar(n, all, u[n])
    BY <1>2, <2>1, HandledOneMore
  <2> QED
    BY <2>2
<1>5. \A n \in 0..Len(v1) : n \in Reached
  <2> HIDE DEF Reached
  <2> QED
    BY <1>1, <1>3, <1>4, CountedUp
<1> QED
  BY <1>1, <1>2, <1>5

Full(figures) == figures.total > 0 => (figures.percentage = 100) = (figures.total - figures.used <= 1)

(* The figures of a directory: those of the disk on top, full when one     *)
(* block is left, or none.                                                 *)
LEMMA FiguresOfUsage ==
  ASSUME v2 \in 0..DiskBlocks, NEW d
  PROVE  /\ FileSystems!Usage(d).blocks # 0 <=> FileSystems!Top(d).kind = "disk"
         /\ FileSystems!fsusage_stats(FileSystems!Usage(d)).used =
              (IF FileSystems!Top(d).kind = "disk" THEN v2 ELSE 0)
         /\ Full(FileSystems!fsusage_stats(FileSystems!Usage(d)))
<1>1. DiskBlocks \in Nat /\ DiskBlocks > 1 /\ v2 \in Nat /\ v2 <= DiskBlocks
  BY ListAssumption
<1>2. CASE FileSystems!Top(d).kind # "disk"
  <2>1. FileSystems!Usage(d) = [blocks |-> 0, bfree |-> 0, bavail |-> 0]
    BY <1>2 DEF FileSystems!Usage
  <2>2. FileSystems!fsusage_stats(FileSystems!Usage(d)) = [total |-> 0, used |-> 0, percentage |-> 0]
    BY <2>1 DEF FileSystems!fsusage_stats
  <2> QED
    BY <1>2, <2>1, <2>2 DEF Full
<1>3. CASE FileSystems!Top(d).kind = "disk"
  <2>1. PICK left \in Nat : left = DiskBlocks - v2
    BY <1>1
  <2>2. PICK bavail \in Nat : bavail = IF left = 0 THEN 0 ELSE left - 1
    BY <2>1
  <2>3. FileSystems!Usage(d) = [blocks |-> DiskBlocks, bfree |-> left, bavail |-> bavail]
    BY <1>3, <2>1, <2>2 DEF FileSystems!Usage
  <2>4. FileSystems!fsusage_stats(FileSystems!Usage(d)) =
          [total |-> DiskBlocks, used |-> v2, percentage |-> (100 * v2) \div (v2 + bavail)]
    BY <1>1, <2>1, <2>3 DEF FileSystems!fsusage_stats
  <2>5. v2 + bavail \in Nat /\ v2 + bavail > 0
    BY <1>1, <2>1, <2>2
  <2>6. \A a \in Nat, b \in Nat : b > 0 => (a \div b = 100 <=> 100 * b <= a /\ a < 101 * b)
    OBVIOUS
  <2>7. (100 * v2) \div (v2 + bavail) = 100 <=> bavail = 0
    BY <1>1, <2>2, <2>5, <2>6
  <2>8. bavail = 0 <=> DiskBlocks - v2 <= 1
    BY <1>1, <2>1, <2>2
  <2> QED
    BY <1>1, <1>3, <2>3, <2>4, <2>7, <2>8 DEF Full
<1> QED
  BY <1>2, <1>3

LEMMA TopIsLast ==
  ASSUME v1 \in Seq(MountEntry), NEW k \in 1..Len(v1)
  PROVE  LET t == FileSystems!TopAt(v1[k].dir)
         IN /\ t \in 1..Len(v1) /\ v1[t].dir = v1[k].dir
            /\ \A j \in 1..Len(v1) : v1[j].dir = v1[k].dir => j <= t
<1> DEFINE d == v1[k].dir
           at == {i \in 1..Len(v1) : v1[i].dir = d}
<1>1. at \subseteq 1..Len(v1) /\ at # {} /\ DOMAIN v1 = 1..Len(v1) /\ Len(v1) \in Nat
  OBVIOUS
<1>2. \E m \in at : \A x \in at : x <= m
  <2> HIDE DEF at
  <2>1. at \subseteq Nat /\ IsFiniteSet(at)
    <3>1. IsFiniteSet(1..Len(v1))
      BY <1>1, FS_Interval
    <3>2. at \in SUBSET (1..Len(v1))
      BY <1>1
    <3>3. IsFiniteSet(at)
      BY <3>1, <3>2, FS_Subset
    <3> QED
      BY <1>1, <3>3
  <2>2. \E m \in at : \A x \in at : m >= x
    BY <1>1, <2>1, GreatestNumber
  <2> QED
    BY <2>1, <2>2
<1>3. \E i \in DOMAIN v1 : v1[i].dir = d /\ \A j \in DOMAIN v1 : v1[j].dir = d => j <= i
  BY <1>1, <1>2
<1> HIDE DEF d
<1> QED
  BY <1>1, <1>3 DEF FileSystems!TopAt, d

(* A refresh, whatever was listed and whatever is mounted.                 *)
LEMMA RefreshLists ==
  ASSUME FileSystems!Mounted, FileSystems!OneRowEach, FileSystems!FullMeansNoneAvailable,
         NEW all \in BOOLEAN, FileSystems!disks_update(all)
  PROVE  /\ FileSystems!OneRowEach' /\ FileSystems!RowsAreMounts'
         /\ FileSystems!FullMeansNoneAvailable' /\ v11' = 0
<1> DEFINE u == FileSystems!Updated(all)
           N == Len(v1)
<1>1. v1 \in Seq(MountEntry) /\ v2 \in 0..DiskBlocks /\ N \in Nat /\ DOMAIN v1 = 1..N
  BY DEF FileSystems!Mounted, MountEntry
<1>2. /\ DOMAIN v3 \subseteq MountDirs
      /\ \A d \in MountDirs : v4[d] = (IF d \in DOMAIN v3 THEN 1 ELSE 0)
  BY DEF FileSystems!OneRowEach
<1>3. HandledSoFar(N, all, u)
  BY <1>1, <1>2, AllMountsHandled
<1>4. /\ v3' = [d \in DOMAIN u.known \ u.leftover |-> u.known[d]]
      /\ v4' = [d \in MountDirs |-> v4[d] + u.new[d] - (IF d \in u.leftover THEN 1 ELSE 0)]
      /\ v10' = [mounts |-> v1, filled |-> v2, all |-> all] /\ v11' = 0
  BY DEF FileSystems!disks_update, FileSystems!Spliced
<1>5. \A i \in 1..N : v1[i].dir \in MountDirs
  <2>1. \A i \in 1..N : v1[i] \in MountEntry
    BY <1>1
  <2> QED
    BY <2>1 DEF MountEntry
<1>6. \A i \in Kept(N, all) : i \in Listed(N, all) /\ i \in 1..N
  BY DEF Kept, Listed
<1> HIDE DEF u
<1>7. DOMAIN u.known = DOMAIN v3 \cup {v1[i].dir : i \in Kept(N, all)}
  BY <1>3 DEF HandledSoFar
<1>8. u.leftover = DOMAIN v3 \ {v1[i].dir : i \in Listed(N, all)}
  BY <1>3 DEF HandledSoFar
<1>9. DOMAIN v3' = DOMAIN u.known \ u.leftover
  BY <1>4
<1>10. \A d \in DOMAIN v3' : v3'[d] = u.known[d]
  BY <1>4
<1>11. FileSystems!OneRowEach'
  <2>1. DOMAIN v3' \subseteq MountDirs
    BY <1>2, <1>5, <1>6, <1>7, <1>9
  <2>2. ASSUME NEW d \in MountDirs
        PROVE  v4'[d] = (IF d \in DOMAIN v3' THEN 1 ELSE 0)
    <3>1. v4'[d] = v4[d] + u.new[d] - (IF d \in u.leftover THEN 1 ELSE 0)
      BY <1>4
    <3>2. u.new[d] = IF d \in (DOMAIN u.known) \ DOMAIN v3 THEN 1 ELSE 0
      BY <1>3 DEF HandledSoFar
    <3>3. v4[d] = IF d \in DOMAIN v3 THEN 1 ELSE 0
      BY <1>2
    <3>4. u.leftover \subseteq DOMAIN v3 /\ DOMAIN v3 \subseteq DOMAIN u.known
      BY <1>7, <1>8
    <3> QED
      BY <1>9, <3>1, <3>2, <3>3, <3>4
  <2> QED
    BY <2>1, <2>2 DEF FileSystems!OneRowEach
<1>12. FileSystems!FullMeansNoneAvailable'
  <2> SUFFICES ASSUME NEW d \in DOMAIN v3' PROVE Full(v3'[d].figures)
    BY DEF FileSystems!FullMeansNoneAvailable, Full
  <2>1. d \in DOMAIN u.known /\ v3'[d] = u.known[d]
    BY <1>9, <1>10
  <2>2. CASE d \in DOMAIN v3 /\ u.known[d] = v3[d]
    BY <2>1, <2>2 DEF FileSystems!FullMeansNoneAvailable, Full
  <2>3. CASE \E i \in Kept(N, all) : u.known[d] = MountRow(i)
    <3>1. PICK i : u.known[d] = MountRow(i)
      BY <2>3
    <3>2. v3'[d].figures = FileSystems!fsusage_stats(FileSystems!Usage(v1[i].dir))
      BY <2>1, <3>1 DEF MountRow
    <3> QED
      BY <1>1, <3>2, FiguresOfUsage
  <2> QED
    BY <1>3, <2>1, <2>2, <2>3 DEF HandledSoFar
<1>13. FileSystems!RowsAreMounts'
  <2>1. FileSystems!SeenDirs' = {v1[i].dir : i \in 1..N}
    BY <1>1, <1>4 DEF FileSystems!SeenDirs
  <2>2. \A d : FileSystems!SeenTop(d)' = v1[FileSystems!TopAt(d)]
    BY <1>4 DEF FileSystems!SeenTop, FileSystems!TopAt
  <2>3. DOMAIN v3' \subseteq FileSystems!SeenDirs'
    <3>1. \A i \in Listed(N, all) : i \in 1..N
      BY DEF Listed
    <3> QED
      BY <1>6, <1>7, <1>8, <1>9, <2>1, <3>1
  <2>4. ASSUME NEW k \in 1..N, v1[FileSystems!TopAt(v1[k].dir)].kind = "disk" \/ all
        PROVE  LET d == v1[k].dir
                   t == FileSystems!TopAt(d)
               IN d \in DOMAIN v3' /\ v3'[d].device = v1[t].device
                  /\ v3'[d].figures.used = (IF v1[t].kind = "disk" THEN v2 ELSE 0)
    <3> DEFINE d == v1[k].dir
               t == FileSystems!TopAt(d)
    <3>1. /\ t \in 1..N /\ v1[t].dir = d
          /\ \A j \in 1..N : v1[j].dir = d => j <= t
      BY <1>1, TopIsLast
    <3>2. FileSystems!Top(d) = v1[t]
      BY DEF FileSystems!Top
    <3> HIDE DEF d, t
    <3>3. v1[t].kind = "disk" \/ all
      BY <2>4 DEF d, t
    <3>4. t \in Listed(N, all)
      BY <3>1, <3>3 DEF Listed, FileSystems!InMountlist
    <3>5. FileSystems!Usage(d).blocks # 0 <=> v1[t].kind = "disk"
      BY <1>1, <3>2, FiguresOfUsage
    <3>6. t \in Kept(N, all)
      BY <3>1, <3>3, <3>4, <3>5 DEF Kept
    <3>7. d \in DOMAIN u.known /\ d \notin u.leftover
      BY <1>7, <1>8, <3>1, <3>4, <3>6
    <3>8. d \in DOMAIN v3' /\ v3'[d] = u.known[d]
      BY <1>9, <1>10, <3>7
    <3>9. PICK i \in Kept(N, all) : /\ v1[i].dir = d /\ u.known[d] = MountRow(i)
                                   /\ \A j \in Kept(N, all) : v1[j].dir = d => j <= i
      BY <1>3, <3>1, <3>6, <3>7 DEF HandledSoFar
    <3>10. i = t
      BY <1>6, <3>1, <3>6, <3>9
    <3>11. v3'[d] = [device |-> v1[t].device,
                     figures |-> FileSystems!fsusage_stats(FileSystems!Usage(d))]
      BY <3>1, <3>8, <3>9, <3>10 DEF MountRow
    <3>12. FileSystems!fsusage_stats(FileSystems!Usage(d)).used = (IF v1[t].kind = "disk" THEN v2 ELSE 0)
      BY <1>1, <3>2, FiguresOfUsage
    <3>13. v3'[d].device = v1[t].device /\ v3'[d].figures.used = (IF v1[t].kind = "disk" THEN v2 ELSE 0)
      BY <3>11, <3>12
    <3> QED
      BY <3>8, <3>13 DEF d, t
  <2>5. v10'.all = all /\ v10'.filled = v2
    BY <1>4
  <2>6. ASSUME NEW d \in FileSystems!SeenDirs', FileSystems!SeenTop(d)'.kind = "disk" \/ v10'.all
        PROVE  /\ d \in DOMAIN v3' /\ v3'[d].device = FileSystems!SeenTop(d)'.device
               /\ v3'[d].figures.used =
                    (IF FileSystems!SeenTop(d)'.kind = "disk" THEN v10'.filled ELSE 0)
    <3>1. PICK k \in 1..N : d = v1[k].dir
      BY <2>1
    <3>2. FileSystems!SeenTop(d)' = v1[FileSystems!TopAt(d)]
      BY <2>2
    <3>3. v1[FileSystems!TopAt(v1[k].dir)].kind = "disk" \/ all
      BY <2>5, <2>6, <3>1, <3>2
    <3> QED
      BY <2>4, <2>5, <3>1, <3>2, <3>3
  <2> QED
    BY <2>3, <2>6 DEF FileSystems!RowsAreMounts
<1> QED
  BY <1>4, <1>11, <1>12, <1>13

DisksInv == part = "disks" =>
  /\ FileSystems!Mounted /\ FileSystems!TimerFollows /\ FileSystems!Sound
  /\ v5 \in BOOLEAN /\ v6 \in Nat

LEMMA DisksInvInit == Init => DisksInv
<1> SUFFICES ASSUME FileSystems!Init
             PROVE  /\ FileSystems!Mounted /\ FileSystems!TimerFollows /\ FileSystems!Sound
                    /\ v5 \in BOOLEAN /\ v6 \in Nat
  BY DEF Init, DisksInv, Pure, Readings, Cards, Reader
<1>1. PICK dir \in MountDirs : v1 = <<[dir |-> dir, kind |-> "disk", device |-> 0]>>
  BY DEF FileSystems!Init
<1>2. /\ v2 = 0 /\ v5 = FALSE /\ v6 \in DiskIntervals /\ v7 = v6 /\ v8 = FALSE /\ v9 = FALSE
      /\ v11 = 0 /\ v12 = 0
  BY DEF FileSystems!Init
<1>3. Len(v1) = 1 /\ DOMAIN v1 = {1} /\ v1[1] = [dir |-> dir, kind |-> "disk", device |-> 0]
  BY <1>1
<1>4. v1[1].dir = dir /\ v1[1].kind = "disk" /\ v1[1].device = 0
  BY <1>3
<1>5. v3 = [d \in {dir} |-> [device |-> 0,
                             figures |-> FileSystems!fsusage_stats(FileSystems!Usage(d))]]
  BY <1>4 DEF FileSystems!Init
<1>6. /\ v4 = [d \in MountDirs |-> IF d = dir THEN 1 ELSE 0]
      /\ v10 = [mounts |-> v1, filled |-> 0, all |-> FALSE]
  BY <1>4 DEF FileSystems!Init
<1>7. FileSystems!Mounted
  <2>1. v1[1] \in MountEntry
    BY <1>3 DEF MountEntry
  <2>2. v1 \in Seq(MountEntry)
    BY <1>1, <1>3, <2>1
  <2> QED
    BY <1>2, <2>2, ListAssumption DEF FileSystems!Mounted, MountEntry
<1>8. FileSystems!TimerFollows
  BY <1>2, ListAssumption DEF FileSystems!TimerFollows, FileSystems!NoTimer
<1>9. FileSystems!OneRowEach
  BY <1>5, <1>6 DEF FileSystems!OneRowEach
<1>10. FileSystems!Top(dir) = v1[1] /\ FileSystems!SeenTop(dir) = v1[1]
  <2>1. \A i \in DOMAIN v1 : i = 1
    BY <1>3
  <2>2. FileSystems!TopAt(dir) = 1
    BY <1>3, <1>4, <2>1 DEF FileSystems!TopAt
  <2> QED
    BY <1>6, <2>2 DEF FileSystems!Top, FileSystems!TopAt, FileSystems!SeenTop
<1>11. v2 \in 0..DiskBlocks
  BY <1>2, ListAssumption
<1>12. FileSystems!fsusage_stats(FileSystems!Usage(dir)).used = 0
  BY <1>2, <1>11, FiguresOfUsage
<1>13. FileSystems!SeenDirs = {dir}
  BY <1>3, <1>4, <1>6 DEF FileSystems!SeenDirs
<1>14. FileSystems!RowsAreMounts
  BY <1>4, <1>5, <1>6, <1>10, <1>12, <1>13 DEF FileSystems!RowsAreMounts
<1>15. FileSystems!FullMeansNoneAvailable
  BY <1>5, <1>11, FiguresOfUsage DEF FileSystems!FullMeansNoneAvailable, Full
<1>16. FileSystems!SeenIsRecent
  BY <1>2 DEF FileSystems!SeenIsRecent
<1> QED
  BY <1>2, <1>7, <1>8, <1>9, <1>14, <1>15, <1>16, ListAssumption DEF FileSystems!Sound

(* The mounts change, and nothing that is shown.                           *)
LEMMA MountsStay ==
  ASSUME FileSystems!Mounted, FileSystems!Next \/ UNCHANGED FileSystems!vars
  PROVE  v1' \in Seq(MountEntry) /\ v2' \in 0..DiskBlocks
<1>1. v1 \in Seq(MountEntry) /\ v2 \in 0..DiskBlocks /\ v12 \in Nat
  BY DEF FileSystems!Mounted, MountEntry
<1>2. ASSUME NEW dir \in MountDirs, FileSystems!Unmount(dir)
      PROVE  v1' \in Seq(MountEntry) /\ v2' = v2
  <2>1. PICK k \in 1..Len(v1) : v1[k].dir = dir
    BY <1>1, <1>2 DEF FileSystems!Unmount
  <2>2. PICK t \in 1..Len(v1) : t = FileSystems!TopAt(dir)
    BY <1>1, <2>1, TopIsLast
  <2>3. v1' = SubSeq(v1, 1, t - 1) \o SubSeq(v1, t + 1, Len(v1)) /\ v2' = v2
    BY <1>2, <2>2 DEF FileSystems!Unmount, FileSystems!RemoveAt
  <2>4. SubSeq(v1, 1, t - 1) \in Seq(MountEntry) /\ SubSeq(v1, t + 1, Len(v1)) \in Seq(MountEntry)
    BY <1>1
  <2> QED
    BY <2>3, <2>4
<1>3. ASSUME NEW dir \in MountDirs, NEW kind \in MountKinds, FileSystems!Mount(dir, kind)
      PROVE  v1' \in Seq(MountEntry) /\ v2' = v2
  <2>1. v12' \in Nat /\ v2' = v2 /\ v1' = Append(v1, [dir |-> dir, kind |-> kind, device |-> v12'])
    BY <1>1, <1>3 DEF FileSystems!Mount, FileSystems!Counted
  <2>2. [dir |-> dir, kind |-> kind, device |-> v12'] \in MountEntry
    BY <2>1 DEF MountEntry
  <2> QED
    BY <1>1, <2>1, <2>2, AppendProperties
<1>4. CASE FileSystems!Write
  BY <1>1, <1>4 DEF FileSystems!Write
<1>5. ASSUME \/ FileSystems!mount_changed \/ FileSystems!Tick \/ FileSystems!disks_timeout
             \/ \E interval \in DiskIntervals : FileSystems!set_update_interval(interval)
             \/ FileSystems!set_show_all_fs \/ FileSystems!map \/ FileSystems!unmap
             \/ FileSystems!suspended_notified \/ UNCHANGED FileSystems!vars
      PROVE  v1' = v1 /\ v2' = v2
  BY <1>5 DEF FileSystems!mount_changed, FileSystems!Tick, FileSystems!disks_timeout,
     FileSystems!set_update_interval, FileSystems!set_show_all_fs, FileSystems!map,
     FileSystems!unmap, FileSystems!suspended_notified, FileSystems!vars
<1> QED
  BY <1>1, <1>2, <1>3, <1>4, <1>5 DEF FileSystems!Next

(* A step refreshes, or leaves the rows and what they were read from.      *)
LEMMA RefreshOrNot ==
  ASSUME FileSystems!Next \/ UNCHANGED FileSystems!vars, v5 \in BOOLEAN
  PROVE  /\ v5' \in BOOLEAN
         /\ UNCHANGED <<v3, v4, v10>> \/ \E all \in BOOLEAN : FileSystems!disks_update(all)
<1>1. ASSUME NEW interval, NEW reset, FileSystems!setup_timeout(interval, reset)
      PROVE  UNCHANGED <<v3, v4, v10>> \/ \E all \in BOOLEAN : FileSystems!disks_update(all)
  BY <1>1 DEF FileSystems!setup_timeout, FileSystems!Kept
<1>2. CASE \/ \E dir \in MountDirs :
                FileSystems!Unmount(dir) \/ \E kind \in MountKinds : FileSystems!Mount(dir, kind)
           \/ FileSystems!Write \/ FileSystems!Tick \/ FileSystems!unmap
           \/ UNCHANGED FileSystems!vars
  BY <1>2 DEF FileSystems!Mount, FileSystems!Unmount, FileSystems!Write, FileSystems!Tick,
     FileSystems!unmap, FileSystems!vars
<1>3. CASE FileSystems!mount_changed \/ FileSystems!disks_timeout
  BY <1>3 DEF FileSystems!mount_changed, FileSystems!disks_timeout
<1>4. CASE FileSystems!set_show_all_fs
  <2>1. v5' \in BOOLEAN /\ FileSystems!disks_update(v5')
    BY <1>4 DEF FileSystems!set_show_all_fs
  <2> QED
    BY <2>1
<1>5. CASE \E interval \in DiskIntervals : FileSystems!set_update_interval(interval)
  BY <1>1, <1>5 DEF FileSystems!set_update_interval
<1>6. CASE FileSystems!map
  BY <1>1, <1>6 DEF FileSystems!map
<1>7. CASE FileSystems!suspended_notified
  <2>1. v5' = v5 /\ (FileSystems!Kept \/ FileSystems!setup_timeout(v6, FALSE))
    BY <1>7 DEF FileSystems!suspended_notified
  <2> QED
    BY <1>1, <2>1 DEF FileSystems!Kept
<1> QED
  BY <1>2, <1>3, <1>4, <1>5, <1>6, <1>7 DEF FileSystems!Next

(* The timer, whatever the page, the window and the setting do.            *)
LEMMA TimerKept ==
  ASSUME FileSystems!TimerFollows, v6 \in Nat, v11 \in Nat,
         FileSystems!Next \/ UNCHANGED FileSystems!vars
  PROVE  FileSystems!TimerFollows' /\ v6' \in Nat /\ v11' \in Nat
<1>1. \A all : FileSystems!disks_update(all) => v11' = 0
  BY DEF FileSystems!disks_update, FileSystems!Spliced
<1>2. /\ v8 /\ ~v9 => v7 # -1
      /\ v7 # -1 => v7 \in Nat /\ v11 + v7 <= v6
  BY DEF FileSystems!TimerFollows, FileSystems!NoTimer
<1>3. ASSUME NEW interval \in Nat, NEW reset, FileSystems!setup_timeout(interval, reset)
      PROVE  \/ v7 # -1 /\ ~reset /\ v7' = v7 /\ v11' = v11
             \/ v7' = interval /\ v11' = 0
  BY <1>1, <1>3 DEF FileSystems!setup_timeout, FileSystems!Kept, FileSystems!NoTimer
<1>13. ASSUME FileSystems!setup_timeout(v6, FALSE)
       PROVE  (v7 # -1 /\ v7' = v7 /\ v11' = v11) \/ (v7' = v6 /\ v11' = 0)
  BY <1>1, <1>13 DEF FileSystems!setup_timeout, FileSystems!Kept, FileSystems!NoTimer
<1> SUFFICES /\ (v8' /\ ~v9') => v7' # -1
             /\ v7' # -1 => v7' \in Nat /\ v11' + v7' <= v6'
             /\ v6' \in Nat /\ v11' \in Nat
  BY DEF FileSystems!TimerFollows, FileSystems!NoTimer
<1>4. CASE \/ \E dir \in MountDirs :
                FileSystems!Unmount(dir) \/ \E kind \in MountKinds : FileSystems!Mount(dir, kind)
           \/ FileSystems!Write \/ UNCHANGED FileSystems!vars
  <2>1. UNCHANGED <<v6, v7, v8, v9, v11>>
    BY <1>4 DEF FileSystems!Mount, FileSystems!Unmount, FileSystems!Write, FileSystems!vars
  <2> QED
    BY <1>2, <2>1
<1>5. CASE FileSystems!Tick
  <2>1. /\ v7 # 0 /\ v11' = v11 + 1 /\ v7' = (IF v7 = -1 THEN -1 ELSE v7 - 1)
        /\ UNCHANGED <<v6, v8, v9>>
    BY <1>5 DEF FileSystems!Tick, FileSystems!NoTimer
  <2> QED
    BY <1>2, <2>1
<1>6. CASE FileSystems!mount_changed \/ FileSystems!set_show_all_fs
  <2>1. v11' = 0 /\ UNCHANGED <<v6, v7, v8, v9>>
    BY <1>1, <1>6 DEF FileSystems!mount_changed, FileSystems!set_show_all_fs
  <2> QED
    BY <1>2, <2>1
<1>7. CASE FileSystems!disks_timeout
  <2>1. v11' = 0 /\ v7' = v6 /\ UNCHANGED <<v6, v8, v9>>
    BY <1>1, <1>7 DEF FileSystems!disks_timeout
  <2> QED
    BY <1>2, <2>1
<1>8. ASSUME NEW interval \in DiskIntervals, FileSystems!set_update_interval(interval)
      PROVE  v11' = 0 /\ v7' = interval /\ v6' = interval /\ interval \in Nat
  BY <1>3, <1>8, ListAssumption DEF FileSystems!set_update_interval
<1>9. CASE FileSystems!map
  <2>1. FileSystems!setup_timeout(v6, FALSE) /\ UNCHANGED <<v6, v9>>
    BY <1>9 DEF FileSystems!map
  <2>2. (v7 # -1 /\ v7' = v7 /\ v11' = v11) \/ (v7' = v6 /\ v11' = 0)
    BY <1>13, <2>1
  <2> QED
    BY <1>2, <2>1, <2>2
<1>10. CASE FileSystems!unmap
  <2>1. v7' = -1 /\ v8' = FALSE /\ UNCHANGED <<v6, v11>>
    BY <1>10 DEF FileSystems!unmap, FileSystems!NoTimer
  <2> QED
    BY <2>1
<1>11. CASE FileSystems!suspended_notified
  <2>1. CASE v9' /\ v7' = -1 /\ FileSystems!Kept
    <3>1. UNCHANGED <<v6, v11>>
      BY <1>11, <2>1 DEF FileSystems!suspended_notified, FileSystems!Kept
    <3> QED
      BY <2>1, <3>1
  <2>2. CASE FileSystems!setup_timeout(v6, FALSE)
    <3>1. (v7 # -1 /\ v7' = v7 /\ v11' = v11) \/ (v7' = v6 /\ v11' = 0)
      BY <1>13, <2>2
    <3>2. v6' = v6
      BY <1>11 DEF FileSystems!suspended_notified
    <3> QED
      BY <1>2, <3>1, <3>2
  <2> QED
    BY <1>11, <2>1, <2>2 DEF FileSystems!suspended_notified, FileSystems!NoTimer
<1>12. CASE \E interval \in DiskIntervals : FileSystems!set_update_interval(interval)
  <2>1. PICK interval \in DiskIntervals : FileSystems!set_update_interval(interval)
    BY <1>12
  <2>2. v11' = 0 /\ v7' = interval /\ v6' = interval /\ interval \in Nat
    BY <1>8, <2>1
  <2> QED
    BY <2>2
<1> QED
  BY <1>4, <1>5, <1>6, <1>7, <1>9, <1>10, <1>11, <1>12 DEF FileSystems!Next

LEMMA DisksInvNext == DisksInv /\ [Next]_partsVars => DisksInv'
<1> SUFFICES ASSUME FileSystems!Mounted, FileSystems!TimerFollows, FileSystems!Sound,
                    v5 \in BOOLEAN, v6 \in Nat,
                    FileSystems!Next \/ UNCHANGED FileSystems!vars
             PROVE  /\ FileSystems!Mounted' /\ FileSystems!TimerFollows' /\ FileSystems!Sound'
                    /\ v5' \in BOOLEAN /\ v6' \in Nat
  BY DEF Next, DisksInv, partsVars, from6, FileSystems!vars, Pure, Readings, Cards, Reader, ReadInput
<1>1. v11 \in Nat /\ v12 \in Nat
  BY DEF FileSystems!Mounted
<1>2. FileSystems!TimerFollows' /\ v6' \in Nat /\ v11' \in Nat
  BY <1>1, TimerKept
<1>3. v12' \in Nat
  <2>1. ASSUME \/ \E dir \in MountDirs :
                    FileSystems!Unmount(dir) \/ \E kind \in MountKinds : FileSystems!Mount(dir, kind)
               \/ FileSystems!Write \/ FileSystems!set_show_all_fs \/ FileSystems!map
               \/ \E interval \in DiskIntervals : FileSystems!set_update_interval(interval)
               \/ FileSystems!unmap \/ FileSystems!suspended_notified
        PROVE  FileSystems!Counted
    BY <2>1 DEF FileSystems!Mount, FileSystems!Unmount, FileSystems!Write,
       FileSystems!set_update_interval, FileSystems!set_show_all_fs, FileSystems!map,
       FileSystems!unmap, FileSystems!suspended_notified
  <2>2. ASSUME \/ FileSystems!mount_changed \/ FileSystems!Tick \/ FileSystems!disks_timeout
               \/ UNCHANGED FileSystems!vars
        PROVE  v12' = v12
    BY <2>2 DEF FileSystems!mount_changed, FileSystems!Tick, FileSystems!disks_timeout,
       FileSystems!vars
  <2>3. FileSystems!Counted \/ v12' = v12
    BY <2>1, <2>2 DEF FileSystems!Next
  <2> QED
    BY <1>1, <2>3 DEF FileSystems!Counted
<1>4. FileSystems!Mounted'
  BY <1>2, <1>3, MountsStay DEF FileSystems!Mounted, MountEntry
<1>5. FileSystems!OneRowEach /\ FileSystems!RowsAreMounts /\ FileSystems!FullMeansNoneAvailable
  BY DEF FileSystems!Sound
<1>6. FileSystems!OneRowEach' /\ FileSystems!RowsAreMounts' /\ FileSystems!FullMeansNoneAvailable'
  <2>1. CASE UNCHANGED <<v3, v4, v10>>
    <3>1. FileSystems!OneRowEach' /\ FileSystems!FullMeansNoneAvailable'
      BY <1>5, <2>1 DEF FileSystems!OneRowEach, FileSystems!FullMeansNoneAvailable
    <3>2. FileSystems!SeenDirs' = FileSystems!SeenDirs
      BY <2>1 DEF FileSystems!SeenDirs
    <3>3. \A d : FileSystems!SeenTop(d)' = FileSystems!SeenTop(d)
      BY <2>1 DEF FileSystems!SeenTop
    <3>4. v3' = v3 /\ v10' = v10
      BY <2>1
    <3>5. FileSystems!RowsAreMounts'
      BY <1>5, <3>2, <3>3, <3>4 DEF FileSystems!RowsAreMounts
    <3> QED
      BY <3>1, <3>5
  <2>2. CASE \E all \in BOOLEAN : FileSystems!disks_update(all)
    BY <1>5, <2>2, RefreshLists
  <2> QED
    BY <2>1, <2>2, RefreshOrNot
<1>7. FileSystems!SeenIsRecent'
  <2>1. (v8' /\ ~v9') => v11' <= v6'
    BY <1>2 DEF FileSystems!TimerFollows
  <2> QED
    BY <2>1 DEF FileSystems!SeenIsRecent
<1> QED
  BY <1>2, <1>4, <1>6, <1>7, RefreshOrNot DEF FileSystems!Sound

-----------------------------------------------------------------------------
(***************************************************************************)
(* MemMaps: maps v1, list_store v2, alive v3, seen v4, squeezed v5,        *)
(* changes v6.                                                             *)
(***************************************************************************)
MapRow == [start : AddressSpace!Starts, figures : Nat]

(* No two of the rows are of maps that start alike.                        *)
Apart(rows) == \A i, j \in 1..Len(rows) : rows[i].start = rows[j].start => i = j

(* The loop over the rows, step by step.                                   *)
LEMMA RowsKept ==
  ASSUME Len(v2) \in Nat
  PROVE  \E u : /\ u[0] = <<>>
                /\ \A n \in 1..Len(v2) :
                     u[n] = IF v2[n].start \in DOMAIN v1 THEN Append(u[n - 1], v2[n]) ELSE u[n - 1]
                /\ AddressSpace!Remaining = u[Len(v2)]
<1> DEFINE Step(n, was) == IF v2[n].start \in DOMAIN v1 THEN Append(was, v2[n]) ELSE was
           Runs(N, u) == u = [n \in 0..N |-> IF n = 0 THEN <<>> ELSE Step(n, u[n - 1])]
           Reached == {N \in 0..Len(v2) : \E u : Runs(N, u)}
<1> HIDE DEF Step
<1>1. 0 \in Reached
  <2> DEFINE u == [n \in 0..0 |-> <<>>]
  <2>1. Runs(0, u)
    OBVIOUS
  <2> HIDE DEF u, Runs
  <2> QED
    BY <2>1
<1>2. ASSUME NEW N \in 1..Len(v2), N - 1 \in Reached
      PROVE  N \in Reached
  <2>1. PICK u : Runs(N - 1, u)
    BY <1>2
  <2> DEFINE w == [n \in 0..N |-> IF n < N THEN u[n] ELSE Step(N, u[N - 1])]
  <2>2. \A n \in 0..(N - 1) : u[n] = IF n = 0 THEN <<>> ELSE Step(n, u[n - 1])
    BY <2>1
  <2>3. \A n \in 0..N : w[n] = IF n = 0 THEN <<>> ELSE Step(n, w[n - 1])
    BY <2>2
  <2>4. Runs(N, w)
    BY <2>3
  <2> HIDE DEF w, Runs
  <2> QED
    BY <2>4
<1>3. \E u : Runs(Len(v2), u)
  <2> HIDE DEF Reached
  <2>1. \A N \in 0..Len(v2) : N \in Reached
    BY <1>1, <1>2, CountedUp
  <2> QED
    BY <2>1 DEF Reached
<1> DEFINE kept == CHOOSE u : Runs(Len(v2), u)
<1>4. Runs(Len(v2), kept)
  BY <1>3
<1>5. AddressSpace!Remaining = kept[Len(v2)]
  BY DEF AddressSpace!Remaining, Step
<1> HIDE DEF kept
<1>6. kept[0] = <<>> /\ \A n \in 1..Len(v2) : kept[n] = Step(n, kept[n - 1])
  BY <1>4
<1> QED
  BY <1>5, <1>6 DEF Step

(* Rows of maps that are there, all among the first n of the list.         *)
KeptOf(kept, n) ==
  /\ kept \in Seq(MapRow)
  /\ \A i \in 1..Len(kept) :
       kept[i].start \in DOMAIN v1 /\ \E j \in 1..n : kept[i] = v2[j]
  /\ Apart(v2) => Apart(kept)

LEMMA RemainingRows ==
  ASSUME v2 \in Seq(MapRow)
  PROVE  KeptOf(AddressSpace!Remaining, Len(v2))
<1>1. PICK u : /\ u[0] = <<>>
               /\ \A n \in 1..Len(v2) :
                    u[n] = IF v2[n].start \in DOMAIN v1 THEN Append(u[n - 1], v2[n]) ELSE u[n - 1]
               /\ AddressSpace!Remaining = u[Len(v2)]
  BY RowsKept
<1> DEFINE Reached == {n \in 0..Len(v2) : KeptOf(u[n], n)}
<1>2. 0 \in Reached
  <2>1. KeptOf(<<>>, 0)
    BY DEF KeptOf, Apart
  <2> QED
    BY <1>1, <2>1
<1>3. ASSUME NEW n \in 1..Len(v2), n - 1 \in Reached
      PROVE  n \in Reached
  <2>1. PICK was : was = u[n - 1]
    OBVIOUS
  <2>2. KeptOf(was, n - 1) /\ n - 1 \in Nat
    BY <1>3, <2>1
  <2>3. v2[n] \in MapRow
    OBVIOUS
  <2>4. CASE v2[n].start \notin DOMAIN v1
    <3>1. u[n] = was
      BY <1>1, <2>1, <2>4
    <3>2. KeptOf(was, n)
      BY <2>2 DEF KeptOf
    <3> QED
      BY <3>1, <3>2
  <2>5. CASE v2[n].start \in DOMAIN v1
    <3>1. PICK w : w = Append(was, v2[n])
      OBVIOUS
    <3>2. /\ w \in Seq(MapRow) /\ Len(w) = Len(was) + 1 /\ w[Len(was) + 1] = v2[n]
          /\ \A i \in 1..Len(was) : w[i] = was[i]
      BY <2>2, <2>3, <3>1, AppendProperties DEF KeptOf
    <3>3. Len(was) \in Nat
      BY <2>2 DEF KeptOf
    <3>4. \A i \in 1..Len(w) : i = Len(was) + 1 \/ i \in 1..Len(was)
      BY <3>2, <3>3
    <3>5. ASSUME NEW i \in 1..Len(w)
          PROVE  w[i].start \in DOMAIN v1 /\ \E j \in 1..n : w[i] = v2[j]
      <4>1. CASE i = Len(was) + 1
        BY <2>5, <3>2, <4>1
      <4>2. CASE i \in 1..Len(was)
        BY <2>2, <3>2, <4>2 DEF KeptOf
      <4> QED
        BY <3>4, <4>1, <4>2
    <3>6. ASSUME Apart(v2), NEW i \in 1..Len(w), NEW j \in 1..Len(w), w[i].start = w[j].start
          PROVE  i = j
      <4>1. ASSUME NEW k \in 1..Len(was) PROVE was[k].start # v2[n].start
        <5>1. PICK m \in 1..(n - 1) : was[k] = v2[m]
          BY <2>2 DEF KeptOf
        <5>2. m \in 1..Len(v2) /\ m # n
          OBVIOUS
        <5> QED
          BY <3>6, <5>1, <5>2 DEF Apart
      <4>2. CASE i \in 1..Len(was) /\ j \in 1..Len(was)
        <5>1. w[i] = was[i] /\ w[j] = was[j] /\ Apart(was)
          BY <2>2, <3>2, <3>6, <4>2 DEF KeptOf
        <5> QED
          BY <3>6, <4>2, <5>1 DEF Apart
      <4>3. CASE i = Len(was) + 1 /\ j \in 1..Len(was)
        BY <3>2, <3>6, <4>1, <4>3
      <4>4. CASE j = Len(was) + 1 /\ i \in 1..Len(was)
        BY <3>2, <3>6, <4>1, <4>4
      <4> QED
        BY <3>4, <4>2, <4>3, <4>4
    <3>7. KeptOf(w, n)
      BY <3>2, <3>5, <3>6 DEF KeptOf, Apart
    <3> QED
      BY <1>1, <2>1, <2>5, <3>1, <3>7
  <2> QED
    BY <2>4, <2>5
<1>4. \A n \in 0..Len(v2) : n \in Reached
  <2>1. Len(v2) \in Nat
    OBVIOUS
  <2> HIDE DEF Reached
  <2> QED
    BY <2>1, <1>2, <1>3, CountedUp
<1> QED
  BY <1>1, <1>4

(* Rows of maps that are there, and the place of one of each.              *)
Placed(rem, cache) ==
  /\ rem \in Seq(MapRow) /\ \A i \in 1..Len(rem) : rem[i].start \in DOMAIN v1
  /\ DOMAIN cache = {rem[i].start : i \in 1..Len(rem)}
  /\ \A s \in DOMAIN cache : cache[s] \in 1..Len(rem) /\ rem[cache[s]].start = s

LEMMA RemainingPlaced ==
  ASSUME v2 \in Seq(MapRow), NEW rem, rem = AddressSpace!Remaining
  PROVE  Placed(rem, AddressSpace!IterCache(rem))
<1>1. KeptOf(rem, Len(v2))
  BY RemainingRows
<1>2. rem \in Seq(MapRow) /\ DOMAIN rem = 1..Len(rem)
  BY <1>1 DEF KeptOf
<1> DEFINE cache == AddressSpace!IterCache(rem)
           LastOf(s, p) == rem[p].start = s /\ \A q \in DOMAIN rem : rem[q].start = s => q <= p
<1>3. cache = [s \in {rem[i].start : i \in DOMAIN rem} |-> CHOOSE p \in DOMAIN rem : LastOf(s, p)]
  BY DEF AddressSpace!IterCache
<1>4. ASSUME NEW s \in {rem[i].start : i \in DOMAIN rem}
      PROVE  \E p \in DOMAIN rem : LastOf(s, p)
  <2> DEFINE places == {p \in 1..Len(rem) : rem[p].start = s}
  <2>1. places # {} /\ places \subseteq Nat
    BY <1>2
  <2>2. places \in SUBSET (1..Len(rem))
    OBVIOUS
  <2>3. IsFiniteSet(1..Len(rem))
    BY <1>2, FS_Interval
  <2>4. IsFiniteSet(places)
    BY <2>2, <2>3, FS_Subset
  <2> HIDE DEF places
  <2>5. \E m \in places : \A x \in places : m >= x
    BY <2>1, <2>4, GreatestNumber
  <2> QED
    BY <1>2, <2>5 DEF places
<1>5. ASSUME NEW s \in DOMAIN cache
      PROVE  cache[s] \in DOMAIN rem /\ rem[cache[s]].start = s
  <2>1. s \in {rem[i].start : i \in DOMAIN rem}
    BY <1>3
  <2>2. cache[s] = CHOOSE p \in DOMAIN rem : LastOf(s, p)
    BY <1>3, <2>1
  <2> HIDE DEF cache
  <2>3. \E p \in DOMAIN rem : LastOf(s, p)
    BY <1>4, <2>1
  <2> HIDE DEF LastOf
  <2>4. cache[s] \in DOMAIN rem /\ LastOf(s, cache[s])
    BY <2>2, <2>3
  <2> QED
    BY <2>4 DEF LastOf
<1>6. DOMAIN cache = {rem[i].start : i \in 1..Len(rem)}
  BY <1>2, <1>3
<1> HIDE DEF cache
<1>7. Placed(rem, cache)
  BY <1>1, <1>2, <1>5, <1>6 DEF Placed, KeptOf
<1> QED
  BY <1>7 DEF cache
-----------------------------------------------------------------------------
LEMMA InsertedAt ==
  ASSUME NEW S, NEW s \in Seq(S), NEW e \in S, NEW p \in 1..(Len(s) + 1), NEW w,
         w = AddressSpace!InsertAt(s, p, e)
  PROVE  /\ w \in Seq(S) /\ Len(w) = Len(s) + 1
         /\ \A i \in 1..(p - 1) : w[i] = s[i]
         /\ w[p] = e
         /\ \A i \in (p + 1)..(Len(s) + 1) : w[i] = s[i - 1]
<1>1. Len(s) \in Nat /\ \A i \in 1..Len(s) : s[i] \in S
  OBVIOUS
<1>2. PICK a : a = SubSeq(s, 1, p - 1)
  OBVIOUS
<1>3. PICK b : b = SubSeq(s, p, Len(s))
  OBVIOUS
<1>4. a \in Seq(S) /\ Len(a) = p - 1 /\ \A i \in 1..(p - 1) : a[i] = s[i]
  <2>1. \A i \in 1..(p - 1) : s[i] \in S
    BY <1>1
  <2>2. /\ a \in Seq(S) /\ Len(a) = IF 1 <= p - 1 THEN p - 1 - 1 + 1 ELSE 0
        /\ \A i \in 1..(p - 1 - 1 + 1) : a[i] = s[1 + i - 1]
    BY <1>1, <1>2, <2>1, SubSeqProperties
  <2> QED
    BY <1>1, <2>2
<1>5. b \in Seq(S) /\ Len(b) = Len(s) - p + 1 /\ \A i \in 1..(Len(s) - p + 1) : b[i] = s[p + i - 1]
  <2>1. \A i \in p..Len(s) : s[i] \in S
    BY <1>1
  <2>2. /\ b \in Seq(S) /\ Len(b) = IF p <= Len(s) THEN Len(s) - p + 1 ELSE 0
        /\ \A i \in 1..(Len(s) - p + 1) : b[i] = s[p + i - 1]
    BY <1>1, <1>3, <2>1, SubSeqProperties
  <2> QED
    BY <1>1, <2>2
<1>6. PICK c : c = a \o <<e>>
  OBVIOUS
<1>7. /\ c \in Seq(S) /\ Len(c) = p
      /\ \A i \in 1..p : c[i] = IF i <= p - 1 THEN a[i] ELSE <<e>>[i - (p - 1)]
  <2>1. <<e>> \in Seq(S) /\ Len(<<e>>) = 1
    OBVIOUS
  <2>2. /\ c \in Seq(S) /\ Len(c) = Len(a) + 1
        /\ \A i \in 1..(Len(a) + 1) : c[i] = IF i <= Len(a) THEN a[i] ELSE <<e>>[i - Len(a)]
    BY <1>4, <1>6, <2>1, ConcatProperties
  <2> QED
    BY <1>1, <1>4, <2>2
<1>8. w = c \o b
  BY <1>2, <1>3, <1>6 DEF AddressSpace!InsertAt
<1>9. /\ w \in Seq(S) /\ Len(w) = Len(c) + Len(b)
      /\ \A i \in 1..(Len(c) + Len(b)) : w[i] = IF i <= Len(c) THEN c[i] ELSE b[i - Len(c)]
  <2>1. c \in Seq(S) /\ b \in Seq(S)
    BY <1>5, <1>7
  <2> QED
    BY <1>8, <2>1, ConcatProperties
<1>10. Len(w) = Len(s) + 1
  BY <1>1, <1>5, <1>7, <1>9
<1>11. ASSUME NEW i \in 1..(p - 1)
       PROVE  w[i] = s[i]
  BY <1>1, <1>4, <1>5, <1>7, <1>9
<1>12. w[p] = e
  <2>1. w[p] = c[p]
    BY <1>1, <1>5, <1>7, <1>9
  <2>2. c[p] = <<e>>[1]
    BY <1>7
  <2> QED
    BY <2>1, <2>2
<1>13. ASSUME NEW i \in (p + 1)..(Len(s) + 1)
       PROVE  w[i] = s[i - 1]
  <2>1. w[i] = b[i - p]
    BY <1>1, <1>5, <1>7, <1>9
  <2>2. i - p \in 1..(Len(s) - p + 1) /\ p + (i - p) - 1 = i - 1
    BY <1>1
  <2> QED
    BY <1>5, <2>1, <2>2
<1> QED
  BY <1>9, <1>10, <1>11, <1>12, <1>13

(* The loop over the maps, step by step.                                   *)
LEMMA MapsHandled ==
  ASSUME NEW rem, NEW cache
  PROVE  \E u : /\ u[0] = [rows |-> rem, position |-> Len(rem) + 1]
                /\ \A n \in 1..LastStart :
                     u[n] = IF n \in DOMAIN v1
                            THEN AddressSpace!update_row(cache, u[n - 1], AddressSpace!Map(n))
                            ELSE u[n - 1]
                /\ AddressSpace!Filled(rem, cache) = u[LastStart].rows
<1> DEFINE First == [rows |-> rem, position |-> Len(rem) + 1]
           Step(n, was) == IF n \in DOMAIN v1
                           THEN AddressSpace!update_row(cache, was, AddressSpace!Map(n)) ELSE was
           Runs(N, u) == u = [n \in 0..N |-> IF n = 0 THEN First ELSE Step(n, u[n - 1])]
           Reached == {N \in 0..LastStart : \E u : Runs(N, u)}
<1> HIDE DEF Step, First
<1>1. LastStart \in Nat
  BY ListAssumption
<1>2. 0 \in Reached
  <2> DEFINE u == [n \in 0..0 |-> First]
  <2>1. Runs(0, u)
    OBVIOUS
  <2> HIDE DEF u, Runs
  <2> QED
    BY <1>1, <2>1
<1>3. ASSUME NEW N \in 1..LastStart, N - 1 \in Reached
      PROVE  N \in Reached
  <2>1. PICK u : Runs(N - 1, u)
    BY <1>3
  <2> DEFINE w == [n \in 0..N |-> IF n < N THEN u[n] ELSE Step(N, u[N - 1])]
  <2>2. \A n \in 0..(N - 1) : u[n] = IF n = 0 THEN First ELSE Step(n, u[n - 1])
    BY <1>1, <2>1
  <2>3. \A n \in 0..N : w[n] = IF n = 0 THEN First ELSE Step(n, w[n - 1])
    BY <1>1, <2>2
  <2>4. Runs(N, w)
    BY <2>3
  <2> HIDE DEF w, Runs
  <2> QED
    BY <1>1, <2>4
<1>4. \E u : Runs(LastStart, u)
  <2> HIDE DEF Reached
  <2>1. \A N \in 0..LastStart : N \in Reached
    BY <1>1, <1>2, <1>3, CountedUp
  <2>2. LastStart \in Reached
    BY <1>1, <2>1
  <2> QED
    BY <2>2 DEF Reached
<1> DEFINE done == CHOOSE u : Runs(LastStart, u)
<1>5. Runs(LastStart, done)
  BY <1>4
<1>6. AddressSpace!Filled(rem, cache) = done[LastStart].rows
  BY DEF AddressSpace!Filled, Step, First
<1> HIDE DEF done
<1>7. done[0] = First /\ \A n \in 1..LastStart : done[n] = Step(n, done[n - 1])
  BY <1>1, <1>5
<1> QED
  BY <1>6, <1>7 DEF Step, First

(* After the maps up to address n: rows of maps that are there, the ones   *)
(* that were there before among them.                                      *)
FilledSoFar(n, done, rem) ==
  /\ done.rows \in Seq(MapRow) /\ Len(done.rows) >= Len(rem)
  /\ done.position \in 1..(Len(done.rows) + 1)
  /\ \A i \in 1..Len(done.rows) : done.rows[i].start \in DOMAIN v1

LEMMA FilledOneMore ==
  ASSUME v1 \in [DOMAIN v1 -> Nat], DOMAIN v1 \subseteq AddressSpace!Starts,
         NEW rem, NEW cache, Placed(rem, cache),
         NEW n \in 1..LastStart, NEW was, FilledSoFar(n - 1, was, rem)
  PROVE  FilledSoFar(n, IF n \in DOMAIN v1
                        THEN AddressSpace!update_row(cache, was, AddressSpace!Map(n)) ELSE was, rem)
<1>1. CASE n \notin DOMAIN v1
  BY <1>1 DEF FilledSoFar
<1>2. CASE n \in DOMAIN v1
  <2>1. PICK map : map = AddressSpace!Map(n)
    OBVIOUS
  <2>2. map \in MapRow /\ map.start = n /\ map.start \in DOMAIN v1
    BY <1>2, <2>1 DEF AddressSpace!Map, MapRow
  <2>3. PICK rows : rows = was.rows
    OBVIOUS
  <2>4. /\ rows \in Seq(MapRow) /\ Len(rows) >= Len(rem) /\ was.position \in 1..(Len(rows) + 1)
        /\ \A i \in 1..Len(rows) : rows[i].start \in DOMAIN v1
    BY <2>3 DEF FilledSoFar
  <2>5. CASE n \in DOMAIN cache
    <3>1. PICK p : p = cache[n]
      OBVIOUS
    <3>2. p \in 1..Len(rem) /\ Len(rem) \in Nat
      BY <2>5, <3>1 DEF Placed
    <3>3. p \in 1..Len(rows)
      BY <2>4, <3>2
    <3>4. PICK w : w = [rows EXCEPT ![p] = map]
      OBVIOUS
    <3>5. /\ w \in Seq(MapRow) /\ Len(w) = Len(rows)
          /\ \A i \in 1..Len(rows) : w[i] = IF i = p THEN map ELSE rows[i]
      BY <2>2, <2>4, <3>3, <3>4
    <3>6. AddressSpace!update_row(cache, was, map) = [rows |-> w, position |-> p]
      BY <2>2, <2>3, <2>5, <3>1, <3>4 DEF AddressSpace!update_row
    <3>7. \A i \in 1..Len(w) : w[i].start \in DOMAIN v1
      BY <2>2, <2>4, <3>5
    <3>8. FilledSoFar(n, [rows |-> w, position |-> p], rem)
      BY <2>4, <3>3, <3>5, <3>7 DEF FilledSoFar
    <3> QED
      BY <1>2, <2>1, <3>6, <3>8
  <2>6. CASE n \notin DOMAIN cache
    <3>1. PICK p : p = was.position
      OBVIOUS
    <3>2. PICK w : w = AddressSpace!InsertAt(rows, p, map)
      OBVIOUS
    <3>3. p \in 1..(Len(rows) + 1) /\ Len(rows) \in Nat
      BY <2>4, <3>1
    <3>4. /\ w \in Seq(MapRow) /\ Len(w) = Len(rows) + 1
          /\ \A i \in 1..(p - 1) : w[i] = rows[i]
          /\ w[p] = map
          /\ \A i \in (p + 1)..(Len(rows) + 1) : w[i] = rows[i - 1]
      <4>1. rows \in Seq(MapRow) /\ map \in MapRow
        BY <2>2, <2>4
      <4> QED
        BY <3>2, <3>3, <4>1, InsertedAt
    <3>5. AddressSpace!update_row(cache, was, map) = [rows |-> w, position |-> p]
      BY <2>2, <2>3, <2>6, <3>1, <3>2
      DEF AddressSpace!update_row, AddressSpace!update_row_AlwaysNew
    <3>6. ASSUME NEW i \in 1..Len(w)
          PROVE  w[i].start \in DOMAIN v1
      <4>1. CASE i \in 1..(p - 1)
        <5>1. i \in 1..Len(rows) /\ w[i] = rows[i]
          BY <3>3, <3>4, <4>1
        <5> QED
          BY <2>4, <5>1
      <4>2. CASE i = p
        BY <2>2, <3>4, <4>2
      <4>3. CASE i \in (p + 1)..(Len(rows) + 1)
        <5>1. i - 1 \in 1..Len(rows)
          BY <3>3, <4>3
        <5> QED
          BY <2>4, <3>4, <4>3, <5>1
      <4> QED
        BY <3>3, <3>4, <4>1, <4>2, <4>3
    <3>7. Len(w) >= Len(rem) /\ p \in 1..(Len(w) + 1)
      <4>1. Len(rem) \in Nat
        BY DEF Placed
      <4> QED
        BY <2>4, <3>3, <3>4, <4>1
    <3>8. FilledSoFar(n, [rows |-> w, position |-> p], rem)
      BY <3>4, <3>6, <3>7 DEF FilledSoFar
    <3> QED
      BY <1>2, <2>1, <3>5, <3>8
  <2> QED
    BY <2>5, <2>6
<1> QED
  BY <1>1, <1>2

(* Where no map comes up between two that are listed, the rows stay apart, *)
(* each map handled has its row, and those remembered are where they were  *)
(* as long as one of them is yet to come.                                  *)
FilledApart(n, done, rem, cache) ==
  /\ Apart(done.rows)
  /\ \A m \in DOMAIN v1 : m <= n => \E i \in 1..Len(done.rows) : done.rows[i] = AddressSpace!Map(m)
  /\ (\A m \in DOMAIN cache : m > n) => done.position = Len(rem) + 1
  /\ (\E m \in DOMAIN cache : m > n) =>
       \A p \in 1..Len(rem) : done.rows[p].start = rem[p].start
  /\ \A i \in 1..Len(done.rows) : done.rows[i].start \in DOMAIN cache \cup 1..n

(* A map that has a row.                                                   *)
LEMMA ApartWhenKnown ==
  ASSUME v1 \in [DOMAIN v1 -> Nat], DOMAIN v1 \subseteq AddressSpace!Starts,
         NEW rem, NEW cache, Placed(rem, cache),
         NEW n \in 1..LastStart, n \in DOMAIN v1, n \in DOMAIN cache, NEW was,
         FilledSoFar(n - 1, was, rem), FilledApart(n - 1, was, rem, cache)
  PROVE  FilledApart(n, AddressSpace!update_row(cache, was, AddressSpace!Map(n)), rem, cache)
<1>1. PICK map : map = AddressSpace!Map(n)
  OBVIOUS
<1>2. map \in MapRow /\ map.start = n
  BY <1>1 DEF AddressSpace!Map, MapRow
<1>3. PICK rows : rows = was.rows
  OBVIOUS
<1>4. rows \in Seq(MapRow) /\ Len(rows) >= Len(rem) /\ Len(rows) \in Nat
  BY <1>3 DEF FilledSoFar
<1>5. PICK p : p = cache[n]
  OBVIOUS
<1>6. p \in 1..Len(rem) /\ Len(rem) \in Nat /\ rem[p].start = n
  BY <1>5 DEF Placed
<1>7. p \in 1..Len(rows)
  BY <1>4, <1>6
<1>8. PICK w : w = [rows EXCEPT ![p] = map]
  OBVIOUS
<1>9. /\ Len(w) = Len(rows)
      /\ \A i \in 1..Len(rows) : w[i] = IF i = p THEN map ELSE rows[i]
  BY <1>2, <1>4, <1>7, <1>8
<1>10. AddressSpace!update_row(cache, was, map) = [rows |-> w, position |-> p]
  BY <1>2, <1>3, <1>5, <1>8 DEF AddressSpace!update_row
<1>11. n \in Nat /\ LastStart \in Nat /\ \A m \in DOMAIN v1 : m \in Nat
  BY ListAssumption DEF AddressSpace!Starts
<1>12. \A q \in 1..Len(rem) : rows[q].start = rem[q].start
  <2>1. \E m \in DOMAIN cache : m > n - 1
    BY <1>11
  <2> QED
    BY <1>3, <2>1 DEF FilledApart
<1>13. \A i \in 1..Len(rows) : w[i].start = rows[i].start
  BY <1>2, <1>6, <1>9, <1>12
<1>14. Apart(w)
  BY <1>3, <1>9, <1>13 DEF Apart, FilledApart
<1>15. ASSUME NEW m \in DOMAIN v1, m <= n
       PROVE  \E i \in 1..Len(w) : w[i] = AddressSpace!Map(m)
  <2>1. CASE m = n
    BY <1>1, <1>7, <1>9, <2>1
  <2>2. CASE m # n
    <3>1. m <= n - 1
      BY <1>11, <1>15, <2>2
    <3>2. PICK i \in 1..Len(rows) : rows[i] = AddressSpace!Map(m)
      BY <1>3, <3>1 DEF FilledApart
    <3>3. rows[i].start = m
      BY <3>2 DEF AddressSpace!Map
    <3>4. i # p
      BY <1>6, <1>12, <2>2, <3>3
    <3> QED
      BY <1>9, <3>2, <3>4
  <2> QED
    BY <2>1, <2>2
<1>16. ~(\A m \in DOMAIN cache : m > n)
  BY <1>11
<1>17. \A q \in 1..Len(rem) : w[q].start = rem[q].start
  BY <1>4, <1>6, <1>12, <1>13
<1>18. \A i \in 1..Len(w) : w[i].start \in DOMAIN cache \cup 1..n
  <2>1. \A i \in 1..Len(rows) : rows[i].start \in DOMAIN cache \cup 1..(n - 1)
    BY <1>3 DEF FilledApart
  <2>2. 1..(n - 1) \subseteq 1..n
    BY <1>11
  <2> QED
    BY <1>9, <1>13, <2>1, <2>2
<1>19. FilledApart(n, [rows |-> w, position |-> p], rem, cache)
  BY <1>14, <1>15, <1>16, <1>17, <1>18 DEF FilledApart
<1> QED
  BY <1>1, <1>10, <1>19

(* A map that is new.                                                      *)
LEMMA ApartWhenNew ==
  ASSUME v1 \in [DOMAIN v1 -> Nat], DOMAIN v1 \subseteq AddressSpace!Starts,
         NEW rem, NEW cache, Placed(rem, cache), ~AddressSpace!Squeezes(cache),
         NEW n \in 1..LastStart, n \in DOMAIN v1, n \notin DOMAIN cache, NEW was,
         FilledSoFar(n - 1, was, rem), FilledApart(n - 1, was, rem, cache)
  PROVE  FilledApart(n, AddressSpace!update_row(cache, was, AddressSpace!Map(n)), rem, cache)
<1>1. PICK map : map = AddressSpace!Map(n)
  OBVIOUS
<1>2. map \in MapRow /\ map.start = n
  BY <1>1 DEF AddressSpace!Map, MapRow
<1>3. PICK rows : rows = was.rows
  OBVIOUS
<1>4. PICK p : p = was.position
  OBVIOUS
<1>5. /\ rows \in Seq(MapRow) /\ Len(rows) >= Len(rem) /\ Len(rows) \in Nat
      /\ p \in 1..(Len(rows) + 1)
  BY <1>3, <1>4 DEF FilledSoFar
<1>6. PICK w : w = AddressSpace!InsertAt(rows, p, map)
  OBVIOUS
<1>7. /\ Len(w) = Len(rows) + 1 /\ w[p] = map
      /\ \A i \in 1..(p - 1) : w[i] = rows[i]
      /\ \A i \in (p + 1)..(Len(rows) + 1) : w[i] = rows[i - 1]
  BY <1>2, <1>5, <1>6, InsertedAt
<1>8. AddressSpace!update_row(cache, was, map) = [rows |-> w, position |-> p]
  BY <1>2, <1>3, <1>4, <1>6 DEF AddressSpace!update_row, AddressSpace!update_row_AlwaysNew
<1>9. /\ n \in Nat /\ LastStart \in Nat /\ \A m \in DOMAIN v1 : m \in Nat
      /\ DOMAIN cache \subseteq DOMAIN v1
  BY ListAssumption DEF AddressSpace!Starts, Placed
<1>10. \A i \in 1..Len(rows) : rows[i].start \in DOMAIN cache \cup 1..(n - 1)
  BY <1>3 DEF FilledApart
<1>11. \A i \in 1..Len(rows) : rows[i].start # n
  BY <1>9, <1>10
(* The place of each row in the list of before.                            *)
<1> DEFINE Was(i) == IF i < p THEN i ELSE i - 1
<1>12. \A i \in 1..Len(w) : i # p => Was(i) \in 1..Len(rows) /\ w[i] = rows[Was(i)]
  BY <1>5, <1>7
<1>13. \A i, j \in 1..Len(w) : (i # p /\ j # p /\ Was(i) = Was(j)) => i = j
  BY <1>5, <1>7
<1>14. \A k \in 1..Len(rows) : \E i \in 1..Len(w) : w[i] = rows[k]
  <2> TAKE k \in 1..Len(rows)
  <2>1. CASE k < p
    <3>1. k \in 1..(p - 1) /\ k \in 1..Len(w)
      BY <1>5, <1>7, <2>1
    <3> QED
      BY <1>7, <3>1
  <2>2. CASE ~(k < p)
    <3>1. k + 1 \in (p + 1)..(Len(rows) + 1) /\ k + 1 \in 1..Len(w) /\ (k + 1) - 1 = k
      BY <1>5, <1>7, <2>2
    <3> QED
      BY <1>7, <3>1
  <2> QED
    BY <2>1, <2>2
<1> HIDE DEF Was
<1>15. Apart(w)
  <2> SUFFICES ASSUME NEW i \in 1..Len(w), NEW j \in 1..Len(w), w[i].start = w[j].start
               PROVE  i = j
    BY DEF Apart
  <2>1. CASE i = p /\ j # p
    BY <1>2, <1>7, <1>11, <1>12, <2>1
  <2>2. CASE j = p /\ i # p
    BY <1>2, <1>7, <1>11, <1>12, <2>2
  <2>3. CASE i # p /\ j # p
    <3>1. Was(i) \in 1..Len(rows) /\ Was(j) \in 1..Len(rows) /\ rows[Was(i)].start = rows[Was(j)].start
      BY <1>12, <2>3
    <3>2. Was(i) = Was(j)
      BY <1>3, <3>1 DEF Apart, FilledApart
    <3> QED
      BY <1>13, <2>3, <3>2
  <2> QED
    BY <2>1, <2>2, <2>3
<1>16. ASSUME NEW m \in DOMAIN v1, m <= n
       PROVE  \E i \in 1..Len(w) : w[i] = AddressSpace!Map(m)
  <2>1. CASE m = n
    <3>1. p \in 1..Len(w)
      BY <1>5, <1>7
    <3> QED
      BY <1>1, <1>7, <2>1, <3>1
  <2>2. CASE m # n
    <3>1. m <= n - 1
      BY <1>9, <1>16, <2>2
    <3>2. PICK k \in 1..Len(rows) : rows[k] = AddressSpace!Map(m)
      BY <1>3, <3>1 DEF FilledApart
    <3> QED
      BY <1>14, <3>2
  <2> QED
    BY <2>1, <2>2
<1>17. ASSUME \A m \in DOMAIN cache : m > n
       PROVE  p = Len(rem) + 1
  <2>1. \A m \in DOMAIN cache : m > n - 1
    BY <1>9, <1>17
  <2> QED
    BY <1>4, <2>1 DEF FilledApart
<1>18. ASSUME NEW k \in DOMAIN cache, k > n, NEW q \in 1..Len(rem)
       PROVE  w[q].start = rem[q].start
  <2>1. ASSUME NEW m \in DOMAIN cache PROVE m > n
    <3>1. m # n /\ m \in Nat
      BY <1>9
    <3>2. ~(m < n)
      BY <1>9, <1>18 DEF AddressSpace!Squeezes
    <3> QED
      BY <1>9, <3>1, <3>2
  <2>2. p = Len(rem) + 1 /\ Len(rem) \in Nat
    BY <1>17, <2>1 DEF Placed
  <2>3. rows[q].start = rem[q].start
    <3>1. \E m \in DOMAIN cache : m > n - 1
      BY <1>9, <1>18
    <3> QED
      BY <1>3, <3>1 DEF FilledApart
  <2>4. q \in 1..(p - 1)
    BY <2>2
  <2> QED
    BY <1>7, <2>3, <2>4
<1>19. ASSUME NEW i \in 1..Len(w)
       PROVE  w[i].start \in DOMAIN cache \cup 1..n
  <2>1. 1..(n - 1) \subseteq 1..n /\ n \in 1..n
    BY <1>9
  <2>2. CASE i = p
    BY <1>2, <1>7, <2>1, <2>2
  <2>3. CASE i # p
    BY <1>10, <1>12, <2>1, <2>3
  <2> QED
    BY <2>2, <2>3
<1>20. FilledApart(n, [rows |-> w, position |-> p], rem, cache)
  BY <1>15, <1>16, <1>17, <1>18, <1>19 DEF FilledApart
<1> QED
  BY <1>1, <1>8, <1>20

(* All maps handled: rows of maps that are there, and where none came up   *)
(* between two, one row of each.                                           *)
LEMMA AllMapsHandled ==
  ASSUME v1 \in [DOMAIN v1 -> Nat], DOMAIN v1 \subseteq AddressSpace!Starts,
         NEW rem, NEW cache, Placed(rem, cache), NEW rows, rows = AddressSpace!Filled(rem, cache)
  PROVE  /\ rows \in Seq(MapRow) /\ \A i \in 1..Len(rows) : rows[i].start \in DOMAIN v1
         /\ (Apart(rem) /\ ~AddressSpace!Squeezes(cache)) =>
              /\ Apart(rows)
              /\ \A m \in DOMAIN v1 : \E i \in 1..Len(rows) : rows[i] = AddressSpace!Map(m)
<1>1. PICK u : /\ u[0] = [rows |-> rem, position |-> Len(rem) + 1]
               /\ \A n \in 1..LastStart :
                    u[n] = IF n \in DOMAIN v1
                           THEN AddressSpace!update_row(cache, u[n - 1], AddressSpace!Map(n))
                           ELSE u[n - 1]
               /\ AddressSpace!Filled(rem, cache) = u[LastStart].rows
  BY MapsHandled
<1>2. LastStart \in Nat
  BY ListAssumption
<1> DEFINE Exact == Apart(rem) /\ ~AddressSpace!Squeezes(cache)
           Reached == {n \in 0..LastStart : FilledSoFar(n, u[n], rem)}
           Better == {n \in 0..LastStart : FilledApart(n, u[n], rem, cache)}
<1>3. PICK first : first = [rows |-> rem, position |-> Len(rem) + 1]
  OBVIOUS
<1>4. /\ rem \in Seq(MapRow) /\ Len(rem) \in Nat /\ first.rows = rem /\ first.position = Len(rem) + 1
      /\ \A i \in 1..Len(rem) : rem[i].start \in DOMAIN v1 /\ rem[i].start \in DOMAIN cache
      /\ DOMAIN cache \subseteq DOMAIN v1 /\ \A m \in DOMAIN v1 : m \in Nat /\ m > 0
  BY <1>2, <1>3 DEF Placed, AddressSpace!Starts
<1>5. FilledSoFar(0, first, rem)
  BY <1>4 DEF FilledSoFar
<1>6. 0 \in Reached
  BY <1>1, <1>2, <1>3, <1>5
<1>7. ASSUME NEW n \in 1..LastStart, n - 1 \in Reached
      PROVE  n \in Reached
  <2>1. FilledSoFar(n - 1, u[n - 1], rem)
    BY <1>7
  <2>2. FilledSoFar(n, u[n], rem)
    BY <1>1, <2>1, FilledOneMore
  <2> QED
    BY <1>2, <2>2
<1>8. \A n \in 0..LastStart : n \in Reached
  <2> HIDE DEF Reached
  <2> QED
    BY <1>2, <1>6, <1>7, CountedUp
<1>9. \A n \in 0..LastStart : FilledSoFar(n, u[n], rem)
  BY <1>8
<1>10. FilledSoFar(LastStart, u[LastStart], rem)
  BY <1>2, <1>9
<1>11. ASSUME Exact
       PROVE  FilledApart(LastStart, u[LastStart], rem, cache)
  <2>1. 0 \in Better
    <3>1. FilledApart(0, first, rem, cache)
      BY <1>4, <1>11 DEF FilledApart
    <3> QED
      BY <1>1, <1>2, <1>3, <3>1
  <2>2. ASSUME NEW n \in 1..LastStart, n - 1 \in Better
        PROVE  n \in Better
    <3>1. PICK was : was = u[n - 1]
      OBVIOUS
    <3>2. /\ FilledSoFar(n - 1, was, rem) /\ FilledApart(n - 1, was, rem, cache)
          /\ n \in Nat /\ n - 1 \in 0..LastStart
      BY <1>2, <1>9, <2>2, <3>1
    <3>3. CASE n \notin DOMAIN v1
      <4>1. /\ \A m \in DOMAIN v1 : m <= n => m <= n - 1
            /\ \A m \in DOMAIN cache : (m > n - 1) <=> (m > n)
            /\ 1..(n - 1) \subseteq 1..n
        <5>1. \A m \in DOMAIN v1 : m # n /\ m \in Nat
          BY <1>4, <3>3
        <5> QED
          BY <1>4, <3>2, <5>1
      <4>2. FilledApart(n, was, rem, cache)
        BY <3>2, <4>1 DEF FilledApart
      <4> QED
        BY <1>1, <1>2, <3>1, <3>3, <4>2
    <3>4. CASE n \in DOMAIN v1
      <4>1. FilledApart(n, AddressSpace!update_row(cache, was, AddressSpace!Map(n)), rem, cache)
        BY <1>11, <3>2, <3>4, ApartWhenKnown, ApartWhenNew
      <4> QED
        BY <1>1, <1>2, <3>1, <3>4, <4>1
    <3> QED
      BY <3>3, <3>4
  <2>3. \A n \in 0..LastStart : n \in Better
    <3> HIDE DEF Better
    <3> QED
      BY <1>2, <2>1, <2>2, CountedUp
  <2> QED
    BY <1>2, <2>3
<1>12. rows = u[LastStart].rows
  BY <1>1
<1>13. \A m \in DOMAIN v1 : m <= LastStart
  BY <1>2 DEF AddressSpace!Starts
<1>14. rows \in Seq(MapRow) /\ \A i \in 1..Len(rows) : rows[i].start \in DOMAIN v1
  BY <1>10, <1>12 DEF FilledSoFar
<1>15. ASSUME Exact
       PROVE  /\ Apart(rows)
              /\ \A m \in DOMAIN v1 : \E i \in 1..Len(rows) : rows[i] = AddressSpace!Map(m)
  BY <1>11, <1>12, <1>13, <1>15 DEF FilledApart
<1> QED
  BY <1>14, <1>15

(* One row of each is as many rows as there are maps.                      *)
LEMMA OneRowOfEach ==
  ASSUME NEW rows \in Seq(MapRow), Apart(rows), \A i \in 1..Len(rows) : rows[i].start \in DOMAIN v1,
         \A m \in DOMAIN v1 : \E i \in 1..Len(rows) : rows[i] = AddressSpace!Map(m)
  PROVE  /\ Len(rows) = AddressSpace!Cardinality(DOMAIN v1)
         /\ AddressSpace!ToSet(rows) = {AddressSpace!Map(m) : m \in DOMAIN v1}
<1>1. Len(rows) \in Nat /\ DOMAIN rows = 1..Len(rows)
  OBVIOUS
<1>2. \A m : AddressSpace!Map(m).start = m
  BY DEF AddressSpace!Map
<1>3. ASSUME NEW i \in 1..Len(rows)
      PROVE  rows[i] = AddressSpace!Map(rows[i].start)
  <2>1. PICK j \in 1..Len(rows) : rows[j] = AddressSpace!Map(rows[i].start)
    OBVIOUS
  <2>2. i = j
    BY <1>2, <2>1 DEF Apart
  <2> QED
    BY <2>1, <2>2
<1>4. AddressSpace!ToSet(rows) = {AddressSpace!Map(m) : m \in DOMAIN v1}
  <2>1. AddressSpace!ToSet(rows) = {rows[i] : i \in 1..Len(rows)}
    BY <1>1 DEF AddressSpace!ToSet
  <2>2. \A i \in 1..Len(rows) : \E m \in DOMAIN v1 : rows[i] = AddressSpace!Map(m)
    BY <1>3
  <2> QED
    BY <2>1, <2>2
<1> DEFINE f == [i \in 1..Len(rows) |-> rows[i].start]
<1>5. f \in Bijection(1..Len(rows), DOMAIN v1)
  <2>1. f \in [1..Len(rows) -> DOMAIN v1]
    OBVIOUS
  <2>2. \A a, b \in 1..Len(rows) : f[a] = f[b] => a = b
    BY DEF Apart
  <2>3. \A m \in DOMAIN v1 : \E i \in 1..Len(rows) : f[i] = m
    <3> TAKE m \in DOMAIN v1
    <3>1. PICK i \in 1..Len(rows) : rows[i] = AddressSpace!Map(m)
      OBVIOUS
    <3>2. f[i] = m
      BY <1>2, <3>1
    <3> QED
      BY <3>2
  <2> HIDE DEF f
  <2> QED
    BY <2>1, <2>2, <2>3 DEF Bijection, Injection, Surjection, IsInjective
<1>6. ExistsBijection(1..Len(rows), DOMAIN v1)
  BY <1>5 DEF ExistsBijection
<1>7. IsFiniteSet(1..Len(rows)) /\ Cardinality(1..Len(rows)) = Len(rows)
  BY <1>1, FS_Interval
<1>8. Cardinality(DOMAIN v1) = Len(rows)
  BY <1>6, <1>7, FS_Bijection
<1>9. AddressSpace!Cardinality(DOMAIN v1) = Cardinality(DOMAIN v1)
  BY DEF AddressSpace!Cardinality, Cardinality
<1> QED
  BY <1>4, <1>8, <1>9

MapsInv == part = "maps" => AddressSpace!RowsApart /\ AddressSpace!Sound

LEMMA MapsInvInit == Init => MapsInv
<1> SUFFICES ASSUME AddressSpace!Init PROVE AddressSpace!RowsApart /\ AddressSpace!Sound
  BY DEF Init, MapsInv, Pure, Readings, Cards, Reader
<1>1. PICK starts \in SUBSET AddressSpace!Starts : v1 = [s \in starts |-> 0]
  BY DEF AddressSpace!Init
<1>2. v1 \in [DOMAIN v1 -> Nat] /\ DOMAIN v1 \subseteq AddressSpace!Starts
  BY <1>1
<1>3. v2 = AddressSpace!Filled(<<>>, <<>>) /\ v4 = v1 /\ v6 = 0
  BY DEF AddressSpace!Init
<1>4. PICK none : none = <<>>
  OBVIOUS
<1>5. Placed(none, none) /\ Apart(none) /\ DOMAIN none = {}
  BY <1>4 DEF Placed, Apart
<1>6. ~AddressSpace!Squeezes(none)
  BY <1>5 DEF AddressSpace!Squeezes
<1>7. PICK rows : rows = v2
  OBVIOUS
<1>8. rows = AddressSpace!Filled(none, none)
  BY <1>3, <1>4, <1>7
<1>9. /\ rows \in Seq(MapRow) /\ \A i \in 1..Len(rows) : rows[i].start \in DOMAIN v1
      /\ Apart(rows)
      /\ \A m \in DOMAIN v1 : \E i \in 1..Len(rows) : rows[i] = AddressSpace!Map(m)
  BY <1>2, <1>5, <1>6, <1>8, AllMapsHandled
<1>10. /\ Len(rows) = AddressSpace!Cardinality(DOMAIN v1)
       /\ AddressSpace!ToSet(rows) = {AddressSpace!Map(m) : m \in DOMAIN v1}
  BY <1>9, OneRowOfEach
<1>11. DOMAIN rows = 1..Len(rows)
  BY <1>9
<1>12. AddressSpace!RowsApart
  BY <1>2, <1>3, <1>7, <1>9, <1>11 DEF AddressSpace!RowsApart, MapRow, Apart
<1>13. {AddressSpace!Map(m) : m \in DOMAIN v1} = {[start |-> s, figures |-> v4[s]] : s \in DOMAIN v4}
  BY <1>3 DEF AddressSpace!Map
<1>14. AddressSpace!Sound
  BY <1>3, <1>7, <1>9, <1>10, <1>11, <1>13
  DEF AddressSpace!Sound, AddressSpace!RowsAreSomeMaps, AddressSpace!RowsAreTheMaps
<1> QED
  BY <1>12, <1>14

LEMMA MapsInvNext == MapsInv /\ [Next]_partsVars => MapsInv'
<1> SUFFICES ASSUME AddressSpace!RowsApart, AddressSpace!Sound,
                    AddressSpace!Next \/ UNCHANGED AddressSpace!vars
             PROVE  AddressSpace!RowsApart' /\ AddressSpace!Sound'
  BY DEF Next, MapsInv, partsVars, from6, AddressSpace!vars, Pure, Readings, Cards, Reader, ReadInput
<1>1. /\ v1 \in [DOMAIN v1 -> Nat] /\ DOMAIN v1 \subseteq AddressSpace!Starts /\ v6 \in Nat
      /\ v2 \in Seq(MapRow) /\ DOMAIN v2 = 1..Len(v2)
      /\ v5 \/ Apart(v2)
  BY DEF AddressSpace!RowsApart, MapRow, Apart
<1>2. CASE AddressSpace!Act
  <2>1. UNCHANGED <<v2, v4, v5>> /\ v6' = v6 + 1
    BY <1>2 DEF AddressSpace!Act
  <2>2. AddressSpace!Sound'
    BY <2>1 DEF AddressSpace!Sound, AddressSpace!RowsAreSomeMaps, AddressSpace!RowsAreTheMaps
  <2>3. v1' \in [DOMAIN v1' -> Nat] /\ DOMAIN v1' \subseteq AddressSpace!Starts
    <3>1. CASE \E start \in AddressSpace!Starts :
                 v1' = [s \in DOMAIN v1 \cup {start} |-> IF s = start THEN v6' ELSE v1[s]]
      <4>1. PICK start \in AddressSpace!Starts :
              v1' = [s \in DOMAIN v1 \cup {start} |-> IF s = start THEN v6' ELSE v1[s]]
        BY <3>1
      <4>2. DOMAIN v1' = DOMAIN v1 \cup {start} /\ v6' \in Nat
        BY <1>1, <2>1, <4>1
      <4>3. v1' \in [DOMAIN v1 \cup {start} -> Nat]
        BY <1>1, <4>1, <4>2
      <4> QED
        BY <1>1, <4>2, <4>3
    <3>2. CASE \E start \in DOMAIN v1 : v1' = [s \in DOMAIN v1 \ {start} |-> v1[s]]
      BY <1>1, <3>2
    <3>3. CASE v1' = <<>>
      <4>1. DOMAIN v1' = {}
        BY <3>3
      <4> QED
        BY <3>3, <4>1
    <3> QED
      BY <1>2, <3>1, <3>2, <3>3 DEF AddressSpace!Act
  <2> QED
    BY <1>1, <2>1, <2>2, <2>3 DEF AddressSpace!RowsApart
<1>3. CASE AddressSpace!update_memmaps_dialog
  <2>1. PICK rem : rem = AddressSpace!Remaining
    OBVIOUS
  <2>2. PICK cache : cache = AddressSpace!IterCache(rem)
    OBVIOUS
  <2>3. Placed(rem, cache)
    BY <1>1, <2>1, <2>2, RemainingPlaced
  <2>4. PICK rows : rows = AddressSpace!Filled(rem, cache)
    OBVIOUS
  <2>5. /\ v1' = v1 /\ v6' = v6 /\ v4' = v1 /\ v2' = rows
        /\ v5' = (v5 \/ AddressSpace!Squeezes(cache))
    BY <1>3, <2>1, <2>2, <2>4 DEF AddressSpace!update_memmaps_dialog
  <2>6. /\ rows \in Seq(MapRow) /\ \A i \in 1..Len(rows) : rows[i].start \in DOMAIN v1
        /\ (Apart(rem) /\ ~AddressSpace!Squeezes(cache)) =>
             /\ Apart(rows)
             /\ \A m \in DOMAIN v1 : \E i \in 1..Len(rows) : rows[i] = AddressSpace!Map(m)
    BY <1>1, <2>3, <2>4, AllMapsHandled
  <2>7. Apart(v2) => Apart(rem)
    BY <1>1, <2>1, RemainingRows DEF KeptOf
  <2>8. DOMAIN rows = 1..Len(rows)
    BY <2>6
  <2>9. v5' \/ (/\ Apart(rows)
                /\ Len(rows) = AddressSpace!Cardinality(DOMAIN v1)
                /\ AddressSpace!ToSet(rows) = {AddressSpace!Map(m) : m \in DOMAIN v1})
    <3>1. CASE v5 \/ AddressSpace!Squeezes(cache)
      BY <2>5, <3>1
    <3>2. CASE ~(v5 \/ AddressSpace!Squeezes(cache))
      <4>1. /\ Apart(rows)
            /\ \A m \in DOMAIN v1 : \E i \in 1..Len(rows) : rows[i] = AddressSpace!Map(m)
        BY <1>1, <2>6, <2>7, <3>2
      <4> QED
        BY <2>6, <4>1, OneRowOfEach
    <3> QED
      BY <3>1, <3>2
  <2>10. AddressSpace!RowsApart'
    BY <1>1, <2>5, <2>6, <2>8, <2>9 DEF AddressSpace!RowsApart, MapRow, Apart
  <2>11. AddressSpace!RowsAreSomeMaps'
    BY <2>5, <2>6, <2>8 DEF AddressSpace!RowsAreSomeMaps
  <2>12. {AddressSpace!Map(m) : m \in DOMAIN v1} =
           {[start |-> s, figures |-> v1[s]] : s \in DOMAIN v1}
    BY DEF AddressSpace!Map
  <2>13. AddressSpace!RowsAreTheMaps'
    BY <2>5, <2>9, <2>12 DEF AddressSpace!RowsAreTheMaps
  <2> QED
    BY <2>10, <2>11, <2>13 DEF AddressSpace!Sound
<1>4. CASE UNCHANGED AddressSpace!vars
  <2>1. UNCHANGED <<v1, v2, v4, v5, v6>>
    BY <1>4 DEF AddressSpace!vars
  <2> QED
    BY <2>1 DEF AddressSpace!RowsApart, AddressSpace!Sound, AddressSpace!RowsAreSomeMaps,
       AddressSpace!RowsAreTheMaps, AddressSpace!Starts
<1> QED
  BY <1>2, <1>3, <1>4 DEF AddressSpace!Next

-----------------------------------------------------------------------------
(***************************************************************************)
(* OpenFiles: files v1, info v2, known_files v3, store v4, seen v5,        *)
(* changes v6.                                                             *)
(***************************************************************************)
LEMMA FilesHandled ==
  ASSUME NEW table
  PROVE  \E u : /\ u[0] = OpenTable!Before
                /\ \A n \in 1..(LastDescriptor + 1) :
                     u[n] = IF n - 1 \in DOMAIN table
                            THEN OpenTable!Handled(u[n - 1], OpenTable!Entry(table, n - 1))
                            ELSE u[n - 1]
                /\ OpenTable!Updated(table) = u[LastDescriptor + 1]
<1> DEFINE Step(n, was) == IF n - 1 \in DOMAIN table
                           THEN OpenTable!Handled(was, OpenTable!Entry(table, n - 1)) ELSE was
           Runs(N, u) == u = [n \in 0..N |-> IF n = 0 THEN OpenTable!Before ELSE Step(n, u[n - 1])]
           Reached == {N \in 0..(LastDescriptor + 1) : \E u : Runs(N, u)}
<1> HIDE DEF Step
<1>1. LastDescriptor + 1 \in Nat
  BY ListAssumption
<1>2. 0 \in Reached
  <2> DEFINE u == [n \in 0..0 |-> OpenTable!Before]
  <2>1. Runs(0, u)
    OBVIOUS
  <2> HIDE DEF u, Runs
  <2> QED
    BY <1>1, <2>1
<1>3. ASSUME NEW N \in 1..(LastDescriptor + 1), N - 1 \in Reached
      PROVE  N \in Reached
  <2>1. PICK u : Runs(N - 1, u)
    BY <1>3
  <2> DEFINE w == [n \in 0..N |-> IF n < N THEN u[n] ELSE Step(N, u[N - 1])]
  <2>2. \A n \in 0..(N - 1) : u[n] = IF n = 0 THEN OpenTable!Before ELSE Step(n, u[n - 1])
    BY <1>1, <2>1
  <2>3. \A n \in 0..N : w[n] = IF n = 0 THEN OpenTable!Before ELSE Step(n, w[n - 1])
    BY <1>1, <2>2
  <2>4. Runs(N, w)
    BY <2>3
  <2> HIDE DEF w, Runs
  <2> QED
    BY <1>1, <2>4
<1>4. \E u : Runs(LastDescriptor + 1, u)
  <2> HIDE DEF Reached
  <2>1. \A N \in 0..(LastDescriptor + 1) : N \in Reached
    BY <1>1, <1>2, <1>3, CountedUp
  <2>2. LastDescriptor + 1 \in Reached
    BY <1>1, <2>1
  <2> QED
    BY <2>2 DEF Reached
<1> DEFINE update == CHOOSE u : Runs(LastDescriptor + 1, u)
<1>5. Runs(LastDescriptor + 1, update)
  BY <1>4
<1>6. OpenTable!Updated(table) = update[LastDescriptor + 1]
  BY DEF OpenTable!Updated, Step
<1> HIDE DEF update
<1>7. /\ update[0] = OpenTable!Before
      /\ \A n \in 1..(LastDescriptor + 1) : update[n] = Step(n, update[n - 1])
  BY <1>1, <1>5
<1> QED
  BY <1>6, <1>7 DEF Step

FileKey(table, fd) == OpenTable!Key(fd, table[fd].type)
OpenBelow(table, n) == {fd \in DOMAIN table : fd < n}

(* After the descriptors below n.                                          *)
FilesSoFar(table, n, update) ==
  /\ update.leftover = DOMAIN v3 \ {FileKey(table, fd) : fd \in OpenBelow(table, n)}
  /\ DOMAIN update.known = DOMAIN v3 \cup {FileKey(table, fd) : fd \in OpenBelow(table, n)}
  /\ update.new = [k \in OpenTable!Keys |-> IF k \in (DOMAIN update.known) \ DOMAIN v3 THEN 1 ELSE 0]
  /\ \A fd \in OpenBelow(table, n) : update.known[FileKey(table, fd)] = table[fd].name

LEMMA FilesOneMore ==
  ASSUME NEW table, OpenTable!Opened(table), NEW n \in 1..(LastDescriptor + 1), NEW was,
         FilesSoFar(table, n - 1, was)
  PROVE  FilesSoFar(table, n, IF n - 1 \in DOMAIN table
                              THEN OpenTable!Handled(was, OpenTable!Entry(table, n - 1)) ELSE was)
<1>1. /\ n \in Nat /\ n - 1 \in Nat /\ \A fd \in DOMAIN table : fd \in Nat
      /\ \A fd \in DOMAIN table : table[fd].type \in OpenTypes
  BY ListAssumption DEF OpenTable!Opened
<1>2. CASE n - 1 \notin DOMAIN table
  <2>1. OpenBelow(table, n) = OpenBelow(table, n - 1)
    BY <1>1, <1>2 DEF OpenBelow
  <2> QED
    BY <1>2, <2>1 DEF FilesSoFar
<1>3. CASE n - 1 \in DOMAIN table
  <2> DEFINE key == FileKey(table, n - 1)
             update == OpenTable!Handled(was, OpenTable!Entry(table, n - 1))
  <2>1. OpenBelow(table, n) = OpenBelow(table, n - 1) \cup {n - 1}
    BY <1>1, <1>3 DEF OpenBelow
  <2>2. \A fd \in OpenBelow(table, n - 1) : FileKey(table, fd) # key
    BY <1>1 DEF OpenBelow, FileKey, OpenTable!Key
  <2>3. key \in OpenTable!Keys
    BY <1>1, <1>3, ListAssumption DEF FileKey, OpenTable!Key, OpenTable!Keys, OpenTable!Opened
  <2>4. /\ update.known = [k \in DOMAIN was.known \cup {key} |->
                             IF k = key THEN table[n - 1].name ELSE was.known[k]]
        /\ update.new = IF key \in DOMAIN was.known THEN was.new ELSE [was.new EXCEPT ![key] = @ + 1]
        /\ update.leftover = was.leftover \ {key}
    BY DEF OpenTable!Handled, OpenTable!Entry, FileKey
  <2>5. key = FileKey(table, n - 1)
    OBVIOUS
  <2> HIDE DEF key, update
  <2>6. update.leftover = DOMAIN v3 \ {FileKey(table, fd) : fd \in OpenBelow(table, n)}
    BY <2>1, <2>4, <2>5 DEF FilesSoFar
  <2>7. DOMAIN update.known = DOMAIN was.known \cup {key}
    BY <2>4
  <2>8. DOMAIN update.known = DOMAIN v3 \cup {FileKey(table, fd) : fd \in OpenBelow(table, n)}
    BY <2>1, <2>5, <2>7 DEF FilesSoFar
  <2>9. update.new = [k \in OpenTable!Keys |-> IF k \in (DOMAIN update.known) \ DOMAIN v3 THEN 1 ELSE 0]
    <3>1. /\ was.new = [k \in OpenTable!Keys |-> IF k \in (DOMAIN was.known) \ DOMAIN v3 THEN 1 ELSE 0]
          /\ DOMAIN v3 \subseteq DOMAIN was.known
      BY DEF FilesSoFar
    <3>2. CASE key \in DOMAIN was.known
      <4>1. DOMAIN update.known = DOMAIN was.known /\ update.new = was.new
        BY <2>4, <2>7, <3>2
      <4> QED
        BY <3>1, <4>1
    <3>3. CASE key \notin DOMAIN was.known
      <4>1. update.new = [was.new EXCEPT ![key] = 1]
        BY <2>3, <2>4, <3>1, <3>3
      <4> QED
        BY <2>3, <2>7, <3>1, <3>3, <4>1
    <3> QED
      BY <3>2, <3>3
  <2>10. ASSUME NEW fd \in OpenBelow(table, n)
         PROVE  update.known[FileKey(table, fd)] = table[fd].name
    <3>1. CASE fd = n - 1
      BY <2>4, <2>5, <3>1
    <3>2. CASE fd \in OpenBelow(table, n - 1)
      <4>1. FileKey(table, fd) # key /\ FileKey(table, fd) \in DOMAIN was.known
        BY <2>2, <3>2 DEF FilesSoFar
      <4>2. update.known[FileKey(table, fd)] = was.known[FileKey(table, fd)]
        BY <2>4, <4>1
      <4> QED
        BY <3>2, <4>2 DEF FilesSoFar
    <3> QED
      BY <2>1, <3>1, <3>2
  <2>11. FilesSoFar(table, n, update)
    BY <2>6, <2>8, <2>9, <2>10 DEF FilesSoFar
  <2> QED
    BY <1>3, <2>11 DEF update
<1> QED
  BY <1>2, <1>3

LEMMA AllFilesHandled ==
  ASSUME NEW table, OpenTable!Opened(table)
  PROVE  FilesSoFar(table, LastDescriptor + 1, OpenTable!Updated(table))
<1>1. LastDescriptor + 1 \in Nat
  BY ListAssumption
<1>2. PICK u : /\ u[0] = OpenTable!Before
               /\ \A n \in 1..(LastDescriptor + 1) :
                    u[n] = IF n - 1 \in DOMAIN table
                           THEN OpenTable!Handled(u[n - 1], OpenTable!Entry(table, n - 1))
                           ELSE u[n - 1]
               /\ OpenTable!Updated(table) = u[LastDescriptor + 1]
  BY FilesHandled
<1> DEFINE Reached == {n \in 0..(LastDescriptor + 1) : FilesSoFar(table, n, u[n])}
<1>3. 0 \in Reached
  <2>1. OpenBelow(table, 0) = {}
    BY ListAssumption DEF OpenBelow, OpenTable!Opened
  <2>2. FilesSoFar(table, 0, OpenTable!Before)
    BY <2>1 DEF FilesSoFar, OpenTable!Before
  <2> QED
    BY <1>1, <1>2, <2>2
<1>4. ASSUME NEW n \in 1..(LastDescriptor + 1), n - 1 \in Reached
      PROVE  n \in Reached
  <2>1. FilesSoFar(table, n - 1, u[n - 1])
    BY <1>4
  <2>2. FilesSoFar(table, n, u[n])
    BY <1>2, <2>1, FilesOneMore
  <2> QED
    BY <1>1, <2>2
<1>5. \A n \in 0..(LastDescriptor + 1) : n \in Reached
  <2> HIDE DEF Reached
  <2> QED
    BY <1>1, <1>3, <1>4, CountedUp
<1> QED
  BY <1>1, <1>2, <1>5

FilesInv == part = "files" => OpenTable!Opened(v1) /\ OpenTable!Sound

LEMMA FilesInvInit == Init => FilesInv
<1> SUFFICES ASSUME OpenTable!Init PROVE OpenTable!Opened(v1) /\ OpenTable!Sound
  BY DEF Init, FilesInv, Pure, Readings, Cards, Reader
<1>1. v1 \in [{0} -> [type : OpenTypes, name : OpenNames]]
  BY DEF OpenTable!Init
<1>2. PICK key : key = OpenTable!Key(0, v1[0].type)
  OBVIOUS
<1>3. /\ v3 = [k \in {key} |-> v1[0].name] /\ v5 = v1
      /\ v4 = [k \in OpenTable!Keys |-> IF k = key THEN 1 ELSE 0]
  BY <1>2 DEF OpenTable!Init
<1>4. OpenTable!Opened(v1)
  BY <1>1, ListAssumption DEF OpenTable!Opened
<1>5. DOMAIN v1 = {0}
  BY <1>1
<1> QED
  BY <1>2, <1>3, <1>4, <1>5 DEF OpenTable!Sound

(* A refresh: the rows are the files, each under its name.                 *)
LEMMA FillLists ==
  ASSUME NEW table, OpenTable!Opened(table), OpenTable!Fill(table),
         \A k \in OpenTable!Keys : v4[k] = (IF k \in DOMAIN v3 THEN 1 ELSE 0)
  PROVE  /\ \A k \in OpenTable!Keys : v4'[k] = (IF k \in DOMAIN v3' THEN 1 ELSE 0)
         /\ DOMAIN v3' = {FileKey(table, fd) : fd \in DOMAIN table}
         /\ \A fd \in DOMAIN table : v3'[FileKey(table, fd)] = table[fd].name
<1>1. CASE DOMAIN table = {}
  <2>1. v3' = <<>> /\ v4' = [k \in OpenTable!Keys |-> 0]
    BY <1>1 DEF OpenTable!Fill
  <2>2. DOMAIN v3' = {}
    BY <2>1
  <2> QED
    BY <1>1, <2>1, <2>2
<1>2. CASE DOMAIN table # {}
  <2>1. PICK u : u = OpenTable!Updated(table)
    OBVIOUS
  <2>2. FilesSoFar(table, LastDescriptor + 1, u)
    BY <2>1, AllFilesHandled
  <2>3. OpenBelow(table, LastDescriptor + 1) = DOMAIN table
    BY ListAssumption DEF OpenBelow, OpenTable!Opened
  <2>4. /\ u.leftover = DOMAIN v3 \ {FileKey(table, fd) : fd \in DOMAIN table}
        /\ DOMAIN u.known = DOMAIN v3 \cup {FileKey(table, fd) : fd \in DOMAIN table}
        /\ u.new = [k \in OpenTable!Keys |-> IF k \in (DOMAIN u.known) \ DOMAIN v3 THEN 1 ELSE 0]
        /\ \A fd \in DOMAIN table : u.known[FileKey(table, fd)] = table[fd].name
    BY <2>2, <2>3 DEF FilesSoFar
  <2>5. /\ v3' = [k \in DOMAIN u.known \ u.leftover |-> u.known[k]]
        /\ v4' = [k \in OpenTable!Keys |-> v4[k] + u.new[k] - (IF k \in u.leftover THEN 1 ELSE 0)]
    BY <1>2, <2>1 DEF OpenTable!Fill, OpenTable!drop_leftover_keys
  <2>6. DOMAIN v3' = {FileKey(table, fd) : fd \in DOMAIN table}
    BY <2>4, <2>5
  <2>7. ASSUME NEW fd \in DOMAIN table
        PROVE  v3'[FileKey(table, fd)] = table[fd].name
    BY <2>4, <2>5
  <2>8. ASSUME NEW k \in OpenTable!Keys
        PROVE  v4'[k] = (IF k \in DOMAIN v3' THEN 1 ELSE 0)
    <3>1. v4'[k] = v4[k] + u.new[k] - (IF k \in u.leftover THEN 1 ELSE 0)
      BY <2>5
    <3>2. u.new[k] = IF k \in (DOMAIN u.known) \ DOMAIN v3 THEN 1 ELSE 0
      BY <2>4
    <3>3. u.leftover \subseteq DOMAIN v3 /\ DOMAIN v3 \subseteq DOMAIN u.known
      BY <2>4
    <3>4. DOMAIN v3' = DOMAIN u.known \ u.leftover
      BY <2>5
    <3> QED
      BY <3>1, <3>2, <3>3, <3>4
  <2> QED
    BY <2>6, <2>7, <2>8
<1> QED
  BY <1>1, <1>2

LEMMA FilesInvNext == FilesInv /\ [Next]_partsVars => FilesInv'
<1> SUFFICES ASSUME OpenTable!Opened(v1), OpenTable!Sound,
                    OpenTable!Next \/ UNCHANGED OpenTable!vars
             PROVE  OpenTable!Opened(v1') /\ OpenTable!Sound'
  BY DEF Next, FilesInv, partsVars, from6, OpenTable!vars, Pure, Readings, Cards, Reader, ReadInput,
     OpenTable!Opened
<1>1. CASE OpenTable!Process
  <2>1. UNCHANGED <<v3, v4, v5>> /\ (v2' # "freed" => v2 # "freed")
    BY <1>1 DEF OpenTable!Process
  <2>2. OpenTable!Sound'
    BY <2>1 DEF OpenTable!Sound
  <2>3. CASE \E fd \in 0..LastDescriptor, type \in OpenTypes, name \in OpenNames :
               v1' = [d \in DOMAIN v1 \cup {fd} |->
                        IF d = fd THEN [type |-> type, name |-> name] ELSE v1[d]]
    BY <2>2, <2>3 DEF OpenTable!Opened
  <2>4. CASE \E fd \in DOMAIN v1 : v1' = [d \in DOMAIN v1 \ {fd} |-> v1[d]]
    BY <2>2, <2>4 DEF OpenTable!Opened
  <2>5. CASE v1' = <<>>
    BY <2>2, <2>5 DEF OpenTable!Opened
  <2>6. CASE v1' = v1
    BY <2>2, <2>6 DEF OpenTable!Opened
  <2> QED
    BY <1>1, <2>2, <2>3, <2>4, <2>5, <2>6 DEF OpenTable!Process
<1>2. CASE OpenTable!update_dialog
  <2>1. v1' = v1 /\ v2' = v2
    BY <1>2 DEF OpenTable!update_dialog
  <2>2. OpenTable!Opened(v1')
    BY <2>1
  <2>3. CASE v2 = "freed"
    BY <2>1, <2>2, <2>3 DEF OpenTable!Sound
  <2>4. CASE v2 # "freed"
    <3>1. OpenTable!Fill(v1) /\ v5' = v1
      BY <1>2, <2>4 DEF OpenTable!update_dialog
    <3>2. \A k \in OpenTable!Keys : v4[k] = (IF k \in DOMAIN v3 THEN 1 ELSE 0)
      BY <2>4 DEF OpenTable!Sound
    <3>3. /\ \A k \in OpenTable!Keys : v4'[k] = (IF k \in DOMAIN v3' THEN 1 ELSE 0)
          /\ DOMAIN v3' = {FileKey(v1, fd) : fd \in DOMAIN v1}
          /\ \A fd \in DOMAIN v1 : v3'[FileKey(v1, fd)] = v1[fd].name
      BY <3>1, <3>2, FillLists
    <3> QED
      BY <2>2, <3>1, <3>3 DEF OpenTable!Sound, FileKey
  <2> QED
    BY <2>3, <2>4
<1>3. CASE UNCHANGED OpenTable!vars
  BY <1>3 DEF OpenTable!vars, OpenTable!Sound, OpenTable!Opened
<1> QED
  BY <1>1, <1>2, <1>3 DEF OpenTable!Next

(* Disks, MemMaps, OpenFiles: however mounts, maps and files come and go   *)
(* between two refreshes, a list has one row for each, with its figures,   *)
(* the disks are read again within the interval, and the maps are astray   *)
(* only from a map that came up between two.                               *)
THEOREM ListsShowWhatIsThere == Spec => []ListsSound
<1>1. Init => DisksInv /\ MapsInv /\ FilesInv
  BY DisksInvInit, MapsInvInit, FilesInvInit
<1>2. DisksInv /\ MapsInv /\ FilesInv /\ [Next]_partsVars => DisksInv' /\ MapsInv' /\ FilesInv'
  BY DisksInvNext, MapsInvNext, FilesInvNext
<1>3. DisksInv /\ MapsInv /\ FilesInv => ListsSound
  BY DEF DisksInv, MapsInv, FilesInv, ListsSound
<1> QED
  BY <1>1, <1>2, <1>3, PTL DEF Spec, partsVars
=============================================================================
