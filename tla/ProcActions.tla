----------------------------- MODULE ProcActions -----------------------------
(***************************************************************************)
(* src/src/procactions.cpp, procdialogs.cpp, actions/gsm-actions.c,        *)
(* action-impls/ and what interface.cpp, procproperties.cpp and            *)
(* setaffinity.cpp do about them: signals, priorities and affinities.      *)
(* One action works through a list of rows, one thread after another,      *)
(* while the user goes on using the window.                                *)
(*                                                                         *)
(* A process and the ProcInfo made when it was first seen are one value:   *)
(* its identifier, which a later process may have again, and its number    *)
(* among those.  The table is frozen or not; the period is RefreshTimer's. *)
(***************************************************************************)
EXTENDS Integers, Sequences, FiniteSets, SequencesExt

CONSTANTS
  Pids,             \* the identifiers
  Lives,            \* how often one may be given to a process
  Kinds,            \* of "kill", "priority", "affinity"
  None,             \* model value
  MaxStarts, MaxActions, MaxTurns   \* bounds

VARIABLES
  alive, starts,    \* the processes that run, all that have run
  rows, selected,   \* app->processes, the selection
  properties,       \* the process whose properties are shown, or None
  shown,            \* the Processes page is the current one and not suspended
  turns,            \* how often that changed
  timeout,          \* does the timer of the table run?
  dismissed,        \* history: a question was cancelled since it last started
  question,         \* the confirmation on the screen, or None
  actions,          \* the actions not ended: [kind, asked, infos, now, stage]
  begun,            \* how many
  astray,           \* history: a call reached a process nobody was asked about
  freed             \* history: a row was read that was freed or never there

actionsVars == <<alive, starts, rows, selected, properties, shown, turns, timeout,
                 dismissed, question, actions, begun, astray, freed>>

Procs == Pids \X Lives
PidOf(p) == p[1]
Holding(S, pid) == {p \in S : PidOf(p) = pid}

Init ==
  /\ alive \in {S \in SUBSET Procs : \A p, q \in S : PidOf(p) = PidOf(q) => p = q}
  /\ Cardinality(alive) \in 1..2
  /\ starts = alive /\ rows = alive /\ selected = {} /\ properties = None
  /\ shown = TRUE /\ turns = 0 /\ timeout = TRUE /\ dismissed = FALSE
  /\ question = None /\ actions = {} /\ begun = 0
  /\ astray = FALSE /\ freed = FALSE

machine == <<alive, starts>>
window  == <<properties, shown, turns>>
table   == <<rows, selected>>
timer   == <<timeout, dismissed>>
history == <<astray, freed>>

-----------------------------------------------------------------------------
Start(p) ==
  /\ p \notin starts /\ Cardinality(starts) < MaxStarts
  /\ Holding(alive, PidOf(p)) = {}
  /\ alive' = alive \cup {p} /\ starts' = starts \cup {p}
  /\ UNCHANGED <<table, window, timer, question, actions, begun, history>>

Exit(p) ==
  /\ p \in alive
  /\ alive' = alive \ {p}
  /\ UNCHANGED <<starts, table, window, timer, question, actions, begun, history>>

(* proctable_update, as ProcTable has it: rows of identifiers that are     *)
(* gone are freed.                                                         *)
Update ==
  /\ rows' = {p \in rows : Holding(alive, PidOf(p)) # {}}
               \cup {p \in alive : Holding(rows, PidOf(p)) = {}}
  /\ selected' = selected \cap rows'

Freeze == timeout' = FALSE /\ UNCHANGED dismissed
Thaw == timeout' = TRUE /\ dismissed' = FALSE

Refresh ==
  /\ timeout /\ Update
  /\ UNCHANGED <<machine, window, timer, question, actions, begun, history>>

(* on_activate_refresh: frozen or not.                                     *)
RefreshNow ==
  /\ shown /\ question = None /\ Update
  /\ UNCHANGED <<machine, window, timer, question, actions, begun, history>>

(* update_page_activities, cb_main_window_suspended.                       *)
TurnAway ==
  /\ shown /\ turns < MaxTurns
  /\ shown' = FALSE /\ turns' = turns + 1 /\ Freeze
  /\ UNCHANGED <<machine, table, properties, question, actions, begun, history>>

TurnBack ==
  /\ ~shown
  /\ shown' = TRUE /\ Thaw /\ Update
  /\ UNCHANGED <<machine, properties, turns, question, actions, begun, history>>

Select(S) ==
  /\ shown /\ selected # S
  /\ selected' = S
  /\ UNCHANGED <<machine, rows, window, timer, question, actions, begun, history>>

(* create_single_procproperties_dialog: it keeps the identifier.           *)
ShowProperties(p) ==
  /\ shown /\ p \in selected /\ properties = None
  /\ properties' = p
  /\ UNCHANGED <<machine, table, shown, turns, timer, question, actions, begun, history>>

-----------------------------------------------------------------------------
(* kill_process and renice: freeze, and start with the first of the rows.  *)
Begin(kind, asked, infos) ==
  /\ begun < MaxActions /\ begun' = begun + 1
  /\ infos # <<>>
  /\ actions' = actions \cup
       {[kind |-> kind, asked |-> asked, infos |-> Tail(infos), now |-> Head(infos), stage |-> "direct"]}

ActOnSelection(kind) ==
  /\ shown /\ question = None
  /\ \E infos \in SetToSeqs(selected) : Begin(kind, selected, infos)
  /\ Freeze
  /\ UNCHANGED <<machine, table, window, question, history>>

(* From the properties without a question (SIGCONT): the row found by  *)
(* the identifier.                                                         *)
ActOnProperties ==
  /\ properties # None /\ question = None
  /\ \E row \in Holding(rows, PidOf(properties)) : Begin("kill", {row}, <<row>>)
  /\ Freeze
  /\ UNCHANGED <<machine, table, window, question, history>>

(* create_set_affinity_dialog: a dialog for each row, none of which stops  *)
(* the table; set_affinity goes by the identifier.                         *)
SetAffinity(p) ==
  /\ shown /\ question = None /\ p \in selected
  /\ Begin("affinity", {p}, <<p>>)
  /\ UNCHANGED <<machine, table, window, timer, question, history>>

(* procdialog_create_kill_dialog: about the selection, or about the        *)
(* process whose properties are shown, with its name.                      *)
AskAbout(asked) ==
  /\ begun < MaxActions
  /\ question = None /\ asked # {}
  /\ question' = asked
  /\ Freeze
  /\ UNCHANGED <<machine, table, window, actions, begun, history>>

AskFromWindow == shown /\ AskAbout(selected)

AskFromProperties ==
  /\ properties # None
  /\ AskAbout(Holding(rows, PidOf(properties)))

(* kill_dialog_choose.                                                     *)
Cancel ==
  /\ question # None
  /\ question' = None /\ dismissed' = TRUE
  /\ UNCHANGED <<machine, table, window, timeout, actions, begun, history>>

Confirm ==
  /\ question # None
  /\ \E infos \in SetToSeqs(selected) : Begin("kill", question, infos)
  /\ question' = None
  /\ Thaw
  /\ Update
  /\ UNCHANGED <<machine, window, history>>

(* The identifier of the properties has no row any more, or no row is      *)
(* selected when the answer comes: find returns NULL, or the array is      *)
(* empty, and the missing row is read.                                     *)
NoRowToActOn ==
  /\ \/ properties # None /\ question = None /\ Holding(rows, PidOf(properties)) = {}
     \/ question # None /\ selected = {}
  /\ freed' = TRUE
  /\ UNCHANGED <<machine, table, window, timer, question, actions, begun, astray>>

-----------------------------------------------------------------------------
Replace(a, b) == actions' = (actions \ {a}) \cup {b}

(* The call acts on whoever has the identifier now.                        *)
Reach(a) ==
  astray' = (astray \/ \E p \in Holding(alive, PidOf(a.now)) : \A q \in a.asked : PidOf(q) # PidOf(p))

(* kill_thread, set_priority_thread, set_affinity_thread: the call itself, *)
(* with the three answers of the kernel.                                   *)
CallSucceeds(a) ==
  /\ a.stage = "direct" /\ Holding(alive, PidOf(a.now)) # {}
  /\ Reach(a)
  /\ Replace(a, [a EXCEPT !.stage = "ended"])
  /\ UNCHANGED <<machine, table, window, timer, question, begun, freed>>

CallRefused(a) ==
  /\ a.stage = "direct" /\ Holding(alive, PidOf(a.now)) # {}
  /\ Replace(a, [a EXCEPT !.stage = "helper"])
  /\ UNCHANGED <<machine, table, window, timer, question, begun, history>>

CallFails(a) ==
  /\ a.stage = "direct" /\ Holding(alive, PidOf(a.now)) = {}
  /\ Replace(a, [a EXCEPT !.stage = IF a.kind = "affinity" THEN "returned" ELSE "ended"])
  /\ UNCHANGED <<machine, table, window, timer, question, begun, history>>

(* multi_root_check, after the password, by identifier; a second answer of *)
(* the same task when the first was given already.                         *)
Helper(a) ==
  /\ a.stage \in {"helper", "returned"}
  /\ Reach(a) \/ UNCHANGED astray
  /\ Replace(a, [a EXCEPT !.stage = IF a.stage = "returned" THEN "twice" ELSE "ended"])
  /\ UNCHANGED <<machine, table, window, timer, question, begun, freed>>

(* did_kill, did_priority: the next row of the list is read.               *)
NextInfo(a) ==
  /\ a.stage = "ended" /\ a.infos # <<>>
  /\ freed' = (freed \/ Head(a.infos) \notin rows)
  /\ Replace(a, [a EXCEPT !.infos = Tail(@), !.now = Head(a.infos), !.stage = "direct"])
  /\ UNCHANGED <<machine, table, window, timer, question, begun, astray>>

(* The last one: thaw and update; did_affinity ends the dialog.            *)
End_OnlyOnSuccess(a) ==
  /\ a.stage = "ended" /\ a.infos = <<>>
  /\ actions' = actions \ {a}
  /\ IF a.kind = "affinity" \/ Holding(alive, PidOf(a.now)) = {}
     THEN UNCHANGED <<table, timer>>
     ELSE Thaw /\ Update
  /\ UNCHANGED <<machine, window, question, begun, history>>

End(a) ==
  /\ a.stage \in {"ended", "twice"} /\ a.infos = <<>>
  /\ actions' = actions \ {a}
  /\ IF a.kind = "affinity" THEN UNCHANGED <<table, timer>> ELSE Thaw /\ Update
  /\ UNCHANGED <<machine, window, question, begun, history>>

(* What follows the read of a row that is not there is undefined.          *)
Next ==
  /\ ~freed
  /\ \/ \E p \in Procs : Start(p) \/ Exit(p) \/ ShowProperties(p)
     \/ "affinity" \in Kinds /\ \E p \in Procs : SetAffinity(p)
     \/ Refresh \/ RefreshNow \/ TurnAway \/ TurnBack
     \/ \E S \in SUBSET rows : Select(S)
     \/ \E kind \in Kinds \ {"affinity"} : ActOnSelection(kind)
     \/ ActOnProperties \/ AskFromWindow \/ AskFromProperties \/ Cancel \/ Confirm
     \/ NoRowToActOn
     \/ \E a \in actions :
          CallSucceeds(a) \/ CallRefused(a) \/ CallFails(a) \/ Helper(a) \/ NextInfo(a) \/ End(a)

Spec == Init /\ [][Next]_actionsVars

-----------------------------------------------------------------------------
(* The setting update-interval is the "time ... between updates of the     *)
(* process view": while the table is on the screen and nothing is asked or *)
(* done, its timer runs.                                                   *)
TableRefreshes == shown /\ question = None /\ actions = {} => timeout

(* That holds whatever overlaps, fails, exits or turns the page, but after *)
(* a question was cancelled.                                               *)
FrozenByCancelOnly == TableRefreshes \/ dismissed

(* The question "Force Stop <name>?": what is reached was named.           *)
AskedIsReached == ~astray

(* What each step keeps: while the table is on the screen, nothing is      *)
(* asked and no question was cancelled, a stopped timer has an action that *)
(* will thaw it; an affinity neither freezes nor thaws.                    *)
Types ==
  /\ alive \subseteq Procs /\ rows \subseteq Procs /\ selected \subseteq Procs
  /\ \A a \in actions :
       a = [kind |-> a.kind, asked |-> a.asked, infos |-> a.infos, now |-> a.now, stage |-> a.stage]

SomeoneThaws ==
  (shown /\ question = None /\ ~timeout /\ ~dismissed) => \E a \in actions : a.kind # "affinity"

Thawed == Types /\ SomeoneThaws
=============================================================================
