------------------------------- MODULE DevIpc -------------------------------
(***************************************************************************)
(* src/src/dev-ipc.c: the socket by which a developer's harness drives the *)
(* window.  One connection is served at a time, in the main loop: GLib     *)
(* accepts the next when the handler has returned.  Only "shot" runs the   *)
(* loop from inside its handler, until the window has been painted or half *)
(* a second has gone, and then whatever else is ready runs too: frames,    *)
(* idle callbacks, the user.                                               *)
(*                                                                         *)
(* A picture has the page that is visible, which is drawn from the widgets *)
(* as they are, and the button of the switcher, whose style is that of the *)
(* last frame.  A process row is its number, its texts and the row above   *)
(* it, which may be collapsed; the harness asks for a number or for a text.  A client that connects and sends no   *)
(* line holds up the program: left out, as are the arguments that are      *)
(* refused by their form, "ping", "size" and "scroll".                     *)
(***************************************************************************)
EXTENDS Integers, Sequences, FiniteSets, FiniteSetsExt

CONSTANTS
  NULL,                      \* model value: no command, reply or argument
  Tabs,
  ListRows,                      \* the process rows in the order of the view: [pid, texts, above]
  Values,                    \* those a key of the settings may have
  MaxCommands, MaxUser       \* bounds: commands sent, acts of the user

VARIABLES
  \* --- the window ---
  window,                    \* "open", or how it was left
  visible, styled,           \* the page shown, the button of the last frame
  selection, expanded, switch, setting,
  idle,                      \* the callbacks that wait for the loop to be idle
  \* --- on_incoming ---
  serving,                   \* the command in its handler
  painted,                   \* how the wait for a frame stands
  reply,                     \* of the last command that was served
  \* --- history ---
  commands, acts,
  alone,                     \* the user has done nothing since the handler began
  hurried                    \* a shot began, or the user closed the window, while a close was to come

app  == <<selection, expanded, switch, setting>>
vars == <<window, visible, styled, app, idle, serving, painted, reply, commands, acts, alone, hurried>>

Command(verb, pid, text) == [verb |-> verb, pid |-> pid, text |-> text]
Commands ==
  {Command("tab", NULL, t) : t \in Tabs \cup {NULL, "no_such"}}
  \cup {Command("select", ListRows[i].pid, NULL) : i \in DOMAIN ListRows}
  \cup {Command("select", NULL, t) : t \in UNION {ListRows[i].texts : i \in DOMAIN ListRows} \cup {"no_such"}}
  \cup {Command("set", NULL, v) : v \in Values \cup {"no_such"}}
  \cup {Command(v, NULL, NULL) : v \in {"shot", "text", "rows", "toggle", "close", "quit"}}

Init ==
  /\ window = "open"
  /\ visible \in Tabs /\ styled = visible
  /\ selection = {} /\ expanded = {} /\ switch = FALSE /\ setting \in Values
  /\ idle = {}
  /\ serving = NULL /\ painted = "no" /\ reply = NULL
  /\ commands = 0 /\ acts = 0 /\ alone = TRUE /\ hurried = FALSE

-----------------------------------------------------------------------------
Says(command, ok, what) == reply' = [command |-> command, ok |-> ok, what |-> what]

(* Anything but a shot is done, and answered, before the loop goes on.     *)
cmd_tab(c) ==
  /\ visible' = IF c.text \in Tabs THEN c.text ELSE visible
  /\ Says(c, c.text \in Tabs \cup {NULL}, visible')
  /\ UNCHANGED <<window, app, idle>>

(* The first row, in the order of the view, that has the number or the     *)
(* text asked for; the selection becomes that row.                         *)
select_row_matching(c) ==
  {i \in DOMAIN ListRows : IF c.pid # NULL THEN ListRows[i].pid = c.pid ELSE c.text \in ListRows[i].texts}

(* ListRows below a collapsed one cannot be selected.                          *)
Above(i) == IF ListRows[i].above = 0 THEN {} ELSE {ListRows[ListRows[i].above].pid}

select_row_Added(i) ==
  /\ expanded' = expanded \cup Above(i)
  /\ selection' = selection \cup {ListRows[i].pid}

select_row_Collapsed(i) ==
  /\ expanded' = expanded
  /\ selection' = IF Above(i) \subseteq expanded' THEN {ListRows[i].pid} ELSE {}

select_row(i) ==
  /\ expanded' = expanded \cup Above(i)
  /\ selection' = IF Above(i) \subseteq expanded' THEN {ListRows[i].pid} ELSE {}

cmd_select(c) ==
  LET found == select_row_matching(c)
  IN /\ IF found = {} THEN UNCHANGED <<selection, expanded>> /\ Says(c, FALSE, NULL)
        ELSE select_row(Min(found)) /\ Says(c, TRUE, ListRows[Min(found)].pid)
     /\ UNCHANGED <<window, visible, switch, setting, idle>>

cmd_toggle(c) ==
  /\ switch' = ~switch
  /\ Says(c, TRUE, ~switch)
  /\ UNCHANGED <<window, visible, selection, expanded, setting, idle>>

cmd_set(c) ==
  /\ setting' = IF c.text \in Values THEN c.text ELSE setting
  /\ Says(c, c.text \in Values, c.text)
  /\ UNCHANGED <<window, visible, selection, expanded, switch, idle>>

Report(c, what) ==
  /\ Says(c, TRUE, what)
  /\ UNCHANGED <<window, visible, app, idle>>

(* The window is closed by a callback, when the reply has been sent.       *)
CloseWhenIdle_Now(c) ==
  /\ Says(c, TRUE, "closing")
  /\ window' = "closed_in_handler"
  /\ UNCHANGED <<visible, app, idle>>

CloseWhenIdle(c) ==
  /\ Says(c, TRUE, "closing")
  /\ idle' = idle \cup {c.verb}
  /\ UNCHANGED <<window, visible, app>>

handle_command(c) ==
  \/ c.verb = "tab" /\ cmd_tab(c)
  \/ c.verb = "select" /\ cmd_select(c)
  \/ c.verb = "toggle" /\ cmd_toggle(c)
  \/ c.verb = "set" /\ cmd_set(c)
  \/ c.verb = "text" /\ Report(c, visible)
  \/ c.verb = "rows" /\ Report(c, Len(ListRows))
  \/ c.verb \in {"close", "quit"} /\ CloseWhenIdle(c)

Free == window = "open" /\ serving = NULL
Sent == commands < MaxCommands /\ commands' = commands + 1

on_incoming(c) ==
  /\ Free /\ Sent /\ c.verb # "shot"
  /\ handle_command(c)
  /\ alone' = TRUE
  /\ UNCHANGED <<styled, serving, painted, acts, hurried>>

(* cmd_shot: wait_for_next_frame, with a nested loop.                      *)
BeginShot(c) ==
  /\ Free /\ Sent /\ c.verb = "shot"
  /\ serving' = c
  /\ painted' = "no"
  /\ alone' = TRUE
  /\ hurried' = (hurried \/ idle # {})
  /\ UNCHANGED <<window, visible, styled, app, idle, reply, acts>>

Paint ==
  /\ window \in {"open", "quitting"}
  /\ styled # visible \/ (serving # NULL /\ painted = "no")
  /\ styled' = visible
  /\ painted' = IF serving # NULL THEN "yes" ELSE painted
  /\ UNCHANGED <<window, visible, app, idle, serving, reply, commands, acts, alone, hurried>>

FrameTimeout ==
  /\ serving # NULL /\ painted = "no"
  /\ painted' = "timed_out"
  /\ UNCHANGED <<window, visible, styled, app, idle, serving, reply, commands, acts, alone, hurried>>

TakeShot ==
  /\ serving # NULL /\ painted # "no"
  /\ Says(serving, TRUE, [page |-> visible, button |-> styled, painted |-> painted, alone |-> alone])
  /\ serving' = NULL
  /\ window' = IF window = "quitting" THEN "closed" ELSE window
  /\ UNCHANGED <<visible, styled, app, idle, painted, commands, acts, alone, hurried>>

TakeShot_AtOnce(c) ==
  /\ Free /\ Sent /\ c.verb = "shot"
  /\ Says(c, TRUE, [page |-> visible, button |-> styled, painted |-> "yes", alone |-> TRUE])
  /\ UNCHANGED <<window, visible, styled, app, idle, serving, painted, acts, alone, hurried>>

Shot(c) == BeginShot(c)

(* close_window_idle destroys the window; close_window_idle_quit has the   *)
(* main loop end, which is not the nested one.                             *)
Close ==
  /\ window = "open" /\ "close" \in idle
  /\ window' = IF serving = NULL THEN "closed" ELSE "closed_in_handler"
  /\ idle' = idle \ {"close"}
  /\ UNCHANGED <<visible, styled, app, serving, painted, reply, commands, acts, alone, hurried>>

Quit ==
  /\ window = "open" /\ "quit" \in idle
  /\ window' = IF serving = NULL THEN "closed" ELSE "quitting"
  /\ idle' = idle \ {"quit"}
  /\ UNCHANGED <<visible, styled, app, serving, painted, reply, commands, acts, alone, hurried>>

Act ==
  /\ window = "open" /\ acts < MaxUser
  /\ acts' = acts + 1
  /\ alone' = FALSE

UserTurnsTo(t) ==
  /\ Act /\ t # visible
  /\ visible' = t
  /\ UNCHANGED <<window, styled, app, idle, serving, painted, reply, commands, hurried>>

UserCollapses(pid) ==
  /\ Act /\ pid \in expanded
  /\ expanded' = expanded \ {pid}
  /\ selection' = selection \ {ListRows[i].pid : i \in {i \in DOMAIN ListRows : pid \in Above(i)}}
  /\ UNCHANGED <<window, visible, styled, switch, setting, idle, serving, painted, reply, commands, hurried>>

UserCloses ==
  /\ Act
  /\ window' = IF serving = NULL THEN "closed" ELSE "closed_in_handler"
  /\ hurried' = TRUE
  /\ UNCHANGED <<visible, styled, app, idle, serving, painted, reply, commands>>

Next ==
  \/ \E c \in Commands : on_incoming(c)
  \/ \E c \in Commands : Shot(c)
  \/ Paint
  \/ FrameTimeout
  \/ TakeShot
  \/ Close
  \/ Quit
  \/ \E pid \in expanded : UserCollapses(pid)
  \/ \E t \in Tabs : UserTurnsTo(t)
  \/ UserCloses

-----------------------------------------------------------------------------
(* A picture has the button of the page it shows, although the harness has *)
(* turned the page just before: unless the window is not being painted or  *)
(* the user acts meanwhile.                                                *)
ShotIsWhole ==
  (reply # NULL /\ reply.command.verb = "shot" /\ reply.what.painted = "yes" /\ reply.what.alone)
    => reply.what.page = reply.what.button

(* What an action would then be applied to is the process that the harness *)
(* asked for, and no other that was selected before, though it be in a     *)
(* part of the tree that was collapsed; until the user acts.               *)
SelectedIsAsked ==
  (reply # NULL /\ reply.command.verb = "select" /\ reply.ok /\ serving = NULL /\ alone)
    => /\ selection = {reply.what}
       /\ reply.command.pid # NULL => selection = {reply.command.pid}

(* The window outlives each handler, and the client that had it closed got *)
(* its answer; except that a shot begun before the loop was idle, or the   *)
(* user, may still close it under a shot.                                  *)
WindowOutlivesHandlers == window = "closed_in_handler" => hurried

Sound == ShotIsWhole /\ SelectedIsAsked /\ WindowOutlivesHandlers

(* What each step keeps: the loop runs from inside a handler only for a    *)
(* shot; once it was painted the button is that of the page, unless the    *)
(* user has turned it; and a close that waits is one that was hurried.     *)
Nested ==
  serving # NULL =>
    /\ serving.verb = "shot"
    /\ painted = "yes" /\ alone => visible = styled
    /\ "close" \in idle => hurried

Served == Nested /\ Sound
=============================================================================
