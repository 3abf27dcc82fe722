----------------------------- MODULE HealthPage -----------------------------
(***************************************************************************)
(* The health page, health.c, with the reader's file as gsm-smart-file.c   *)
(* loads it: a refresh collects on a worker thread and is applied by the   *)
(* main loop, while the user changes the range, clears the history, turns  *)
(* tracking on and off or closes the window, and the drive is unplugged,   *)
(* moved to another port, written to and read by the service.              *)
(*                                                                         *)
(* One drive; bytes written is its one figure.  The bus and the database   *)
(* could be opened.                                                        *)
(***************************************************************************)
EXTENDS HealthCard

CONSTANTS
  Nothing,          \* model value: no card, no figure, no worker
  MAX_AGE,          \* of the reader's file, in its runs
  MaxWear, MaxChanges, MaxToggles  \* bounds

VARIABLES
  at, wear,         \* where the drive is: "out", "sata" or "usb"; what it has written
  file,             \* smart.ini: its state on disk, its age, its entry for the drive
  epoch,            \* which history the database holds
  setting,          \* of tracking, which the switch is bound to
  sampler, jobs,    \* does the sampler run; systemctl commands that have not ended
  open,             \* the page exists and is not disposed
  range, tracking_enabled,
  refreshing, worker,
  card,
  \* --- history ---
  failed,           \* the last collection did
  moved,            \* the drive's figures came from the service, then from udisks
  wanted, raced,    \* what the user asked of the sampler last; while a command ran
  changes

worldVars == <<at, wear, file>>
samplerVars == <<setting, sampler, jobs, wanted, raced>>
pageVars == <<open, range, tracking_enabled>>
refreshVars == <<refreshing, worker, card, failed, moved>>

States == {"missing", "unreadable", "malformed", "unknown schema", "whole"}
NoEntry == [status |-> "unknown", figure |-> Nothing]

Init ==
  /\ at \in {"out", "sata", "usb"} /\ wear = 0
  /\ file = [state |-> "missing", age |-> 0, entry |-> NoEntry]
  /\ epoch = 0
  /\ setting \in BOOLEAN /\ sampler \in BOOLEAN /\ jobs = <<>> /\ wanted = sampler /\ raced = FALSE
  /\ open = FALSE /\ range = "month" /\ tracking_enabled = FALSE
  /\ refreshing = FALSE /\ worker = Nothing /\ card = Nothing
  /\ failed = FALSE /\ moved = FALSE /\ changes = 0

Change == changes < MaxChanges /\ changes' = changes + 1

-----------------------------------------------------------------------------
(* The world: the drive, and the service that reads it when it is on USB.  *)
Move(to) ==
  /\ Change /\ at # to /\ at' = to
  /\ UNCHANGED <<wear, file, epoch, samplerVars, pageVars, refreshVars>>

Write ==
  /\ at # "out" /\ wear < MaxWear /\ wear' = wear + 1
  /\ UNCHANGED <<at, file, epoch, changes, samplerVars, pageVars, refreshVars>>

(* A sleeping disk keeps the figure of its entry before, if it has one.    *)
Entries ==
  {[status |-> "ok", figure |-> wear], [status |-> "failed", figure |-> Nothing],
   [status |-> "asleep", figure |-> file.entry.figure]}

RunReader ==
  /\ Change
  /\ \E entry \in IF at = "usb" THEN Entries ELSE {NoEntry} :
       file' = [state |-> "whole", age |-> 0, entry |-> entry]
  /\ UNCHANGED <<at, wear, epoch, samplerVars, pageVars, refreshVars>>

SpoilFile(state) ==
  /\ Change /\ state # "whole" /\ file' = [state |-> state, age |-> 0, entry |-> NoEntry]
  /\ UNCHANGED <<at, wear, epoch, samplerVars, pageVars, refreshVars>>

AgeFile ==
  /\ file.state = "whole" /\ file.age <= MAX_AGE
  /\ file' = [file EXCEPT !.age = @ + 1]
  /\ UNCHANGED <<at, wear, epoch, changes, samplerVars, pageVars, refreshVars>>

-----------------------------------------------------------------------------
(* refresh: dropped while one is on its way.                               *)
refresh ==
  IF refreshing THEN UNCHANGED <<refreshing, worker>>
  ELSE refreshing' = TRUE /\ worker' = [step |-> "udisks", info |-> Nothing, file |-> Nothing]

Refresh ==
  /\ open /\ refresh
  /\ UNCHANGED <<worldVars, epoch, samplerVars, pageVars, card, failed, moved, changes>>

On(step) == worker # Nothing /\ worker.step = step

(* gsm_smart_file_load.                                                    *)
Loaded ==
  [state |-> IF file.state # "whole" THEN file.state ELSE IF file.age > MAX_AGE THEN "stale" ELSE "ok",
   entry |-> file.entry]

InfoOf(where) ==
  CASE where = "out" -> Nothing
    [] where = "sata" -> [NewInfo EXCEPT !.source = "udisks", !.written = wear]
    [] where = "usb" -> NewInfo

(* collect_in_thread, with the two reads of the world it makes.            *)
AskUdisks ==
  /\ On("udisks")
  /\ worker' = [worker EXCEPT !.step = IF at = "usb" THEN "file" ELSE "done", !.info = InfoOf(at)]
  /\ UNCHANGED <<worldVars, epoch, samplerVars, pageVars, refreshing, card, failed, moved, changes>>

UdisksFails ==
  /\ On("udisks") /\ worker' = [worker EXCEPT !.step = "failed"]
  /\ UNCHANGED <<worldVars, epoch, samplerVars, pageVars, refreshing, card, failed, moved, changes>>

LoadFile ==
  /\ On("file") /\ worker' = [worker EXCEPT !.step = "done", !.file = Loaded]
  /\ UNCHANGED <<worldVars, epoch, samplerVars, pageVars, refreshing, card, failed, moved, changes>>

-----------------------------------------------------------------------------
(* usb_reading_update: an entry that is asleep is asked as one that is ok. *)
NoUsb == [applies |-> FALSE, have_figures |-> FALSE, file_state |-> "missing", service |-> "off",
          listed |-> FALSE, status |-> "unknown", observed |-> FALSE]

gsm_smart_file_fill_info(loaded) ==
  /\ loaded.state = "ok" /\ loaded.entry.status \in {"ok", "asleep"} /\ loaded.entry.figure # Nothing

usb_reading_update(loaded) ==
  IF loaded = Nothing THEN NoUsb
  ELSE [NoUsb EXCEPT !.applies = TRUE, !.file_state = loaded.state, !.listed = (loaded.entry # NoEntry),
          !.status = loaded.entry.status, !.have_figures = gsm_smart_file_fill_info(loaded)]

NewCard == [figures |-> NewDrive, usb |-> NoUsb, present |-> TRUE]

Updated(before, info, loaded) ==
  LET usb == usb_reading_update(loaded)
      given == IF usb.have_figures
               THEN [info EXCEPT !.source = "helper", !.written = loaded.entry.figure] ELSE info
      drive == gsm_drive_apply_info(before.figures, given)
  IN [figures |-> drive, usb |-> usb, present |-> TRUE,
      endurance |-> gsm_drive_resolve_endurance(drive.percent, drive.written, 0, 0),
      rate |-> -1, recorded |-> <<>>, tracking |-> tracking_enabled,
      range |-> range, epoch |-> epoch]

(* apply_drives: the cards are made of what the worker learned and of what *)
(* range, switch and database are now.                                     *)
apply_drives(info, loaded) ==
  IF info = Nothing
  THEN card' = IF card = Nothing THEN Nothing ELSE [card EXCEPT !.present = FALSE]
  ELSE card' = Updated(IF card = Nothing THEN NewCard ELSE card, info, loaded)

refresh_finished ==
  /\ On("done") \/ On("failed")
  /\ refreshing' = FALSE /\ worker' = Nothing
  /\ failed' = (On("failed") \/ ~open)
  /\ IF failed' THEN UNCHANGED <<card, moved>>
     ELSE /\ apply_drives(worker.info, worker.file)
          /\ moved' = \/ moved
                      \/ /\ card # Nothing /\ card.figures.source = "helper"
                         /\ worker.info # Nothing /\ worker.file = Nothing
  /\ UNCHANGED <<worldVars, epoch, samplerVars, pageVars, changes>>

-----------------------------------------------------------------------------
(* The user.  The switch is bound to the setting before the page acts on   *)
(* it; a page is made in a new process.                                    *)
Open_Acts ==
  /\ ~open /\ worker = Nothing /\ Change
  /\ open' = TRUE /\ range' = "month" /\ tracking_enabled' = setting
  /\ card' = Nothing /\ moved' = FALSE /\ failed' = FALSE /\ refresh
  /\ jobs' = IF setting THEN Append(jobs, TRUE) ELSE jobs
  /\ UNCHANGED <<worldVars, epoch, setting, sampler, wanted, raced>>

Open ==
  /\ ~open /\ worker = Nothing /\ Change
  /\ open' = TRUE /\ range' = "month" /\ tracking_enabled' = setting
  /\ card' = Nothing /\ moved' = FALSE /\ failed' = FALSE /\ refresh
  /\ UNCHANGED <<worldVars, epoch, samplerVars>>

on_range_changed(to) ==
  /\ open /\ range # to /\ Change
  /\ range' = to /\ refresh
  /\ UNCHANGED <<worldVars, epoch, samplerVars, open, tracking_enabled, card, failed, moved>>

on_clear_history ==
  /\ open /\ Change
  /\ epoch' = epoch + 1 /\ refresh
  /\ UNCHANGED <<worldVars, samplerVars, pageVars, card, failed, moved>>

on_tracking_toggled ==
  /\ open /\ Change /\ Len(jobs) < MaxToggles
  /\ setting' = ~setting /\ tracking_enabled' = setting'
  /\ jobs' = Append(jobs, setting')
  /\ wanted' = setting' /\ raced' = (raced \/ jobs # <<>>)
  /\ refresh
  /\ UNCHANGED <<worldVars, epoch, sampler, open, range, card, failed, moved>>

(* systemctl enable --now and disable --now: nobody waits for one before   *)
(* the next.                                                               *)
EndCommand ==
  \E i \in DOMAIN jobs :
    /\ sampler' = jobs[i] /\ jobs' = RemoveAt(jobs, i)
    /\ UNCHANGED <<worldVars, epoch, setting, wanted, raced, pageVars, refreshVars, changes>>

SetByHand ==
  /\ jobs = <<>> /\ Change
  /\ sampler' = ~sampler /\ wanted' = sampler'
  /\ UNCHANGED <<worldVars, epoch, setting, jobs, raced, pageVars, refreshVars>>

(* dispose: what the worker brings is no longer looked at.                 *)
Dispose ==
  /\ open /\ open' = FALSE
  /\ UNCHANGED <<worldVars, epoch, samplerVars, range, tracking_enabled, refreshVars, changes>>

Next ==
  \/ \E to \in {"out", "sata", "usb"} : Move(to)
  \/ Write \/ RunReader \/ AgeFile
  \/ \E state \in States : SpoilFile(state)
  \/ Refresh \/ AskUdisks \/ UdisksFails \/ LoadFile \/ refresh_finished
  \/ Open \/ Dispose
  \/ \E to \in {"month", "year"} : on_range_changed(to)
  \/ on_clear_history \/ on_tracking_toggled \/ EndCommand \/ SetByHand

-----------------------------------------------------------------------------
(* A refresh that is dropped because another is on its way loses nothing:  *)
(* when none is and the last did not fail, the card of a drive that is     *)
(* there shows the chosen range, the history the database has and the      *)
(* switch as they are (health.c:2091).                                     *)
PageIsCurrent ==
  (open /\ ~refreshing /\ ~failed /\ card # Nothing /\ card.present) =>
    card.range = range /\ card.epoch = epoch /\ card.tracking = tracking_enabled

(* A card with figures shows what the drive has written at some moment, no *)
(* more than it has; as read by the service when its entry has them, never *)
(* from an entry, a file or an age that has none.  A drive that moved from *)
(* the service's care to udisks keeps the figures of the service, which    *)
(* are not called new (health.c:1867, gsm-drive.c:249).                    *)
FiguresAreTheDrives ==
  (open /\ card # Nothing /\ card_has_figures(card)) =>
    /\ card.figures.written <= wear
    /\ card.usb.applies => card.figures.source = "helper"
    /\ (card.figures.source = "helper" /\ ~card.usb.applies) => moved
    /\ card.usb.applies => card.usb.file_state = "ok" /\ card.usb.status \in {"ok", "asleep"}
    /\ FiguresHaveTheirSource(card)

(* The sampler is as the user last asked, by the switch or by hand, unless *)
(* the switch was turned while a command of it ran: to open the page is    *)
(* not to ask (health.c:2143).                                             *)
SamplerAsAsked == (jobs = <<>> /\ ~raced) => sampler = wanted

Sound == PageIsCurrent /\ FiguresAreTheDrives /\ SamplerAsAsked

(* What each step keeps.  What anybody knows of the drive is what it had   *)
(* written at some moment: the file, what the worker has read, the card.   *)
(* A worker that read the file asked udisks of a drive on USB, which says  *)
(* nothing of it; one that did not was told what udisks knows or nothing.  *)
Written(figure) == figure = Nothing \/ figure \in 0..wear

Infos == {NewInfo} \cup {[NewInfo EXCEPT !.source = "udisks", !.written = w] : w \in 0..wear}

WorkerSound ==
  worker # Nothing =>
    /\ worker = [step |-> worker.step, info |-> worker.info, file |-> worker.file]
    /\ worker.step \in {"udisks", "file"} => worker.file = Nothing
    /\ worker.step = "file" => worker.info = NewInfo
    /\ worker.step = "done" =>
         IF worker.file = Nothing THEN worker.info \in {Nothing} \cup Infos
         ELSE worker.info = NewInfo /\ Written(worker.file.entry.figure)

(* A card whose usb applies has figures of the service or none to show; one *)
(* whose usb does not has figures of udisks, or older ones of the service. *)
CardFields ==
  {"figures", "usb", "present", "endurance", "rate", "recorded", "tracking", "range", "epoch"}
CardSound ==
  card # Nothing =>
    /\ card = [field \in CardFields |-> card[field]]
    /\ card.figures.written \in 0..wear
    /\ card.figures.source \in {"none", "locked", "udisks", "helper"}
    /\ (card.usb.applies /\ card.usb.have_figures) =>
         /\ card.figures.source = "helper"
         /\ card.usb.file_state = "ok" /\ card.usb.status \in {"ok", "asleep"}
    /\ (card.figures.source = "helper" /\ ~card.usb.applies) => moved

(* The last command that was started, while no other ran, is as wanted.    *)
JobsSound ==
  /\ jobs \in Seq(BOOLEAN)
  /\ ~raced => Len(jobs) <= 1 /\ (jobs # <<>> => jobs[1] = wanted)

Current ==
  /\ at \in {"out", "sata", "usb"} /\ wear \in Nat /\ Written(file.entry.figure)
  /\ file.entry = [status |-> file.entry.status, figure |-> file.entry.figure]
  /\ file = [state |-> file.state, age |-> file.age, entry |-> file.entry]
  /\ setting \in BOOLEAN
  /\ WorkerSound /\ (open => CardSound) /\ JobsSound
  /\ PageIsCurrent /\ SamplerAsAsked
=============================================================================
