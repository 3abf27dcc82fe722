----------------------------- MODULE DevChannel -----------------------------
(***************************************************************************)
(* src/tools/release/dev-channel.sh: versions installed side by side, two  *)
(* links that name the current one and the one before, and the files of    *)
(* the current one exported to where the desktop looks.  A command is a    *)
(* sequence of file operations that a crash, a signal or a full disk may   *)
(* end after any of them; the next command starts from what is left.       *)
(***************************************************************************)
EXTENDS Naturals, Sequences

CONSTANTS
  Versions,
  None,                \* model value: no version, no command, nothing saved
  Absent, Foreign,     \* model values: what the user's directory held before the channel
  MaxCommands          \* bound

VARIABLES
  content,             \* version -> what is there of its directory
  current, previous,   \* the links
  export,              \* file -> Absent, Foreign, or the version it was exported from
  backup, saved,       \* original-export, and original-export.new on its way
  command,             \* [do, version, done] or None: the next operation of the running
                       \* command, and how many files it has exported
  commands,
  original,            \* history: export as it was before the first command
  before,              \* history: the version that was current before current
  cut, torn, halted    \* history: removals cut short; a switch cut between its
                       \* renames; a switch whose export has not been finished

channelVars == <<content, current, previous, export, backup, saved, command, commands,
                 original, before, cut, torn, halted>>

Parts == {"dir", "marker", "share", "installed"}
EXPORTS == <<"desktop", "schema">>
Compiled == "compiled"
Files == {"desktop", "schema", Compiled}

Installed(v) == {"marker", "installed"} \subseteq content[v]

Init ==
  /\ content = [v \in Versions |-> {}]
  /\ current = None /\ previous = None
  /\ export \in [Files -> {Absent, Foreign}] /\ original = export
  /\ backup = None /\ saved = <<>>
  /\ command = None /\ commands = 0
  /\ before = None /\ cut = {} /\ torn = FALSE /\ halted = FALSE

Command(do, v) ==
  /\ command = None /\ commands < MaxCommands
  /\ command' = [do |-> do, version |-> v, done |-> 0] /\ commands' = commands + 1

At(do) == command # None /\ command.do = do
Then(do) == command' = [command EXCEPT !.do = do]
KeepLinks == UNCHANGED <<current, previous, before, torn>>
KeepExport == UNCHANGED <<export, backup, saved, original, halted>>

-----------------------------------------------------------------------------
(* build: the directory, its marker, the files, and last what makes it     *)
(* switchable.  A build that fails removes its directory if that is marked. *)
Build(v) ==
  /\ content[v] = {} /\ Command("dir", v)
  /\ UNCHANGED <<content, cut>> /\ KeepLinks /\ KeepExport

NextPart ==
  [part \in Parts |-> CASE part = "dir" -> "marker" [] part = "marker" -> "share" [] OTHER -> "installed"]

Install ==
  \E part \in Parts :
    /\ At(part)
    /\ content' = [content EXCEPT ![command.version] = @ \cup {part}]
    /\ IF part = "installed" THEN command' = None ELSE Then(NextPart[part])
    /\ UNCHANGED <<cut, commands>> /\ KeepLinks /\ KeepExport

InstallFails ==
  /\ \E part \in Parts : At(part)
  /\ IF "marker" \in content[command.version] THEN Then("remove") ELSE command' = None
  /\ UNCHANGED <<content, cut, commands>> /\ KeepLinks /\ KeepExport

-----------------------------------------------------------------------------
(* prune: only a marked directory that no link names.                      *)
Prunable_InUse(v) == "marker" \in content[v] /\ v # current
Prunable(v) == "marker" \in content[v] /\ v \notin {current, previous}

Prune(v) ==
  /\ Prunable(v) /\ Command("remove", v)
  /\ UNCHANGED <<content, cut>> /\ KeepLinks /\ KeepExport

(* rm -rf takes what is in a directory in no order that can be relied on.  *)
Remove ==
  /\ At("remove")
  /\ \E part \in content[command.version] :
       /\ part = "dir" => content[command.version] = {"dir"}
       /\ content' = [content EXCEPT ![command.version] = @ \ {part}]
  /\ command' = IF content'[command.version] = {} THEN None ELSE command
  /\ cut' = IF command' = None THEN cut \ {command.version} ELSE cut
  /\ UNCHANGED commands /\ KeepLinks /\ KeepExport

-----------------------------------------------------------------------------
(* switch: the link to the version before is renamed first.                *)
Switch(v) ==
  /\ Installed(v)
  /\ Command(IF v = current THEN "backup" ELSE IF current = None THEN "current" ELSE "previous", v)
  /\ halted' = (v # current \/ halted)
  /\ UNCHANGED <<content, cut, export, backup, saved, original>> /\ KeepLinks

Rollback == previous # None /\ Switch(previous)

SetPrevious ==
  /\ At("previous") /\ previous' = current
  /\ Then("current")
  /\ UNCHANGED <<content, cut, commands, current, before, torn>> /\ KeepExport

SetCurrent ==
  /\ At("current") /\ before' = current /\ current' = command.version
  /\ torn' = FALSE /\ Then("backup")
  /\ UNCHANGED <<content, cut, commands, previous>> /\ KeepExport

(* backup_original_export: one directory, renamed into place when it is    *)
(* complete.                                                               *)
AllFiles == <<"desktop", "schema", Compiled>>

Backup_InPlace ==
  /\ At("backup")
  /\ IF backup # None /\ saved = <<>> THEN Then("export") /\ UNCHANGED <<backup, saved>>
     ELSE /\ saved' = Append(saved, export[AllFiles[Len(saved) + 1]])
          /\ backup' = saved'
          /\ IF Len(saved') = Len(AllFiles) THEN Then("export") ELSE UNCHANGED command
  /\ UNCHANGED <<content, cut, commands, export, original, halted>> /\ KeepLinks

Backup ==
  /\ At("backup")
  /\ IF backup # None THEN Then("export") /\ UNCHANGED <<backup, saved>>
     ELSE IF Len(saved) < Len(AllFiles)
     THEN /\ saved' = Append(saved, export[AllFiles[Len(saved) + 1]])
          /\ UNCHANGED <<command, backup>>
     ELSE backup' = saved /\ saved' = <<>> /\ Then("export")
  /\ UNCHANGED <<content, cut, commands, export, original, halted>> /\ KeepLinks

(* export_current: each file by a rename, then the schemas are compiled.   *)
(* It ends early when the version has no file to export.                   *)
Export ==
  /\ At("export") /\ command.done < Len(EXPORTS)
  /\ IF "share" \in content[current]
     THEN /\ export' = [export EXCEPT ![EXPORTS[command.done + 1]] = current]
          /\ command' = [command EXCEPT !.done = @ + 1]
     ELSE UNCHANGED export /\ command' = None
  /\ UNCHANGED <<content, cut, commands, backup, saved, original, halted>> /\ KeepLinks

Compile ==
  /\ At("export") /\ command.done = Len(EXPORTS)
  /\ export' = [export EXCEPT ![Compiled] = export["schema"]]
  /\ halted' = FALSE /\ command' = None
  /\ UNCHANGED <<content, cut, commands, backup, saved, original>> /\ KeepLinks

-----------------------------------------------------------------------------
(* The command is killed: its trap does not run, nothing is undone.  A     *)
(* half-made backup.new is made again from the start by the next switch.   *)
Crash ==
  /\ command # None /\ command' = None
  /\ cut' = IF At("remove") THEN cut \cup {command.version} ELSE cut
  /\ torn' = (torn \/ (At("current") /\ current # None))
  /\ saved' = <<>>
  /\ UNCHANGED <<content, commands, current, previous, before, export, backup, original, halted>>

Next ==
  \/ \E v \in Versions : Build(v) \/ Prune(v) \/ Switch(v)
  \/ Rollback \/ Install \/ InstallFails \/ Remove \/ SetPrevious \/ SetCurrent
  \/ Backup \/ Export \/ Compile \/ Crash

Spec == Init /\ [][Next]_channelVars

-----------------------------------------------------------------------------
(* A version the links name is complete: a build cut short is never        *)
(* switchable (dev-channel.sh:64) and prune never takes a linked one.  The *)
(* exception is a version whose removal was cut short, which still has     *)
(* both its marker files when rm took the others first.                    *)
LinkedAreComplete ==
  \A v \in {current, previous} \ {None} : content[v] = Parts \/ v \in cut

(* There is a way back: previous names what was current before, unless a   *)
(* switch was cut between its two renames (dev-channel.sh:349).            *)
WayBack == (~torn /\ ~At("current")) => previous = before

(* While any exported file is not what the user had, the backup holds all  *)
(* of what the user had (dev-channel.sh:283).                              *)
OriginalIsKept ==
  export # original => backup = [i \in 1..Len(AllFiles) |-> original[AllFiles[i]]]

(* When the last switch was not cut short, every exported file, with the   *)
(* compiled schemas, is the current version's.                             *)
ExportIsCurrents ==
  (command = None /\ ~halted /\ current # None) => \A f \in Files : export[f] = current

Sound == LinkedAreComplete /\ WayBack /\ OriginalIsKept /\ ExportIsCurrents

(* What each step keeps.  A directory that has its last part has all, but  *)
(* for one whose removal has begun; what is being made or removed is not   *)
(* linked, and what is being switched to is complete.                      *)
Steps == Parts \cup {"remove", "previous", "current", "backup", "export"}
Held == Versions \cup {Absent, Foreign}

Types ==
  /\ content \in [Versions -> SUBSET Parts] /\ cut \subseteq Versions
  /\ current \in Versions \cup {None} /\ previous \in Versions \cup {None}
  /\ export \in [Files -> Held] /\ original \in [Files -> Held]
  /\ saved \in Seq(Held) /\ Len(saved) <= Len(AllFiles)
  /\ command = None \/ command \in [do : Steps, version : Versions, done : 0..Len(EXPORTS)]

Complete(v) == content[v] = Parts \/ v \in cut

Before(part) ==
  CASE part = "dir" -> {}
    [] part = "marker" -> {"dir"}
    [] part = "share" -> {"dir", "marker"}
    [] part = "installed" -> {"dir", "marker", "share"}

Directories ==
  /\ \A v \in Versions :
       "installed" \in content[v] => Complete(v) \/ (At("remove") /\ command.version = v)
  /\ \A v \in cut : content[v] # {}
  /\ \A part \in Parts : At(part) => content[command.version] = Before(part)
  /\ At("remove") => content[command.version] # {}
  /\ (\E part \in Parts : At(part)) \/ At("remove") => command.version \notin {current, previous}
  /\ At("previous") \/ At("current") => Complete(command.version)
  /\ LinkedAreComplete

(* Before the first switch nothing is linked; between the two renames both *)
(* links name the same version.                                            *)
Links ==
  /\ current = None => previous = None /\ before = None
  /\ At("current") => previous = current
  /\ WayBack

(* Nothing is exported before what the user had is saved; an export goes   *)
(* through the files in turn, and until it has ended a switch is halted.   *)
Exports ==
  /\ \/ backup = [i \in 1..Len(AllFiles) |-> original[AllFiles[i]]]
     \/ backup = None /\ export = original
  /\ \A i \in 1..Len(saved) : saved[i] = original[AllFiles[i]]
  /\ At("export") =>
       /\ backup = [i \in 1..Len(AllFiles) |-> original[AllFiles[i]]]
       /\ \A i \in 1..command.done : export[EXPORTS[i]] = current
  /\ At("backup") \/ At("export") => current # None
  /\ command # None /\ ~At("export") => command.done = 0
  /\ At("previous") \/ At("current") => halted
  /\ (~halted /\ current # None) => \A f \in Files : export[f] = current

Kept == Types /\ Directories /\ Links /\ Exports
=============================================================================
