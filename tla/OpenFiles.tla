----------------------------- MODULE OpenFiles -----------------------------
(***************************************************************************)
(* The open files of a process: openfiles.cpp.  A row is kept under the    *)
(* descriptor and the type of its file, so that a selection survives a     *)
(* refresh, and filled again every five seconds.                           *)
(*                                                                         *)
(* The window holds a plain pointer to the ProcInfo of the process table,  *)
(* which frees it when the process is gone (the table's own refresh).  The *)
(* pid read from freed memory may be that of any process, or of none.      *)
(***************************************************************************)
EXTENDS Integers

CONSTANTS LastDescriptor, \* descriptors are 0..LastDescriptor
          Types, Names,
          MaxChanges   \* bound on what the process does with its files

VARIABLES files,        \* descriptor -> [type, name], of the process
          info,         \* "live", "gone" (the process), "freed" (its record)
          known_files,  \* <<descriptor, type>> -> the name its row shows
          store,        \* how many rows each key has
          seen,         \* `files' at the last refresh of a live process
          changes

vars == <<files, info, known_files, store, seen, changes>>

-----------------------------------------------------------------------------
Key(fd, type) == <<fd, type>>
Keys == (0..LastDescriptor) \X Types

(* One entry: its row is kept and filled, or a new one is made.            *)
Handled_ByDescriptor(update, entry) ==
  [known |-> [k \in DOMAIN update.known \cup {Key(entry.fd, entry.type)} |->
                IF k[1] = entry.fd THEN entry.name ELSE update.known[k]],
   new |-> IF \E k \in DOMAIN update.known : k[1] = entry.fd THEN update.new
           ELSE [update.new EXCEPT ![Key(entry.fd, entry.type)] = @ + 1],
   leftover |-> {k \in update.leftover : k[1] # entry.fd}]

Handled(update, entry) ==
  LET key == Key(entry.fd, entry.type) IN
  [known |-> [k \in DOMAIN update.known \cup {key} |->
                IF k = key THEN entry.name ELSE update.known[k]],
   new |-> IF key \in DOMAIN update.known THEN update.new
           ELSE [update.new EXCEPT ![key] = @ + 1],
   leftover |-> update.leftover \ {key}]

(* The files as libgtop lists them, by descriptor.                         *)
Entry(table, fd) == [fd |-> fd, type |-> table[fd].type, name |-> table[fd].name]

Before == [known |-> known_files, new |-> [k \in Keys |-> 0], leftover |-> DOMAIN known_files]

Updated(table) ==
  LET update[n \in 0..(LastDescriptor + 1)] ==
        IF n = 0 THEN Before
        ELSE IF n - 1 \in DOMAIN table THEN Handled(update[n - 1], Entry(table, n - 1))
        ELSE update[n - 1]
  IN update[LastDescriptor + 1]

(* The rows of closed files go with their keys.                            *)
drop_leftover_keys(update) ==
  /\ known_files' = [k \in DOMAIN update.known \ update.leftover |-> update.known[k]]
  /\ store' = [k \in Keys |-> store[k] + update.new[k]
                               - (IF k \in update.leftover THEN 1 ELSE 0)]

(* glibtop_get_proc_open_files has nothing for a process that is gone.     *)
Fill(table) ==
  IF DOMAIN table = {} THEN known_files' = <<>> /\ store' = [k \in Keys |-> 0]
  ELSE drop_leftover_keys(Updated(table))

update_dialog ==
  \/ info # "freed" /\ Fill(files) /\ seen' = files /\ UNCHANGED <<files, info, changes>>
  \/ /\ info = "freed"
     /\ \E others \in {<<>>} \cup [{LastDescriptor} -> [type : Types, name : Names]] : Fill(others)
     /\ UNCHANGED <<files, info, seen, changes>>

-----------------------------------------------------------------------------
(* The process opens, closes and ends; the table frees its record.         *)
Process ==
  /\ changes < MaxChanges /\ changes' = changes + 1
  /\ \/ /\ info = "live" /\ UNCHANGED info
        /\ \E fd \in 0..LastDescriptor, type \in Types, name \in Names :
             files' = [d \in DOMAIN files \cup {fd} |->
                         IF d = fd THEN [type |-> type, name |-> name] ELSE files[d]]
     \/ /\ info = "live" /\ UNCHANGED info
        /\ \E fd \in DOMAIN files : files' = [d \in DOMAIN files \ {fd} |-> files[d]]
     \/ info = "live" /\ info' = "gone" /\ files' = <<>>
     \/ info = "gone" /\ info' = "freed" /\ UNCHANGED files
  /\ UNCHANGED <<known_files, store, seen>>

Init ==
  /\ files \in [{0} -> [type : Types, name : Names]]
  /\ info = "live"
  /\ known_files = [k \in {Key(0, files[0].type)} |-> files[0].name]
  /\ store = [k \in Keys |-> IF k = Key(0, files[0].type) THEN 1 ELSE 0]
  /\ seen = files /\ changes = 0

Next == Process \/ update_dialog

Spec == Init /\ [][Next]_vars

-----------------------------------------------------------------------------
(* What a process may have open.                                           *)
Opened(table) == /\ DOMAIN table \subseteq 0..LastDescriptor
                 /\ \A fd \in DOMAIN table : table[fd].type \in Types

(* While the record of the process is there, the rows are the files it had *)
(* at the last refresh, each once and under the name it has now, through   *)
(* descriptors that are closed and used again for a file of another type.  *)
Sound == info # "freed" =>
  /\ \A k \in Keys : store[k] = (IF k \in DOMAIN known_files THEN 1 ELSE 0)
  /\ DOMAIN known_files = {Key(fd, seen[fd].type) : fd \in DOMAIN seen}
  /\ \A fd \in DOMAIN seen : known_files[Key(fd, seen[fd].type)] = seen[fd].name
=============================================================================
