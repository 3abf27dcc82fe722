---------------------------- MODULE BlameRecord ----------------------------
(***************************************************************************)
(* What the health database promises its one writer about a delta of       *)
(* written bytes, without transactions, locks or rows: it is held in       *)
(* memory, then saved, all held deltas at once; a failed save keeps them;  *)
(* the user may erase what is saved; a process that ends loses what it     *)
(* still held.  HealthDb implements this module.                           *)
(***************************************************************************)
EXTENDS Naturals

CONSTANT Chunks          \* the deltas that may be recorded

VARIABLES held,          \* recorded, in the memory of the writer
          saved,         \* in the database file
          erased,        \* cleared by the user after being saved
          lost           \* still held when the process ended

vars == <<held, saved, erased, lost>>

TypeOK ==
  /\ held \subseteq Chunks
  /\ saved \subseteq Chunks
  /\ erased \subseteq Chunks
  /\ lost \subseteq Chunks

Known == held \cup saved \cup erased \cup lost

Init ==
  /\ held = {}
  /\ saved = {}
  /\ erased = {}
  /\ lost = {}

(* One call may record several.                                            *)
Record(cs) ==
  /\ cs \subseteq Chunks \ Known
  /\ held' = held \cup cs
  /\ UNCHANGED <<saved, erased, lost>>

(* All or nothing: there is no step that saves some of what is held.       *)
Save ==
  /\ saved' = saved \cup held
  /\ held' = {}
  /\ UNCHANGED <<erased, lost>>

Erase ==
  /\ erased' = erased \cup saved
  /\ saved' = {}
  /\ UNCHANGED <<held, lost>>

End ==
  /\ lost' = lost \cup held
  /\ held' = {}
  /\ UNCHANGED <<saved, erased>>

Next ==
  \/ \E cs \in SUBSET Chunks : Record(cs)
  \/ Save
  \/ Erase
  \/ End

Spec == Init /\ [][Next]_vars
=============================================================================
