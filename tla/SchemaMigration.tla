--------------------------- MODULE SchemaMigration ---------------------------
(***************************************************************************)
(* src/src/health/gsm-health-db.c, gsm_health_db_new: every process that   *)
(* opens the file brings its schema up to date, statement by statement,    *)
(* while others may be doing the same or be killed half way.  A statement  *)
(* is atomic and waits for the write lock; so is a transaction, which      *)
(* leaves nothing when its process is killed.                              *)
(***************************************************************************)
EXTENDS Naturals

CONSTANTS
  Openers,   \* processes that open the file
  Tables     \* the three drive tables

VARIABLES
  blame,     \* the version of blame_daily, 0 without the table
  columns,   \* the tables that have power_on_hours, of those that exist
  missing,   \* the drive tables there are not yet
  version,   \* schema_version in meta, 0 without one
  pc,        \* where each process is in gsm_health_db_new
  table,     \* the table it looks at, and those it has done
  altered

file == <<blame, columns, missing, version>>
schemaVars == <<file, pc, table, altered>>

(* A new file, or one that version 1, 2 or 3 wrote.                        *)
Init ==
  /\ version \in 0..3
  /\ blame = IF version = 3 THEN 2 ELSE version
  /\ columns = IF version = 3 THEN Tables ELSE {}
  /\ missing = IF version = 0 THEN Tables ELSE {}
  /\ pc = [p \in Openers |-> "check blame"]
  /\ table = [p \in Openers |-> [at |-> {}, done |-> {}]]
  /\ altered = [p \in Openers |-> FALSE]

Goto(p, from, to) == pc[p] = from /\ pc' = [pc EXCEPT ![p] = to]

(* blame_table_is_version_1, before the transaction.                       *)
CheckBlame(p) ==
  /\ Goto(p, "check blame", IF blame = 1 THEN "migrate blame" ELSE "create")
  /\ UNCHANGED <<file, table, altered>>

(* The transaction: checked again, renamed, created, copied, dropped.      *)
MigrateBlame(p) ==
  /\ Goto(p, "migrate blame", "create")
  /\ IF blame = 1
     THEN /\ blame' = 2 /\ version' = 3
          /\ columns' = columns \cup missing /\ missing' = {}
     ELSE UNCHANGED <<blame, version, columns, missing>>
  /\ UNCHANGED <<table, altered>>

(* SCHEMA_SQL: tables that are not there are made with every column.  Its  *)
(* statements depend on nothing that another process changes: one step.    *)
Create(p) ==
  /\ Goto(p, "create", "tables")
  /\ blame' = IF blame = 0 THEN 2 ELSE blame
  /\ columns' = columns \cup missing /\ missing' = {}
  /\ UNCHANGED <<version, table, altered>>

(* table_lacks_power_on_hours, for one table after another, in any order.  *)
CheckTable_First(p, t) ==
  /\ t \notin table[p].done
  /\ Goto(p, "tables", IF t \notin columns THEN "alter" ELSE "tables")
  /\ table' = [table EXCEPT ![p] =
       [at |-> {t}, done |-> IF t \notin columns THEN @.done \cup {t} ELSE Tables]]
  /\ UNCHANGED <<file, altered>>

CheckTable(p, t) ==
  /\ t \notin table[p].done
  /\ Goto(p, "tables", IF t \notin columns THEN "alter" ELSE "tables")
  /\ table' = [table EXCEPT ![p] = [at |-> {t}, done |-> @.done \cup {t}]]
  /\ UNCHANGED <<file, altered>>

(* ALTER TABLE: an error when the column has come to be there meanwhile.   *)
Alter(p) ==
  /\ Goto(p, "alter", "tables")
  /\ table[p].at \cap columns = {}
  /\ columns' = columns \cup table[p].at
  /\ altered' = [altered EXCEPT ![p] = TRUE]
  /\ UNCHANGED <<blame, missing, version, table>>

AlterFails(p) ==
  /\ table[p].at \cap columns # {}
  /\ Goto(p, "alter", "failed")
  /\ UNCHANGED <<file, table, altered>>

(* schema_version: replaced by who altered a table, else set if not there. *)
SetVersion(p) ==
  /\ table[p].done = Tables
  /\ Goto(p, "tables", "open")
  /\ version' = IF altered[p] \/ version = 0 THEN 3 ELSE version
  /\ UNCHANGED <<blame, columns, missing, table, altered>>

(* A failed process tries again (systemd restarts the sampler, the user    *)
(* the UI); a killed one is run again.                                     *)
Again(p) ==
  /\ pc' = [pc EXCEPT ![p] = "check blame"]
  /\ table' = [table EXCEPT ![p] = [at |-> {}, done |-> {}]]
  /\ altered' = [altered EXCEPT ![p] = FALSE]
  /\ UNCHANGED file

Next ==
  \E p \in Openers :
    \/ CheckBlame(p)
    \/ MigrateBlame(p)
    \/ Create(p)
    \/ \E t \in Tables : CheckTable(p, t)
    \/ Alter(p)
    \/ AlterFails(p)
    \/ SetVersion(p)
    \/ Again(p)

Spec == Init /\ [][Next]_schemaVars

-----------------------------------------------------------------------------
(* A process that has opened the file finds every column its statements    *)
(* name, whoever else is bringing it up to date or was killed doing so.    *)
OpenedIsComplete ==
  \A p \in Openers : pc[p] = "open" => blame = 2 /\ columns = Tables

(* "Re-checked inside it, because the UI and the sampler open the same     *)
(* file and either may be first": the only thing that can fail to open the *)
(* file is an ALTER another process was quicker with, and then the column  *)
(* is there for the next try.                                              *)
FailsOnlyOnce ==
  \A p \in Openers : pc[p] = "failed" => table[p].at # {} /\ table[p].at \subseteq columns
=============================================================================
