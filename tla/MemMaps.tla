------------------------------ MODULE MemMaps ------------------------------
(***************************************************************************)
(* The memory maps of a process: memmaps.cpp, update_memmaps_dialog, every *)
(* five seconds.  The rows of maps that are gone are removed, the rows     *)
(* that stay are remembered by their place, and then the maps, which come  *)
(* in the order of their addresses, fill their rows or get a new one.      *)
(*                                                                         *)
(* A new row goes to the place of the row filled last, and the places      *)
(* remembered are not moved along.  A new map between two old ones makes   *)
(* them wrong: the row of the one below it is then overwritten with the    *)
(* figures of another.  `squeezed' says that it happened; from then on     *)
(* only RowsAreSomeMaps is promised.                                       *)
(***************************************************************************)
EXTENDS Integers, FiniteSets, SequencesExt

CONSTANTS LastStart,   \* start addresses are 1..LastStart
          MaxChanges   \* bound on the changes of the address space

VARIABLES maps,        \* the address space: start -> the age of its figures
          list_store,  \* the rows, as [start, figures]
          alive,       \* the process is there
          seen,        \* `maps' at the last refresh that read them
          squeezed, changes

vars == <<maps, list_store, alive, seen, squeezed, changes>>

-----------------------------------------------------------------------------
(* glibtop_get_proc_map: the maps, in the order of their addresses.        *)
Starts == 1..LastStart
Map(start) == [start |-> start, figures |-> maps[start]]

(* The rows whose start is still that of a map, and their places.          *)
Remaining_All == list_store
Remaining ==
  LET kept[n \in 0..Len(list_store)] ==
        IF n = 0 THEN <<>>
        ELSE IF list_store[n].start \in DOMAIN maps THEN Append(kept[n - 1], list_store[n])
        ELSE kept[n - 1]
  IN kept[Len(list_store)]

IterCache(rows) == [s \in {rows[i].start : i \in DOMAIN rows} |->
  CHOOSE p \in DOMAIN rows :
    rows[p].start = s /\ \A q \in DOMAIN rows : rows[q].start = s => q <= p]

(* One map: its own row, or a new one at the place of the last.            *)
update_row_AlwaysNew(iter_cache, done, map) ==
  [rows |-> InsertAt(done.rows, done.position, map), position |-> done.position]

update_row(iter_cache, done, map) ==
  IF map.start \in DOMAIN iter_cache
  THEN [rows |-> [done.rows EXCEPT ![iter_cache[map.start]] = map],
        position |-> iter_cache[map.start]]
  ELSE update_row_AlwaysNew(iter_cache, done, map)

Filled(remaining, iter_cache) ==
  LET done[a \in 0..LastStart] ==
        IF a = 0 THEN [rows |-> remaining, position |-> Len(remaining) + 1]
        ELSE IF a \in DOMAIN maps THEN update_row(iter_cache, done[a - 1], Map(a))
        ELSE done[a - 1]
  IN done[LastStart].rows

(* A map not listed so far comes after one that is and before another.     *)
Squeezes(iter_cache) == \E i, j, k \in DOMAIN maps :
  /\ i < j /\ j < k
  /\ i \in DOMAIN iter_cache /\ k \in DOMAIN iter_cache /\ j \notin DOMAIN iter_cache

-----------------------------------------------------------------------------
(* The process maps, unmaps and uses memory, and ends.                     *)
Act ==
  /\ alive /\ changes < MaxChanges /\ changes' = changes + 1
  /\ \/ /\ \E start \in Starts : maps' = [s \in DOMAIN maps \cup {start} |->
                                           IF s = start THEN changes' ELSE maps[s]]
        /\ UNCHANGED alive
     \/ /\ \E start \in DOMAIN maps : maps' = [s \in DOMAIN maps \ {start} |-> maps[s]]
        /\ DOMAIN maps' # {} /\ UNCHANGED alive
     \/ alive' = FALSE /\ maps' = <<>>
  /\ UNCHANGED <<list_store, seen, squeezed>>

update_memmaps_dialog ==
  /\ DOMAIN maps # {}
  /\ seen' = maps
  /\ list_store' = Filled(Remaining, IterCache(Remaining))
  /\ squeezed' = (squeezed \/ Squeezes(IterCache(Remaining)))
  /\ UNCHANGED <<maps, alive, changes>>

Init ==
  /\ \E starts \in (SUBSET Starts) \ {{}} : maps = [s \in starts |-> 0]
  /\ list_store = Filled(<<>>, <<>>)
  /\ seen = maps /\ alive = TRUE /\ squeezed = FALSE /\ changes = 0

Next == Act \/ update_memmaps_dialog

Spec == Init /\ [][Next]_vars

-----------------------------------------------------------------------------
(* Every row is of a map the process had at the last refresh: what it      *)
(* unmapped is gone from the list, whatever else went wrong in it.         *)
RowsAreSomeMaps == \A i \in DOMAIN list_store : list_store[i].start \in DOMAIN seen

(* Every map has one row, with its figures at the last refresh, as long as *)
(* no map came up between two that were listed.                            *)
RowsAreTheMaps == squeezed \/
  /\ Len(list_store) = Cardinality(DOMAIN seen)
  /\ ToSet(list_store) = {[start |-> s, figures |-> seen[s]] : s \in DOMAIN seen}

(* Until then no two rows are of maps that start alike.                    *)
RowsApart ==
  /\ maps \in [DOMAIN maps -> Nat] /\ DOMAIN maps \subseteq Starts /\ changes \in Nat
  /\ list_store \in Seq([start : Starts, figures : Nat])
  /\ squeezed \/ \A i, j \in DOMAIN list_store : list_store[i].start = list_store[j].start => i = j

Sound == RowsAreSomeMaps /\ RowsAreTheMaps
=============================================================================
