----------------------------- MODULE CgroupWalk -----------------------------
(***************************************************************************)
(* The walk of src/src/collector/src/cgroup_tree.zig: from the root down,  *)
(* a record for each cgroup and then its children, by open directories,    *)
(* while cgroups are made, removed and made again under the same name.  A  *)
(* cgroup is the number it was made with, which is its inode.              *)
(***************************************************************************)
EXTENDS Integers, Sequences, FiniteSets

CONSTANTS
  Paths, Root,      \* the names there can be
  ParentOf,         \* path -> the path above it, for all but the root
  Rank,             \* path -> its place in the order of names, from 1
  None,             \* model value: no cgroup has the name
  MaxDepth,         \* max_depth
  MaxMade,          \* bound on cgroups made
  MaxErrors         \* bound on listings and opens that fail

VARIABLES
  inode,            \* path -> its cgroup, or None
  made,
  frames,           \* the visits under way, the innermost first
  doubt,            \* a file of the group at hand was absent or unreadable
  groups,           \* the records: [path, parent, inode], and whether the group was there then
  vanished, too_deep, directory_errors, \* counts
  throughout        \* history: the paths whose cgroup is the same since the walk began

treeVars == <<inode, made, frames, doubt, groups, vanished, too_deep, directory_errors,
              throughout>>

system == <<inode, made, throughout>>

Children(p) == {c \in Paths \ {Root} : ParentOf[c] = p}
Live == {p \in Paths : inode[p] # None}

(* A visit: the directory it has open, the inode the listing gave, the     *)
(* record of the parent, and the children still to be opened.              *)
Visit(p, handle, listed, parent, depth) ==
  [path |-> p, handle |-> handle, listed |-> listed, parent |-> parent, depth |-> depth,
   step |-> "read", todo |-> {}, index |-> 0]

here == frames[1]
There == inode[here.path] = here.handle

Init ==
  /\ \E live \in SUBSET Paths :
       /\ Root \in live /\ \A p \in live \ {Root} : ParentOf[p] \in live
       /\ inode = [p \in Paths |->
            IF p \in live THEN Rank[p] ELSE None]
  /\ made = Cardinality(Paths)
  /\ frames = <<>> /\ doubt = FALSE
  /\ groups = <<>> /\ vanished = 0 /\ too_deep = 0 /\ directory_errors = 0
  /\ throughout = {}

Make(p) ==
  /\ inode[p] = None /\ made < MaxMade /\ ParentOf[p] \in Live
  /\ made' = made + 1 /\ inode' = [inode EXCEPT ![p] = made']
  /\ UNCHANGED <<frames, doubt, groups, vanished, too_deep, directory_errors, throughout>>

(* rmdir: only a cgroup with none below it.                                *)
Unmake(p) ==
  /\ p # Root /\ p \in Live /\ Children(p) \cap Live = {}
  /\ inode' = [inode EXCEPT ![p] = None] /\ throughout' = throughout \ {p}
  /\ UNCHANGED <<made, frames, doubt, groups, vanished, too_deep, directory_errors>>

-----------------------------------------------------------------------------
(* Tree.walk                                                               *)
Walk ==
  /\ frames = <<>> /\ groups = <<>>
  /\ frames' = <<Visit(Root, inode[Root], None, 0, 0)>>
  /\ throughout' = Live
  /\ UNCHANGED <<inode, made, doubt, groups, vanished, too_deep, directory_errors>>

At(step) == frames # <<>> /\ here.step = step
Step(frame) == frames' = [frames EXCEPT ![1] = frame]
Return == frames' = Tail(frames)

Record ==
  /\ groups' = Append(groups, [path |-> here.path, parent |-> here.parent,
                               inode |-> here.listed, there |-> There])
  /\ Step([here EXCEPT !.step = "list", !.index = Len(groups')])

(* readGroup: the eleven files.  A directory that was removed has none.    *)
ReadGroup ==
  /\ At("read")
  /\ \/ There /\ Record /\ UNCHANGED doubt
     \/ Step([here EXCEPT !.step = "alive"]) /\ doubt' = TRUE /\ UNCHANGED groups
  /\ UNCHANGED <<system, vanished, too_deep, directory_errors>>

(* readGroup: alive, asked only when there is doubt.                       *)
CheckAlive_Never ==
  /\ At("alive") /\ doubt' = FALSE
  /\ Record
  /\ UNCHANGED <<system, vanished, too_deep, directory_errors>>
CheckAlive ==
  /\ At("alive") /\ doubt' = FALSE
  /\ IF There
     THEN Record /\ UNCHANGED vanished
     ELSE Return /\ vanished' = vanished + 1 /\ UNCHANGED groups
  /\ UNCHANGED <<system, too_deep, directory_errors>>

(* visit: the listing, which a removed directory ends at once, and which   *)
(* may be cut short by an error.                                           *)
List ==
  /\ At("list")
  /\ \E found \in SUBSET (IF There THEN Children(here.path) \cap Live ELSE {}) :
       /\ \/ /\ There => found = Children(here.path) \cap Live
             /\ UNCHANGED directory_errors
          \/ directory_errors < MaxErrors /\ directory_errors' = directory_errors + 1
       /\ IF found # {} /\ here.depth >= MaxDepth
          THEN too_deep' = too_deep + 1 /\ Return
          ELSE /\ UNCHANGED too_deep
               /\ Step([here EXCEPT !.step = "open",
                                    !.todo = {[path |-> c, inode |-> inode[c]] : c \in found}])
  /\ UNCHANGED <<system, doubt, groups, vanished>>

(* visit: the next child in the order of names, opened by its name in the  *)
(* directory that is open; one that cannot be opened is passed over.       *)
OpenChild ==
  /\ At("open") /\ here.todo # {}
  /\ LET next == CHOOSE c \in here.todo : \A d \in here.todo : Rank[c.path] <= Rank[d.path]
         rest == [here EXCEPT !.todo = @ \ {next}]
     IN \/ /\ There /\ next.path \in Live
           /\ frames' = <<Visit(next.path, inode[next.path], next.inode, here.index, here.depth + 1),
                          rest>> \o Tail(frames)
           /\ UNCHANGED <<vanished, directory_errors>>
        \/ /\ ~(There /\ next.path \in Live)
           /\ Step(rest) /\ vanished' = vanished + 1 /\ UNCHANGED directory_errors
        \/ /\ directory_errors < MaxErrors /\ directory_errors' = directory_errors + 1
           /\ Step(rest) /\ UNCHANGED vanished
  /\ UNCHANGED <<system, doubt, groups, too_deep>>

Leave ==
  /\ At("open") /\ here.todo = {} /\ Return
  /\ UNCHANGED <<system, doubt, groups, vanished, too_deep, directory_errors>>

Next ==
  \/ \E p \in Paths \ {Root} : Make(p) \/ Unmake(p)
  \/ Walk \/ ReadGroup \/ CheckAlive \/ List \/ OpenChild \/ Leave

Spec == Init /\ [][Next]_treeVars

-----------------------------------------------------------------------------
Done == frames = <<>> /\ groups # <<>>
Index == 1..Len(groups)

TypeOK ==
  /\ inode \in [Paths -> 1..MaxMade \cup {None}] /\ made \in 0..MaxMade
  /\ doubt = At("alive") /\ throughout \subseteq Live
  /\ vanished \in Nat /\ too_deep \in Nat /\ directory_errors \in 0..MaxErrors

(* A cgroup that is there from the first read to the last has a record, if *)
(* no listing or open failed and none was too deep: what is removed or     *)
(* made beside it takes nothing else with it.                              *)
LivingAreListed ==
  Done /\ directory_errors = 0 /\ too_deep = 0 =>
    \A p \in throughout : \E i \in Index : groups[i].path = p

(* Parents come before their children, which name them, and no cgroup has  *)
(* two records; a cgroup that was gone when its last file was read has     *)
(* none.                                                                   *)
TreeIsOrdered ==
  \A i \in Index :
    /\ groups[i].there
    /\ groups[i].path # Root =>
         groups[i].parent \in 1..(i - 1) /\ groups[groups[i].parent].path = ParentOf[groups[i].path]
    /\ \A j \in Index : groups[i].path = groups[j].path => i = j

(* What each step keeps.  The visits under way are one below the other,    *)
(* and only the innermost is still to be recorded or listed; what waits to *)
(* be opened is below its visit and has no record.  A path that is there   *)
(* throughout has a record, is about to have one, or waits, if its parent  *)
(* has one and was listed.                                                 *)
World ==
  /\ inode \in [Paths -> Nat \cup {None}] /\ made \in Nat
  /\ throughout \subseteq Live
  /\ \A p \in Live \ {Root} : ParentOf[p] \in Live
  /\ \A p \in throughout \ {Root} : ParentOf[p] \in throughout

Numbers == Nat \cup {None}
Visits ==
  [path : Paths, handle : Numbers, listed : Numbers, parent : Nat, depth : Nat,
   step : {"read", "alive", "list", "open"}, todo : SUBSET [path : Paths, inode : Numbers],
   index : Nat]

Recorded(p) == \E i \in Index : groups[i].path = p

Waits(frame, p) == \E c \in frame.todo : c.path = p

VisitSound(frame) ==
  /\ frame.path \in throughout => frame.handle = inode[frame.path]
  /\ frame.path # Root => /\ frame.parent \in Index
                          /\ groups[frame.parent].path = ParentOf[frame.path]
  /\ frame.step \in {"read", "alive"} => ~Recorded(frame.path)
  /\ frame.step \in {"list", "open"} => frame.index \in Index /\ groups[frame.index].path = frame.path
  /\ frame.step = "list" => \A c \in Children(frame.path) : ~Recorded(c)
  /\ frame.step # "open" => frame.todo = {}
  /\ \A c \in frame.todo : c.path \in Children(frame.path) /\ ~Recorded(c.path)
  /\ \A c, d \in frame.todo : c.path = d.path => c = d

Stacked ==
  /\ frames \in Seq(Visits)
  /\ \A k \in 1..Len(frames) : VisitSound(frames[k]) /\ (k > 1 => frames[k].step = "open")
  /\ \A k \in 1..Len(frames) : \A j \in 1..(k - 1) : Rank[frames[k].path] < Rank[frames[j].path]
  /\ \A k \in 2..Len(frames) :
       frames[k - 1].path \in Children(frames[k].path) /\ ~Waits(frames[k], frames[k - 1].path)

Covered(p) ==
  \/ Recorded(p)
  \/ frames # <<>> /\ here.path = p /\ here.step \in {"read", "alive"}
  \/ \E k \in 1..Len(frames) : Waits(frames[k], p)
  \/ p # Root /\ ~Recorded(ParentOf[p])
  \/ p # Root /\ At("list") /\ here.path = ParentOf[p]

Walked ==
  /\ World /\ Stacked /\ TreeIsOrdered
  /\ groups \in Seq([path : Paths, parent : Nat, inode : Numbers, there : BOOLEAN])
  /\ too_deep \in Nat /\ directory_errors \in Nat
  /\ directory_errors = 0 /\ too_deep = 0 => \A p \in throughout : Covered(p)
=============================================================================
