----------------------------- MODULE GroupTable -----------------------------
(***************************************************************************)
(* build of src/src/collector/src/group.zig: the table of workload rows    *)
(* made from one sample of cgroups and processes and the sample before it, *)
(* and the world it is a table of.  A row has members: the topmost cgroups *)
(* of its class or group, whose counters hold all below them, and          *)
(* processes that no such cgroup of the row holds; a member that is inside *)
(* another row's cgroup is an overlay.                                     *)
(***************************************************************************)
EXTENDS Integers, FiniteSets, Functions

CONSTANTS
  Groups, Root, ParentOf, \* the cgroups there can be, and the one above each but the root
  GroupClass,       \* cgroup -> [class, key, mixed], as Classify gives it
  Procs,            \* the processes there will be
  Agents,           \* those that are, or descend from, an agent program
  Pages,            \* process -> its memory
  None,             \* model value: nothing read, nowhere, no sample
  Online,           \* online CPUs, 0 when their number is unknown
  MaxSteps, MaxSamples \* bounds

VARIABLES
  inode,            \* cgroup -> how many times it was made, negative while it is not there
  usage,            \* cgroup -> its cpu.stat, with what those below it used
  place,            \* process -> its cgroup; None before it starts and after it ends
  started,          \* process -> when it started, or None
  time,             \* process -> its utime + stime
  now,
  state,            \* State of the sample before: [taken, complete, members, counts], or None
  steps, samples,   \* of the world since the sample before; samples taken
  spentIn, spentBy, \* history: what cgroups and processes used since that sample
  strayed           \* history: cgroups that came and went and processes that moved since

groupVars == <<inode, usage, place, started, time, now, state, steps, samples,
               spentIn, spentBy, strayed>>

NoName == ""
Unclassified == [class |-> "unclassified", key |-> NoName, mixed |-> FALSE]
Levels == {"class", "group"}

AtOrAbove[g \in Groups] == IF g = Root THEN {g} ELSE {g} \cup AtOrAbove[ParentOf[g]]

(* Of cgroups on one path, the one that all the others are above.          *)
Nearest(S) == CHOOSE g \in S : S \subseteq AtOrAbove[g]

Exists(g) == inode[g] > 0

(* A sampler starts in a world that has run before.                        *)
Init ==
  /\ steps = 0 /\ samples = 0
  /\ \E there \in {S \in SUBSET Groups : \A g \in S : AtOrAbove[g] \subseteq S} \ {{}} :
       /\ inode = [g \in Groups |-> IF g \in there THEN 1 ELSE 0]
       /\ place \in [Procs -> there \cup {None}]
  /\ started = [p \in Procs |-> IF place[p] = None THEN None ELSE 0]
  /\ \E p \in Procs \cup {None} :
       /\ time = [q \in Procs |-> IF q = p /\ place[p] # None THEN 1 ELSE 0]
       /\ usage = [g \in Groups |-> IF p \in Procs /\ place[p] # None /\ g \in AtOrAbove[place[p]]
                                    THEN 1 ELSE 0]
  /\ now = 1 /\ state = None
  /\ spentIn = [g \in Groups |-> 0] /\ spentBy = [p \in Procs |-> 0]
  /\ strayed = {}

-----------------------------------------------------------------------------
(* The world: cgroups are made and removed, processes start, move, run and *)
(* end; running takes time, on one CPU.                                    *)
Step == state # None /\ steps < MaxSteps /\ steps' = steps + 1

Make(g) ==
  /\ Step /\ ~Exists(g) /\ Exists(ParentOf[g])
  /\ inode' = [inode EXCEPT ![g] = 1 - @]
  /\ UNCHANGED <<usage, place, started, time, now, state, samples, spentIn, spentBy, strayed>>

Unmake(g) ==
  /\ Step /\ Exists(g) /\ \A p \in Procs : place[p] # g
  /\ \A c \in Groups \ {Root} : ParentOf[c] = g => ~Exists(c)
  /\ inode' = [inode EXCEPT ![g] = -@] /\ usage' = [usage EXCEPT ![g] = 0]
  /\ strayed' = IF state # None /\ \E key \in DOMAIN state.members : key[2] = <<g, inode[g]>>
                THEN strayed ELSE strayed \cup {g}
  /\ UNCHANGED <<place, started, time, now, state, samples, spentIn, spentBy>>

Start(p, g) ==
  /\ Step /\ started[p] = None /\ Exists(g)
  /\ started' = [started EXCEPT ![p] = now] /\ place' = [place EXCEPT ![p] = g]
  /\ UNCHANGED <<inode, usage, time, now, state, samples, spentIn, spentBy, strayed>>

Move(p, g) ==
  /\ Step /\ place[p] # None /\ place[p] # g /\ Exists(g)
  /\ place' = [place EXCEPT ![p] = g] /\ strayed' = strayed \cup {p}
  /\ UNCHANGED <<inode, usage, started, time, now, state, samples, spentIn, spentBy>>

End(p) ==
  /\ Step /\ place[p] # None /\ place' = [place EXCEPT ![p] = None]
  /\ UNCHANGED <<inode, usage, started, time, now, state, samples, spentIn, spentBy, strayed>>

Run(p) ==
  /\ Step /\ place[p] # None
  /\ now' = now + 1
  /\ time' = [time EXCEPT ![p] = @ + 1] /\ spentBy' = [spentBy EXCEPT ![p] = @ + 1]
  /\ LET where == AtOrAbove[place[p]]
     IN /\ usage' = [g \in Groups |-> IF g \in where THEN usage[g] + 1 ELSE usage[g]]
        /\ spentIn' = [g \in Groups |-> IF g \in where THEN spentIn[g] + 1 ELSE spentIn[g]]
  /\ UNCHANGED <<inode, place, started, state, samples, strayed>>

-----------------------------------------------------------------------------
(* The rows.  RowOf is RowKey.of, or the class row.                        *)
RowOf(c, level) == [level |-> level, class |-> c.class, key |-> IF level = "class" THEN NoName ELSE c.key]
HasRow(c, level) == ~c.mixed /\ (level = "group" => c.key # NoName)

(* isClassTop, isGroupTop.                                                 *)
IsTop(g, level) ==
  /\ HasRow(GroupClass[g], level)
  /\ g = Root \/ LET above == GroupClass[ParentOf[g]]
                 IN above.mixed \/ RowOf(above, level) # RowOf(GroupClass[g], level)

(* hostsOf and its use: the row whose counters hold this cgroup's; a host  *)
(* without a group row is its class row.                                   *)
Hosts(g, level) == {h \in AtOrAbove[g] \ {g} :
  HasRow(GroupClass[h], level) /\ RowOf(GroupClass[h], level) # RowOf(GroupClass[g], level)}
HostOfGroup(g, level) ==
  LET nearest(l) == RowOf(GroupClass[Nearest(Hosts(g, l))], l)
  IN IF Hosts(g, level) # {} THEN nearest(level)
     ELSE IF Hosts(g, "class") # {} THEN nearest("class") ELSE None

(* nearestGroup, and the holder of a process.                              *)
Listed(f) == {g \in Groups : Exists(g) /\ AtOrAbove[g] \cap f.lost = {}}
Holder(p, f) ==
  LET listed == AtOrAbove[place[p]] \cap Listed(f)
      held == GroupClass[Nearest(listed)]
  IN IF p \in f.unplaced \/ listed = {} \/ held.mixed THEN None ELSE held

(* classifyProcess: an agent's processes are found inside other programs'  *)
(* cgroups; a process whose path is unknown has no class.                  *)
ProcClass(p, f) ==
  LET c == GroupClass[place[p]]
  IN IF p \in f.unplaced \/ c.mixed THEN Unclassified
     ELSE IF p \in Agents /\ c.class = "applications"
     THEN [class |-> "agent_sessions", key |-> "agent", mixed |-> FALSE]
     ELSE c

Host(held, level) ==
  IF held = None THEN None
  ELSE IF HasRow(held, level) THEN RowOf(held, level) ELSE RowOf(held, "class")

(* The members: of what row, what they are, what row hosts them, and what  *)
(* could be read of them.  A process is summed unless its holder's row is  *)
(* its own.                                                                *)
Live == {p \in Procs : place[p] # None}
Within(g) == {p \in Live : g \in AtOrAbove[place[p]]}

GroupMember(g, level, f) ==
  [row |-> RowOf(GroupClass[g], level), kind |-> "cgroup", id |-> <<g, inode[g]>>,
   host |-> HostOfGroup(g, level), born |-> FALSE, unplaced |-> FALSE,
   cpu |-> IF g \in f.noTime THEN None ELSE usage[g],
   memory |-> IF g \in f.noMemory THEN None ELSE SumFunctionOnSet(Pages, Within(g))]

IsSummed(p, level, f) ==
  LET c == ProcClass(p, f)
      held == Holder(p, f)
  IN HasRow(c, level) /\ (held = None \/ RowOf(held, level) # RowOf(c, level))

ProcMember(p, level, f) ==
  [row |-> RowOf(ProcClass(p, f), level), kind |-> "process", id |-> <<p, started[p]>>,
   host |-> Host(Holder(p, f), level),
   born |-> state # None => started[p] > state.taken, unplaced |-> p \in f.unplaced,
   cpu |-> time[p], memory |-> IF p \in f.noMemory THEN None ELSE Pages[p]]

GroupMembers(f) == UNION {{GroupMember(g, l, f) : l \in {l \in Levels : IsTop(g, l)}} :
                            g \in Listed(f)}
ProcMembers(f) == UNION {{ProcMember(p, l, f) : l \in {l \in Levels : IsSummed(p, l, f)}} :
                           p \in Live}

(* cpuDelta: what a member used since, and whether that is only a lower    *)
(* bound.                                                                  *)
Key(m) == <<m.row, m.id>>
Exactly(ns) == [ns |-> ns, bound |-> FALSE]
AtLeast(ns) == [ns |-> ns, bound |-> TRUE]
cpuDelta_NewIsWhole(m) ==
  LET was == IF Key(m) \in DOMAIN state.members THEN state.members[Key(m)] ELSE 0
  IN IF was = None \/ m.cpu = None THEN AtLeast(0)
     ELSE IF m.cpu >= was THEN Exactly(m.cpu - was) ELSE AtLeast(m.cpu)
cpuDelta(m) ==
  LET seen == Key(m) \in DOMAIN state.members
      was == state.members[Key(m)]
  IN IF m.cpu = None \/ (seen /\ was = None) THEN AtLeast(0)
     ELSE IF seen THEN IF m.cpu >= was THEN Exactly(m.cpu - was) ELSE AtLeast(m.cpu)
     ELSE IF (m.kind = "cgroup" /\ state.complete) \/ m.born THEN Exactly(m.cpu) ELSE AtLeast(0)

Delta(m) == IF state = None THEN 0 ELSE cpuDelta(m).ns
Memory(m) == IF m.memory = None THEN 0 ELSE m.memory

(* boundCpu: more than every online CPU could have given is not claimed,   *)
(* when their number is known.                                             *)
Exceeds(cpu) == state # None /\ Online > 0 /\ cpu > (now - state.taken) * Online
Bounded(cpu) == IF Exceeds(cpu) THEN 0 ELSE cpu

(* addMember, markOverlay and finish.                                      *)
MemoryOf(members) == SumFunctionOnSet([m \in members |-> Memory(m)], members)
CpuOf(members) == SumFunctionOnSet([m \in members |-> Delta(m)], members)
Own(r, all) == {m \in all : m.row = r}
Overlay(r, all) == {m \in Own(r, all) : m.host # None}
Matched(r, all) == {m \in Own(r, all) : Key(m) \in DOMAIN state.members}

Row(r, all) ==
  LET own == Own(r, all)
      overlay == Overlay(r, all)
      hosted == {m \in all : m.host = r /\ m.row.level = r.level}
      measured == {m \in own : m.memory # None}
  IN [row |-> r, memory |-> MemoryOf(own), overlay |-> MemoryOf(overlay),
      hosted |-> MemoryOf(hosted),
      known |-> own = {} \/ measured # {}, partial |-> measured # own,
      doubled |-> \E m \in own : m.unplaced,
      cpu |-> Bounded(CpuOf(own)), cpu_overlay |-> Bounded(CpuOf(overlay)),
      bound |-> state # None =>
        \/ \E m \in own : cpuDelta(m).bound
        \/ (r \in DOMAIN state.counts /\ state.counts[r] > Cardinality(Matched(r, all)))
        \/ \E m \in own : m.kind = "process"
        \/ Exceeds(CpuOf(own)) \/ Exceeds(CpuOf(overlay)) \/ Exceeds(CpuOf(hosted))]

ClassRows == {[level |-> "class", class |-> c, key |-> NoName] :
                c \in {GroupClass[g].class : g \in {h \in Groups : ~GroupClass[h].mixed}}
                        \cup {"agent_sessions", "unclassified"}}

(* What one sample's walks may fail at: a cgroup's directory, one's        *)
(* memory.stat or cpu.stat, a process's status or cgroup file.             *)
Faults ==
  LET none == [lost |-> {}, noMemory |-> {}, noTime |-> {}, unplaced |-> {}]
      live == {g \in Groups : Exists(g)}
  IN {none} \cup {[none EXCEPT !.lost = {g}] : g \in live \ {Root}}
            \cup {[none EXCEPT !.noMemory = {x}] : x \in live \cup Live}
            \cup {[none EXCEPT !.noTime = {g}] : g \in live}
            \cup {[none EXCEPT !.unplaced = {p}] : p \in Live}

(* build: the members of the sample, its table, and the next state.        *)
Members(f) == GroupMembers(f) \cup ProcMembers(f)

Table(all) == {Row(r, all) : r \in ClassRows \cup {m.row : m \in all}}

(* The next state: every member's counter, and how many a row has.         *)
Taken(f, all) ==
  [taken |-> now, complete |-> f.lost = {},
   members |-> [k \in {Key(m) : m \in all} |-> (CHOOSE m \in all : Key(m) = k).cpu],
   counts |-> [r \in {m.row : m \in all} |-> Cardinality(Own(r, all))]]

Sample ==
  /\ samples < MaxSamples /\ samples' = samples + 1 /\ (state # None => state.taken < now)
  /\ \E f \in Faults : state' = Taken(f, Members(f))
  /\ steps' = 0 /\ spentIn' = [g \in Groups |-> 0] /\ spentBy' = [p \in Procs |-> 0] /\ strayed' = {}
  /\ UNCHANGED <<inode, usage, place, started, time, now>>

Next ==
  \/ \E g \in Groups \ {Root} : Make(g) \/ Unmake(g)
  \/ \E p \in Procs : \/ \E g \in Groups : Start(p, g) \/ Move(p, g)
                      \/ End(p) \/ Run(p)
  \/ Sample

Spec == Init /\ [][Next]_groupVars

-----------------------------------------------------------------------------
TypeOK ==
  /\ inode \in [Groups -> Int]
  /\ place \in [Procs -> Groups \cup {None}] /\ steps \in 0..MaxSteps /\ samples \in 0..MaxSamples
  /\ \A p \in Procs : place[p] # None => Exists(place[p]) /\ started[p] # None

Classes(table) == {t \in table : t.row.level = "class"}

(* The cgroups whose counters make up a row, listed or not.                *)
Tops(r) == {g \in Groups : \E l \in Levels : IsTop(g, l) /\ RowOf(GroupClass[g], l) = r}

(* What a row's members used in the interval: its topmost cgroups, and the *)
(* processes that are summed in it.                                        *)
Spent(r, all) ==
  SumFunctionOnSet(spentIn, Tops(r))
    + SumFunctionOnSet(spentBy, {m.id[1] : m \in {m \in Own(r, all) : m.kind = "process"}})

(* A row never claims more CPU than was used in it since the sample        *)
(* before, and all classes, overlays counted once, not more than was used  *)
(* at all if no process moved and every path could be read: cgroups made   *)
(* again, missed by a walk or unreadable in one sample, and processes that *)
(* join and leave.                                                         *)
CpuIsLowerBound(f, all, table) ==
  /\ \A t \in table : t.cpu <= Spent(t.row, all)
  /\ strayed \cap Procs = {} /\ f.unplaced = {} =>
       SumFunctionOnSet([t \in table |-> t.cpu - t.cpu_overlay], Classes(table)) <= now - state.taken

(* A row that is not marked as a lower bound misses nothing when the walk  *)
(* lost nothing, whatever the walk before it lost, but for cgroups that    *)
(* came and went between the two samples.                                  *)
UnmarkedIsExact(f, all, table) ==
  f.lost = {} =>
    \A t \in table : t.bound \/ t.cpu = Spent(t.row, all) \/ strayed \cap Tops(t.row) # {}

(* The memory of every process is counted once over the class rows, their  *)
(* overlays left out: never twice unless a row says so, and never less if  *)
(* all could be read.                                                      *)
MemoryCountedOnce(f, table) ==
  LET total == SumFunctionOnSet([t \in table |-> t.memory - t.overlay], Classes(table))
      used == SumFunctionOnSet(Pages, Live)
  IN /\ total <= used \/ \E t \in Classes(table) : t.doubled
     /\ total >= used \/ f.lost # {} \/ \E t \in Classes(table) : t.partial

(* The table of a sample taken now, whatever its walks fail at.            *)
TableIsTrue ==
  \A f \in Faults :
    LET all == Members(f)
        table == Table(all)
    IN /\ MemoryCountedOnce(f, table)
       /\ state # None => CpuIsLowerBound(f, all, table) /\ UnmarkedIsExact(f, all, table)

-----------------------------------------------------------------------------
(* What the counters of the kernel and those of the sample before have to  *)
(* do with each other.                                                     *)
Counted ==
  /\ inode \in [Groups -> Int] /\ usage \in [Groups -> Nat]
  /\ place \in [Procs -> Groups \cup {None}] /\ started \in [Procs -> Nat \cup {None}]
  /\ time \in [Procs -> Nat] /\ now \in Nat
  /\ spentIn \in [Groups -> Nat] /\ spentBy \in [Procs -> Nat]
  /\ \A p \in Procs : place[p] # None => Exists(place[p]) /\ started[p] # None
  /\ \A p \in Procs : started[p] = None => time[p] = 0 /\ spentBy[p] = 0
  /\ \A p \in Procs : started[p] # None => started[p] <= now
  /\ \A g \in Groups \ {Root} : Exists(g) => Exists(ParentOf[g])
  /\ \A g \in Groups : ~Exists(g) => usage[g] = 0

(* The members of the sample before: a cgroup by its path and inode, with  *)
(* all the rows it has, and a process with when it started.                *)
Made(g) == IF Exists(g) THEN inode[g] ELSE -inode[g]
IsKept(k) ==
  \/ /\ k[2][1] \in Groups /\ k[2][2] \in 1..Made(k[2][1])
     /\ \A l \in Levels : IsTop(k[2][1], l) =>
          <<RowOf(GroupClass[k[2][1]], l), k[2]>> \in DOMAIN state.members
     /\ state.members[k] \in Nat \cup {None}
  \/ /\ k[2][1] \in Procs /\ k[2][2] = started[k[2][1]] /\ started[k[2][1]] # None
     /\ state.members[k] \in Nat /\ time[k[2][1]] = state.members[k] + spentBy[k[2][1]]

(* What a cgroup of a row used since, by its counter and by the one of the *)
(* sample before, if the row had it then.                                  *)
Gone(g, r) == \E k \in DOMAIN state.members : k[1] = r /\ k[2][1] = g /\ k[2][2] # inode[g]
Fits(g, r) ==
  LET k == <<r, <<g, inode[g]>>>>
  IN IF ~Exists(g) THEN spentIn[g] = 0 \/ g \in strayed \/ Gone(g, r)
     ELSE IF k \in DOMAIN state.members
     THEN state.members[k] # None => usage[g] = state.members[k] + spentIn[g]
     ELSE state.complete =>
       /\ usage[g] <= spentIn[g]
       /\ usage[g] = spentIn[g] \/ g \in strayed \/ Gone(g, r)

SinceTheSample == state # None =>
  /\ state.taken \in Nat /\ state.taken <= now
  /\ IsFiniteSet(DOMAIN state.members) /\ \A k \in DOMAIN state.members : IsKept(k)
  /\ state.counts = [r \in {k[1] : k \in DOMAIN state.members} |->
                       Cardinality({k \in DOMAIN state.members : k[1] = r})]
  /\ \A p \in Procs : started[p] # None /\ started[p] > state.taken => time[p] = spentBy[p]
  /\ \A g \in Groups, l \in Levels : IsTop(g, l) => Fits(g, RowOf(GroupClass[g], l))

(* CPU time is used once: in cgroups none of which is above another, and   *)
(* by processes in none of them that stayed where they are.                *)
Apart(S) == \A g, h \in S : g \in AtOrAbove[h] => g = h
Outside(S) == {p \in Procs \ strayed : place[p] # None /\ AtOrAbove[place[p]] \cap S = {}}
UsedOnce == state # None =>
  \A S \in SUBSET Groups : Apart(S) =>
    SumFunctionOnSet(spentIn, S) + SumFunctionOnSet(spentBy, Outside(S)) <= now - state.taken

TableKept == Counted /\ SinceTheSample /\ UsedOnce /\ TableIsTrue
=============================================================================
