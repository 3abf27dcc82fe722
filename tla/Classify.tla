------------------------------ MODULE Classify ------------------------------
(***************************************************************************)
(* The classes of src/src/collector/src/classify.zig and the names that    *)
(* unit_path.zig finds in a cgroup path: ordered rules over the components *)
(* of a path, and the coding agent among the ancestors of a process.  A    *)
(* component is a name of which only its kind matters; a path is the       *)
(* sequence of its components.                                             *)
(***************************************************************************)
EXTENDS Integers, Sequences, FiniteSets, SequencesExt

CONSTANT None       \* model value: no match, no name, no agent

NoKey == ""

(* One or two names of each kind systemd, a desktop, an agent's launcher   *)
(* or a container's manager makes.                                         *)
UserSlices == {"user-1000.slice"}
AppSlices == {"app-org.Terminal.slice"}
Slices == {"system.slice", "user.slice", "app.slice", "session.slice", "background.slice",
           "agents.slice", "agents-p.slice", "machine.slice", "other.slice"}
            \cup UserSlices \cup AppSlices
Managers == {"user@1000.service"}
Sessions == {"session-2.scope"}
AppUnits == {"app-org.Editor-7.scope"}
AgentScopes == {"claude-p-7.scope", "job-p-8.scope"}
RuntimeScopes == {"docker-1.scope", "kubepods"}
Units == Managers \cup Sessions \cup AppUnits \cup AgentScopes
           \cup {"init.scope", "some.service", "docker-1.scope"}
Components == Slices \cup Units \cup RuntimeScopes \cup {"docker", "x"}

AppId(name) ==
  IF name \in AppUnits THEN "org.Editor"
  ELSE IF name \in AppSlices THEN "org.Terminal" ELSE None

(* --- unit_path.zig --- *)
LeadingSlices(path) ==
  CHOOSE n \in 0..Len(path) :
    /\ \A i \in 1..n : path[i] \in Slices
    /\ n = Len(path) \/ path[n + 1] \notin Slices

skipSlices(path) == SubSeq(path, LeadingSlices(path) + 1, Len(path))
onlySlices(path) == path # <<>> /\ skipSlices(path) = <<>>
isFirst(path, name) == path # <<>> /\ path[1] = name

unit(path) ==
  LET rest == skipSlices(path)
  IN IF rest # <<>> /\ rest[1] \in Units THEN rest[1] ELSE None

userManagerRest(path) ==
  LET rest == skipSlices(path)
  IN IF rest # <<>> /\ rest[1] \in Managers THEN Tail(rest) ELSE None

session(path) == IF unit(path) \in Sessions THEN unit(path) ELSE None

ownerUid(path) ==
  LET n == LeadingSlices(path)
  IN IF n > 0 /\ path[n] \in UserSlices THEN path[n] ELSE None

-----------------------------------------------------------------------------
(* The rules: each gives the key of a path, or None.                       *)
If(matches, key) == IF matches THEN key ELSE None

matchInit(path) == If(isFirst(path, "init.scope"), NoKey)

agentScope(rest) ==
  If(/\ rest # None /\ Len(rest) >= 3 /\ rest[1] = "agents.slice"
     /\ rest[2] = "agents-p.slice" /\ rest[3] \in AgentScopes, rest[3])

matchAgentSlice(rest) ==
  If(rest # None /\ isFirst(rest, "agents.slice") /\ onlySlices(rest),
     IF Len(rest) >= 2 /\ rest[2] = "agents-p.slice" THEN "p" ELSE NoKey)

matchMachine(path) ==
  IF path # <<>> /\ path[1] \in {"machine.slice", "docker"}
  THEN IF Len(path) >= 2 THEN path[2] ELSE NoKey
  ELSE LET named == {i \in DOMAIN path : path[i] \in RuntimeScopes}
       IN If(named # {}, path[CHOOSE i \in named : \A j \in named : i <= j])

matchSystemService(path) ==
  If(isFirst(path, "system.slice"), IF onlySlices(path) THEN NoKey ELSE unit(path))

matchUserManager(rest) == If(rest # None /\ isFirst(rest, "init.scope"), NoKey)

matchUserSlice(rest, slice) ==
  If(rest # None /\ isFirst(rest, slice), IF onlySlices(rest) THEN NoKey ELSE unit(rest))

matchApplication(rest) ==
  IF rest = None \/ ~isFirst(rest, "app.slice") THEN None
  ELSE IF Len(rest) >= 2 /\ rest[2] \in AppSlices THEN AppId(rest[2])
  ELSE AppId(unit(rest))

matchUserService(rest) == If(rest # None /\ isFirst(rest, "app.slice"), unit(rest))

matchOtherUserUnit(rest) ==
  If(rest # None /\ rest # <<"app.slice">>, IF onlySlices(rest) THEN NoKey ELSE unit(rest))

matchLoginSession(path) == If(ownerUid(path) # None, session(path))

matchNoSystemdService(path) ==
  If(path # <<>> /\ path[1] \notin Slices \cup {"docker"}, path[1])

matchMixed(path) ==
  LET rest == userManagerRest(path)
  IN If(\/ path = <<>>
        \/ rest # None /\ rest \in {<<>>, <<"app.slice">>}
        \/ /\ rest = None /\ isFirst(path, "user.slice")
           /\ (Len(path) = 1 \/ (Len(path) = 2 /\ ownerUid(path) # None)), NoKey)

Rule(class, kind, key) == [class |-> class, kind |-> kind, key |-> key]

(* The path rules, in their order.                                         *)
rules(path) ==
  LET rest == userManagerRest(path)
  IN <<Rule("init", "none", matchInit(path)),
       Rule("agent_sessions", "scope", agentScope(rest)),
       Rule("agent_sessions", "project", matchAgentSlice(rest)),
       Rule("containers_and_vms", "scope", matchMachine(path)),
       Rule("system_services", "unit", matchSystemService(path)),
       Rule("session_services", "none", matchUserManager(rest)),
       Rule("session_services", "unit", matchUserSlice(rest, "session.slice")),
       Rule("session_services", "unit", matchUserSlice(rest, "background.slice")),
       Rule("applications", "app_id", matchApplication(rest)),
       Rule("session_services", "unit", matchUserService(rest)),
       Rule("session_services", "unit", matchOtherUserUnit(rest)),
       Rule("login_session", "session", matchLoginSession(path)),
       Rule("system_services", "unit", matchNoSystemdService(path)),
       Rule("mixed", "none", matchMixed(path)),
       Rule("unclassified", "none", NoKey)>>

(* classifyPath: the first rule that matches.                              *)
classifyPath_LastOf(path) ==
  LET all == rules(path)
  IN all[CHOOSE i \in DOMAIN all : all[i].key # None /\ \A j \in i + 1..14 : all[j].key = None]
classifyPath(path) ==
  LET all == rules(path)
  IN all[CHOOSE i \in DOMAIN all : all[i].key # None /\ \A j \in 1..i - 1 : all[j].key = None]

(* hasGroupRow of group.zig.                                               *)
HasGroupRow(c) == c.class # "mixed" /\ c.key # NoKey /\ c.kind \notin {"none", "project"}

-----------------------------------------------------------------------------
(* The ancestry of classifyProcesses: a process is [pid, ppid, start,      *)
(* agent], and a snapshot is a sequence of them, by pid.                   *)
parentOf(s, i) ==
  LET found == {j \in DOMAIN s : s[j].pid = s[i].ppid /\ j # i /\ s[j].start <= s[i].start}
  IN IF s[i].ppid # 0 /\ found # {} THEN CHOOSE j \in found : TRUE ELSE None

unvisited == -1
in_progress == -2   \* on the stack
no_agent == 0

(* outermostAgent, climbing: memo has the answers so far.                  *)
Climb(s, before, start) ==
  LET Stop(memo, stack, base) == [memo |-> memo, stack |-> stack, base |-> base]
      climb[memo \in [DOMAIN s -> Int], stack \in Seq(DOMAIN s), current \in DOMAIN s \cup {None}] ==
        IF current = None THEN Stop(memo, stack, no_agent)
        ELSE IF memo[current] = in_progress THEN Stop(memo, stack, no_agent)
        ELSE IF memo[current] # unvisited THEN Stop(memo, stack, memo[current])
        ELSE climb[[memo EXCEPT ![current] = in_progress], <<current>> \o stack, parentOf(s, current)]
  IN climb[before, <<>>, start]

(* outermostAgent, coming down again.                                      *)
Agent(s, base, i) == IF base = no_agent /\ s[i].agent THEN i ELSE base

Descend(s, up) ==
  FoldLeft(LAMBDA down, i : LET found == Agent(s, down.base, i)
                            IN [memo |-> [down.memo EXCEPT ![i] = found], base |-> found],
           [memo |-> up.memo, base |-> up.base], up.stack).memo

OutermostAgents(s) ==
  FoldLeft(LAMBDA memo, i : Descend(s, Climb(s, memo, i)),
           [i \in DOMAIN s |-> unvisited], [i \in DOMAIN s |-> i])

(* classifyProcess for a process with a path: kernel threads and processes *)
(* without a path never get here.                                          *)
classifyProcess(path, agent) ==
  LET by_path == classifyPath(path)
  IN IF by_path.class = "mixed" THEN Rule("unclassified", "none", NoKey)
     ELSE IF agent # no_agent /\ by_path.class \in {"applications", "session_services", "login_session"}
     THEN Rule("agent_sessions", "agent_process", agent)
     ELSE by_path

-----------------------------------------------------------------------------
(* The paths systemd makes: user managers are in the slice of their user.  *)
BySystemd(path) ==
  \A i \in DOMAIN path : path[i] \in Managers => i = 3 /\ path[1] = "user.slice" /\ path[2] \in UserSlices

(* A cgroup that holds several classes is only in such a cgroup: group.zig  *)
(* adds up the topmost cgroups of each class, and would count a class      *)
(* twice that is above and below one.                                      *)
MixedOnTop(path) ==
  path # <<>> /\ BySystemd(path) /\ classifyPath(path).class = "mixed" =>
    classifyPath(Front(path)).class = "mixed"

(* A unit's row has all of the unit: below a cgroup that names a group     *)
(* there is the same group, or a container.                                *)
GroupsNest(path) ==
  path # <<>> /\ BySystemd(path) =>
    LET above == classifyPath(Front(path))
        own == classifyPath(path)
    IN HasGroupRow(above) => own = above \/ own.class = "containers_and_vms"

(* Whatever the order of the processes, and whatever was remembered from   *)
(* the ones before, the agent of a process is the last one met going up.   *)
Up(s, i) ==
  LET up[j \in DOMAIN s] == IF parentOf(s, j) = None THEN <<j>> ELSE <<j>> \o up[parentOf(s, j)]
  IN up[i]
Acyclic(s) == \A i, j \in DOMAIN s :
                s[i].ppid = s[j].pid /\ s[i].start = s[j].start => j < i

AgentIsOutermost(s) ==
  Acyclic(s) =>
    LET agents == OutermostAgents(s)
    IN \A i \in DOMAIN s :
         LET up == SelectSeq(Up(s, i), LAMBDA j : s[j].agent)
         IN agents[i] = IF up = <<>> THEN no_agent ELSE Last(up)

(* An agent's row takes processes of a user only: what it starts through   *)
(* the system's manager, or in a container, stays with that.  (systemd has *)
(* a user's slice in user.slice.)                                          *)
AgentsAreTheUsers(path) ==
  (/\ BySystemd(path) /\ \A i \in DOMAIN path : path[i] \in UserSlices => i > 1 /\ path[1] = "user.slice"
   /\ classifyProcess(path, 1).class = "agent_sessions") =>
    isFirst(path, "user.slice") /\ Len(path) >= 2 /\ matchMachine(path) = None
=============================================================================
