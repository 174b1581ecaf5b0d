--------------------------- MODULE AgentRegistry ---------------------------
(***************************************************************************)
(* The agent map of AgentRunnerLoop (internal/controller/agent_runner.go): *)
(* one cached agent per Skill key, the temporary directory its skill files *)
(* were unpacked into, and the one-slot channel that wakes the runner      *)
(* loop.  The map is guarded by a mutex that Register and Deregister hold  *)
(* from their first line to their last, so each of them is one step.       *)
(*                                                                         *)
(* The module holds the methods only; SkillReconciler and RunnerLoop call  *)
(* them, and AgentCache puts the callers together.                         *)
(***************************************************************************)
EXTENDS Naturals, FiniteSets

CONSTANTS
  Skills,       \* keys (namespace/name) of Skill resources
  ConfigMaps,   \* names of the ConfigMaps skills refer to
  MaxVersion,   \* bound: writes of one ConfigMap
  Intervals,    \* values of spec.intervalMinute
  Dirs,         \* bound: names os.MkdirTemp may return
  NoEntry,      \* no agent is cached for the key
  NoRV          \* the empty resource version of an entry without MCP servers

VARIABLES
  agents,       \* l.agents: what is cached under each key
  dirs,         \* temporary skill directories that exist on disk
  notify,       \* whether l.notify, a channel of capacity 1, holds a token
  signalled     \* history: keys signalled since the loop last read the map

registryVars == <<agents, dirs, notify, signalled>>

\* Resource versions are unique over all objects of the store and are only
\* ever compared for equality.
RV == ConfigMaps \X (1..MaxVersion)

\* AgentEntry: the directory, the versions it was built from, the interval.
AgentEntry == [dir: Dirs, rv: RV, mcpRV: RV \cup {NoRV}, ival: Intervals]

RegistryTypeOK ==
  /\ agents \in [Skills -> AgentEntry \cup {NoEntry}]
  /\ dirs \subseteq Dirs
  /\ notify \in BOOLEAN
  /\ signalled \subseteq Skills

RegistryInit ==
  /\ agents = [k \in Skills |-> NoEntry]
  /\ dirs = {}
  /\ notify = FALSE
  /\ signalled = {}

Cached(k) == agents[k] # NoEntry

CachedKeys == {k \in Skills : Cached(k)}

CachedDirs == {agents[k].dir : k \in CachedKeys}

\* removeSkillDir of the entry under k, if there is one.
DirsWithout(k) == IF Cached(k) THEN dirs \ {agents[k].dir} ELSE dirs

\* Put e under k, removing the directory of the entry it replaces, and leave
\* a token in the channel (a full channel stays full).
Register(k, e) ==
  /\ dirs' = IF Cached(k) /\ agents[k].dir = e.dir THEN dirs ELSE DirsWithout(k)
  /\ agents' = [agents EXCEPT ![k] = e]
  /\ notify' = TRUE
  /\ signalled' = signalled \cup {k}

\* Mutant: the directory is removed but the map keeps the entry.
DeregisterKeepsEntry(k) ==
  /\ dirs' = DirsWithout(k)
  /\ UNCHANGED <<agents, notify, signalled>>

\* Forget k and remove its directory.  The loop is not woken.
Deregister(k) ==
  /\ dirs' = DirsWithout(k)
  /\ agents' = [agents EXCEPT ![k] = NoEntry]
  /\ signalled' = signalled \ {k}
  /\ UNCHANGED notify

\* Wake the runner loop without touching the map, on behalf of k.
Notify(k) ==
  /\ notify' = TRUE
  /\ signalled' = signalled \cup {k}
  /\ UNCHANGED <<agents, dirs>>

\* cleanupAll: every cached directory is removed; the map keeps its entries.
CleanupAll ==
  /\ dirs' = dirs \ CachedDirs
  /\ UNCHANGED <<agents, notify, signalled>>
=============================================================================
