-------------------------- MODULE SkillReconciler --------------------------
(***************************************************************************)
(* SkillReconciler (internal/controller/skill_controller.go): it keeps one *)
(* cached agent per Skill built from the ConfigMaps the Skill refers to.   *)
(*                                                                         *)
(* The reconciler reads nothing but the manager's informer caches, so the  *)
(* caches are the state of the cluster here: skill and cm are what the two *)
(* informers hold now.  An informer first replaces the object in its cache *)
(* and then calls the event handlers (events), which add keys to the work  *)
(* queue.  One worker takes keys from the queue; a key whose reconcile     *)
(* returned an error is added again.                                       *)
(***************************************************************************)
EXTENDS AgentRegistry

CONSTANTS
  Specs,        \* the Skill specs users write, a subset of SkillSpec
  NoRef,        \* mcpconfigref is not set
  Absent,       \* the Skill does not exist
  Idle,         \* the worker has no request
  NoDir,        \* the request has made no directory
  MaxLeaks      \* bound: directories left behind by failed builds

VARIABLES
  skill,        \* Skill informer cache
  cm,           \* ConfigMap informer cache
  events,       \* objects whose cached change has not been handled yet
  queue,        \* keys waiting in the work queue
  work          \* the request the worker is in, with its local variables

SkillSpec == [cfg: ConfigMaps, mcp: ConfigMaps \cup {NoRef},
              ival: Intervals, runRequested: BOOLEAN]

ASSUME SpecsAssumption == Specs \subseteq SkillSpec

ASSUME NamesAssumption ==
  /\ Absent \notin SkillSpec
  /\ NoEntry \notin AgentEntry
  /\ NoRV \notin RV
  /\ NoRef \notin ConfigMaps
  /\ NoDir \notin Dirs
  /\ Skills \cap ConfigMaps = {}

ASSUME BoundsAssumption == MaxVersion \in Nat \ {0} /\ MaxLeaks \in Nat

\* A ConfigMap: how often it was written, and whether it exists.
ConfigMap == [n: 0..MaxVersion, live: BOOLEAN]

Request == [step: {"config", "mcp", "build"}, key: Skills, spec: SkillSpec,
            rv: RV \cup {NoRV}, mcpRV: RV \cup {NoRV}, dir: Dirs \cup {NoDir}]

ASSUME IdleAssumption == Idle \notin Request

clusterVars == <<skill, cm>>
reconcilerVars == <<skill, cm, events, queue, work>>
vars == <<registryVars, reconcilerVars>>

TypeOK ==
  /\ RegistryTypeOK
  /\ skill \in [Skills -> SkillSpec \cup {Absent}]
  /\ cm \in [ConfigMaps -> ConfigMap]
  /\ \A c \in ConfigMaps : cm[c].live => cm[c].n > 0
  /\ events \subseteq Skills \cup ConfigMaps
  /\ queue \subseteq Skills
  /\ work \in Request \cup {Idle}
  /\ work # Idle => /\ work.step # "config" => work.rv # NoRV
                    /\ work.step = "build" => work.dir # NoDir

\* The manager has synced its caches; every object found is an event.
Init ==
  /\ RegistryInit
  /\ skill \in [Skills -> Specs \cup {Absent}]
  /\ cm = [c \in ConfigMaps |-> [n |-> 1, live |-> TRUE]]
  /\ events = {s \in Skills : skill[s] # Absent} \cup ConfigMaps
  /\ queue = {}
  /\ work = Idle

-----------------------------------------------------------------------------
(* The cluster, as the informers report it.                                *)

\* A Skill is created, edited, annotated or deleted.
SkillChanges(s) ==
  /\ \E new \in (Specs \cup {Absent}) \ {skill[s]} :
       skill' = [skill EXCEPT ![s] = new]
  /\ events' = events \cup {s}
  /\ UNCHANGED <<registryVars, cm, queue, work>>

\* A ConfigMap is created or overwritten, under a new version.
ConfigMapWritten(c) ==
  /\ cm[c].n < MaxVersion
  /\ cm' = [cm EXCEPT ![c] = [n |-> @.n + 1, live |-> TRUE]]
  /\ events' = events \cup {c}
  /\ UNCHANGED <<registryVars, skill, queue, work>>

ConfigMapDeleted(c) ==
  /\ cm[c].live
  /\ cm' = [cm EXCEPT ![c].live = FALSE]
  /\ events' = events \cup {c}
  /\ UNCHANGED <<registryVars, skill, queue, work>>

-----------------------------------------------------------------------------
(* Watches and the work queue.                                             *)

\* Mutant: the mapping forgets the MCP reference.
findObjectsBySkillConfig(c) ==
  {s \in Skills : skill[s] # Absent /\ c = skill[s].cfg}

\* The Skills, as the Skill cache has them now, that refer to ConfigMap c.
\* (List reads the synced informer cache, and does not fail.)
findObjectsForConfigMap(c) ==
  {s \in Skills : skill[s] # Absent /\ c \in {skill[s].cfg, skill[s].mcp}}

InProgress(s) == work # Idle /\ work.key = s

\* Mutant: a key whose reconcile is running is not added again.
HandleSkillEventOnce(s) ==
  /\ s \in events
  /\ events' = events \ {s}
  /\ queue' = IF InProgress(s) THEN queue ELSE queue \cup {s}
  /\ UNCHANGED <<registryVars, clusterVars, work>>

\* For(Skill) enqueues the object, Watches(ConfigMap) what the mapping says.
HandleSkillEvent(s) ==
  /\ s \in events
  /\ events' = events \ {s}
  /\ queue' = queue \cup {s}
  /\ UNCHANGED <<registryVars, clusterVars, work>>

HandleConfigMapEvent(c) ==
  /\ c \in events
  /\ events' = events \ {c}
  /\ queue' = queue \cup findObjectsForConfigMap(c)
  /\ UNCHANGED <<registryVars, clusterVars, work>>

\* Owns(Advisory): any event of an owned Advisory enqueues its Skill, whether
\* that still exists or not.
HandleAdvisoryEvent(s) ==
  /\ queue' = queue \cup {s}
  /\ UNCHANGED <<registryVars, clusterVars, events, work>>

\* Mutant: the error is logged and nil returned.
GiveUp ==
  /\ work' = Idle
  /\ UNCHANGED queue

\* Reconcile returned an error: the key goes back to the queue.
Retry ==
  /\ work' = Idle
  /\ queue' = queue \cup {work.key}

\* Reconcile returned without an error.
Done ==
  /\ work' = Idle
  /\ UNCHANGED queue

-----------------------------------------------------------------------------
(* Reconcile.  Between its steps the caches may change.                    *)

At(step) == work # Idle /\ work.step = step

\* The resource version the cache has for ConfigMap c.
RVOf(c) == <<c, cm[c].n>>

MCPRVOf(ref) == IF ref = NoRef THEN NoRV ELSE RVOf(ref)

\* The Skill is gone: drop its agent.
ReconcileDeleted(s) ==
  /\ work = Idle
  /\ s \in queue
  /\ skill[s] = Absent
  /\ queue' = queue \ {s}
  /\ Deregister(s)
  /\ UNCHANGED <<clusterVars, events, work>>

\* The Skill is read; the rest of the reconcile uses this copy.
ReconcileSkill(s) ==
  /\ work = Idle
  /\ s \in queue
  /\ skill[s] # Absent
  /\ queue' = queue \ {s}
  /\ work' = [step |-> "config", key |-> s, spec |-> skill[s],
              rv |-> NoRV, mcpRV |-> NoRV, dir |-> NoDir]
  /\ UNCHANGED <<registryVars, clusterVars, events>>

\* Mutant: read from a replica that may trail the cache.
GetConfigMapOfAnyAge ==
  /\ At("config")
  /\ \E n \in 1..cm[work.spec.cfg].n :
       work' = [work EXCEPT !.step = "mcp", !.rv = <<work.spec.cfg, n>>]
  /\ UNCHANGED <<registryVars, clusterVars, events, queue>>

\* The ConfigMap is read from the cache.
GetConfigMap ==
  /\ At("config")
  /\ LET c == work.spec.cfg IN
       IF cm[c].live
         THEN /\ work' = [work EXCEPT !.step = "mcp", !.rv = RVOf(c)]
              /\ UNCHANGED queue
         ELSE Retry
  /\ UNCHANGED <<registryVars, clusterVars, events>>

MCPConfigMapMissing ==
  /\ At("mcp")
  /\ work.spec.mcp # NoRef
  /\ ~cm[work.spec.mcp].live
  /\ Retry
  /\ UNCHANGED <<registryVars, clusterVars, events>>

\* The MCP ConfigMap is read, or the Skill refers to none.
MCPConfigMapRead ==
  /\ At("mcp")
  /\ work.spec.mcp # NoRef => cm[work.spec.mcp].live

\* Mutant: only whether there is an agent is looked at.
isAgentCached(k, rv, mcpRV) == Cached(k)

\* isAgentCacheValid: an agent is cached under k, built from version rv and
\* from MCP version mcpRV (NoRV when there is no MCP ConfigMap).
isAgentCacheValid(k, rv, mcpRV) ==
  /\ Cached(k)
  /\ agents[k].rv = rv
  /\ agents[k].mcpRV = mcpRV

\* Nothing to build; a run request wakes the loop.
KeepAgent ==
  /\ MCPConfigMapRead
  /\ isAgentCacheValid(work.key, work.rv, MCPRVOf(work.spec.mcp))
  /\ IF work.spec.runRequested THEN Notify(work.key) ELSE UNCHANGED registryVars
  /\ Done
  /\ UNCHANGED <<clusterVars, events>>

\* Mutant: the name of the new directory is not kept.
MakeNamelessDir(d) ==
  /\ MCPConfigMapRead
  /\ ~isAgentCacheValid(work.key, work.rv, MCPRVOf(work.spec.mcp))
  /\ d \in Dirs \ (dirs \cup CachedDirs)
  /\ dirs' = dirs \cup {d}
  /\ work' = [work EXCEPT !.step = "build", !.mcpRV = MCPRVOf(work.spec.mcp)]
  /\ UNCHANGED <<agents, notify, signalled, clusterVars, events, queue>>

\* os.MkdirTemp returns d, a name nothing on disk or in the map has.
MakeSkillDir(d) ==
  /\ MCPConfigMapRead
  /\ ~isAgentCacheValid(work.key, work.rv, MCPRVOf(work.spec.mcp))
  /\ d \in Dirs \ (dirs \cup CachedDirs)
  /\ dirs' = dirs \cup {d}
  /\ work' = [work EXCEPT !.step = "build", !.dir = d,
                          !.mcpRV = MCPRVOf(work.spec.mcp)]
  /\ UNCHANGED <<agents, notify, signalled, clusterVars, events, queue>>

\* os.MkdirTemp fails.
MkdirFails ==
  /\ MCPConfigMapRead
  /\ ~isAgentCacheValid(work.key, work.rv, MCPRVOf(work.spec.mcp))
  /\ Retry
  /\ UNCHANGED <<registryVars, clusterVars, events>>

\* Directories no entry and no request refers to any more.
LeakedDirs ==
  dirs \ (CachedDirs \cup (IF work = Idle THEN {} ELSE {work.dir}))

\* Writing the files, loading the skill, parsing mcp.json, creating a toolset,
\* reading the instruction or creating the agent fails.  The directory stays.
BuildFails ==
  /\ At("build")
  /\ Cardinality(LeakedDirs) < MaxLeaks
  /\ Retry
  /\ UNCHANGED <<registryVars, clusterVars, events>>

\* The AgentEntry of the agent that was built.
BuiltEntry == [dir |-> work.dir, rv |-> work.rv,
               mcpRV |-> work.mcpRV, ival |-> work.spec.ival]

\* Mutant: with "defer os.RemoveAll(skillDir)" not commented out.
BuildAgentThenRemoveDir ==
  /\ At("build")
  /\ dirs' = DirsWithout(work.key) \ {work.dir}
  /\ agents' = [agents EXCEPT ![work.key] = BuiltEntry]
  /\ notify' = TRUE
  /\ signalled' = signalled \cup {work.key}
  /\ Done
  /\ UNCHANGED <<clusterVars, events>>

\* The agent is built and registered.
BuildAgent ==
  /\ At("build")
  /\ Register(work.key, BuiltEntry)
  /\ Done
  /\ UNCHANGED <<clusterVars, events>>

-----------------------------------------------------------------------------
ClusterStep ==
  \/ \E s \in Skills : SkillChanges(s)
  \/ \E c \in ConfigMaps : ConfigMapWritten(c) \/ ConfigMapDeleted(c)

HandlerStep ==
  \/ \E s \in Skills : HandleSkillEvent(s)
  \/ \E c \in ConfigMaps : HandleConfigMapEvent(c)

TakeRequest(s) == ReconcileDeleted(s) \/ ReconcileSkill(s)

WorkStep ==
  \/ GetConfigMap
  \/ MCPConfigMapMissing
  \/ KeepAgent
  \/ \E d \in Dirs : MakeSkillDir(d)
  \/ MkdirFails
  \/ BuildFails
  \/ BuildAgent

ReconcilerStep ==
  \/ HandlerStep
  \/ \E s \in Skills : HandleAdvisoryEvent(s) \/ TakeRequest(s)
  \/ WorkStep

Next == ClusterStep \/ ReconcilerStep

Spec == Init /\ [][Next]_vars

-----------------------------------------------------------------------------
(* Properties.                                                             *)

\* Everything spec s needs exists.
Resolvable(s) ==
  /\ skill[s] # Absent
  /\ cm[skill[s].cfg].live
  /\ skill[s].mcp # NoRef => cm[skill[s].mcp].live

\* The map holds for s what the caches ask for.
Settled(s) ==
  IF skill[s] = Absent
    THEN ~Cached(s)
    ELSE /\ Resolvable(s)
         /\ Cached(s)
         /\ agents[s].rv = RVOf(skill[s].cfg)
         /\ agents[s].mcpRV = MCPRVOf(skill[s].mcp)

\* A reconcile of s is still to start.
Pending(s) ==
  \/ s \in queue \cup events
  \/ \E c \in events \cap ConfigMaps : s \in findObjectsForConfigMap(c)

\* The reconciler never rests on an out-of-date agent: whatever changes and
\* in whatever order the two informers report it, a Skill whose cached agent
\* is not the one its ConfigMaps ask for has a reconcile pending or running.
NoLostChange == \A s \in Skills : Settled(s) \/ Pending(s) \/ InProgress(s)

\* A running reconcile that read something which has changed since will be
\* followed by another.
StaleWorkIsRepeated ==
  work # Idle =>
    \/ Pending(work.key)
    \/ /\ skill[work.key] = work.spec
       /\ work.step # "config" =>
            cm[work.spec.cfg].live /\ work.rv = RVOf(work.spec.cfg)
       /\ work.step = "build" =>
            /\ work.spec.mcp # NoRef => cm[work.spec.mcp].live
            /\ work.mcpRV = MCPRVOf(work.spec.mcp)

\* The directory of a cached agent exists, belongs to that agent alone, and
\* is not the one a reconcile is unpacking files into.
DirsOwned ==
  /\ CachedDirs \subseteq dirs
  /\ \A j, k \in CachedKeys : agents[j].dir = agents[k].dir => j = k
  /\ At("build") => work.dir \in dirs \ CachedDirs

\* Version new is not an earlier version of the ConfigMap that old is one of.
NotOlder(old, new) ==
  old # NoRV /\ new # NoRV /\ old[1] = new[1] => old[2] <= new[2]

\* No agent replaces one that was built from a later version of the same
\* ConfigMap: what a reconcile read early and registers late does not undo
\* what was registered meanwhile.
VersionsDoNotGoBack ==
  [][\A s \in Skills : Cached(s) /\ Cached(s)' =>
       /\ NotOlder(agents[s].rv, agents'[s].rv)
       /\ NotOlder(agents[s].mcpRV, agents'[s].mcpRV)]_vars

\* What the comment on spec.intervalMinute says: a change of spec takes
\* effect.  At rest, the interval the loop uses is the one of the Skill.
IntervalInEffect ==
  \A s \in Skills :
    Settled(s) /\ Cached(s) /\ ~Pending(s) /\ ~InProgress(s)
      => agents[s].ival = skill[s].ival
=============================================================================
