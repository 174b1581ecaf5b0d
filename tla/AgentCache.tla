---------------------------- MODULE AgentCache ----------------------------
(***************************************************************************)
(* The agent map with everything that touches it: the Skill worker         *)
(* (SkillReconciler), the runner loop and the advisory worker's            *)
(* RunWithPrompt (RunnerLoop) interleave, and the process may be shut down *)
(* or restarted at any point.                                              *)
(***************************************************************************)
EXTENDS SkillReconciler, RunnerLoop

CONSTANTS
  Builds        \* ConfigMap versions an agent can be built from

ASSUME BuildsAssumption == Builds \subseteq RV

ASSUME RunAssumption == NoRun \notin Held \cup Prompted

cacheVars == <<vars, loopVars>>

CacheTypeOK == TypeOK /\ LoopTypeOK

CacheInit == Init /\ LoopInit

ClusterPart == ClusterStep /\ UNCHANGED loopVars

HandlerPart ==
  /\ HandlerStep \/ \E s \in Skills : HandleAdvisoryEvent(s)
  /\ UNCHANGED loopVars

TakePart(s) == TakeRequest(s) /\ UNCHANGED loopVars

\* A name os.MkdirTemp returns is also one that no run in progress knows.
MkdirPart ==
  /\ \E d \in Dirs \ HeldDirs : MakeSkillDir(d)
  /\ UNCHANGED loopVars

\* An agent is built from versions with contents it can be built from; from any
\* others BuildFails is all that can happen.
BuildPart ==
  /\ At("build")
  /\ {work.rv, work.mcpRV} \subseteq Builds \cup {NoRV}
  /\ BuildAgent

WorkPart ==
  \/ MkdirPart
  \/ /\ \/ GetConfigMap
        \/ MCPConfigMapMissing
        \/ KeepAgent
        \/ MkdirFails
        \/ BuildFails
        \/ BuildPart
     /\ UNCHANGED loopVars

\* The loop reads the Skill before it runs its agent.
SweepPart ==
  /\ \/ Snapshot
     \/ \E h \in todo : SkipAgent(h) \/ (skill[h.key] # Absent /\ AgentIsDue(h))
     \/ CheckSkillDir
     \/ StartAgent
     \/ SessionFails
     \/ EndSweep
     \/ AgentReturns
  /\ UNCHANGED reconcilerVars

WakePart ==
  /\ ModelCreated \/ WakeUp \/ Tick
  /\ UNCHANGED reconcilerVars

StopPart ==
  /\ StopLoop
  /\ UNCHANGED reconcilerVars

PromptPart ==
  /\ \/ \E k \in Skills : TakeForPrompt(k)
     \/ CheckPromptDir
     \/ StartPrompt
     \/ PromptReturns
  /\ UNCHANGED reconcilerVars

\* The process is killed and started again, in a container with an empty
\* file system: the map, the queue and every run are gone, the cluster is as
\* it was, and every object is an event again.
Restart ==
  /\ agents' = [k \in Skills |-> NoEntry]
  /\ dirs' = {}
  /\ notify' = FALSE
  /\ signalled' = {}
  /\ events' = {s \in Skills : skill[s] # Absent} \cup {c \in ConfigMaps : cm[c].live}
  /\ queue' = {}
  /\ work' = Idle
  /\ loop' = "starting"
  /\ todo' = {}
  /\ current' = NoRun
  /\ prompted' = NoRun
  /\ UNCHANGED clusterVars

CacheNext ==
  \/ ClusterPart
  \/ HandlerPart
  \/ \E s \in Skills : TakePart(s)
  \/ WorkPart
  \/ SweepPart
  \/ WakePart
  \/ PromptPart
  \/ StopPart
  \/ Restart

CacheSpec == CacheInit /\ [][CacheNext]_cacheVars

\* Runs of an agent are assumed to end (no timeout in the code makes them);
\* the ticker keeps ticking; the worker, the handlers and os.MkdirTemp are as in
\* AgentBuild.
CacheFairness ==
  /\ WF_cacheVars(HandlerStep /\ UNCHANGED loopVars)
  /\ WF_cacheVars(WorkPart)
  /\ SF_cacheVars(MkdirPart)
  /\ \A s \in Skills : SF_cacheVars(TakePart(s))
  /\ WF_cacheVars(SweepPart)
  /\ WF_cacheVars(WakePart)

CacheFairSpec == CacheSpec /\ CacheFairness

-----------------------------------------------------------------------------
(* Properties.                                                             *)

\* Until cleanupAll has run, the directory of a cached agent exists and is
\* its own, whatever the loop, the worker and the advisory worker do.
DirsOwnedUntilStopped == loop # "stopped" => DirsOwned

\* A sweep goes through entries it copied, runs take minutes, and the map
\* changes meanwhile; yet os.Stat tells what is superseded: an entry only
\* passes it while it is the one in the map.  (That it still is when the run
\* starts, a session later, nothing checks.)
OnlyCurrentAgentsPass ==
  [][/\ loop = "check" /\ loop' = "start" => agents[current.key] = current.entry
     /\ AtPrompt("check") /\ AtPrompt("start")' =>
          agents[prompted.held.key] = prompted.held.entry]_cacheVars

\* Every registration and run request the loop is signalled for is followed by
\* a sweep that has read the map after it, however many agents come and go
\* meanwhile; only the shutdown comes before.
SignalsAreHeeded ==
  \A s \in Skills : s \in signalled ~> (s \notin signalled \/ loop = "stopped")

Disturbed == ClusterStep \/ Restart

\* Everything spec s needs exists and can be built.
Buildable(s) ==
  /\ Resolvable(s)
  /\ {RVOf(skill[s].cfg), MCPRVOf(skill[s].mcp)} \subseteq Builds \cup {NoRV}

\* No name is left for os.MkdirTemp.
DiskFull == Dirs \subseteq dirs \cup HeldDirs

\* From the ConfigMap to the run: once the cluster leaves a Skill alone that an
\* agent can be built for, the loop ends up running only that agent, or none if
\* the Skill is gone, whatever bad versions came before.  (While a version
\* cannot be built, the agent of the one before goes on running.)
RunsCurrentAgent ==
  \A s \in Skills :
    \/ []<><<Disturbed>>_cacheVars
    \/ <>[](loop = "stopped" \/ (skill[s] # Absent /\ ~Buildable(s)))
    \/ <>[]DiskFull
    \/ <>[](\A h \in todo \cup (IF current = NoRun THEN {} ELSE {current}) :
               h.key = s => Settled(s) /\ h.entry = agents[s])
=============================================================================
