---------------------------- MODULE RunnerLoop ----------------------------
(***************************************************************************)
(* AgentRunnerLoop (internal/controller/agent_runner.go): the goroutine    *)
(* that sweeps the cached agents, and RunWithPrompt, which the advisory    *)
(* worker calls in a goroutine of its own.  Both hold entries they took    *)
(* out of the map while Register and Deregister go on changing it.         *)
(*                                                                         *)
(* Whether an agent is due, and what a run writes to the Skill, is the     *)
(* subject of SkillRun; here a due agent is any agent.                     *)
(***************************************************************************)
EXTENDS AgentRegistry

CONSTANTS
  NoRun,        \* the goroutine is running no agent
  Approvable    \* bound: Skills whose advisories get approved

ASSUME ApprovableAssumption == Approvable \subseteq Skills

VARIABLES
  loop,         \* where Start is
  todo,         \* entries of this sweep that are still to be looked at
  current,      \* the entry runSkillAgentIfDue is at, once its Skill is due
  prompted      \* RunWithPrompt: the entry it took, and how far it got

loopVars == <<loop, todo, current, prompted>>

\* An entry together with the key it was found under (AgentEntry.CRKey).
Held == [key: Skills, entry: AgentEntry]

\* Where a run is: about to look for the directory, about to create a session,
\* or in Runner.Run.
RunSteps == {"check", "start", "run"}

Prompted == [held: Held, step: RunSteps]

LoopTypeOK ==
  /\ loop \in {"starting", "select", "snapshot", "sweep", "stopped"} \cup RunSteps
  /\ todo \subseteq Held
  /\ current \in Held \cup {NoRun}
  /\ current # NoRun <=> loop \in RunSteps
  /\ prompted \in Prompted \cup {NoRun}

LoopInit ==
  /\ loop = "starting"
  /\ todo = {}
  /\ current = NoRun
  /\ prompted = NoRun

-----------------------------------------------------------------------------
(* Start.                                                                  *)

\* createModel has returned a model; readyz answers from here on.
ModelCreated ==
  /\ loop = "starting"
  /\ loop' = "select"
  /\ UNCHANGED <<registryVars, todo, current, prompted>>

\* A registration or a run request was signalled.
WakeUp ==
  /\ loop = "select"
  /\ notify
  /\ notify' = FALSE
  /\ loop' = "snapshot"
  /\ UNCHANGED <<agents, dirs, signalled, todo, current, prompted>>

\* Thirty seconds have passed.
Tick ==
  /\ loop = "select"
  /\ loop' = "snapshot"
  /\ UNCHANGED <<registryVars, todo, current, prompted>>

\* The manager has cancelled the context (SIGTERM, or the lease is lost): the
\* loop removes what is cached and returns.
StopLoop ==
  /\ loop = "select"
  /\ CleanupAll
  /\ loop' = "stopped"
  /\ UNCHANGED <<todo, current, prompted>>

\* Mutant: keys whose agent was dropped stay in the copy.
SnapshotWithHoles ==
  /\ loop = "snapshot"
  /\ todo' = {[key |-> k, entry |-> agents[k]] : k \in Skills}
  /\ signalled' = {}
  /\ loop' = "sweep"
  /\ UNCHANGED <<agents, dirs, notify, current, prompted>>

\* runDueAgents copies the entries under the read lock.
Snapshot ==
  /\ loop = "snapshot"
  /\ todo' = {[key |-> k, entry |-> agents[k]] : k \in CachedKeys}
  /\ signalled' = {}
  /\ loop' = "sweep"
  /\ UNCHANGED <<agents, dirs, notify, current, prompted>>

\* runSkillAgentIfDue(h) returns at once: the Skill cannot be read, or is not
\* due.  Map order is random.
SkipAgent(h) ==
  /\ loop = "sweep"
  /\ h \in todo
  /\ todo' = todo \ {h}
  /\ UNCHANGED <<registryVars, loop, current, prompted>>

\* The Skill is read and due.
AgentIsDue(h) ==
  /\ loop = "sweep"
  /\ h \in todo
  /\ todo' = todo \ {h}
  /\ current' = h
  /\ loop' = "check"
  /\ UNCHANGED <<registryVars, prompted>>

\* runSkillAgentIfDue returns, with a result or an error; the sweep goes on.
BackToSweep ==
  /\ current' = NoRun
  /\ loop' = "sweep"

\* Mutant: the directory is not looked for.
PassUnchecked ==
  /\ loop = "check"
  /\ loop' = "start"
  /\ UNCHANGED <<registryVars, todo, current, prompted>>

\* os.Stat looks for the directory; without it the agent is not run.  The map
\* may change between this and the run.
CheckSkillDir ==
  /\ loop = "check"
  /\ IF current.entry.dir \in dirs
       THEN loop' = "start" /\ UNCHANGED current
       ELSE BackToSweep
  /\ UNCHANGED <<registryVars, todo, prompted>>

\* A session is created and Runner.Run called.
StartAgent ==
  /\ loop = "start"
  /\ loop' = "run"
  /\ UNCHANGED <<registryVars, todo, current, prompted>>

SessionFails ==
  /\ loop = "start"
  /\ BackToSweep
  /\ UNCHANGED <<registryVars, todo, prompted>>

\* Mutant: the run removes the directory it used.
AgentReturnsAndCleans ==
  /\ loop = "run"
  /\ dirs' = dirs \ {current.entry.dir}
  /\ BackToSweep
  /\ UNCHANGED <<agents, notify, signalled, todo, prompted>>

\* Mutant: the agent goes back to the end of the sweep.
AgentReturnsToSweep ==
  /\ loop = "run"
  /\ todo' = todo \cup {current}
  /\ BackToSweep
  /\ UNCHANGED <<registryVars, prompted>>

\* The run ends.
AgentReturns ==
  /\ loop = "run"
  /\ BackToSweep
  /\ UNCHANGED <<registryVars, todo, prompted>>

\* Mutant: the channel is drained after the sweep.
EndSweepAndDrain ==
  /\ loop = "sweep"
  /\ todo = {}
  /\ loop' = "select"
  /\ notify' = FALSE
  /\ UNCHANGED <<agents, dirs, signalled, todo, current, prompted>>

\* Every entry was looked at: back to the select.
EndSweep ==
  /\ loop = "sweep"
  /\ todo = {}
  /\ loop' = "select"
  /\ UNCHANGED <<registryVars, todo, current, prompted>>

-----------------------------------------------------------------------------
(* RunWithPrompt.                                                          *)

\* The entry is looked up under the read lock; with none the call fails.
TakeForPrompt(k) ==
  /\ k \in Approvable
  /\ prompted = NoRun
  /\ Cached(k)
  /\ prompted' = [held |-> [key |-> k, entry |-> agents[k]], step |-> "check"]
  /\ UNCHANGED <<registryVars, loop, todo, current>>

AtPrompt(step) == prompted # NoRun /\ prompted.step = step

\* os.Stat, as in runSkillAgentIfDue.
CheckPromptDir ==
  /\ AtPrompt("check")
  /\ prompted' = IF prompted.held.entry.dir \in dirs
                   THEN [prompted EXCEPT !.step = "start"]
                   ELSE NoRun
  /\ UNCHANGED <<registryVars, loop, todo, current>>

StartPrompt ==
  /\ AtPrompt("start")
  /\ prompted' = [prompted EXCEPT !.step = "run"]
  /\ UNCHANGED <<registryVars, loop, todo, current>>

\* No session is created, or the run ends.
PromptReturns ==
  /\ AtPrompt("start") \/ AtPrompt("run")
  /\ prompted' = NoRun
  /\ UNCHANGED <<registryVars, loop, todo, current>>

-----------------------------------------------------------------------------
(* Properties.                                                             *)

HeldEntries ==
  todo \cup (IF current = NoRun THEN {} ELSE {current})
       \cup (IF prompted = NoRun THEN {} ELSE {prompted.held})

HeldDirs == {h.entry.dir : h \in HeldEntries}

\* The channel holds one token and is drained before the map is read, and
\* still no wake-up is lost: while the loop has been signalled for a key and
\* has not read the map since, a token is in the channel or a sweep is about
\* to read the map.
WakeUpNotLost ==
  signalled # {} => notify \/ loop = "snapshot"

\* What RunWithPrompt and runSkillAgentIfDue check before a run ("Verify skill
\* directory still exists") holds throughout it: until the loop is stopped,
\* the scripts of a running agent are on disk.
RunningAgentHasFiles ==
  loop # "stopped" =>
  /\ loop = "run" => current.entry.dir \in dirs
  /\ AtPrompt("run") => prompted.held.entry.dir \in dirs
=============================================================================
