-------------------------- MODULE AgentCacheProofs --------------------------
(***************************************************************************)
(* Theorems about AgentCache: with the runner loop, the advisory worker,   *)
(* shutdowns and restarts interleaved, the reconciler keeps its            *)
(* invariants, and the loop loses no wake-up.                              *)
(***************************************************************************)
EXTENDS AgentCache, SkillReconcilerProofs

USE DEF At, Done, Retry, Cached

-----------------------------------------------------------------------------
(* Each step is one of the reconciler, of the loop, a stop or a restart.   *)

\* A step of the loop or of RunWithPrompt that leaves the reconciler, the map
\* and the directories alone.
LoopOnly ==
  /\ UNCHANGED <<agents, dirs, reconcilerVars>>
  /\ SweepPart \/ WakePart \/ PromptPart

ReconcilerOnly == [Next]_vars /\ UNCHANGED loopVars

LEMMA CacheSteps ==
  ASSUME [CacheNext]_cacheVars
  PROVE  ReconcilerOnly \/ LoopOnly \/ StopPart \/ Restart
<1> USE DEF ReconcilerOnly, LoopOnly, Next, ReconcilerStep, WorkStep
<1>1. CASE ClusterPart \/ HandlerPart
  BY <1>1 DEF ClusterPart, HandlerPart
<1>2. ASSUME NEW s \in Skills, TakePart(s)
      PROVE  ReconcilerOnly
  BY <1>2 DEF TakePart
<1>3. CASE WorkPart
  BY <1>3 DEF WorkPart, MkdirPart, BuildPart
<1>4. CASE SweepPart
  <2>1. UNCHANGED <<agents, dirs>>
    BY <1>4 DEF SweepPart, Snapshot, SkipAgent, AgentIsDue, CheckSkillDir,
       StartAgent, SessionFails, BackToSweep, EndSweep, AgentReturns, registryVars
  <2> QED
    BY <1>4, <2>1 DEF SweepPart
<1>5. CASE WakePart
  <2>1. UNCHANGED <<agents, dirs>>
    BY <1>5 DEF WakePart, ModelCreated, WakeUp, Tick, registryVars
  <2> QED
    BY <1>5, <2>1 DEF WakePart
<1>6. CASE PromptPart
  <2>1. UNCHANGED <<agents, dirs>>
    BY <1>6 DEF PromptPart, TakeForPrompt, CheckPromptDir, StartPrompt, PromptReturns, registryVars
  <2> QED
    BY <1>6, <2>1 DEF PromptPart
<1>7. CASE UNCHANGED cacheVars
  BY <1>7 DEF cacheVars
<1> QED
  BY <1>1, <1>2, <1>3, <1>4, <1>5, <1>6, <1>7 DEF CacheNext

-----------------------------------------------------------------------------
(* Type correctness.                                                       *)

LEMMA RestartType == TypeOK /\ Restart => TypeOK'
BY DEF TypeOK, RegistryTypeOK, Restart, clusterVars

\* What is cached under a key is an entry held under that key.
LEMMA CachedIsHeld ==
  ASSUME TypeOK, NEW k \in Skills, Cached(k)
  PROVE  [key |-> k, entry |-> agents[k]] \in Held
BY DEF TypeOK, RegistryTypeOK, Held

LEMMA LoopOnlyType ==
  ASSUME CacheTypeOK, LoopOnly
  PROVE  CacheTypeOK'
<1> USE DEF CacheTypeOK, LoopTypeOK
<1>1. TypeOK'
  <2>1. notify' \in BOOLEAN /\ signalled' \subseteq Skills
    BY DEF LoopOnly, SweepPart, WakePart, PromptPart, Snapshot, SkipAgent, AgentIsDue,
       CheckSkillDir, StartAgent, SessionFails, BackToSweep, EndSweep, AgentReturns, ModelCreated, WakeUp, Tick, TakeForPrompt,
       CheckPromptDir, StartPrompt, PromptReturns, TypeOK, RegistryTypeOK, registryVars
  <2> QED
    BY <2>1 DEF LoopOnly, TypeOK, RegistryTypeOK, reconcilerVars
<1>2. CASE Snapshot
  BY <1>1, <1>2, CachedIsHeld DEF Snapshot, CachedKeys, RunSteps
<1>3. ASSUME NEW h \in todo, SkipAgent(h) \/ AgentIsDue(h)
      PROVE  CacheTypeOK'
  BY <1>1, <1>3, RunAssumption DEF SkipAgent, AgentIsDue, RunSteps
<1>4. CASE EndSweep \/ CheckSkillDir \/ StartAgent \/ SessionFails \/ AgentReturns \/ WakePart
  BY <1>1, <1>4 DEF EndSweep, CheckSkillDir, StartAgent, SessionFails, BackToSweep,
     AgentReturns, WakePart, ModelCreated, WakeUp, Tick, RunSteps
<1>5. ASSUME NEW k \in Skills, TakeForPrompt(k)
      PROVE  CacheTypeOK'
  <2>1. [key |-> k, entry |-> agents[k]] \in Held
    BY <1>5, CachedIsHeld DEF TakeForPrompt
  <2> QED
    BY <1>1, <1>5, <2>1 DEF TakeForPrompt, Prompted, RunSteps
<1>6. CASE CheckPromptDir \/ StartPrompt \/ PromptReturns
  BY <1>1, <1>6 DEF CheckPromptDir, StartPrompt, PromptReturns, AtPrompt, Prompted, RunSteps
<1> QED
  BY <1>2, <1>3, <1>4, <1>5, <1>6 DEF LoopOnly, SweepPart, PromptPart

\* The caches, the map, the queue, the sweep and RunWithPrompt keep their
\* types: the loop never holds anything but an entry with its own key.
THEOREM CacheTypeCorrect == CacheSpec => []CacheTypeOK
<1>1. CacheInit => CacheTypeOK
  BY InitType DEF CacheInit, CacheTypeOK, LoopInit, LoopTypeOK, RunSteps
<1>2. CacheTypeOK /\ [CacheNext]_cacheVars => CacheTypeOK'
  <2> SUFFICES ASSUME CacheTypeOK, [CacheNext]_cacheVars
               PROVE  CacheTypeOK'
    OBVIOUS
  <2>1. CASE ReconcilerOnly
    BY <2>1, TypeStep DEF ReconcilerOnly, CacheTypeOK, LoopTypeOK, loopVars
  <2>2. CASE LoopOnly
    BY <2>2, LoopOnlyType
  <2>3. CASE StopPart
    BY <2>3 DEF StopPart, StopLoop, CleanupAll, CacheTypeOK, LoopTypeOK, TypeOK,
                RegistryTypeOK, RunSteps, reconcilerVars
  <2>4. CASE Restart
    BY <2>4, RestartType DEF Restart, CacheTypeOK, LoopTypeOK, RunSteps
  <2> QED
    BY <2>1, <2>2, <2>3, <2>4, CacheSteps
<1> QED
  BY <1>1, <1>2, PTL DEF CacheSpec

-----------------------------------------------------------------------------
(* The reconciler's invariants survive the loop, the stop and the restart. *)

\* The loop changes nothing the reconciler's invariants speak of.
LEMMA LoopOnlyKeeps ==
  ASSUME UNCHANGED <<agents, reconcilerVars>>
  PROVE  /\ StaleWorkIsRepeated => StaleWorkIsRepeated'
         /\ NoLostChange => NoLostChange'
<1>1. UNCHANGED <<agents, skill, cm, events, queue, work>>
  BY DEF reconcilerVars
<1> QED
  BY <1>1 DEF StaleWorkIsRepeated, NoLostChange, Settled, Resolvable, Pending, InProgress,
     findObjectsForConfigMap, RVOf, MCPRVOf

\* A restart makes every object an event: whatever exists is reconciled.
LEMMA RestartKeeps ==
  ASSUME TypeOK, Restart
  PROVE  StaleWorkIsRepeated' /\ NoLostChange'
<1>1. StaleWorkIsRepeated'
  BY DEF Restart, StaleWorkIsRepeated
<1>2. ASSUME NEW s \in Skills
      PROVE  Settled(s)' \/ Pending(s)'
  <2>1. CASE skill[s] = Absent
    BY <2>1 DEF Restart, Settled, clusterVars
  <2>2. CASE skill[s] # Absent
    BY <2>2 DEF Restart, Pending
  <2> QED
    BY <2>1, <2>2
<1> QED
  BY <1>1, <1>2 DEF NoLostChange

\* Also with the loop, the advisory worker, shutdowns and restarts, a
\* reconcile that works from something stale is followed by another, and the
\* reconciler never rests on an out-of-date agent.
THEOREM CacheNoLostChange == CacheSpec => [](StaleWorkIsRepeated /\ NoLostChange)
<1> DEFINE Kept == StaleWorkIsRepeated /\ NoLostChange
<1>1. CacheInit => Kept
  BY DEF CacheInit, Init, RegistryInit, StaleWorkIsRepeated, NoLostChange, Settled, Pending
<1>2. CacheTypeOK /\ Kept /\ [CacheNext]_cacheVars => Kept'
  <2> SUFFICES ASSUME CacheTypeOK, Kept, [CacheNext]_cacheVars
               PROVE  Kept'
    OBVIOUS
  <2>1. CASE ReconcilerOnly
    BY <2>1, StaleWorkStep, NoLostChangeStep DEF ReconcilerOnly, CacheTypeOK
  <2>2. CASE LoopOnly
    BY <2>2, LoopOnlyKeeps DEF LoopOnly
  <2>3. CASE StopPart
    BY <2>3, LoopOnlyKeeps DEF StopPart, StopLoop, CleanupAll
  <2>4. CASE Restart
    BY <2>4, RestartKeeps DEF CacheTypeOK
  <2> QED
    BY <2>1, <2>2, <2>3, <2>4, CacheSteps
<1> QED
  BY <1>1, <1>2, CacheTypeCorrect, PTL DEF CacheSpec

-----------------------------------------------------------------------------
\* Until the loop is stopped, no step of the loop, of RunWithPrompt or of the
\* reconciler, and no restart, takes a cached agent's directory from it.
THEOREM CacheDirsCorrect == CacheSpec => []DirsOwnedUntilStopped
<1>1. CacheInit => DirsOwnedUntilStopped
  BY DEF CacheInit, Init, RegistryInit, DirsOwnedUntilStopped, DirsOwned, CachedDirs, CachedKeys
<1>2. CacheTypeOK /\ DirsOwnedUntilStopped /\ [CacheNext]_cacheVars => DirsOwnedUntilStopped'
  <2> SUFFICES ASSUME CacheTypeOK, DirsOwnedUntilStopped, [CacheNext]_cacheVars
               PROVE  DirsOwnedUntilStopped'
    OBVIOUS
  <2>1. CASE ReconcilerOnly
    BY <2>1, DirsStep DEF ReconcilerOnly, CacheTypeOK, DirsOwnedUntilStopped, loopVars
  <2>2. CASE LoopOnly
    <3>1. loop' # "stopped" => loop # "stopped"
      BY <2>2 DEF LoopOnly, SweepPart, WakePart, PromptPart, Snapshot, SkipAgent, AgentIsDue,
         CheckSkillDir, StartAgent, SessionFails, BackToSweep, EndSweep, AgentReturns, ModelCreated, WakeUp, Tick, TakeForPrompt,
         CheckPromptDir, StartPrompt, PromptReturns
    <3>2. UNCHANGED <<agents, dirs, work>>
      BY <2>2 DEF LoopOnly, reconcilerVars
    <3> QED
      BY <3>1, <3>2 DEF DirsOwnedUntilStopped, DirsOwned, CachedDirs, CachedKeys
  <2>3. CASE StopPart
    BY <2>3 DEF StopPart, StopLoop, DirsOwnedUntilStopped
  <2>4. CASE Restart
    BY <2>4 DEF Restart, DirsOwnedUntilStopped, DirsOwned, CachedDirs, CachedKeys
  <2> QED
    BY <2>1, <2>2, <2>3, <2>4, CacheSteps
<1> QED
  BY <1>1, <1>2, CacheTypeCorrect, PTL DEF CacheSpec

-----------------------------------------------------------------------------
\* A step of the reconciler that signals leaves a token; any other leaves the
\* token and the signals as they are, or takes a signal back.
LEMMA ReconcilerSignals ==
  ASSUME [Next]_vars
  PROVE  notify' \/ (notify' = notify /\ signalled' \subseteq signalled)
BY DEF Next, ClusterStep, ReconcilerStep, HandlerStep, WorkStep, TakeRequest, SkillChanges,
   ConfigMapWritten, ConfigMapDeleted, HandleSkillEvent, HandleConfigMapEvent,
   HandleAdvisoryEvent, ReconcileDeleted, Deregister, ReconcileSkill, GetConfigMap,
   MCPConfigMapMissing, KeepAgent, Notify, MakeSkillDir, MkdirFails, BuildFails, BuildAgent,
   Register, vars, registryVars

\* One token is enough: whenever a key was signalled and the map not read
\* since, the loop is sure to read it, whoever signals, drains or drops.
THEOREM WakeUpCorrect == CacheSpec => []WakeUpNotLost
<1>1. CacheInit => WakeUpNotLost
  BY DEF CacheInit, Init, RegistryInit, WakeUpNotLost
<1>2. WakeUpNotLost /\ [CacheNext]_cacheVars => WakeUpNotLost'
  <2> SUFFICES ASSUME WakeUpNotLost, [CacheNext]_cacheVars
               PROVE  WakeUpNotLost'
    OBVIOUS
  <2>1. CASE ReconcilerOnly
    BY <2>1, ReconcilerSignals DEF ReconcilerOnly, WakeUpNotLost, loopVars
  <2>2. CASE LoopOnly
    BY <2>2 DEF LoopOnly, SweepPart, WakePart, PromptPart, Snapshot, SkipAgent, AgentIsDue,
       CheckSkillDir, StartAgent, SessionFails, BackToSweep, EndSweep, AgentReturns, ModelCreated, WakeUp, Tick, TakeForPrompt,
       CheckPromptDir, StartPrompt, PromptReturns, WakeUpNotLost, registryVars
  <2>3. CASE StopPart
    BY <2>3 DEF StopPart, StopLoop, CleanupAll, WakeUpNotLost
  <2>4. CASE Restart
    BY <2>4 DEF Restart, WakeUpNotLost
  <2> QED
    BY <2>1, <2>2, <2>3, <2>4, CacheSteps
<1> QED
  BY <1>1, <1>2, PTL DEF CacheSpec

-----------------------------------------------------------------------------
(* Only current agents pass os.Stat.                                       *)

\* An entry the loop or RunWithPrompt holds whose directory is still on disk
\* is the one in the map; and a build unpacks into a directory of its own.
HeldIsCurrent ==
  /\ \A h \in HeldEntries : h.entry.dir \in dirs => agents[h.key] = h.entry
  /\ At("build") => work.dir \in dirs \ CachedDirs

LEMMA HeldType ==
  ASSUME CacheTypeOK
  PROVE  HeldEntries \subseteq Held
BY DEF CacheTypeOK, LoopTypeOK, HeldEntries, Prompted

\* No step brings back a directory that a held entry refers to.
LEMMA NoDirComesBack ==
  ASSUME CacheTypeOK, [CacheNext]_cacheVars
  PROVE  dirs' \cap HeldDirs \subseteq dirs
<1> USE DEF registryVars, DirsWithout
<1>1. CASE MkdirPart
  BY <1>1 DEF MkdirPart, MakeSkillDir
<1>2. CASE WorkPart /\ ~MkdirPart
  BY <1>2 DEF WorkPart, BuildPart, GetConfigMap, MCPConfigMapMissing, KeepAgent, Notify, MkdirFails,
     BuildFails, BuildAgent, Register
<1>3. CASE \E s \in Skills : TakePart(s)
  BY <1>3 DEF TakePart, TakeRequest, ReconcileDeleted, Deregister, ReconcileSkill
<1>4. CASE ClusterPart \/ HandlerPart
  BY <1>4 DEF ClusterPart, ClusterStep, SkillChanges, ConfigMapWritten, ConfigMapDeleted,
     HandlerPart, HandlerStep, HandleSkillEvent, HandleConfigMapEvent, HandleAdvisoryEvent
<1>5. CASE SweepPart \/ WakePart \/ PromptPart
  BY <1>5 DEF SweepPart, Snapshot, SkipAgent, AgentIsDue, CheckSkillDir,
       StartAgent, SessionFails, BackToSweep, EndSweep, AgentReturns, WakePart,
     ModelCreated, WakeUp, Tick, PromptPart, TakeForPrompt, CheckPromptDir, StartPrompt, PromptReturns
<1>6. CASE StopPart \/ Restart
  BY <1>6 DEF StopPart, StopLoop, CleanupAll, Restart
<1>7. CASE UNCHANGED cacheVars
  BY <1>7 DEF cacheVars, vars
<1> QED
  BY <1>1, <1>2, <1>3, <1>4, <1>5, <1>6, <1>7 DEF CacheNext

\* A step of the reconciler supersedes an entry and removes its directory at
\* once, and never touches the directory of a build.
LEMMA ReconcilerKeepsHeld ==
  ASSUME CacheTypeOK, HeldIsCurrent, ReconcilerOnly, dirs' \cap HeldDirs \subseteq dirs
  PROVE  HeldIsCurrent'
<1> USE DEF ReconcilerOnly
<1>1. TypeOK /\ TypeOK'
  BY TypeStep DEF CacheTypeOK
<1>2. HeldEntries' = HeldEntries
  BY DEF loopVars, HeldEntries
<1>3. ASSUME NEW h \in HeldEntries, h.entry.dir \in dirs'
      PROVE  agents'[h.key] = h.entry
  <2>1. h.key \in Skills /\ h.entry \in AgentEntry /\ h.entry # NoEntry
    BY HeldType, NamesAssumption DEF Held
  <2>2. agents[h.key] = h.entry
    BY <1>3 DEF HeldIsCurrent, HeldDirs
  <2>3. ~ReconcileDeleted(h.key)
    BY <1>3, <2>1, <2>2 DEF ReconcileDeleted, Deregister, DirsWithout
  <2>4. ~(BuildAgent /\ work.key = h.key)
    <3> SUFFICES ASSUME BuildAgent, work.key = h.key PROVE FALSE
      OBVIOUS
    <3>1. BuiltEntry.dir = work.dir /\ work.dir \notin CachedDirs
      BY <1>1, BuiltEntryType DEF BuildAgent, HeldIsCurrent
    <3>2. agents[h.key].dir \in CachedDirs
      BY <2>1, <2>2 DEF CachedDirs, CachedKeys
    <3>3. dirs' = dirs \ {h.entry.dir}
      BY <2>1, <2>2, <3>1, <3>2 DEF BuildAgent, Register, DirsWithout
    <3> QED
      BY <1>3, <3>3
  <2>5. CASE ReconcileSkill(h.key)
    BY <2>2, <2>5 DEF ReconcileSkill, registryVars
  <2>6. CASE ~ReconcileSkill(h.key)
    <3>1. agents'[h.key] = agents[h.key]
      BY <1>1, <2>1, <2>3, <2>4, <2>6, OthersKeepTheirAgent DEF TakeRequest
    <3> QED
      BY <2>2, <3>1
  <2> QED
    BY <2>5, <2>6
<1>4. At("build")' => work'.dir \in dirs' \ CachedDirs'
  <2> SUFFICES ASSUME At("build")' PROVE work'.dir \in dirs' \ CachedDirs'
    OBVIOUS
  <2>1. CASE work = Idle
    <3>1. \E s \in Skills : ReconcileSkill(s)
      BY <2>1 DEF Next, ClusterStep, ReconcilerStep, HandlerStep, TakeRequest, WorkStep,
         SkillChanges, ConfigMapWritten, ConfigMapDeleted, HandleSkillEvent,
         HandleConfigMapEvent, HandleAdvisoryEvent, ReconcileDeleted, GetConfigMap,
         MCPConfigMapMissing, MCPConfigMapRead, KeepAgent, MakeSkillDir, MkdirFails,
         BuildFails, BuildAgent, vars, reconcilerVars
    <3> QED
      BY <3>1 DEF ReconcileSkill
  <2>2. CASE work # Idle
    <3>1. work' = work \/ GetConfigMap \/ \E d \in Dirs : MakeSkillDir(d)
      BY <1>1, <2>2, RequestGoesOn
    <3>2. CASE GetConfigMap
      BY <1>1, <2>2, <3>2 DEF GetConfigMap, TypeOK, Request
    <3>3. ASSUME NEW d \in Dirs, MakeSkillDir(d)
          PROVE  work'.dir \in dirs' \ CachedDirs'
      BY <1>1, <2>2, <3>3 DEF MakeSkillDir, TypeOK, Request, CachedDirs, CachedKeys
    <3>4. CASE work' = work /\ \A d \in Dirs : ~MakeSkillDir(d)
      <4>1. UNCHANGED <<agents, dirs>>
        BY <2>2, <3>4 DEF Next, ClusterStep, ReconcilerStep, HandlerStep, TakeRequest, WorkStep,
           SkillChanges, ConfigMapWritten, ConfigMapDeleted, HandleSkillEvent,
           HandleConfigMapEvent, HandleAdvisoryEvent, ReconcileDeleted, ReconcileSkill,
           GetConfigMap, MCPConfigMapMissing, KeepAgent, Notify, MkdirFails,
           BuildFails, BuildAgent, vars, registryVars
      <4> QED
        BY <3>4, <4>1 DEF HeldIsCurrent, CachedDirs, CachedKeys
    <3> QED
      BY <3>1, <3>2, <3>3, <3>4
  <2> QED
    BY <2>1, <2>2
<1> QED
  BY <1>2, <1>3, <1>4 DEF HeldIsCurrent

\* A step of the loop or of RunWithPrompt takes entries from the map, or from
\* what it held.
LEMMA LoopKeepsHeld ==
  ASSUME CacheTypeOK, HeldIsCurrent, LoopOnly
  PROVE  HeldIsCurrent'
<1>1. UNCHANGED <<agents, dirs, work>>
  BY DEF LoopOnly, reconcilerVars
<1>2. \A h \in HeldEntries' : h \in HeldEntries \/ agents[h.key] = h.entry
  <2>1. CASE Snapshot
    BY <2>1 DEF Snapshot, HeldEntries
  <2>2. ASSUME NEW h \in todo, SkipAgent(h) \/ AgentIsDue(h)
        PROVE  HeldEntries' \subseteq HeldEntries
    BY <2>2 DEF SkipAgent, AgentIsDue, HeldEntries
  <2>3. CASE EndSweep \/ CheckSkillDir \/ StartAgent \/ SessionFails \/ AgentReturns \/ WakePart
    BY <2>3 DEF EndSweep, CheckSkillDir, StartAgent, SessionFails, BackToSweep,
       AgentReturns, WakePart, ModelCreated, WakeUp, Tick, HeldEntries
  <2>4. ASSUME NEW k \in Skills, TakeForPrompt(k)
        PROVE  \A h \in HeldEntries' : h \in HeldEntries \/ agents[h.key] = h.entry
    BY <2>4 DEF TakeForPrompt, HeldEntries
  <2>5. CASE CheckPromptDir \/ StartPrompt \/ PromptReturns
    BY <2>5 DEF CheckPromptDir, StartPrompt, PromptReturns, HeldEntries, CacheTypeOK,
       LoopTypeOK, Prompted, AtPrompt
  <2> QED
    BY <2>1, <2>2, <2>3, <2>4, <2>5 DEF LoopOnly, SweepPart, PromptPart
<1> QED
  BY <1>1, <1>2 DEF HeldIsCurrent, CachedDirs, CachedKeys

LEMMA HeldIsCurrentStep ==
  CacheTypeOK /\ HeldIsCurrent /\ [CacheNext]_cacheVars => HeldIsCurrent'
<1> SUFFICES ASSUME CacheTypeOK, HeldIsCurrent, [CacheNext]_cacheVars
             PROVE  HeldIsCurrent'
  OBVIOUS
<1>1. CASE ReconcilerOnly
  BY <1>1, NoDirComesBack, ReconcilerKeepsHeld
<1>2. CASE LoopOnly
  BY <1>2, LoopKeepsHeld
<1>3. CASE StopPart
  BY <1>3 DEF StopPart, StopLoop, CleanupAll, reconcilerVars, HeldIsCurrent, HeldEntries,
     CachedDirs, CachedKeys
<1>4. CASE Restart
  BY <1>4 DEF Restart, HeldIsCurrent, HeldEntries
<1> QED
  BY <1>1, <1>2, <1>3, <1>4, CacheSteps

\* An entry that passes os.Stat, in a sweep or in RunWithPrompt, is the one in
\* the map at that moment, however long ago it was taken from it: the check
\* that the directory exists is also a check that nothing has superseded it.
\* (What is replaced or dropped between the check and the start is started.)
THEOREM OnlyCurrentPassCorrect == CacheSpec => OnlyCurrentAgentsPass
<1> DEFINE Current ==
      /\ loop = "check" /\ loop' = "start" => agents[current.key] = current.entry
      /\ AtPrompt("check") /\ AtPrompt("start")' =>
           agents[prompted.held.key] = prompted.held.entry
<1>1. CacheInit => HeldIsCurrent
  BY DEF CacheInit, Init, LoopInit, HeldIsCurrent, HeldEntries
<1>2. CacheTypeOK /\ HeldIsCurrent /\ [CacheNext]_cacheVars => [Current]_cacheVars
  <2> SUFFICES ASSUME CacheTypeOK, HeldIsCurrent, [CacheNext]_cacheVars
               PROVE  Current
    OBVIOUS
  <2>1. CASE ReconcilerOnly
    BY <2>1 DEF ReconcilerOnly, loopVars, AtPrompt
  <2>2. CASE CheckSkillDir
    <3>1. loop' = "start" => current.entry.dir \in dirs
      BY <2>2 DEF CheckSkillDir, BackToSweep
    <3>2. current.entry.dir \in dirs => agents[current.key] = current.entry
      BY <2>2 DEF CheckSkillDir, CacheTypeOK, LoopTypeOK, RunSteps, HeldIsCurrent, HeldEntries
    <3>3. prompted' = prompted
      BY <2>2 DEF CheckSkillDir
    <3> QED
      BY <3>1, <3>2, <3>3 DEF AtPrompt
  <2>3. CASE CheckPromptDir
    <3>1. CASE prompted.held.entry.dir \in dirs
      BY <2>3, <3>1 DEF CheckPromptDir, AtPrompt, HeldIsCurrent, HeldEntries
    <3>2. CASE prompted.held.entry.dir \notin dirs
      BY <2>3, <3>2 DEF CheckPromptDir, AtPrompt
    <3> QED
      BY <3>1, <3>2
  <2>4. CASE LoopOnly /\ ~CheckPromptDir /\ ~CheckSkillDir
    BY <2>4 DEF LoopOnly, SweepPart, WakePart, PromptPart, Snapshot, SkipAgent, AgentIsDue,
       StartAgent, SessionFails, BackToSweep, EndSweep, AgentReturns, ModelCreated, WakeUp,
       Tick, TakeForPrompt, StartPrompt, PromptReturns, AtPrompt
  <2>5. CASE StopPart \/ Restart
    BY <2>5 DEF StopPart, StopLoop, Restart, AtPrompt
  <2> QED
    BY <2>1, <2>2, <2>3, <2>4, <2>5, CacheSteps
<1> QED
  BY <1>1, <1>2, HeldIsCurrentStep, CacheTypeCorrect, PTL DEF CacheSpec, OnlyCurrentAgentsPass

\* An agent whose files are gone (RunningAgentHasFiles, which TLC refutes) has
\* been replaced or dropped since it was started: while it is the one in the
\* map, nothing takes its files.
THEOREM OnlySupersededLoseFiles ==
  CacheSpec => [](loop # "stopped" =>
    \A h \in HeldEntries : agents[h.key] = h.entry => h.entry.dir \in dirs)
<1>1. CacheTypeOK /\ DirsOwnedUntilStopped =>
        (loop # "stopped" =>
           \A h \in HeldEntries : agents[h.key] = h.entry => h.entry.dir \in dirs)
  <2> SUFFICES ASSUME CacheTypeOK, DirsOwned, NEW h \in HeldEntries, agents[h.key] = h.entry
               PROVE  h.entry.dir \in dirs
    BY DEF DirsOwnedUntilStopped
  <2>1. h.key \in Skills /\ h.entry \in AgentEntry
    BY HeldType DEF Held
  <2>2. h.key \in CachedKeys
    BY <2>1, NamesAssumption DEF CachedKeys, Cached
  <2>3. agents[h.key].dir \in CachedDirs
    BY <2>2 DEF CachedDirs
  <2> QED
    BY <2>3 DEF DirsOwned
<1> QED
  BY <1>1, CacheTypeCorrect, CacheDirsCorrect, PTL

-----------------------------------------------------------------------------
\* Also with the loop, shutdowns and restarts, no agent replaces one that was
\* built from a later version of the same ConfigMap.
THEOREM CacheVersionsCorrect == CacheSpec => VersionsDoNotGoBack
<1>1. CacheInit => VersionsSeen
  BY DEF CacheInit, Init, RegistryInit, VersionsSeen, CachedKeys
<1>2. CacheTypeOK /\ VersionsSeen /\ [CacheNext]_cacheVars => VersionsSeen'
  <2> SUFFICES ASSUME CacheTypeOK, VersionsSeen, [CacheNext]_cacheVars
               PROVE  VersionsSeen'
    OBVIOUS
  <2>1. CASE ReconcilerOnly
    BY <2>1, VersionsStep DEF ReconcilerOnly, CacheTypeOK
  <2>2. CASE LoopOnly \/ StopPart
    <3>1. UNCHANGED <<agents, work, cm>>
      BY <2>2 DEF LoopOnly, StopPart, StopLoop, CleanupAll, reconcilerVars
    <3> QED
      BY <3>1 DEF VersionsSeen, Seen, NotOlder, CachedKeys
  <2>3. CASE Restart
    BY <2>3 DEF Restart, VersionsSeen, CachedKeys
  <2> QED
    BY <2>1, <2>2, <2>3, CacheSteps
<1>3. CacheTypeOK /\ VersionsSeen /\ [CacheNext]_cacheVars =>
        [\A s \in Skills : Cached(s) /\ Cached(s)' =>
           /\ NotOlder(agents[s].rv, agents'[s].rv)
           /\ NotOlder(agents[s].mcpRV, agents'[s].mcpRV)]_vars
  <2> SUFFICES ASSUME CacheTypeOK, VersionsSeen, [CacheNext]_cacheVars,
                      NEW s \in Skills, Cached(s), Cached(s)'
               PROVE  /\ NotOlder(agents[s].rv, agents'[s].rv)
                      /\ NotOlder(agents[s].mcpRV, agents'[s].mcpRV)
    OBVIOUS
  <2>3. CASE ReconcilerOnly
    BY <2>3, ReplacedByNewer DEF ReconcilerOnly, CacheTypeOK
  <2>1. CASE agents' = agents
    BY <2>1, NotOlderThanItself DEF CacheTypeOK
  <2>2. CASE Restart
    BY <2>2 DEF Restart
  <2> QED
    BY <2>1, <2>2, <2>3, CacheSteps DEF LoopOnly, StopPart, StopLoop, CleanupAll
<1> QED
  BY <1>1, <1>2, <1>3, CacheTypeCorrect, PTL DEF CacheSpec, VersionsDoNotGoBack
=============================================================================
