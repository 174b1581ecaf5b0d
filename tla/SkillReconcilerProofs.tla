----------------------- MODULE SkillReconcilerProofs -----------------------
(***************************************************************************)
(* Theorems about SkillReconciler, for every set of Skills, ConfigMaps and *)
(* specs and every value of the bounds.                                    *)
(***************************************************************************)
EXTENDS SkillReconciler, TLAPS

USE DEF At, Done, Retry, Cached

-----------------------------------------------------------------------------
(* Lemmas about the operators.                                             *)

\* A version read from a ConfigMap that exists is a resource version.
LEMMA RVOfType ==
  ASSUME TypeOK, NEW c \in ConfigMaps, cm[c].live
  PROVE  RVOf(c) \in RV /\ RVOf(c) # NoRV
BY NamesAssumption, BoundsAssumption DEF TypeOK, RVOf, RV, ConfigMap

\* So is the version of the MCP ConfigMap, when a Skill names one.
LEMMA MCPRVOfType ==
  ASSUME TypeOK, NEW ref \in ConfigMaps \cup {NoRef},
         ref # NoRef => cm[ref].live
  PROVE  MCPRVOf(ref) \in RV \cup {NoRV}
BY RVOfType DEF MCPRVOf

\* The entry BuildAgent registers is an agent entry.
LEMMA BuiltEntryType ==
  ASSUME TypeOK, At("build")
  PROVE  /\ BuiltEntry \in AgentEntry
         /\ BuiltEntry.dir = work.dir
         /\ BuiltEntry # NoEntry
<1>1. /\ work \in Request
      /\ work.rv # NoRV
      /\ work.dir # NoDir
  BY DEF TypeOK
<1>2. work.spec.ival \in Intervals
  BY <1>1 DEF Request, SkillSpec
<1>3. BuiltEntry \in AgentEntry
  BY <1>1, <1>2 DEF BuiltEntry, AgentEntry, Request
<1> QED
  BY <1>3, NamesAssumption DEF BuiltEntry

-----------------------------------------------------------------------------
(* Type correctness.                                                       *)

\* Every step keeps the types.
LEMMA TypeStep == TypeOK /\ [Next]_vars => TypeOK'
<1> SUFFICES ASSUME TypeOK, [Next]_vars
             PROVE  TypeOK'
  OBVIOUS
<1> USE DEF TypeOK, RegistryTypeOK
<1>1. ASSUME NEW s \in Skills, SkillChanges(s)
      PROVE  TypeOK'
  BY <1>1, SpecsAssumption DEF SkillChanges, registryVars
<1>2. ASSUME NEW c \in ConfigMaps, ConfigMapWritten(c)
      PROVE  TypeOK'
  BY <1>2, BoundsAssumption DEF ConfigMapWritten, ConfigMap, registryVars
<1>3. ASSUME NEW c \in ConfigMaps, ConfigMapDeleted(c)
      PROVE  TypeOK'
  BY <1>3 DEF ConfigMapDeleted, ConfigMap, registryVars
<1>4. ASSUME NEW s \in Skills, HandleSkillEvent(s) \/ HandleAdvisoryEvent(s)
      PROVE  TypeOK'
  BY <1>4 DEF HandleSkillEvent, HandleAdvisoryEvent, registryVars, clusterVars
<1>5. ASSUME NEW c \in ConfigMaps, HandleConfigMapEvent(c)
      PROVE  TypeOK'
  BY <1>5 DEF HandleConfigMapEvent, findObjectsForConfigMap, registryVars, clusterVars
<1>6. ASSUME NEW s \in Skills, ReconcileDeleted(s)
      PROVE  TypeOK'
  BY <1>6 DEF ReconcileDeleted, Deregister, DirsWithout, clusterVars
<1>7. ASSUME NEW s \in Skills, ReconcileSkill(s)
      PROVE  TypeOK'
  <2>1. /\ work'.step = "config"
        /\ work' \in Request
    BY <1>7 DEF ReconcileSkill, Request
  <2> QED
    BY <1>7, <2>1 DEF ReconcileSkill, registryVars, clusterVars
<1>8. CASE GetConfigMap
  <2>1. work \in Request /\ work.spec.cfg \in ConfigMaps /\ work.key \in Skills
    BY <1>8 DEF GetConfigMap, Request, SkillSpec
  <2>2. CASE cm[work.spec.cfg].live
    <3>1. RVOf(work.spec.cfg) \in RV /\ RVOf(work.spec.cfg) # NoRV
      BY <2>1, <2>2, RVOfType
    <3>2. work' = [work EXCEPT !.step = "mcp", !.rv = RVOf(work.spec.cfg)]
      BY <1>8, <2>2 DEF GetConfigMap
    <3>3. work' \in Request /\ work'.step = "mcp" /\ work'.rv # NoRV
      BY <2>1, <3>1, <3>2 DEF Request
    <3> QED
      BY <1>8, <2>2, <3>3 DEF GetConfigMap, registryVars, clusterVars
  <2>3. CASE ~cm[work.spec.cfg].live
    BY <1>8, <2>1, <2>3 DEF GetConfigMap, registryVars, clusterVars
  <2> QED
    BY <2>2, <2>3
<1>9. CASE MCPConfigMapMissing
  BY <1>9 DEF MCPConfigMapMissing, Request, registryVars, clusterVars
<1>10. CASE KeepAgent
  BY <1>10 DEF KeepAgent, MCPConfigMapRead, Notify, Request, registryVars, clusterVars
<1>11. ASSUME NEW d \in Dirs, MakeSkillDir(d)
       PROVE  TypeOK'
  <2>1. work \in Request /\ work.step = "mcp" /\ work.rv # NoRV
    BY <1>11 DEF MakeSkillDir, MCPConfigMapRead
  <2>2. MCPRVOf(work.spec.mcp) \in RV \cup {NoRV}
    BY <1>11, <2>1, MCPRVOfType DEF MakeSkillDir, MCPConfigMapRead, Request, SkillSpec
  <2>3. work' \in Request /\ work'.rv # NoRV /\ work'.dir # NoDir
    BY <1>11, <2>1, <2>2, NamesAssumption DEF MakeSkillDir, Request
  <2> QED
    BY <1>11, <2>3 DEF MakeSkillDir, clusterVars
<1>12. CASE MkdirFails \/ BuildFails
  BY <1>12 DEF MkdirFails, MCPConfigMapRead, BuildFails, Request, registryVars, clusterVars
<1>13. CASE BuildAgent
  <2>1. BuiltEntry \in AgentEntry /\ work.key \in Skills
    BY <1>13, BuiltEntryType DEF BuildAgent, Request
  <2> QED
    BY <1>13, <2>1 DEF BuildAgent, Register, DirsWithout, clusterVars
<1>14. CASE UNCHANGED vars
  BY <1>14 DEF vars, registryVars, reconcilerVars
<1> QED
  BY <1>1, <1>2, <1>3, <1>4, <1>5, <1>6, <1>7, <1>8, <1>9, <1>10, <1>11, <1>12,
     <1>13, <1>14
     DEF Next, ClusterStep, ReconcilerStep, HandlerStep, TakeRequest, WorkStep

\* Every initial state has the types.
LEMMA InitType == Init => TypeOK
<1> SUFFICES ASSUME Init PROVE TypeOK
  OBVIOUS
<1>1. RegistryTypeOK
  BY DEF Init, RegistryInit, RegistryTypeOK
<1>2. skill \in [Skills -> SkillSpec \cup {Absent}]
  BY SpecsAssumption DEF Init
<1>3. /\ cm \in [ConfigMaps -> ConfigMap]
      /\ \A c \in ConfigMaps : cm[c].live => cm[c].n > 0
  BY BoundsAssumption DEF Init, ConfigMap
<1>4. /\ events \subseteq Skills \cup ConfigMaps
      /\ queue \subseteq Skills
      /\ work = Idle
  BY DEF Init
<1> QED
  BY <1>1, <1>2, <1>3, <1>4 DEF TypeOK

\* The variables keep their types: in particular a registered agent always
\* has a directory and the version of a ConfigMap that existed.
THEOREM TypeCorrect == Spec => []TypeOK
BY InitType, TypeStep, PTL DEF Spec

-----------------------------------------------------------------------------
(* Directories.                                                            *)

\* Replacing or forgetting the entry of k leaves the directories of the
\* other entries alone.
LEMMA OtherDirsStay ==
  ASSUME TypeOK, DirsOwned, NEW k \in Skills, NEW j \in Skills, j # k, Cached(j)
  PROVE  agents[j].dir \in DirsWithout(k)
BY DEF DirsOwned, DirsWithout, CachedDirs, CachedKeys

\* Every step keeps each cached agent's directory on disk and its own.
LEMMA DirsStep == TypeOK /\ DirsOwned /\ [Next]_vars => DirsOwned'
<1> SUFFICES ASSUME TypeOK, DirsOwned, [Next]_vars
             PROVE  DirsOwned'
  OBVIOUS
<1>1. CASE UNCHANGED <<agents, dirs, work>>
  BY <1>1 DEF DirsOwned, CachedDirs, CachedKeys
<1>2. CASE UNCHANGED <<agents, dirs>> /\ (work' = Idle \/ work'.step # "build")
  BY <1>2 DEF DirsOwned, CachedDirs, CachedKeys
<1>3. ASSUME NEW s \in Skills, ReconcileDeleted(s)
      PROVE  DirsOwned'
  <2>1. /\ work = Idle /\ work' = Idle
        /\ dirs' = DirsWithout(s)
        /\ agents' = [agents EXCEPT ![s] = NoEntry]
    BY <1>3 DEF ReconcileDeleted, Deregister
  <2>2. \A j \in Skills : Cached(j)' => j # s /\ Cached(j) /\ agents'[j] = agents[j]
    BY <2>1 DEF TypeOK, RegistryTypeOK
  <2>3. \A j \in Skills : Cached(j)' => agents'[j].dir \in dirs'
    BY <2>1, <2>2, OtherDirsStay
  <2> QED
    BY <2>1, <2>2, <2>3 DEF DirsOwned, CachedDirs, CachedKeys
<1>4. ASSUME NEW d \in Dirs, MakeSkillDir(d)
      PROVE  DirsOwned'
  <2>1. /\ work \in Request
        /\ d \notin CachedDirs
        /\ dirs' = dirs \cup {d}
        /\ agents' = agents
        /\ work' = [work EXCEPT !.step = "build", !.dir = d,
                               !.mcpRV = MCPRVOf(work.spec.mcp)]
    BY <1>4 DEF MakeSkillDir, MCPConfigMapRead, TypeOK
  <2>2. work'.dir = d
    BY <2>1 DEF Request
  <2> QED
    BY <2>1, <2>2 DEF DirsOwned, CachedDirs, CachedKeys
<1>5. CASE BuildAgent
  <2> DEFINE k == work.key
             e == BuiltEntry
  <2>1. /\ k \in Skills /\ e \in AgentEntry /\ e # NoEntry /\ e.dir = work.dir
        /\ work.dir \in dirs /\ work.dir \notin CachedDirs
    BY <1>5, BuiltEntryType DEF BuildAgent, TypeOK, Request, DirsOwned
  <2>2. /\ agents' = [agents EXCEPT ![k] = e]
        /\ work' = Idle
        /\ dirs' = DirsWithout(k)
    BY <1>5, <2>1 DEF BuildAgent, Register, CachedDirs, CachedKeys, DirsWithout
  <2>3. /\ agents'[k] = e
        /\ \A j \in Skills : j # k => agents'[j] = agents[j]
    BY <2>1, <2>2 DEF TypeOK, RegistryTypeOK
  <2>4. e.dir \in dirs'
    BY <2>1, <2>2 DEF DirsWithout, CachedDirs, CachedKeys
  <2>5. \A j \in Skills : Cached(j)' => agents'[j].dir \in dirs'
    BY <2>1, <2>2, <2>3, <2>4, OtherDirsStay
  <2>6. \A j \in Skills : Cached(j) => agents[j].dir # e.dir
    BY <2>1 DEF CachedDirs, CachedKeys
  <2>7. \A i, j \in Skills :
          Cached(i)' /\ Cached(j)' /\ agents'[i].dir = agents'[j].dir => i = j
    BY <2>3, <2>6 DEF DirsOwned, CachedKeys
  <2> QED
    BY <2>2, <2>5, <2>7 DEF DirsOwned, CachedDirs, CachedKeys
<1> QED
  <2>1. CASE ClusterStep
    BY <1>1, <2>1 DEF ClusterStep, SkillChanges, ConfigMapWritten, ConfigMapDeleted, registryVars
  <2>2. CASE HandlerStep \/ \E s \in Skills : HandleAdvisoryEvent(s)
    BY <1>1, <2>2 DEF HandlerStep, HandleSkillEvent, HandleConfigMapEvent,
                     HandleAdvisoryEvent, registryVars
  <2>3. CASE \E s \in Skills : ReconcileSkill(s)
    BY <1>2, <2>3 DEF ReconcileSkill, registryVars
  <2>4. CASE GetConfigMap
    <3>1. work \in Request
      BY <2>4 DEF GetConfigMap, TypeOK
    <3> QED
      BY <1>2, <2>4, <3>1 DEF GetConfigMap, Request, registryVars
  <2>5. CASE MCPConfigMapMissing \/ MkdirFails \/ BuildFails
    BY <1>2, <2>5 DEF MCPConfigMapMissing, MkdirFails, BuildFails, registryVars
  <2>6. CASE KeepAgent
    BY <1>2, <2>6 DEF KeepAgent, Notify, registryVars
  <2>7. CASE UNCHANGED vars
    BY <1>1, <2>7 DEF vars, registryVars, reconcilerVars
  <2> QED
    BY <1>3, <1>4, <1>5, <2>1, <2>2, <2>3, <2>4, <2>5, <2>6, <2>7
       DEF Next, ReconcilerStep, TakeRequest, WorkStep

\* The directory of a cached agent exists and is its own: no failed, repeated
\* or superseded build ever removes or shares the files of a live agent.
THEOREM DirsCorrect == Spec => []DirsOwned
<1>1. Init => DirsOwned
  BY DEF Init, RegistryInit, DirsOwned, CachedDirs, CachedKeys
<1> QED
  BY <1>1, DirsStep, TypeCorrect, PTL DEF Spec

-----------------------------------------------------------------------------
(* No change is lost.                                                      *)

\* A reconcile that is to come stays to come until the worker takes the key.
LEMMA PendingStays ==
  ASSUME TypeOK, [Next]_vars, NEW s \in Skills, Pending(s), ~TakeRequest(s)
  PROVE  Pending(s)'
<1> USE NamesAssumption DEF Pending, findObjectsForConfigMap, registryVars, clusterVars
<1>1. ASSUME NEW x \in Skills, SkillChanges(x)
      PROVE  Pending(s)'
  <2>1. CASE x = s
    BY <1>1, <2>1 DEF SkillChanges
  <2>2. CASE x # s
    <3>1. skill'[s] = skill[s] /\ events \subseteq events' /\ queue' = queue
      BY <1>1, <2>2 DEF SkillChanges, TypeOK
    <3> QED
      BY <3>1
  <2> QED
    BY <2>1, <2>2
<1>2. ASSUME NEW c \in ConfigMaps, ConfigMapWritten(c) \/ ConfigMapDeleted(c)
      PROVE  Pending(s)'
  BY <1>2 DEF ConfigMapWritten, ConfigMapDeleted
<1>3. ASSUME NEW x \in Skills, HandleSkillEvent(x) \/ HandleAdvisoryEvent(x)
      PROVE  Pending(s)'
  BY <1>3 DEF HandleSkillEvent, HandleAdvisoryEvent
<1>4. ASSUME NEW c \in ConfigMaps, HandleConfigMapEvent(c)
      PROVE  Pending(s)'
  BY <1>4 DEF HandleConfigMapEvent
<1>5. ASSUME NEW x \in Skills, TakeRequest(x)
      PROVE  Pending(s)'
  <2>1. x # s
    BY <1>5
  <2>2. queue' = queue \ {x} /\ events' = events /\ skill' = skill
    BY <1>5 DEF TakeRequest, ReconcileDeleted, ReconcileSkill
  <2> QED
    BY <2>1, <2>2
<1>6. CASE WorkStep
  <2>1. queue \subseteq queue' /\ events' = events /\ skill' = skill
    BY <1>6 DEF WorkStep, GetConfigMap, MCPConfigMapMissing, KeepAgent,
                MakeSkillDir, MkdirFails, BuildFails, BuildAgent
  <2> QED
    BY <2>1
<1>7. CASE UNCHANGED vars
  BY <1>7 DEF vars, reconcilerVars
<1> QED
  BY <1>1, <1>2, <1>3, <1>4, <1>5, <1>6, <1>7
     DEF Next, ClusterStep, ReconcilerStep, HandlerStep

\* What a reconcile of s would read is the same after the step.
Unaffected(s) ==
  /\ skill'[s] = skill[s]
  /\ skill[s] # Absent =>
       /\ cm'[skill[s].cfg] = cm[skill[s].cfg]
       /\ skill[s].mcp # NoRef => cm'[skill[s].mcp] = cm[skill[s].mcp]

\* A change that matters to s leads to a reconcile of s.
LEMMA ChangeIsNoticed ==
  ASSUME TypeOK, [Next]_vars, NEW s \in Skills
  PROVE  Unaffected(s) \/ Pending(s)'
<1>1. ASSUME NEW x \in Skills, SkillChanges(x)
      PROVE  Unaffected(s) \/ Pending(s)'
  BY <1>1 DEF SkillChanges, Unaffected, Pending, TypeOK
<1>2. ASSUME NEW c \in ConfigMaps, ConfigMapWritten(c) \/ ConfigMapDeleted(c)
      PROVE  Unaffected(s) \/ Pending(s)'
  <2>1. /\ skill' = skill
        /\ c \in events'
        /\ \A b \in ConfigMaps : b # c => cm'[b] = cm[b]
    BY <1>2 DEF ConfigMapWritten, ConfigMapDeleted, TypeOK
  <2>2. CASE skill[s] = Absent
    BY <2>1, <2>2 DEF Unaffected
  <2>3. CASE skill[s] # Absent
    <3>1. skill[s].cfg \in ConfigMaps /\ skill[s].mcp \in ConfigMaps \cup {NoRef}
      BY <2>3 DEF TypeOK, SkillSpec
    <3>2. CASE c \in {skill[s].cfg, skill[s].mcp}
      BY <2>1, <2>3, <3>2 DEF Pending, findObjectsForConfigMap
    <3>3. CASE c \notin {skill[s].cfg, skill[s].mcp}
      BY <2>1, <3>1, <3>3 DEF Unaffected
    <3> QED
      BY <3>2, <3>3
  <2> QED
    BY <2>2, <2>3
<1>3. CASE ReconcilerStep \/ UNCHANGED vars
  BY <1>3 DEF ReconcilerStep, HandlerStep, HandleSkillEvent, HandleConfigMapEvent,
     HandleAdvisoryEvent, TakeRequest, ReconcileDeleted, ReconcileSkill, WorkStep,
     GetConfigMap, MCPConfigMapMissing, KeepAgent, MakeSkillDir, MkdirFails, BuildFails,
     BuildAgent, Unaffected, clusterVars, vars, reconcilerVars
<1> QED
  BY <1>1, <1>2, <1>3 DEF Next, ClusterStep

\* A request that goes on, goes on for the same Skill and from the same copy.
LEMMA RequestGoesOn ==
  ASSUME TypeOK, [Next]_vars, work # Idle, work' # Idle
  PROVE  /\ work'.key = work.key /\ work'.spec = work.spec
         /\ work' = work \/ GetConfigMap \/ \E d \in Dirs : MakeSkillDir(d)
         /\ \A s \in Skills : ~TakeRequest(s)
<1>1. \A s \in Skills : ~TakeRequest(s)
  BY DEF TakeRequest, ReconcileDeleted, ReconcileSkill
<1>2. work \in Request
  BY DEF TypeOK
<1>3. CASE GetConfigMap
  BY <1>1, <1>2, <1>3 DEF GetConfigMap, Request
<1>4. CASE \E d \in Dirs : MakeSkillDir(d)
  BY <1>1, <1>2, <1>4 DEF MakeSkillDir, Request
<1>5. CASE work' = work
  BY <1>1, <1>5
<1>6. CASE MCPConfigMapMissing \/ KeepAgent \/ MkdirFails \/ BuildFails \/ BuildAgent
  BY <1>6 DEF MCPConfigMapMissing, KeepAgent, MkdirFails, BuildFails, BuildAgent
<1> QED
  BY <1>1, <1>3, <1>4, <1>5, <1>6
     DEF Next, ClusterStep, ReconcilerStep, HandlerStep, WorkStep, SkillChanges,
         ConfigMapWritten, ConfigMapDeleted, HandleSkillEvent, HandleConfigMapEvent,
         HandleAdvisoryEvent, vars, reconcilerVars

\* Every step keeps a stale request followed by another.
LEMMA StaleWorkStep ==
  TypeOK /\ StaleWorkIsRepeated /\ [Next]_vars => StaleWorkIsRepeated'
<1> SUFFICES ASSUME TypeOK, StaleWorkIsRepeated, [Next]_vars, (work # Idle)'
             PROVE  \/ Pending(work.key)'
                    \/ ( /\ skill[work.key] = work.spec
                         /\ work.step # "config" =>
                              cm[work.spec.cfg].live /\ work.rv = RVOf(work.spec.cfg)
                         /\ work.step = "build" =>
                              /\ work.spec.mcp # NoRef => cm[work.spec.mcp].live
                              /\ work.mcpRV = MCPRVOf(work.spec.mcp) )'
  BY DEF StaleWorkIsRepeated
<1>1. CASE work = Idle
  <2>1. PICK s \in Skills : ReconcileSkill(s)
    BY <1>1 DEF Next, ClusterStep, ReconcilerStep, HandlerStep, TakeRequest, WorkStep,
       SkillChanges, ConfigMapWritten, ConfigMapDeleted, HandleSkillEvent,
       HandleConfigMapEvent, HandleAdvisoryEvent, ReconcileDeleted, GetConfigMap,
       MCPConfigMapMissing, MCPConfigMapRead, KeepAgent, MakeSkillDir, MkdirFails, BuildFails,
       BuildAgent, vars, reconcilerVars
  <2> QED
    BY <2>1 DEF ReconcileSkill, clusterVars
<1>2. CASE work # Idle
  <2>0. PICK k \in Skills : k = work.key
    BY <1>2 DEF TypeOK, Request
  <2>1. /\ work'.key = k /\ work'.spec = work.spec
        /\ work' = work \/ GetConfigMap \/ \E d \in Dirs : MakeSkillDir(d)
        /\ ~TakeRequest(k)
    BY <1>2, <2>0, RequestGoesOn
  <2>2. work \in Request
    BY <1>2 DEF TypeOK, Request
  <2>3. CASE Pending(k)
    BY <2>1, <2>3, PendingStays DEF Pending, findObjectsForConfigMap
  <2>4. CASE Pending(k)'
    BY <2>1, <2>4 DEF Pending, findObjectsForConfigMap
  <2>5. CASE ~Pending(k) /\ ~Pending(k)'
    <3>1. /\ skill[k] = work.spec
          /\ work.step # "config" =>
               cm[work.spec.cfg].live /\ work.rv = RVOf(work.spec.cfg)
          /\ work.step = "build" =>
               /\ work.spec.mcp # NoRef => cm[work.spec.mcp].live
               /\ work.mcpRV = MCPRVOf(work.spec.mcp)
      BY <1>2, <2>0, <2>5 DEF StaleWorkIsRepeated
    <3>2. Unaffected(k)
      BY <2>5, ChangeIsNoticed
    <3>3. /\ skill'[k] = work.spec
          /\ work.spec # Absent
          /\ cm'[work.spec.cfg] = cm[work.spec.cfg]
          /\ work.spec.mcp # NoRef => cm'[work.spec.mcp] = cm[work.spec.mcp]
      BY <2>2, <3>1, <3>2, NamesAssumption DEF Unaffected, Request
    <3>4. /\ RVOf(work.spec.cfg)' = <<work'.spec.cfg, cm'[work'.spec.cfg].n>>
          /\ MCPRVOf(work.spec.mcp)' = IF work'.spec.mcp = NoRef THEN NoRV
                                        ELSE <<work'.spec.mcp, cm'[work'.spec.mcp].n>>
      BY DEF RVOf, MCPRVOf
    <3>5. CASE work' = work
      BY <2>1, <3>1, <3>3, <3>4, <3>5 DEF RVOf, MCPRVOf
    <3>6. CASE GetConfigMap
      <4>1. /\ cm[work.spec.cfg].live
            /\ work'.step = "mcp"
            /\ work'.rv = RVOf(work.spec.cfg)
        BY <2>2, <3>6 DEF GetConfigMap, Request
      <4> QED
        BY <2>1, <3>3, <3>4, <4>1 DEF RVOf
    <3>7. ASSUME NEW d \in Dirs, MakeSkillDir(d)
          PROVE  /\ work'.step = "build"
                 /\ work'.rv = work.rv
                 /\ work'.mcpRV = MCPRVOf(work.spec.mcp)
                 /\ work.step = "mcp"
                 /\ work.spec.mcp # NoRef => cm[work.spec.mcp].live
      BY <2>2, <3>7 DEF MakeSkillDir, MCPConfigMapRead, Request
    <3>8. CASE \E d \in Dirs : MakeSkillDir(d)
      BY <2>1, <3>1, <3>3, <3>4, <3>7, <3>8 DEF RVOf, MCPRVOf
    <3> QED
      BY <2>1, <3>5, <3>6, <3>8
  <2> QED
    BY <2>3, <2>4, <2>5
<1> QED
  BY <1>1, <1>2

\* The entry of a Skill is only touched by the worker, for the key it is in.
LEMMA OthersKeepTheirAgent ==
  ASSUME TypeOK, [Next]_vars, NEW s \in Skills, ~TakeRequest(s),
         ~(BuildAgent /\ work.key = s)
  PROVE  agents'[s] = agents[s]
<1>1. CASE UNCHANGED agents
  BY <1>1
<1>2. ASSUME NEW x \in Skills, ReconcileDeleted(x)
      PROVE  agents'[s] = agents[s]
  BY <1>2 DEF TakeRequest, ReconcileDeleted, Deregister, TypeOK, RegistryTypeOK
<1>3. CASE BuildAgent
  BY <1>3 DEF BuildAgent, Register, TypeOK, RegistryTypeOK
<1> QED
  BY <1>1, <1>2, <1>3
     DEF Next, ClusterStep, ReconcilerStep, HandlerStep, WorkStep, SkillChanges,
         ConfigMapWritten, ConfigMapDeleted, HandleSkillEvent, HandleConfigMapEvent,
         HandleAdvisoryEvent, TakeRequest, ReconcileSkill, GetConfigMap,
         MCPConfigMapMissing, KeepAgent, Notify, MakeSkillDir, MkdirFails, BuildFails, vars,
         registryVars, reconcilerVars

\* A reconcile that keeps or builds the agent, from a copy that is not stale,
\* leaves the Skill settled.
LEMMA ReconcileSettles ==
  ASSUME TypeOK, StaleWorkIsRepeated, NEW k \in Skills, work.key = k,
         KeepAgent \/ BuildAgent, ~Pending(k)
  PROVE  Settled(k)'
<1>1. /\ work # Idle /\ work \in Request
      /\ skill' = skill /\ cm' = cm
  BY DEF KeepAgent, MCPConfigMapRead, BuildAgent, TypeOK, Request, clusterVars
<1>2. /\ skill[k] = work.spec /\ skill[k] # Absent
      /\ work.step # "config"
      /\ cm[work.spec.cfg].live /\ work.rv = RVOf(work.spec.cfg)
      /\ work.step = "build" =>
           /\ work.spec.mcp # NoRef => cm[work.spec.mcp].live
           /\ work.mcpRV = MCPRVOf(work.spec.mcp)
  BY <1>1, NamesAssumption
     DEF KeepAgent, MCPConfigMapRead, BuildAgent, StaleWorkIsRepeated, Request
<1>3. /\ work.spec.mcp # NoRef => cm[work.spec.mcp].live
      /\ agents'[k] # NoEntry
      /\ agents'[k].rv = work.rv
      /\ agents'[k].mcpRV = MCPRVOf(work.spec.mcp)
  <2>1. CASE KeepAgent
    BY <2>1, <1>1 DEF KeepAgent, MCPConfigMapRead, isAgentCacheValid, Notify, registryVars
  <2>2. CASE BuildAgent
    <3>1. agents'[k] = BuiltEntry
      BY <1>1, <2>2 DEF BuildAgent, Register, TypeOK, RegistryTypeOK
    <3>2. BuiltEntry # NoEntry
      BY <2>2, BuiltEntryType DEF BuildAgent
    <3> QED
      BY <1>2, <2>2, <3>1, <3>2 DEF BuildAgent, BuiltEntry
  <2> QED
    BY <2>1, <2>2
<1> QED
  BY <1>1, <1>2, <1>3 DEF Settled, Resolvable, RVOf, MCPRVOf

\* A step that does not touch what s is built from, nor its entry, leaves a
\* settled Skill settled.
LEMMA SettledStays ==
  ASSUME TypeOK, NEW s \in Skills, Settled(s), Unaffected(s), agents'[s] = agents[s]
  PROVE  Settled(s)'
<1>1. skill[s] \in SkillSpec \cup {Absent}
  BY DEF TypeOK
<1> QED
  BY <1>1 DEF Settled, Resolvable, Unaffected, RVOf, MCPRVOf, SkillSpec

\* Every step keeps a reconcile pending or running for a Skill that is not
\* settled.
LEMMA NoLostChangeStep ==
  TypeOK /\ StaleWorkIsRepeated /\ NoLostChange /\ [Next]_vars => NoLostChange'
<1> SUFFICES ASSUME TypeOK, StaleWorkIsRepeated, NoLostChange, [Next]_vars,
                    NEW s \in Skills, ~Pending(s)'
             PROVE  Settled(s)' \/ InProgress(s)'
  BY DEF NoLostChange
<1>1. CASE ReconcileDeleted(s)
  BY <1>1 DEF ReconcileDeleted, Deregister, clusterVars, Settled, TypeOK, RegistryTypeOK
<1>2. CASE ReconcileSkill(s)
  <2>1. work'.key = s /\ work'.step = "config"
    BY <1>2 DEF ReconcileSkill
  <2>2. work' \in Request
    BY <1>2 DEF ReconcileSkill, Request, TypeOK, SkillSpec
  <2> QED
    BY <2>1, <2>2, IdleAssumption DEF InProgress
<1>3. CASE ~TakeRequest(s)
  <2>1. ~Pending(s) /\ Unaffected(s)
    BY <1>3, PendingStays, ChangeIsNoticed
  <2>2. CASE InProgress(s)
    <3>1. CASE work' # Idle
      BY <2>2, <3>1, RequestGoesOn DEF InProgress
    <3>2. CASE work' = Idle
      <4>1. KeepAgent \/ BuildAgent
        <5>1. work # Idle /\ work.key = s /\ s \notin queue'
          BY <2>2 DEF InProgress, Pending
        <5>2. ~MCPConfigMapMissing /\ ~MkdirFails /\ ~BuildFails
          BY <5>1 DEF MCPConfigMapMissing, MkdirFails, BuildFails
        <5>3. ~GetConfigMap
          <6> SUFFICES ASSUME GetConfigMap PROVE FALSE
            OBVIOUS
          <6>1. cm[work.spec.cfg].live
            BY <5>1 DEF GetConfigMap
          <6>2. work.spec.cfg \in ConfigMaps /\ work \in Request
            BY <5>1 DEF TypeOK, Request, SkillSpec
          <6>3. RVOf(work.spec.cfg) \in RV
            BY <6>1, <6>2, RVOfType
          <6>4. work' \in Request
            BY <6>1, <6>2, <6>3 DEF GetConfigMap, Request
          <6> QED
            BY <3>2, <6>4, IdleAssumption
        <5>4. \A d \in Dirs : ~MakeSkillDir(d)
          <6> SUFFICES ASSUME NEW d \in Dirs, MakeSkillDir(d) PROVE FALSE
            OBVIOUS
          <6>1. work \in Request /\ MCPRVOf(work.spec.mcp) \in RV \cup {NoRV}
            BY MCPRVOfType DEF MakeSkillDir, MCPConfigMapRead, TypeOK, Request, SkillSpec
          <6>2. work' \in Request
            BY <6>1 DEF MakeSkillDir, Request
          <6> QED
            BY <3>2, <6>2, IdleAssumption
        <5>5. WorkStep
          BY <3>2, <5>1 DEF InProgress, Next, ClusterStep, ReconcilerStep, HandlerStep,
             SkillChanges, ConfigMapWritten, ConfigMapDeleted, HandleSkillEvent,
             HandleConfigMapEvent, HandleAdvisoryEvent, TakeRequest,
             ReconcileDeleted, ReconcileSkill, vars, reconcilerVars
        <5> QED
          BY <5>2, <5>3, <5>4, <5>5 DEF WorkStep
      <4> QED
        BY <2>1, <2>2, <4>1, ReconcileSettles DEF InProgress
    <3> QED
      BY <3>1, <3>2
  <2>3. CASE ~InProgress(s)
    <3>1. Settled(s)
      BY <2>1, <2>3 DEF NoLostChange
    <3>2. ~(BuildAgent /\ work.key = s)
      BY <2>3 DEF InProgress, BuildAgent
    <3>3. agents'[s] = agents[s]
      BY <1>3, <3>2, OthersKeepTheirAgent
    <3> QED
      BY <2>1, <3>1, <3>3, SettledStays
  <2> QED
    BY <2>2, <2>3
<1> QED
  BY <1>1, <1>2, <1>3 DEF TakeRequest

\* No interleaving of the informers with a running reconcile lets it finish
\* on something it read too early: another reconcile is always to come.
THEOREM StaleWorkCorrect == Spec => []StaleWorkIsRepeated
<1>1. Init => StaleWorkIsRepeated
  BY DEF Init, StaleWorkIsRepeated
<1> QED
  BY <1>1, StaleWorkStep, TypeCorrect, PTL DEF Spec

\* The reconciler never rests on an out-of-date agent, whatever changes and
\* in whatever order the informers report it.
THEOREM NoLostChangeCorrect == Spec => []NoLostChange
<1>1. Init => NoLostChange
  BY DEF Init, RegistryInit, NoLostChange, Settled, Pending
<1> QED
  BY <1>1, NoLostChangeStep, StaleWorkCorrect, TypeCorrect, PTL DEF Spec

-----------------------------------------------------------------------------
(* Versions do not go back.                                                *)

\* Version v is one the cache holds now or has held.
Seen(v) == v # NoRV => v \in RV /\ v[2] <= cm[v[1]].n

\* What is registered, and what the request has read so far, has been in the
\* cache; and what the request has read is not older than what is registered
\* under its key.
VersionsSeen ==
  /\ \A s \in CachedKeys : Seen(agents[s].rv) /\ Seen(agents[s].mcpRV)
  /\ work # Idle =>
       /\ work.step # "config" => Seen(work.rv)
       /\ work.step = "build" => Seen(work.mcpRV)
  /\ work # Idle /\ Cached(work.key) =>
       /\ work.step # "config" => NotOlder(agents[work.key].rv, work.rv)
       /\ work.step = "build" => NotOlder(agents[work.key].mcpRV, work.mcpRV)

\* What a ConfigMap has been, it has been for ever.
LEMMA SeenStays ==
  ASSUME TypeOK, [Next]_vars
  PROVE  \A v : Seen(v) => (v # NoRV => v \in RV /\ v[2] <= cm'[v[1]].n)
<1>1. \A c \in ConfigMaps : cm[c].n <= cm'[c].n
  <2>1. ASSUME NEW b \in ConfigMaps, ConfigMapWritten(b) \/ ConfigMapDeleted(b),
               NEW c \in ConfigMaps
        PROVE  cm[c].n <= cm'[c].n
    BY <2>1, BoundsAssumption DEF ConfigMapWritten, ConfigMapDeleted, TypeOK, ConfigMap
  <2>2. CASE cm' = cm
    BY <2>2, BoundsAssumption DEF TypeOK, ConfigMap
  <2> QED
    BY <2>1, <2>2 DEF Next, ClusterStep, ReconcilerStep, HandlerStep, WorkStep, SkillChanges,
       HandleSkillEvent, HandleConfigMapEvent, HandleAdvisoryEvent, TakeRequest,
       ReconcileDeleted, ReconcileSkill, GetConfigMap, MCPConfigMapMissing, KeepAgent,
       MakeSkillDir, MkdirFails, BuildFails, BuildAgent, vars, reconcilerVars, clusterVars
<1> SUFFICES ASSUME NEW v, Seen(v), v # NoRV
             PROVE  v \in RV /\ v[2] <= cm'[v[1]].n
  OBVIOUS
<1>2. v \in RV /\ v[1] \in ConfigMaps /\ v[2] \in Nat /\ v[2] <= cm[v[1]].n
  BY BoundsAssumption DEF Seen, RV
<1>3. cm[v[1]].n \in Nat /\ cm[v[1]].n <= cm'[v[1]].n
  BY <1>1, <1>2, BoundsAssumption DEF TypeOK, ConfigMap
<1>4. TypeOK'
  BY TypeStep
<1>5. cm'[v[1]].n \in Nat
  BY <1>2, <1>4, BoundsAssumption DEF TypeOK, ConfigMap
<1> QED
  BY <1>2, <1>3, <1>5

\* The version a reconcile reads now is no older than any seen before.
LEMMA ReadIsLatest ==
  ASSUME TypeOK, NEW c \in ConfigMaps, cm[c].live
  PROVE  /\ Seen(RVOf(c))
         /\ \A v : Seen(v) => NotOlder(v, RVOf(c))
<1>1. RVOf(c) \in RV /\ RVOf(c) = <<c, cm[c].n>> /\ cm[c].n \in Nat
  BY RVOfType, BoundsAssumption DEF RVOf, TypeOK, ConfigMap
<1>2. Seen(RVOf(c))
  BY <1>1 DEF Seen
<1>3. \A v : Seen(v) => NotOlder(v, RVOf(c))
  BY <1>1 DEF Seen, NotOlder
<1> QED
  BY <1>2, <1>3

\* The same of the MCP ConfigMap, or of its absence.
LEMMA MCPReadIsLatest ==
  ASSUME TypeOK, NEW ref \in ConfigMaps \cup {NoRef}, ref # NoRef => cm[ref].live
  PROVE  /\ Seen(MCPRVOf(ref))
         /\ \A v : Seen(v) => NotOlder(v, MCPRVOf(ref))
<1>1. CASE ref = NoRef
  BY <1>1 DEF MCPRVOf, Seen, NotOlder
<1>2. CASE ref # NoRef
  BY <1>2, ReadIsLatest DEF MCPRVOf
<1> QED
  BY <1>1, <1>2

\* Every step keeps what is registered and what is read in that order.
LEMMA VersionsStep == TypeOK /\ VersionsSeen /\ [Next]_vars => VersionsSeen'
<1> SUFFICES ASSUME TypeOK, VersionsSeen, [Next]_vars
             PROVE  VersionsSeen'
  OBVIOUS
<1>1. \A v : Seen(v) => (v # NoRV => v \in RV /\ v[2] <= cm'[v[1]].n)
  BY SeenStays
<1>2. CASE UNCHANGED <<agents, work>>
  BY <1>1, <1>2 DEF VersionsSeen, Seen, NotOlder, CachedKeys
<1>3. CASE agents' = agents /\ (work' = Idle \/ work'.step = "config")
  BY <1>1, <1>3 DEF VersionsSeen, Seen, CachedKeys
<1>4. ASSUME NEW s \in Skills, ReconcileDeleted(s)
      PROVE  VersionsSeen'
  <2>1. work' = Idle /\ agents' = [agents EXCEPT ![s] = NoEntry]
    BY <1>4 DEF ReconcileDeleted, Deregister
  <2>2. \A j \in Skills : Cached(j)' => Cached(j) /\ agents'[j] = agents[j]
    BY <2>1 DEF TypeOK, RegistryTypeOK
  <2> QED
    BY <1>1, <2>1, <2>2 DEF VersionsSeen, Seen, CachedKeys
<1>5. CASE GetConfigMap /\ cm[work.spec.cfg].live
  <2> DEFINE c == work.spec.cfg
  <2>1. work \in Request /\ c \in ConfigMaps /\ work.key \in Skills
    BY <1>5 DEF GetConfigMap, TypeOK, Request, SkillSpec
  <2>2. /\ work' = [work EXCEPT !.step = "mcp", !.rv = RVOf(c)]
        /\ agents' = agents
    BY <1>5 DEF GetConfigMap, registryVars
  <2>3. work'.step = "mcp" /\ work'.rv = RVOf(c) /\ work'.key = work.key
    BY <2>1, <2>2 DEF Request
  <2>4. Seen(RVOf(c)) /\ (Cached(work.key) => NotOlder(agents[work.key].rv, RVOf(c)))
    BY <1>5, <2>1, ReadIsLatest DEF VersionsSeen, CachedKeys
  <2> HIDE DEF c
  <2> QED
    BY <1>1, <2>2, <2>3, <2>4 DEF VersionsSeen, Seen, NotOlder, CachedKeys
<1>6. ASSUME NEW d \in Dirs, MakeSkillDir(d)
      PROVE  VersionsSeen'
  <2> DEFINE v == MCPRVOf(work.spec.mcp)
  <2>1. /\ work \in Request /\ work.step = "mcp" /\ work # Idle
        /\ work.key \in Skills /\ work.spec.mcp \in ConfigMaps \cup {NoRef}
        /\ work.spec.mcp # NoRef => cm[work.spec.mcp].live
    BY <1>6 DEF MakeSkillDir, MCPConfigMapRead, TypeOK, Request, SkillSpec
  <2>2. /\ work' = [work EXCEPT !.step = "build", !.dir = d, !.mcpRV = v]
        /\ agents' = agents
    BY <1>6 DEF MakeSkillDir
  <2>3. work'.step = "build" /\ work'.rv = work.rv /\ work'.mcpRV = v /\ work'.key = work.key
    BY <2>1, <2>2 DEF Request
  <2>4. Seen(v) /\ (Cached(work.key) => NotOlder(agents[work.key].mcpRV, v))
    BY <2>1, MCPReadIsLatest DEF VersionsSeen, CachedKeys
  <2>5. Seen(work.rv) /\ (Cached(work.key) => NotOlder(agents[work.key].rv, work.rv))
    BY <2>1 DEF VersionsSeen
  <2> HIDE DEF v
  <2> QED
    BY <1>1, <2>2, <2>3, <2>4, <2>5 DEF VersionsSeen, Seen, NotOlder, CachedKeys
<1>7. CASE BuildAgent
  <2>1. work' = Idle /\ agents' = [agents EXCEPT ![work.key] = BuiltEntry] /\ work # Idle
    BY <1>7 DEF BuildAgent, Register
  <2>2. BuiltEntry.rv = work.rv /\ BuiltEntry.mcpRV = work.mcpRV
    BY DEF BuiltEntry
  <2>3. Seen(work.rv) /\ Seen(work.mcpRV)
    BY <1>7 DEF VersionsSeen, BuildAgent
  <2>4. \A j \in Skills : \/ agents'[j] = agents[j]
                          \/ agents'[j].rv = work.rv /\ agents'[j].mcpRV = work.mcpRV
    BY <2>1, <2>2 DEF TypeOK, RegistryTypeOK
  <2> QED
    BY <1>1, <2>1, <2>3, <2>4 DEF VersionsSeen, Seen, CachedKeys
<1> QED
  <2>1. CASE ClusterStep
    BY <1>2, <2>1 DEF ClusterStep, SkillChanges, ConfigMapWritten, ConfigMapDeleted, registryVars
  <2>2. CASE HandlerStep \/ \E s \in Skills : HandleAdvisoryEvent(s)
    BY <1>2, <2>2 DEF HandlerStep, HandleSkillEvent, HandleConfigMapEvent,
                     HandleAdvisoryEvent, registryVars
  <2>3. CASE \E s \in Skills : ReconcileSkill(s)
    BY <1>3, <2>3 DEF ReconcileSkill, registryVars
  <2>4. CASE GetConfigMap /\ ~cm[work.spec.cfg].live
    BY <1>3, <2>4 DEF GetConfigMap, registryVars
  <2>5. CASE MCPConfigMapMissing \/ KeepAgent \/ MkdirFails \/ BuildFails
    BY <1>3, <2>5 DEF MCPConfigMapMissing, KeepAgent, Notify, MkdirFails, BuildFails, registryVars
  <2>6. CASE UNCHANGED vars
    BY <1>2, <2>6 DEF vars, registryVars, reconcilerVars
  <2> QED
    BY <1>4, <1>5, <1>6, <1>7, <2>1, <2>2, <2>3, <2>4, <2>5, <2>6
       DEF Next, ReconcilerStep, TakeRequest, WorkStep

\* An entry that stays is not older than itself.
LEMMA NotOlderThanItself ==
  ASSUME TypeOK, NEW s \in Skills, Cached(s)
  PROVE  /\ NotOlder(agents[s].rv, agents[s].rv)
         /\ NotOlder(agents[s].mcpRV, agents[s].mcpRV)
<1>1. agents[s].rv \in RV /\ agents[s].mcpRV \in RV \cup {NoRV}
  BY DEF TypeOK, RegistryTypeOK, AgentEntry
<1> QED
  BY <1>1, BoundsAssumption DEF NotOlder, RV

\* An entry is only replaced by one built from what was read later.
LEMMA ReplacedByNewer ==
  ASSUME TypeOK, VersionsSeen, [Next]_vars, NEW s \in Skills, Cached(s), Cached(s)'
  PROVE  /\ NotOlder(agents[s].rv, agents'[s].rv)
         /\ NotOlder(agents[s].mcpRV, agents'[s].mcpRV)
<1>1. CASE agents'[s] = agents[s]
  BY <1>1, NotOlderThanItself
<1>2. CASE TakeRequest(s)
  <2>1. ReconcileSkill(s)
    BY <1>2 DEF TakeRequest, ReconcileDeleted, Deregister, TypeOK, RegistryTypeOK
  <2> QED
    BY <1>1, <2>1 DEF ReconcileSkill, registryVars
<1>3. CASE BuildAgent /\ work.key = s
  <2>1. agents'[s].rv = work.rv /\ agents'[s].mcpRV = work.mcpRV
    BY <1>3 DEF BuildAgent, Register, BuiltEntry, TypeOK, RegistryTypeOK
  <2> QED
    BY <1>3, <2>1 DEF VersionsSeen, BuildAgent
<1> QED
  BY <1>1, <1>2, <1>3, OthersKeepTheirAgent

\* No agent replaces one built from a later version of the same ConfigMap,
\* however long before its registration a reconcile read the ConfigMaps.
THEOREM VersionsCorrect == Spec => VersionsDoNotGoBack
<1>1. Init => VersionsSeen
  BY DEF Init, RegistryInit, VersionsSeen, CachedKeys
<1>2. TypeOK /\ VersionsSeen /\ [Next]_vars =>
        [\A s \in Skills : Cached(s) /\ Cached(s)' =>
           /\ NotOlder(agents[s].rv, agents'[s].rv)
           /\ NotOlder(agents[s].mcpRV, agents'[s].mcpRV)]_vars
  BY ReplacedByNewer
<1> QED
  BY <1>1, <1>2, VersionsStep, TypeCorrect, PTL DEF Spec, VersionsDoNotGoBack
=============================================================================
