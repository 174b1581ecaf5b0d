------------------------- MODULE AgentBuildProofs -------------------------
(***************************************************************************)
(* Theorems about AgentBuild, for every set of Skills, ConfigMaps, servers *)
(* and contents: it implements SkillReconciler, whose invariants it        *)
(* therefore keeps, and it never registers an agent built in part.         *)
(***************************************************************************)
EXTENDS AgentBuild, SkillReconcilerProofs

USE DEF At, Done, Retry, Cached

\* Every step of the build is a step of SkillReconciler or none.
LEMMA BuildStepImplements == [BuildNext]_buildVars => [Next]_vars
<1> SUFFICES ASSUME [BuildNext]_buildVars PROVE [Next]_vars
  OBVIOUS
<1> USE DEF Next, ReconcilerStep, WorkStep, TakeRequest
<1>1. CASE ClusterStep /\ Unchanged
  BY <1>1
<1>2. CASE HandlerPart \/ AdvisoryPart
  BY <1>2 DEF HandlerPart, AdvisoryPart
<1>3. ASSUME NEW s \in Skills, TakePart(s)
      PROVE  Next
  BY <1>3 DEF TakePart, DropAgent
<1>4. CASE ReadPart
  BY <1>4 DEF ReadPart
<1>5. CASE BuildPart
  <2>1. CASE StartBuild
    BY <2>1 DEF StartBuild
  <2>2. CASE LoadContents \/ \E m \in Servers : CreateToolset(m)
    BY <2>2 DEF LoadContents, CreateToolset
  <2>3. CASE StepFails \/ RegisterAgent
    BY <2>3 DEF StepFails, RegisterAgent
  <2> QED
    BY <1>5, <2>1, <2>2, <2>3 DEF BuildPart
<1>6. CASE UNCHANGED buildVars
  BY <1>6 DEF buildVars
<1> QED
  BY <1>1, <1>2, <1>3, <1>4, <1>5, <1>6 DEF BuildNext

\* Step by step, and failing anywhere, Reconcile does what SkillReconciler
\* says: each build ends in one BuildFails or one BuildAgent.
THEOREM BuildImplements == BuildSpec => ImplementsReconciler
<1>1. BuildInit => Init
  BY DEF BuildInit
<1> QED
  BY <1>1, BuildStepImplements, PTL DEF BuildSpec, ImplementsReconciler, Spec

\* What is proved of SkillReconciler holds of the detailed build.
THEOREM BuildKeepsInvariants ==
  BuildSpec => /\ [](TypeOK /\ DirsOwned /\ StaleWorkIsRepeated /\ NoLostChange)
               /\ VersionsDoNotGoBack
BY BuildImplements, TypeCorrect, DirsCorrect, StaleWorkCorrect, NoLostChangeCorrect,
   VersionsCorrect, PTL
   DEF ImplementsReconciler

-----------------------------------------------------------------------------
\* What the toolsets made so far have to do with the versions that were read.
BuildIsOnCourse ==
  /\ InBuild("files") => build.made = {}
  /\ InBuild("toolsets") =>
       /\ work.rv \in Loads
       /\ ParseMCPConfig(work.mcpRV) # NoServers
       /\ DOMAIN ParseMCPConfig(work.mcpRV) = build.todo \cup build.made
       /\ \A m \in build.made :
            defaultTransportFactory(ParseMCPConfig(work.mcpRV)[m]) # NoTransport

BuildInv == TypeOK /\ BuildTypeOK /\ BuildIsOnCourse /\ AgentsAreWhole

\* The servers of a version are servers.
LEMMA ParsedType ==
  ASSUME NEW v \in RV \cup {NoRV}, ParseMCPConfig(v) # NoServers
  PROVE  DOMAIN ParseMCPConfig(v) \subseteq Servers
<1>1. CASE v = NoRV
  BY <1>1 DEF ParseMCPConfig
<1>2. CASE v \in RV /\ v # NoRV
  <2>1. MCPConfig[v] \in UNION {[M -> ServerConfig] : M \in SUBSET Servers}
    BY <1>2, ContentsAssumption DEF ParseMCPConfig
  <2>2. PICK M \in SUBSET Servers : MCPConfig[v] \in [M -> ServerConfig]
    BY <2>1
  <2> QED
    BY <1>2, <2>2 DEF ParseMCPConfig
<1> QED
  BY <1>1, <1>2

\* A step that leaves the build, the map and the toolsets alone.
LEMMA OtherStep ==
  ASSUME BuildInv, TypeOK', UNCHANGED <<agents, build, toolsets>>,
         work' = work \/ (build = NoBuild /\ ~(work' # Idle /\ work'.step = "build"))
  PROVE  BuildInv'
<1>1. BuildTypeOK'
  BY DEF BuildInv, BuildTypeOK
<1>2. BuildIsOnCourse'
  BY DEF BuildInv, BuildIsOnCourse, InBuild
<1>3. AgentsAreWhole'
  BY DEF BuildInv, AgentsAreWhole, CachedKeys, Usable
<1> QED
  BY <1>1, <1>2, <1>3 DEF BuildInv

LEMMA BuildInvStep == BuildInv /\ [BuildNext]_buildVars => BuildInv'
<1> SUFFICES ASSUME BuildInv, [BuildNext]_buildVars
             PROVE  BuildInv'
  OBVIOUS
<1>1. TypeOK /\ TypeOK'
  BY BuildStepImplements, TypeStep DEF BuildInv
<1>2. CASE ClusterStep /\ Unchanged
  <2>1. UNCHANGED <<agents, build, toolsets, work>>
    BY <1>2 DEF ClusterStep, Unchanged, SkillChanges, ConfigMapWritten,
                ConfigMapDeleted, registryVars
  <2> QED
    BY <1>1, <2>1, OtherStep
<1>3. CASE HandlerPart \/ AdvisoryPart
  <2>1. UNCHANGED <<agents, build, toolsets, work>>
    BY <1>3 DEF HandlerPart, HandlerStep, HandleSkillEvent, HandleConfigMapEvent,
                AdvisoryPart, HandleAdvisoryEvent, Unchanged, registryVars
  <2> QED
    BY <1>1, <2>1, OtherStep
<1>4. ASSUME NEW s \in Skills, DropAgent(s)
      PROVE  BuildInv'
  <2>1. /\ work = Idle /\ UNCHANGED <<work, build>>
        /\ agents' = [agents EXCEPT ![s] = NoEntry]
        /\ toolsets' = [toolsets EXCEPT ![s] = {}]
    BY <1>4 DEF DropAgent, ReconcileDeleted, Deregister
  <2>2. BuildTypeOK'
    BY <2>1 DEF BuildInv, BuildTypeOK
  <2>3. BuildIsOnCourse'
    BY <2>1 DEF BuildInv, BuildIsOnCourse, InBuild
  <2>4. AgentsAreWhole'
    BY <1>1, <2>1 DEF BuildInv, BuildTypeOK, AgentsAreWhole, CachedKeys, Usable,
                      TypeOK, RegistryTypeOK
  <2> QED
    BY <1>1, <2>2, <2>3, <2>4 DEF BuildInv
<1>5. ASSUME NEW s \in Skills, ReconcileSkill(s), Unchanged
      PROVE  BuildInv'
  <2>1. /\ UNCHANGED <<agents, build, toolsets>>
        /\ work = Idle /\ work'.step = "config"
    BY <1>5 DEF ReconcileSkill, Unchanged, registryVars
  <2>2. build = NoBuild
    BY <2>1 DEF BuildInv, BuildTypeOK
  <2> QED
    BY <1>1, <2>1, <2>2, OtherStep
<1>6. CASE ReadPart
  <2>1. UNCHANGED <<agents, build, toolsets>>
    BY <1>6 DEF ReadPart, GetConfigMap, MCPConfigMapMissing, KeepAgent, MkdirFails,
                Notify, Unchanged, registryVars
  <2>2. /\ work # Idle /\ work.step # "build"
        /\ ~(work' # Idle /\ work'.step = "build")
    BY <1>1, <1>6 DEF ReadPart, GetConfigMap, MCPConfigMapMissing, KeepAgent,
                      MkdirFails, MCPConfigMapRead, TypeOK, Request
  <2>3. build = NoBuild
    BY <2>2 DEF BuildInv, BuildTypeOK
  <2> QED
    BY <1>1, <2>1, <2>2, <2>3, OtherStep
<1>7. CASE StartBuild
  <2>1. /\ UNCHANGED <<agents, toolsets>>
        /\ build' = [stage |-> "files", todo |-> {}, made |-> {}]
        /\ work' # Idle /\ work'.step = "build"
    <3>1. PICK d \in Dirs : MakeSkillDir(d)
      BY <1>7 DEF StartBuild
    <3>2. work \in Request /\ work.spec.mcp \in ConfigMaps \cup {NoRef}
      BY <1>1, <3>1 DEF MakeSkillDir, MCPConfigMapRead, TypeOK, Request, SkillSpec
    <3>3. MCPRVOf(work.spec.mcp) \in RV \cup {NoRV}
      BY <1>1, <3>1, <3>2, MCPRVOfType DEF MakeSkillDir, MCPConfigMapRead
    <3>4. work' \in Request /\ work'.step = "build"
      BY <3>1, <3>2, <3>3 DEF MakeSkillDir, Request
    <3> QED
      BY <1>7, <3>1, <3>4, IdleAssumption DEF StartBuild, MakeSkillDir
  <2>2. build' \in Build
    BY <2>1 DEF Build
  <2>3. BuildTypeOK'
    BY <2>1, <2>2, BuildNamesAssumption DEF BuildInv, BuildTypeOK
  <2>4. BuildIsOnCourse'
    BY <2>1 DEF BuildIsOnCourse, InBuild
  <2>5. AgentsAreWhole'
    BY <2>1 DEF BuildInv, AgentsAreWhole, CachedKeys, Usable
  <2> QED
    BY <1>1, <2>3, <2>4, <2>5 DEF BuildInv
<1>8. CASE LoadContents
  <2>1. /\ UNCHANGED <<agents, work, toolsets>>
        /\ build \in Build /\ build # NoBuild /\ work # Idle /\ work.step = "build"
        /\ work.rv \in Loads /\ ParseMCPConfig(work.mcpRV) # NoServers
        /\ build' = [build EXCEPT !.stage = "toolsets",
                                  !.todo = DOMAIN ParseMCPConfig(work.mcpRV)]
    BY <1>8 DEF LoadContents, InBuild, BuildInv, BuildTypeOK, vars, registryVars,
                reconcilerVars
  <2>2. build.made = {}
    BY <1>8 DEF LoadContents, BuildInv, BuildIsOnCourse
  <2>3. DOMAIN ParseMCPConfig(work.mcpRV) \subseteq Servers
    BY <1>1, <2>1, ParsedType DEF TypeOK, Request
  <2>4. /\ build' \in Build /\ build'.made = {} /\ build'.stage = "toolsets"
        /\ build'.todo = DOMAIN ParseMCPConfig(work.mcpRV)
    BY <2>1, <2>2, <2>3 DEF Build
  <2>5. BuildTypeOK'
    BY <2>1, <2>4, BuildNamesAssumption DEF BuildInv, BuildTypeOK
  <2>6. BuildIsOnCourse'
    BY <2>1, <2>4 DEF BuildIsOnCourse, InBuild
  <2>7. AgentsAreWhole'
    BY <2>1 DEF BuildInv, AgentsAreWhole, CachedKeys, Usable
  <2> QED
    BY <1>1, <2>5, <2>6, <2>7 DEF BuildInv
<1>9. ASSUME NEW m \in Servers, CreateToolset(m)
      PROVE  BuildInv'
  <2>1. /\ UNCHANGED <<agents, work, toolsets>>
        /\ build \in Build /\ build # NoBuild /\ build.stage = "toolsets"
        /\ work # Idle /\ work.step = "build"
        /\ m \in build.todo
        /\ defaultTransportFactory(ParseMCPConfig(work.mcpRV)[m]) # NoTransport
        /\ build' = [build EXCEPT !.todo = @ \ {m}, !.made = @ \cup {m}]
    BY <1>9 DEF CreateToolset, InBuild, BuildInv, BuildTypeOK, vars, registryVars,
                reconcilerVars
  <2>2. /\ build' \in Build /\ build'.stage = "toolsets"
        /\ build'.todo = build.todo \ {m} /\ build'.made = build.made \cup {m}
    BY <2>1 DEF Build
  <2>3. BuildTypeOK'
    BY <2>1, <2>2, BuildNamesAssumption DEF BuildInv, BuildTypeOK
  <2>4. BuildIsOnCourse'
    BY <2>1, <2>2 DEF BuildInv, BuildIsOnCourse, InBuild
  <2>5. AgentsAreWhole'
    BY <2>1 DEF BuildInv, AgentsAreWhole, CachedKeys, Usable
  <2> QED
    BY <1>1, <2>3, <2>4, <2>5 DEF BuildInv
<1>10. CASE StepFails
  <2>1. /\ UNCHANGED <<agents, toolsets>>
        /\ work' = Idle /\ build' = NoBuild
    BY <1>10 DEF StepFails, BuildFails, registryVars
  <2>2. BuildTypeOK' /\ BuildIsOnCourse'
    BY <2>1 DEF BuildInv, BuildTypeOK, BuildIsOnCourse, InBuild
  <2>3. AgentsAreWhole'
    BY <2>1 DEF BuildInv, AgentsAreWhole, CachedKeys, Usable
  <2> QED
    BY <1>1, <2>2, <2>3 DEF BuildInv
<1>11. CASE RegisterAgent
  <2> DEFINE k == work.key
  <2>1. /\ k \in Skills
        /\ build \in Build /\ InBuild("toolsets") /\ build.todo = {}
        /\ work' = Idle /\ build' = NoBuild
        /\ agents' = [agents EXCEPT ![k] = BuiltEntry]
        /\ toolsets' = [toolsets EXCEPT ![k] = build.made]
    BY <1>1, <1>11 DEF RegisterAgent, BuildAgent, Register, InBuild, BuildInv,
                       BuildTypeOK, TypeOK, Request
  <2>2. /\ work.rv \in Loads /\ Usable(work.mcpRV)
        /\ build.made = DOMAIN ParseMCPConfig(work.mcpRV)
    BY <2>1 DEF BuildInv, BuildIsOnCourse, Usable
  <2>3. BuildTypeOK' /\ BuildIsOnCourse'
    BY <2>1 DEF BuildInv, BuildTypeOK, BuildIsOnCourse, InBuild, Build
  <2>4. AgentsAreWhole'
    <3>1. /\ agents \in [Skills -> AgentEntry \cup {NoEntry}]
          /\ toolsets \in [Skills -> SUBSET Servers]
      BY <1>1 DEF BuildInv, BuildTypeOK, TypeOK, RegistryTypeOK
    <3>2. /\ agents'[k].rv \in Loads /\ Usable(agents'[k].mcpRV)
          /\ toolsets'[k] = DOMAIN ParseMCPConfig(agents'[k].mcpRV)
      BY <2>1, <2>2, <3>1 DEF BuiltEntry
    <3>3. \A j \in Skills \ {k} :
            agents'[j] = agents[j] /\ toolsets'[j] = toolsets[j]
      BY <2>1, <3>1
    <3> QED
      BY <3>2, <3>3 DEF BuildInv, AgentsAreWhole, CachedKeys, Usable
  <2> QED
    BY <1>1, <2>3, <2>4 DEF BuildInv
<1>12. CASE UNCHANGED buildVars
  <2>1. UNCHANGED <<agents, build, toolsets, work>>
    BY <1>12 DEF buildVars, vars, registryVars, reconcilerVars
  <2> QED
    BY <1>1, <2>1, OtherStep
<1> QED
  BY <1>2, <1>3, <1>4, <1>5, <1>6, <1>7, <1>8, <1>9, <1>10, <1>11, <1>12
     DEF BuildNext, TakePart, BuildPart

LEMMA BuildInvHolds == BuildSpec => []BuildInv
<1>1. BuildInit /\ TypeOK => BuildInv
  <2> SUFFICES ASSUME BuildInit, TypeOK PROVE BuildInv
    OBVIOUS
  <2>1. work = Idle /\ build = NoBuild /\ toolsets = [s \in Skills |-> {}]
    BY DEF BuildInit, Init
  <2>2. BuildTypeOK /\ BuildIsOnCourse
    BY <2>1, BuildNamesAssumption DEF BuildTypeOK, BuildIsOnCourse, InBuild
  <2>3. AgentsAreWhole
    BY DEF BuildInit, Init, RegistryInit, AgentsAreWhole, CachedKeys
  <2> QED
    BY <2>2, <2>3 DEF BuildInv
<1>2. BuildInit => TypeOK
  BY InitType DEF BuildInit
<1> QED
  BY <1>1, <1>2, BuildInvStep, PTL DEF BuildSpec

\* Reconcile's local variables and the toolsets keep their types, and a
\* build is in progress exactly while the worker is at it.
THEOREM BuildTypeCorrect == BuildSpec => []BuildTypeOK
BY BuildInvHolds, PTL DEF BuildInv

\* No agent is ever registered that was built in part, whichever step of
\* whichever build fails and whatever the ConfigMaps contain.
THEOREM AgentsAreWholeCorrect == BuildSpec => []AgentsAreWhole
BY BuildInvHolds, PTL DEF BuildInv
=============================================================================
