---------------------------- MODULE AgentBuild ----------------------------
(***************************************************************************)
(* How Reconcile builds an agent (skill_controller.go, mcp_manager.go):    *)
(* the steps SkillReconciler takes as one, from the directory to the       *)
(* registration, with what the ConfigMaps contain and every step failing.  *)
(* The steps implement SkillReconciler's BuildFails and BuildAgent.        *)
(*                                                                         *)
(* Reconcile passes CreateToolsets no transport factory, and none of the   *)
(* default transports is an io.Closer: the closers are always empty, and   *)
(* MCPCleanup is always nil.                                               *)
(***************************************************************************)
EXTENDS SkillReconciler

CONSTANTS
  Loads,        \* ConfigMap versions that unpack and load as skills
  Servers,      \* names of MCP servers
  MCPConfig,    \* what mcp.json of each ConfigMap version lists
  NoServers,    \* no mcp.json, or one that ParseMCPConfig refuses
  NoTransport,  \* defaultTransportFactory returns an error
  NoBuild       \* no agent is being built

VARIABLES
  build,        \* Reconcile's local variables while it builds
  toolsets      \* the MCP toolsets of each cached agent

buildVars == <<vars, build, toolsets>>

ServerConfig == [type: {"", "stdio", "http", "sse"}, command: BOOLEAN, url: BOOLEAN]

ASSUME ContentsAssumption ==
  /\ Loads \subseteq RV
  /\ \A v \in RV : MCPConfig[v] = NoServers
                     \/ MCPConfig[v] \in UNION {[M -> ServerConfig] : M \in SUBSET Servers}

Build == [stage: {"files", "toolsets"}, todo: SUBSET Servers, made: SUBSET Servers]

ASSUME BuildNamesAssumption == NoBuild \notin Build

BuildTypeOK ==
  /\ build \in Build \cup {NoBuild}
  /\ At("build") <=> build # NoBuild
  /\ build # NoBuild => build.todo \cap build.made = {}
  /\ toolsets \in [Skills -> SUBSET Servers]

BuildInit ==
  /\ Init
  /\ build = NoBuild
  /\ toolsets = [k \in Skills |-> {}]

-----------------------------------------------------------------------------
\* The transport of a server, if its entry has what its type needs.
defaultTransportFactory(c) ==
  CASE c.type \in {"", "stdio"} /\ c.command -> "command"
    [] c.type = "http" /\ c.url -> "stream"
    [] OTHER -> NoTransport

\* The servers listed in version v, or none if there is no MCP ConfigMap.
ParseMCPConfig(v) == IF v = NoRV THEN [m \in {} |-> NoTransport] ELSE MCPConfig[v]

InBuild(stage) == build # NoBuild /\ build.stage = stage

StartBuild ==
  /\ \E d \in Dirs : MakeSkillDir(d)
  /\ build' = [stage |-> "files", todo |-> {}, made |-> {}]
  /\ UNCHANGED toolsets

\* The files are written and loaded as a toolset, the script tools and the
\* three tools of the controller are created, and ParseMCPConfig accepts what
\* the MCP ConfigMap, if there is one, has under mcp.json.
LoadContents ==
  /\ InBuild("files")
  /\ work.rv \in Loads
  /\ ParseMCPConfig(work.mcpRV) # NoServers
  /\ build' = [build EXCEPT !.stage = "toolsets",
                            !.todo = DOMAIN ParseMCPConfig(work.mcpRV)]
  /\ UNCHANGED <<vars, toolsets>>

\* Mutant: a server without a transport is logged and left out.
SkipBadServer(m) ==
  /\ InBuild("toolsets")
  /\ m \in build.todo
  /\ build' = [build EXCEPT !.todo = @ \ {m},
                 !.made = IF defaultTransportFactory(ParseMCPConfig(work.mcpRV)[m]) = NoTransport
                            THEN @ ELSE @ \cup {m}]
  /\ UNCHANGED <<vars, toolsets>>

\* Mutant: the server is gone through again.
CreateToolsetAgain(m) ==
  /\ InBuild("toolsets")
  /\ m \in build.todo
  /\ defaultTransportFactory(ParseMCPConfig(work.mcpRV)[m]) # NoTransport
  /\ build' = [build EXCEPT !.made = @ \cup {m}]
  /\ UNCHANGED <<vars, toolsets>>

\* CreateToolsets goes through the servers in random order.
CreateToolset(m) ==
  /\ InBuild("toolsets")
  /\ m \in build.todo
  /\ defaultTransportFactory(ParseMCPConfig(work.mcpRV)[m]) # NoTransport
  /\ build' = [build EXCEPT !.todo = @ \ {m}, !.made = @ \cup {m}]
  /\ UNCHANGED <<vars, toolsets>>

\* Mutant: an agent that cannot be built is logged, and nil returned.
StepFailsForGood ==
  /\ build # NoBuild
  /\ Done
  /\ build' = NoBuild
  /\ UNCHANGED <<registryVars, clusterVars, events, toolsets>>

\* Whichever step the build is at fails, on an I/O error or because of what the
\* ConfigMap contains: Reconcile returns the error, and the directory stays.
StepFails ==
  /\ build # NoBuild
  /\ BuildFails
  /\ build' = NoBuild
  /\ UNCHANGED toolsets

\* The instruction is read, and the agent and its runner are created and
\* registered.
RegisterAgent ==
  /\ InBuild("toolsets")
  /\ build.todo = {}
  /\ BuildAgent
  /\ build' = NoBuild
  /\ toolsets' = [toolsets EXCEPT ![work.key] = build.made]

\* The agent of a Skill that is gone is dropped with its toolsets.
DropAgent(s) ==
  /\ ReconcileDeleted(s)
  /\ toolsets' = [toolsets EXCEPT ![s] = {}]
  /\ UNCHANGED build

-----------------------------------------------------------------------------
Unchanged == UNCHANGED <<build, toolsets>>

HandlerPart == HandlerStep /\ Unchanged

AdvisoryPart == (\E s \in Skills : HandleAdvisoryEvent(s)) /\ Unchanged

TakePart(s) == DropAgent(s) \/ (ReconcileSkill(s) /\ Unchanged)

ReadPart ==
  /\ GetConfigMap \/ MCPConfigMapMissing \/ KeepAgent \/ MkdirFails
  /\ Unchanged

BuildPart ==
  \/ StartBuild
  \/ LoadContents
  \/ \E m \in Servers : CreateToolset(m)
  \/ StepFails
  \/ RegisterAgent

BuildNext ==
  \/ ClusterStep /\ Unchanged
  \/ HandlerPart
  \/ AdvisoryPart
  \/ \E s \in Skills : TakePart(s)
  \/ ReadPart
  \/ BuildPart

BuildSpec == BuildInit /\ [][BuildNext]_buildVars

\* The informers call their handlers and the worker does not stall; the work
\* queue is first-in-first-out, so no key waits for ever; os.MkdirTemp does
\* not fail every time it is tried.
BuildFairness ==
  /\ WF_buildVars(HandlerPart)
  /\ WF_buildVars(ReadPart \/ BuildPart)
  /\ SF_buildVars(StartBuild)
  /\ \A s \in Skills : SF_buildVars(TakePart(s))

BuildFairSpec == BuildSpec /\ BuildFairness

-----------------------------------------------------------------------------
(* Properties.                                                             *)

\* Step by step and failing anywhere, a build does what SkillReconciler says.
ImplementsReconciler == Spec

\* Every server that version v lists can be reached.
Usable(v) ==
  /\ ParseMCPConfig(v) # NoServers
  /\ \A m \in DOMAIN ParseMCPConfig(v) :
       defaultTransportFactory(ParseMCPConfig(v)[m]) # NoTransport

\* No agent is cached that was built in part: it has its skills and a toolset
\* of every server listed in the version it is taken to be up to date with.
AgentsAreWhole ==
  \A k \in CachedKeys :
    /\ agents[k].rv \in Loads
    /\ Usable(agents[k].mcpRV)
    /\ toolsets[k] = DOMAIN ParseMCPConfig(agents[k].mcpRV)

Buildable(s) ==
  Resolvable(s) /\ RVOf(skill[s].cfg) \in Loads /\ Usable(MCPRVOf(skill[s].mcp))

DiskFull == Dirs \subseteq dirs

\* Once the cluster leaves a Skill alone that an agent can be built for, that
\* agent is cached, or none if the Skill is gone, whatever bad versions came
\* before, as long as what their builds have left does not fill the disk.
Converges ==
  \A s \in Skills :
    \/ []<><<ClusterStep>>_vars
    \/ <>[](Settled(s) \/ (skill[s] # Absent /\ ~Buildable(s)))
    \/ <>[]DiskFull
=============================================================================
