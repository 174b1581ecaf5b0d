# Khieron in TLA+

Khieron is a Kubernetes operator. A `Skill` refers to a ConfigMap with prompt and
script files; the controller builds one LLM agent per Skill, keeps it in memory and
runs it at an interval. The agent raises `Advisory` objects; when a person names an
approver, the controller runs the agent again on the advisory's proposal.

This directory models the controller's concurrent core, checks it with TLC and proves
its safety properties with TLAPS. The modules follow the Go code under `src/internal/controller`;
`PROJECT.json` maps every definition to its lines.

## Inventory

| part | state | operations | who else touches it |
|---|---|---|---|
| Agent registry (`agent_runner.go`) | map of `AgentEntry` under a mutex, directories on disk, channel `notify` of capacity 1 | `Register`, `Deregister`, `Notify`, version getters, `cleanupAll` | reconciler, loop, advisory worker |
| Skill reconciler (`skill_controller.go`) | none of its own; work queue with one worker | watches on Skill, owned Advisory and ConfigMap; `Reconcile` | informer caches, registry |
| Runner loop (`agent_runner.go`) | its copy of the entries, the agent it runs | `Start`, `runDueAgents`, `runSkillAgentIfDue` | registry, Skill status |
| `RunWithPrompt` (`agent_runner.go`) | the entry it holds | called by the advisory worker | registry, the agent's tools |
| Tools (`skill_controller.go`) | none | `create_advisory`, `set_advisory_labels`, `update_owner`, `run_script` | API server, through a trailing cache |
| Advisory reconciler (`advisory_controller.go`) | none of its own; one worker | `Reconcile` | API server, `RunWithPrompt` |
| MCP manager (`mcp_manager.go`) | transports of an agent | `ParseMCPConfig`, `CreateToolsets`, clean-up | reconciler, registry |
| Bootstrap (`cmd/main.go`) | manager, lease, readiness | start, stop | all, and the pod of another revision |
| API types (`api/v1alpha1`) | spec and status of the two kinds | CRD defaults | all |

Interaction: the reconciler writes the registry and the loop reads it; the loop is woken
through the channel; tools, loop and advisory reconciler meet in the API server, where a
write made from an old resource version is refused, and read it through informer caches
that trail it.

What is hard: a reconcile reads three cached objects that change while it works; entries
are used by goroutines that copied them while the map changes under them; every decision
on status is made on a copy that may be old; approval is a two-step protocol
(record, then execute) that a crash can cut; a build has a dozen places to fail at and leaves
what it made; readiness, lease and rolling update wait for one another; shutdown and restart lose all memory.

What makes each part correct:

- registry and directories: the directory of a cached agent exists and is its own;
- reconciler: no change is lost, at rest the agent is the one asked for;
- loop: no wake-up is lost, a superseded agent is not run for ever, a running agent keeps
  its files;
- building: an agent is registered whole or not at all;
- event folding: an error counts nothing of the run, a failed tool is reported by someone;
- accounting: no run is counted twice or undone, the interval is kept, a request leads to a run;
- `update_owner`: changes only what it was asked to;
- rollout: a new revision takes over;
- advisories: one per text; approval is recorded once, for good, noticed in the end,
  and its proposal executed at most once (and, users expect, at least once).

## Modules

| module | models |
|---|---|
| `AgentRegistry` | the map, the directories and the channel, as operators their callers conjoin. Each method holds the mutex throughout, so it is one step |
| `SkillReconciler` | watches, queue, one worker and `Reconcile`, with a step at each cached read; building the agent is one step. EXTENDS `AgentRegistry` |
| `AgentBuild` | the same `Reconcile` with the build step by step, MCP servers one by one, any step failing. EXTENDS `SkillReconciler` and implements it |
| `RunnerLoop` | `Start`, the sweep, shutdown, `RunWithPrompt`. EXTENDS `AgentRegistry` |
| `AgentCache` | `SkillReconciler` and `RunnerLoop` together, and process restarts |
| `AgentEvents` | `processAgentEvents` and the fallback condition, as a fold |
| `SkillRun` | one Skill: `isRunDue`, a run, the status update, `update_owner`, user edits, a trailing cache, a clock. EXTENDS `AgentEvents` |
| `ApprovalContract` | abstract: an approval settles on one proposal, which is executed at most once |
| `AdvisoryFlow` | tools, advisory worker, people, failing requests, crashes; implements `ApprovalContract`. EXTENDS `AgentEvents` |
| `Rollout` | two pods in a rolling update: lease, readiness, exits, the Deployment |
| `...Proofs` | theorems about the module of that name |
| `MC...` | values of the constants for TLC |

### SkillReconciler

`skill` and `cm` are what the informer caches hold now: the reconciler reads nothing else,
so a cluster that runs ahead of the caches cannot be told from one that changes later.
A cluster step replaces an object in a cache and adds it to `events`; a later handler step
enqueues keys, mapping a ConfigMap to Skills with the Skill cache of that moment. The
order of the handlers is free. `work` is the request in progress with the local variables
of `Reconcile`: the Skill copy (`spec`), the versions read (`rv`, `mcpRV`) and the
directory. `Retry` puts the key back, as returning an error does. Unpacking, toolsets,
tools and agent creation are private to the worker, so they are one step that succeeds
(`BuildAgent`) or fails (`BuildFails`, which leaves the directory behind as the code does).
Cached reads fail only with "not found", and the `List` of the ConfigMap mapping, which reads
the same caches, does not fail. `signalled` in the registry is a history variable:
keys the loop was signalled for and has not read the map since.

### AgentBuild

`build` holds the local variables of that private part: `StartBuild` (the directory),
`LoadContents` (files, skill toolset, script and controller tools, `ParseMCPConfig`), one
`CreateToolset` per server in any order, as Go ranges over a map, and `RegisterAgent`.
`StepFails` ends it anywhere, whether for an I/O error or because of the contents. `Loads`
and `MCPConfig` say what each ConfigMap version contains. `ImplementsReconciler` is that
this is `SkillReconciler`: a build is `MakeSkillDir`, stuttering, and one `BuildFails` or
`BuildAgent`. `toolsets` remembers what the registered agent was built with.

### RunnerLoop and AgentCache

The loop's control is `loop`: select, snapshot, sweep, and for the agent it is at (`current`)
the steps of `runSkillAgentIfDue`: "check", the `os.Stat` of its directory; "start", with the
directory found and the session and `Runner.Run` still to come; "run". `RunWithPrompt`, in the
advisory worker's goroutine (`prompted`, one such worker), has the same three. The map changes
between them, so an agent may be started although it was replaced or dropped, and its directory
removed, just after the check: `OnlyCurrentAgentsPass` is about the check, and
`RunningAgentHasFiles`, which fails, about the run.

`todo` is the copy of the entries, in any order since Go's map order is random. Any agent may
be due here; `SkillRun` says when one is. `Register` and `Deregister` change directory and map
in one step: they do both under the lock, and `os.Stat`, which takes no lock, would only find a
directory that is about to be superseded already gone, and skip the agent. `StopLoop` is the
cancelled context seen in the select; `Restart`, at any moment, is a new process with an empty
map and an empty file system, and every object an event again. `Builds` are the ConfigMap
versions with contents an agent can be built from (`AgentBuild` says why a build fails); from
others only `BuildFails` is possible, and the agent of the version before goes on running.

### AgentEvents

An event has tokens, perhaps a call of `create_advisory`, perhaps a tool answer with an exit
code other than 0, or is an error. `addEvent` is one round of the loop over the stream,
`processAgentEvents` the fold. `Contents` looks at the stream as a whole, `Outcomes` pairs the
two, and `FoldsRight` compares them. `SkillRun` takes the outcome of a run from `Outcomes`, and
`AdvisoryFlow` whether a fallback advisory is due.

### SkillRun

Timestamps are whole seconds, as in the CRD. A write from a copy is accepted only with the
stored version (`Accepts`); user edits are patches and carry none. `Status().Update`
replaces the status only, `Update` metadata and spec only, as for a CRD with a status
subresource; an update that changes nothing keeps the version. `intervalminute` is
`omitempty` with a default: an update from a Go object cannot carry a zero (`Defaulted`),
which is why `UpdateOwnerKeepsEdits` excepts it. A run in progress remembers, as history, when
it started and what was in its event stream. `Recreate` deletes the Skill and applies it again while a run
or a call is in progress; `RunFails` is every error return of `runSkillAgentIfDue`.
`update_owner` may be called by the agent of any run, also one of `RunWithPrompt`, which the
loop does not know of.

The totals are not the usage of the Skill. A run whose status update is refused is not counted
(`RunFails`), a run of `RunWithPrompt` never is, and the tokens of a run that ends in an error
are lost, although the repository's README (line 163) says that the Skill keeps track "everytime
it is run" and the API comment speaks of all runs. What does hold is `TotalsGrowByTheRun`: each
accepted update adds one run and all its tokens to what is stored.

### AdvisoryFlow

`adv` is the API server, `view` the informer cache. A tool call is read, then write; agents
in calls at the same time are `Callers` (the loop's agent and a prompted one); texts and
proposals they report may be empty. The status of
a new advisory is written after the object is created. Any request may fail (`ToolFails`,
`ApprovalFails`), or be carried out without the caller hearing of it (`CreateAnswerLost`,
`ApprovalAnswerLost`; a lost answer to one of the other writes makes no difference to the
state, since the caller is done either way). `work` is the advisory worker with its copy, `done` the
executions that were started, `agreed` the proposal that was in the copy that was marked
approved. Whether `RunWithPrompt` finds an agent with its files is up to `AgentCache`; here
it may or may not. `ReliableSpec` (in `MCAdvisoryFlow`) is the specification without crashes and
lost answers, for the run that is to show what a failing `RunWithPrompt` alone does.

### Rollout

A pod boots, waits for the lease, leads, creates the model, and may exit at any time; a
lease is not given back (`LeaderElectionReleaseOnCancel` is off) but expires.
`Ready` is `ReadyzCheck`. The Deployment has one replica and the default strategy, which for
one replica is: one pod more, none less.

## Runs

Passing runs:

| run | bounds | shows |
|---|---|---|
| `agent_build` | 1 Skill, 2 ConfigMaps written twice each, whose second versions cannot be built, 3 directories; two specs: with one ConfigMap, and with both and a run request | `NoLostChange`, `StaleWorkIsRepeated`, `DirsOwned`, `AgentsAreWhole`, `ImplementsReconciler`, `Converges` |
| `agent_cache` | 2 Skills sharing a ConfigMap, 3 directories, symmetric Skills and directories, prompted runs | `NoLostChange`, `DirsOwnedUntilStopped`, `WakeUpNotLost`, `VersionsDoNotGoBack`, `OnlyCurrentAgentsPass` with the loop, shutdown and restarts |
| `agent_cache_live` | 1 Skill, 3 ConfigMap versions of which the second cannot be built, 3 directories that may all be leaked | `RunsCurrentAgent`, `SignalsAreHeeded` |
| `skill_run` | interval 2, clock to 2, 3 writes, `intervalminute` 0 or 5, runs of up to 2 events | `RunsAreFolded`, `TotalsGrowByTheRun`, `UpdateOwnerKeepsEdits`, `RequestIsServed` |
| `advisory_flow` | 1 advisory, 2 agents, a proposal and the empty one, 4 rewrites | refinement of `ApprovalContract` (`KeepsContract`), `ApprovalSticks`, `AgreedAsStored`, `ApproverIsHeard` |

Runs that show a disagreement between the code and what it, or its documentation, says
(details under `findings` in `PROJECT.json`):

| run | what happens |
|---|---|
| `skill_reconciler_interval` | a spec edit that changes only `intervalMinute` finds the cached agent valid and is not used |
| `agent_cache_files` | the directory of an agent is found, then removed by the reconciler, and the agent runs without it |
| `skill_run_request` | a run starts at 0, another is requested at 1, and the time the first records, 1, answers the request |
| `skill_run_interval` | a sweep right after a run reads the Skill before the status update and runs the agent again |
| `advisory_flow_executed` | the approval is recorded, `RunWithPrompt` cannot start the agent, and the next reconcile has nothing to do: at rest, the proposal was never executed |
| `advisory_flow_duplicates` | two calls both find no advisory with the text and create two |
| `rollout` | after `helm upgrade` the new pod waits for the lease, and the old one for the new one to be ready |

Why the bounds suffice. Requests for one Skill are serialised, and different Skills meet only
in the queue, the ConfigMap events, the directory names and the channel: one Skill shows
every interleaving of a reconcile with its inputs, two show interference. Two versions of a
ConfigMap are a stale and a current one; a deleted and rewritten one differs by version. In
`agent_build` the first can be built and the second cannot, so builds fail at the files, at
the second MCP server, and for no reason. `agent_cache_live` has a good version, a bad one and
a good one again: the loop keeps running the first agent until the third version is built.
In `agent_cache` both can be built, so that one can replace the other, and no build fails
(`MaxLeaks` is 0): its three directories are two cached ones and one being unpacked. What a
failing build does to the map and the directories is in `agent_build` and `agent_cache_live`,
where `MaxLeaks` stands for a disk that fills up, and in the theorems, which have no bound.

`MCAgentCache` has two reductions. `InTurnSpec` (`agent_cache`) lets `RunWithPrompt` step only
while the loop is in its select or stopped: the two never read what the other writes, and the
steps of the reconciler, the stop and the restart still come between any two of either.
`OrderedSpec` (`agent_cache_live`) takes the first free directory name instead of any; names
are only compared. `Approvable` is empty in `agent_cache_live`, where a prompted run changes
nothing that is checked.

Three writes of a Skill allow a read copy, a write in between and the conflict; a fourth of an
advisory lets a tool rewrite one that has a status, an approver and the approval. A proposal and
the empty one are enough to tell the proposal agreed on from the stored one. Two events are
enough for an error, a call or a failure to come before or after another. With an interval of 2 and a clock to 2, a run that ended at 1 is not due
again by the clock, so a request must be what starts the next one.
One advisory shows the protocol, since advisories share only the
worker; the duplicates need two. The theorems below hold without any of these bounds and
reductions.

## Fairness

Handlers, the worker, the loop and the informer are goroutines the Go scheduler and
controller-runtime keep running: weak fairness. A key in the work queue is taken in turn,
although it is not continuously takeable: strong fairness on taking a key.
`os.MkdirTemp` does not fail for ever, nor does every run of an agent that is tried again and
again, nor every status update or approval: strong fairness on `StartBuild`, `MkdirPart`,
`RunCompletes`, `Refetch`, `UpdateStatus` and `MarkApproved`. Builds need no such assumption:
one that fails leaks a directory, and `Converges` and `RunsCurrentAgent` except a full disk and
Skills that cannot be built. Runs of an agent return; the code has no timeout, so this is an assumption. A lease
that is not renewed expires, and who keeps trying gets it. Nothing is assumed of users,
ConfigMaps, crashes or shutdown: `Converges` and `RunsCurrentAgent` are about a cluster that
is left alone, `SignalsAreHeeded` about a loop that is not stopped, `RequestIsServed` about a
Skill that is not switched off, and `ApproverIsHeard` and `RolloutCompletes` about processes
that stop crashing.

## Proofs

Every safety and action property of a passing run is proved, for all values of
the constants: any sets of Skills, ConfigMaps, specs, directories, servers, advisories,
agents and events, and all bounds. The assumptions are those of the modules: specs and contents are well
typed, bounds are numbers, and distinguished values (`NoEntry`, `Idle`, ...) differ from the
proper ones; the theorems about `Rollout` state theirs. The theorems without a property
say how far a violation goes: `OnlySupersededLoseFiles`, `OnlyStaleStartsAreEarly` and
`UpgradeBlockedCorrect` belong to the findings of `agent_cache_files`, `skill_run_interval` and
`rollout`.

**`SkillReconcilerProofs`.**
- `TypeCorrect`: `TypeOK` is inductive. It includes that a ConfigMap that
  exists was written and that a request past its first read has a version, without which a
  registered entry could not be shown to have one.
- `DirsCorrect`: `DirsOwned`, inductive with `TypeOK`. The conjunct about the
  directory being unpacked is what lets `BuildAgent` keep the other two.
- `StaleWorkCorrect`: `StaleWorkIsRepeated`, inductive with `TypeOK`. Every change
  leaves a Skill either unaffected or with a reconcile pending (`ChangeIsNoticed`), and a
  pending reconcile stays so until the worker takes the key (`PendingStays`).
- `NoLostChangeCorrect`: `NoLostChange` is not inductive alone: that a reconcile
  which ends leaves the Skill settled needs that what it read still holds or another is to
  come, which is `StaleWorkIsRepeated`. The inductive invariant is
  `TypeOK /\ StaleWorkIsRepeated /\ NoLostChange`.
- `VersionsCorrect`: `VersionsDoNotGoBack`. One worker alone does not give it: the entry
  must not be ahead of what the next read can find. The invariant
  `VersionsSeen` says that what is cached and what was read are versions the
  ConfigMaps have had, and that a read in progress is no older than the entry it will replace.

**`AgentBuildProofs`.** `BuildImplements` is the refinement: each step maps to a step of
`SkillReconciler` or a stutter, so the theorems above carry over (`BuildKeepsInvariants`).
`AgentsAreWholeCorrect` needs what the half-built agent has to do with the versions read; the
invariant `BuildInv` is `TypeOK`, `BuildTypeOK` and `AgentsAreWhole` with `BuildIsOnCourse` (the servers listed
are those still to do and those made).

**`AgentCacheProofs`.** `CacheSteps`: each step is one of the reconciler with the loop
unchanged, one of the loop that leaves the map and the directories alone, the stop, or a
restart. The first kind keeps the reconciler's invariants by the step lemmas of
`SkillReconcilerProofs`, the second changes nothing they speak of, the third only removes
directories, and a restart is like an initial state with every object an event.
`WakeUpCorrect` is inductive by itself: every action that adds to `signalled` leaves a
token, and the token is only taken on the way to the snapshot. `OnlyCurrentPassCorrect` says
what the `os.Stat` before a run is worth at the moment it is made: entries in the loop's copy go
stale, but one whose directory is still on disk is the one in the map (`HeldIsCurrent`), because every
removal from the map removes the directory and the name is not given out again while it
is held (`NoDirComesBack`). `CacheVersionsCorrect` carries `VersionsCorrect` over; a
restart satisfies `VersionsSeen` with an empty map. `OnlySupersededLoseFiles` bounds the
finding of `agent_cache_files`: an agent that has lost its files is no longer the one in the map.

**`AgentEventsProofs`.** `EventsFoldRight`: for a stream of any length, both folds are what
`FoldsRight` says. A fold is a sum over the set of positions in an order `CHOOSE` picks, so the
proof gives an explicit function of that set and shows that the recursive definition in
`MapThenFoldSet` is met by it and by no other (`FoldIsFolded`). Tokens are counted as the
cardinality of a set of units (`SumIsCount`). The induction over sets that uniqueness needs is
`SetInduction`, derived from the minimal element of a well-founded order, a library theorem
that takes no operator as a parameter. `StreamFoldsRight` says it of one stream, and
`OutcomeType` gives the types.

**`SkillRunProofs`.** `RunsFoldedCorrect` is `RunsAreFolded`: `StreamCounted` says that a run
on its way to the status update had no error in its stream and carries all its tokens, which
`RunCompletes` establishes by `StreamFoldsRight`. `TotalsCorrect` (`TotalsGrowByTheRun`) and
`OwnerCorrect` (`UpdateOwnerKeepsEdits`) hold because an accepted copy is equal, in what it
does not change, to the stored Skill; `StreamCounted` makes what is added all the tokens. The
inductive invariant `RunInv`
says this of every copy: one with the stored version has the stored contents and an older
one a smaller version (`CacheTrails` for the cache, `StatusTrails` for the status update,
`OwnerTrails` for `update_owner`). `OnlyStaleStartsAreEarly`, from the same invariant: a run
that starts before its interval, not requested, was started from a cached copy older than the
stored Skill, and from nothing else.

**`AdvisoryFlowProofs`.** The same argument for advisories, `Targeted`, `ViewTrails`,
`ToolTrailsOf` and `WorkTrails` in `FlowInv`, with `ApprovalKnown`: `agreed` is set exactly
when an advisory that exists is approved, and until then nothing was executed. From it `ContractKept`
maps every step to a step of `ApprovalContract` or a stutter, `ApprovalSticksCorrect` shows
that no copy that is accepted lacks an approval, and `AgreedAsStoredCorrect` that the worker's
copy, when it is accepted, has the stored proposal. `ExecutedAtMostOnce` proves of
`ApprovalContract` what it comes to, and with `ContractKept` of the controller: what was executed is
nothing, or once the proposal agreed on.

**`RolloutProofs`.** `OldBlocksNewCorrect`: as long as the old pod leads, the new one is not
ready. Its invariant `LeaseInv` is that whoever leads holds the lease, and whoever has a
model leads or is terminating. `UpgradeBlockedCorrect` makes of it why the counterexample of
`rollout` is no accident: in every behaviour in which the old process does not exit, the new
pod is never ready and the old one never told to stop. The invariant `OldHolds` adds that
from `Upgrade` on the old pod leads with its model.

Only model-checked: all liveness (`Converges`, `RunsCurrentAgent`, `SignalsAreHeeded`,
`RequestIsServed`, `ApproverIsHeard`), since the prover has no rule for fairness with
ENABLED. The violations are TLC's counterexamples.

## What could follow

In this order: `AgentBuild` with `RunnerLoop`, shown to implement `AgentCache`, so that the
theorems about building and about running hold of one system; a user's clock that runs ahead in `SkillRun` (requests dated in the future);
`AdvisoryFlow` with two advisories as a passing run, when a faster encoding of the queue allows;
unpacking of ConfigMap keys to paths as an operator; runs that never return, with what they
block, once the code bounds them.

## Not modelled

- The process `run_script` starts, file names and contents, MCP connections once they are
  made, and the HTTP transports: I/O.
- `MCPCleanup` and the closers: none of the transports `mcp_manager.go` creates in production
  is an `io.Closer`, so the closers are always empty and `MCPCleanupFunc` returns nil.
- `os.RemoveAll` that fails: `removeSkillDir` drops its error, and the models let the directory
  go. `OnlyCurrentAgentsPass` rests on that; a directory that stays would let the rest of a sweep
  run a superseded agent.
- A nil `RunnerLoop.Model`: the interleaving in which an agent is built before the model
  exists is in `AgentCache` (a build while `loop` is "starting"), but the entry does not
  record it, since nothing says what should hold then.
- The choice and set-up of the model back end, flags, TLS, metrics, certificate watchers:
  configuration.
- `tokensLastRun`, the split of the token counts, 32-bit and 64-bit overflow, event messages
  and their truncation, logging and Kubernetes events: nothing decides on them.
- Generated deep copies, CRD defaults and validation, RBAC.
- The language model's choices: tool calls come in any order with any argument.
- Helm chart and bundle beyond what `Rollout` takes from them, hack scripts, CI.

## Running

    tlc -workers 2 -config AgentBuild.cfg MCAgentBuild
    tlc -workers 2 -config AgentCache.cfg MCAgentCache
    tlc -workers 2 -config AgentCacheLive.cfg MCAgentCache
    tlc -workers 2 -config SkillRun.cfg MCSkillRun
    tlc -workers 2 -config AdvisoryFlow.cfg MCAdvisoryFlow
    tlapm SkillReconcilerProofs.tla    # and the other ...Proofs modules

The longest runs are `advisory_flow`, `agent_cache`, `skill_run` and `agent_build`, two to three
minutes each. The runs with a violation are
`SkillReconcilerInterval.cfg` of `MCSkillReconciler`, `AgentCacheFiles.cfg` of `MCAgentCache`,
`SkillRunRequest.cfg` and `SkillRunInterval.cfg` of `MCSkillRun`, `AdvisoryFlowExecuted.cfg`
and `AdvisoryFlowDuplicates.cfg` of `MCAdvisoryFlow`, and `Rollout.cfg` of `Rollout`.
