--------------------------- MODULE AdvisoryFlow ---------------------------
(***************************************************************************)
(* The Advisories of one Skill, from the tools that write them to the      *)
(* execution of an approved proposal: create_advisory and                  *)
(* set_advisory_labels (skill_controller.go), createFallbackAdvisory and   *)
(* RunWithPrompt (agent_runner.go), AdvisoryReconciler                     *)
(* (advisory_controller.go), the people who approve or delete advisories,  *)
(* and crashes of the process.                                             *)
(*                                                                         *)
(* Reads come from an informer cache (view) that trails the API server     *)
(* (adv).  An update carries the resource version of the copy it was made  *)
(* from and is refused when the object has been written since.             *)
(***************************************************************************)
EXTENDS AgentEvents

CONSTANTS
  Names,        \* names of advisories; generateName never repeats one
  Callers,      \* agents that may be in a tool call at the same time
  Texts,        \* texts agents report
  Props,        \* proposals agents make
  FallbackText, \* "Tool execution failed during ... agent run"
  FallbackProp, \* "Investigate the tool failures and consider disabling ..."
  NoText,       \* status.advisory is empty
  NoProp,       \* status.proposal is empty
  Undecided,    \* history: not approved yet
  Unused,       \* no advisory had this name yet
  Gone,         \* the advisory was deleted
  NoName,       \* the advisory has not been created yet
  NoCall,       \* the agent is in no advisory tool
  NoWork,       \* the advisory worker is in no request
  MaxRev        \* bound: rewrites of an advisory by tools

ASSUME BoundAssumption == MaxRev \in Nat /\ FallbackProp \in Props

VARIABLES
  adv,          \* advisories in the API server
  view,         \* advisories in the informer cache
  tool,         \* the advisory tool each agent is in, with what it read
  queue,        \* advisories waiting for the worker
  work,         \* the request the worker is in, with its copy
  agreed,       \* history: the proposal that was marked approved
  done          \* history: the proposals whose execution was started

vars == <<adv, view, tool, queue, work, agreed, done>>

Advisory == [rev: Nat, text: Texts \cup {FallbackText, NoText},
             prop: Props \cup {NoProp}, approver: BOOLEAN, approved: BOOLEAN,
             labelled: BOOLEAN]

Call == [op: {"create", "status", "label"}, name: Names \cup {NoName}, copy: Advisory]

Work == [step: {"update", "execute", "run"}, name: Names, copy: Advisory]

ASSUME NamesAssumption ==
  /\ Unused \notin Advisory /\ Gone \notin Advisory /\ Unused # Gone
  /\ NoName \notin Names /\ NoCall \notin Call /\ NoWork \notin Work
  /\ Undecided \notin Props \cup {NoProp} /\ NoProp \notin Props
  /\ NoText \notin Texts \cup {FallbackText}

TypeOK ==
  /\ adv \in [Names -> Advisory \cup {Unused, Gone}]
  /\ view \in [Names -> Advisory \cup {Unused, Gone}]
  /\ tool \in [Callers -> Call \cup {NoCall}]
  /\ queue \subseteq Names
  /\ work \in Work \cup {NoWork}
  /\ agreed \in [Names -> Props \cup {NoProp, Undecided}]
  /\ done \in [Names -> Seq(Props)]

Init ==
  /\ adv = [a \in Names |-> Unused]
  /\ view = adv
  /\ tool = [c \in Callers |-> NoCall]
  /\ queue = {}
  /\ work = NoWork
  /\ agreed = [a \in Names |-> Undecided]
  /\ done = [a \in Names |-> <<>>]

Exists(x) == x \notin {Unused, Gone}

\* The API server takes an update of a made from copy.
Accepts(a, copy) == IF Exists(adv[a]) THEN adv[a].rev = copy.rev ELSE FALSE

\* The status subresource of copy replaces the stored one.
WithStatus(x, copy) ==
  [x EXCEPT !.rev = @ + 1, !.text = copy.text, !.prop = copy.prop,
            !.approved = copy.approved]

\* The metadata and spec of a labelled copy replace the stored ones.
WithMetadata(x, copy) ==
  [x EXCEPT !.rev = @ + 1, !.labelled = TRUE, !.approver = copy.approver]

-----------------------------------------------------------------------------
(* The informer and the people.                                            *)

\* The cache learns what became of a, and a is enqueued.
Sync(a) ==
  /\ view[a] # adv[a]
  /\ view' = [view EXCEPT ![a] = adv[a]]
  /\ queue' = queue \cup {a}
  /\ UNCHANGED <<adv, tool, work, agreed, done>>

\* kubectl patch sets spec.approver, without a resource version.
SetApprover(a) ==
  /\ Exists(adv[a])
  /\ ~adv[a].approver
  /\ adv' = [adv EXCEPT ![a].approver = TRUE, ![a].rev = @ + 1]
  /\ UNCHANGED <<view, tool, queue, work, agreed, done>>

\* By a person, or by the garbage collector once the Skill is deleted.
DeleteAdvisory(a) ==
  /\ Exists(adv[a])
  /\ adv' = [adv EXCEPT ![a] = Gone]
  /\ UNCHANGED <<view, tool, queue, work, agreed, done>>

-----------------------------------------------------------------------------
(* The tools.  Any of their requests may fail: the cache lags behind, the  *)
(* API server is out of reach, or its answer is lost after it has acted.   *)
(* The agent may leave the text or the proposal empty.                     *)

InTool(c, op) == tool[c] # NoCall /\ tool[c].op = op

Enter(c, op, a, copy) ==
  /\ tool' = [tool EXCEPT ![c] = [op |-> op, name |-> a, copy |-> copy]]
  /\ UNCHANGED <<adv, view, queue, work, agreed, done>>

Leave(c) == tool' = [tool EXCEPT ![c] = NoCall]

Blank(t, p) == [rev |-> 0, text |-> t, prop |-> p, approver |-> FALSE,
                approved |-> FALSE, labelled |-> FALSE]

\* Advisories of the Skill that the cache shows with text t.
Matches(t) == {a \in Names : Exists(view[a]) /\ view[a].text = t}

\* Mutant: the existing advisory gets a new status, as a new one does.
FindExistingAndReset(c, t, p) ==
  /\ tool[c] = NoCall
  /\ \E a \in Matches(t) :
       /\ view[a].rev < MaxRev
       /\ Enter(c, "status", a, [view[a] EXCEPT !.prop = p, !.approved = FALSE])

\* create_advisory finds an advisory with the same text: its copy gets the
\* new proposal.
FindExisting(c, t, p) ==
  /\ tool[c] = NoCall
  /\ \E a \in Matches(t) :
       /\ view[a].rev < MaxRev
       /\ Enter(c, "status", a, [view[a] EXCEPT !.prop = p])

\* create_advisory finds none, and will create one.
FindNone(c, t, p) ==
  /\ tool[c] = NoCall
  /\ Matches(t) = {}
  /\ Enter(c, "create", NoName, Blank(t, p))

\* A run of the loop ends in a result that calls for it.
\* createFallbackAdvisory does not look for an existing advisory.
Fallback(c) ==
  /\ tool[c] = NoCall
  /\ \E r \in Results : FallbackDue(r)
  /\ Enter(c, "create", NoName, Blank(FallbackText, FallbackProp))

\* Create: the new object has its name and owner but no status yet.
CreateObject(c, a) ==
  /\ InTool(c, "create")
  /\ adv[a] = Unused
  /\ adv' = [adv EXCEPT ![a] = Blank(NoText, NoProp)]
  /\ tool' = [tool EXCEPT ![c].op = "status", ![c].name = a]
  /\ UNCHANGED <<view, queue, work, agreed, done>>

\* Status().Update of the new or the existing advisory.
WriteStatus(c) ==
  /\ InTool(c, "status")
  /\ Accepts(tool[c].name, tool[c].copy)
  /\ adv' = [adv EXCEPT ![tool[c].name] = WithStatus(@, tool[c].copy)]
  /\ Leave(c)
  /\ UNCHANGED <<view, queue, work, agreed, done>>

\* set_advisory_labels reads the advisory.  Its check for labels that are
\* already set reads a key it never writes, so it always goes on to write.
GetForLabels(c, a) ==
  /\ tool[c] = NoCall
  /\ Exists(view[a])
  /\ Enter(c, "label", a, view[a])

\* Update replaces metadata and spec; the server ignores the status, and a
\* write that changes nothing leaves the version as it is.  (An advisory is
\* about one Job, so the labels written are always the same.)
WriteLabels(c) ==
  /\ InTool(c, "label")
  /\ Accepts(tool[c].name, tool[c].copy)
  /\ adv' = [adv EXCEPT ![tool[c].name] =
               IF @.labelled THEN @ ELSE WithMetadata(@, tool[c].copy)]
  /\ Leave(c)
  /\ UNCHANGED <<view, queue, work, agreed, done>>

\* The object is created, but the tool hears of an error and gives up.
CreateAnswerLost(c, a) ==
  /\ InTool(c, "create")
  /\ adv[a] = Unused
  /\ adv' = [adv EXCEPT ![a] = Blank(NoText, NoProp)]
  /\ Leave(c)
  /\ UNCHANGED <<view, queue, work, agreed, done>>

\* The request fails; the tool reports an error to its agent.
ToolFails(c) ==
  /\ tool[c] # NoCall
  /\ Leave(c)
  /\ UNCHANGED <<adv, view, queue, work, agreed, done>>

-----------------------------------------------------------------------------
(* AdvisoryReconciler.Reconcile.                                           *)

\* Mutant: an advisory without a proposal is not approved.
AwaitsExecution(x) == Exists(x) /\ x.approver /\ ~x.approved /\ x.prop # NoProp

\* An approver is named and the approval is not recorded yet.
AwaitsApproval(x) == Exists(x) /\ x.approver /\ ~x.approved

ReconcileAdvisory(a) ==
  /\ work = NoWork
  /\ a \in queue
  /\ queue' = queue \ {a}
  /\ work' = IF AwaitsApproval(view[a])
               THEN [step |-> "update", name |-> a,
                     copy |-> [view[a] EXCEPT !.approved = TRUE]]
               ELSE NoWork
  /\ UNCHANGED <<adv, view, tool, agreed, done>>

At(step) == work # NoWork /\ work.step = step

\* The status update of the approval, as the API server does it.
Approve ==
  /\ At("update")
  /\ Accepts(work.name, work.copy)
  /\ adv' = [adv EXCEPT ![work.name] = WithStatus(@, work.copy)]
  /\ agreed' = [agreed EXCEPT ![work.name] = work.copy.prop]
  /\ UNCHANGED <<view, tool, done>>

\* Mutant: an empty proposal is executed too.
MarkApprovedAlwaysRun ==
  /\ Approve
  /\ work' = [work EXCEPT !.step = "execute"]
  /\ UNCHANGED queue

\* Mutant: a Status().Patch of the Approved time, without a version.
PatchApproved ==
  /\ At("update")
  /\ Exists(adv[work.name])
  /\ adv' = [adv EXCEPT ![work.name].approved = TRUE, ![work.name].rev = @ + 1]
  /\ agreed' = [agreed EXCEPT ![work.name] = work.copy.prop]
  /\ work' = IF work.copy.prop = NoProp THEN NoWork ELSE [work EXCEPT !.step = "execute"]
  /\ UNCHANGED <<view, tool, queue, done>>

\* The approval is recorded before the proposal is executed.
MarkApproved ==
  /\ Approve
  /\ work' = IF work.copy.prop = NoProp THEN NoWork ELSE [work EXCEPT !.step = "execute"]
  /\ UNCHANGED queue

Retry ==
  /\ queue' = queue \cup {work.name}
  /\ work' = NoWork

\* The approval is recorded, but Reconcile hears of an error.
ApprovalAnswerLost == Approve /\ Retry

\* The update fails: Reconcile returns the error and is called again.
ApprovalFails ==
  /\ At("update")
  /\ Retry
  /\ UNCHANGED <<adv, view, tool, agreed, done>>

\* RunWithPrompt starts the Skill's agent on the proposal of the copy.  Whether
\* an agent is cached, and has its files, is up to AgentCache.
StartProposal ==
  /\ At("execute")
  /\ work' = [work EXCEPT !.step = "run"]
  /\ done' = [done EXCEPT ![work.name] = Append(@, work.copy.prop)]
  /\ UNCHANGED <<adv, view, tool, queue, agreed>>

\* RunWithPrompt finds no agent, or the run cannot begin: an event is recorded and nothing else.
ProposalNotStarted ==
  /\ At("execute")
  /\ work' = NoWork
  /\ UNCHANGED <<adv, view, tool, queue, agreed, done>>

\* The run ends, well or with an error, and Reconcile returns nil.
ProposalEnds ==
  /\ At("run")
  /\ work' = NoWork
  /\ UNCHANGED <<adv, view, tool, queue, agreed, done>>

\* The process dies and starts again: calls and requests are lost, the cache
\* is read afresh, and every advisory is enqueued.
Crash ==
  /\ view' = adv
  /\ tool' = [c \in Callers |-> NoCall]
  /\ queue' = {a \in Names : Exists(adv[a])}
  /\ work' = NoWork
  /\ UNCHANGED <<adv, agreed, done>>

-----------------------------------------------------------------------------
PeopleStep == \E a \in Names : SetApprover(a) \/ DeleteAdvisory(a)

FindStep(c) ==
  \/ \E t \in Texts \cup {NoText}, p \in Props \cup {NoProp} :
       FindExisting(c, t, p) \/ FindNone(c, t, p)
  \/ Fallback(c)
  \/ \E a \in Names : GetForLabels(c, a)

WriteStep(c) ==
  \/ \E a \in Names : CreateObject(c, a) \/ CreateAnswerLost(c, a)
  \/ WriteStatus(c)
  \/ WriteLabels(c)
  \/ ToolFails(c)

WorkStep ==
  \/ MarkApproved
  \/ ApprovalAnswerLost
  \/ ApprovalFails
  \/ StartProposal
  \/ ProposalNotStarted
  \/ ProposalEnds

Next ==
  \/ \E a \in Names : Sync(a)
  \/ PeopleStep
  \/ \E c \in Callers : FindStep(c) \/ WriteStep(c)
  \/ \E a \in Names : ReconcileAdvisory(a)
  \/ WorkStep
  \/ Crash

Spec == Init /\ [][Next]_vars

\* The informer catches up; the worker finishes what it began (runs of an
\* agent are assumed to end), its queue is first-in-first-out, and an update
\* that is tried over and over does not fail every time.
Fairness ==
  /\ \A a \in Names :
       /\ WF_vars(Sync(a))
       /\ SF_vars(ReconcileAdvisory(a))
       /\ SF_vars(MarkApproved /\ work.name = a)
  /\ WF_vars(WorkStep)

FairSpec == Spec /\ Fairness

-----------------------------------------------------------------------------
(* Properties.                                                             *)

Contract == INSTANCE ApprovalContract WITH agreed <- agreed, done <- done

\* Stale caches, failed updates, lost answers and crashes included, the
\* controller keeps the contract: one proposal per approval, executed at most
\* once.
KeepsContract == Contract!ContractSpec

\* An approval is recorded only where an approver is named, and neither is
\* ever taken back by a tool that writes from an older copy.
ApprovalSticks ==
  [][\A a \in Names : Exists(adv[a]) /\ Exists(adv'[a]) =>
       /\ adv[a].approver => adv'[a].approver
       /\ adv[a].approved => adv'[a].approved
       /\ adv'[a].approved => adv'[a].approver]_vars

\* The proposal an approval settles on, and that is then executed, is the one
\* the API server holds at that moment, with an approver named, and not an
\* older one the worker has read.
AgreedAsStored ==
  [][\A a \in Names : agreed'[a] # agreed[a] =>
       /\ Exists(adv[a]) /\ Exists(adv'[a])
       /\ adv[a].approver
       /\ adv[a].prop = agreed'[a] /\ adv'[a].prop = agreed'[a]]_vars

\* Naming an approver is noticed: the approval is recorded in the end, or
\* the advisory deleted, unless the process keeps crashing.
ApproverIsHeard ==
  \/ \A a \in Names :
       (IF Exists(adv[a]) THEN adv[a].approver ELSE FALSE)
         ~> (IF Exists(adv[a]) THEN adv[a].approved ELSE TRUE)
  \/ []<><<Crash>>_vars

\* What the README says of approving: an approved proposal is executed.  Once
\* the controller is at rest with an approved advisory, the cache up to date and
\* no request for it queued or in progress, its proposal was started.
ApprovedIsExecuted ==
  \A a \in Names :
    (/\ Exists(adv[a]) /\ agreed[a] \in Props
     /\ view[a] = adv[a] /\ a \notin queue
     /\ work # NoWork => work.name # a) => done[a] # <<>>

\* What the comment in create_advisory says it looks for: no two advisories
\* of the Skill have the same text.
NoDuplicates ==
  \A a, b \in Names :
    (Exists(adv[a]) /\ Exists(adv[b]) /\ adv[a].text \in Texts
       /\ adv[a].text = adv[b].text) => a = b
=============================================================================
