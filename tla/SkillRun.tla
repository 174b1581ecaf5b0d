----------------------------- MODULE SkillRun -----------------------------
(***************************************************************************)
(* One Skill while its agent is run: runSkillAgentIfDue of the runner loop *)
(* (agent_runner.go), the update_owner tool its agents may call            *)
(* (skill_controller.go), and users who edit the Skill.                    *)
(*                                                                         *)
(* Reads come from an informer cache that trails the API server; an update *)
(* carries the resource version of the copy it was made from, and the API  *)
(* server refuses it when the object has been written since.  Any request  *)
(* may also fail for another reason.                                       *)
(***************************************************************************)
EXTENDS Integers, AgentEvents

CONSTANTS
  Interval,     \* AgentEntry.Interval, in ticks of the clock
  SpecIntervals,\* values users and agents give spec.intervalMinute
  MaxTokens,    \* bound: the tokens of one run
  MaxTime,      \* bound: the clock
  MaxRev,       \* bound: writes of the Skill
  Never,        \* a timestamp that is not set
  Keep,         \* an argument the agent left out
  NoCopy,       \* the Skill has not been read again yet
  NoRun,        \* the loop is not in runSkillAgentIfDue
  NoCall        \* no update_owner call is in progress

\* What the CRD puts where spec.intervalMinute is missing.
DefaultInterval == 5

ASSUME BoundsAssumption ==
  /\ Interval \in Int /\ MaxTokens \in Nat /\ MaxTime \in Nat /\ MaxRev \in Nat
  /\ DefaultInterval \in SpecIntervals

VARIABLES
  now,          \* the clock; timestamps are whole seconds of it
  skill,        \* the Skill in the API server
  cached,       \* the Skill in the informer cache
  run,          \* runSkillAgentIfDue and its local variables
  call          \* update_owner between its read and its write

vars == <<now, skill, cached, run, call>>

Time == 0..MaxTime
Stamp == Time \cup {Never}

Skill == [rev: Nat, enable: BOOLEAN, ival: SpecIntervals, requested: Stamp,
          last: Stamp, tokens: Nat, runs: Nat]

\* The last three fields are history: when the agent was started, and the
\* tokens of all its events and whether one was an error.
Run == [step: {"agent", "fetch", "update"}, spent: Nat, copy: Skill \cup {NoCopy},
        start: Time, tokens: Nat, error: BOOLEAN]

Call == [copy: Skill, enable: BOOLEAN \cup {Keep}, ival: SpecIntervals \cup {Keep}]

ASSUME NamesAssumption ==
  /\ Never \notin Nat
  /\ NoCopy \notin Skill
  /\ NoRun \notin Run
  /\ NoCall \notin Call
  /\ Keep \notin BOOLEAN /\ Keep \notin SpecIntervals

TypeOK ==
  /\ now \in Time
  /\ skill \in Skill
  /\ cached \in Skill
  /\ run \in Run \cup {NoRun}
  /\ run # NoRun => (run.step = "update" <=> run.copy # NoCopy)
  /\ call \in Call \cup {NoCall}

New(rev, i) == [rev |-> rev, enable |-> TRUE, ival |-> i, requested |-> Never,
                last |-> Never, tokens |-> 0, runs |-> 0]

\* The manifest leaves the interval to its default; users may set it at once.
Init ==
  /\ now = 0
  /\ skill = New(0, DefaultInterval)
  /\ cached = skill
  /\ run = NoRun
  /\ call = NoCall

-----------------------------------------------------------------------------
(* The clock, the cache and the users.                                     *)

Tick ==
  /\ now < MaxTime
  /\ now' = now + 1
  /\ UNCHANGED <<skill, cached, run, call>>

\* The informer catches up with the API server.
Sync ==
  /\ cached # skill
  /\ cached' = skill
  /\ UNCHANGED <<now, skill, run, call>>

Writable == skill.rev < MaxRev

\* kubectl patches one field and carries no resource version.
UserWrites(new) ==
  /\ Writable
  /\ new # skill
  /\ skill' = [new EXCEPT !.rev = skill.rev + 1]
  /\ UNCHANGED <<now, cached, run, call>>

\* The annotation khieron.io/run-requested is set to the user's clock.
RequestRun == UserWrites([skill EXCEPT !.requested = now])

SwitchAgent == UserWrites([skill EXCEPT !.enable = ~@])

SetInterval(i) == UserWrites([skill EXCEPT !.ival = i])

\* The Skill is deleted and the same manifest applied again.
Recreate ==
  /\ Writable
  /\ skill' = New(skill.rev + 1, skill.ival)
  /\ UNCHANGED <<now, cached, run, call>>

-----------------------------------------------------------------------------
(* runSkillAgentIfDue.                                                     *)

\* The run-requested annotation is later than the last analysis.
RunRequested(sk) ==
  /\ sk.requested # Never
  /\ sk.last # Never => sk.requested > sk.last

IntervalElapsed(sk) == IF sk.last = Never THEN TRUE ELSE now - sk.last >= Interval

\* Mutant: the interval is looked at before the annotation.
isRunDueByInterval(sk) == sk.enable /\ IntervalElapsed(sk)

isRunDue(sk) == sk.enable /\ (RunRequested(sk) \/ IntervalElapsed(sk))

\* The copy in the cache is due: start the agent.  A copy that is not due
\* ends the call without effect.
StartRun ==
  /\ Writable
  /\ run = NoRun
  /\ isRunDue(cached)
  /\ run' = [step |-> "agent", spent |-> 0, copy |-> NoCopy,
             start |-> now, tokens |-> 0, error |-> FALSE]
  /\ UNCHANGED <<now, skill, cached, call>>

At(step) == run # NoRun /\ run.step = step

\* runSkillAgentIfDue returns an error: the skill directory is gone, the event
\* stream ends with one, the Skill cannot be read again, or the update is
\* refused or fails.  The run leaves no trace.
RunFails ==
  /\ run # NoRun
  /\ run' = NoRun
  /\ UNCHANGED <<now, skill, cached, call>>

\* The event stream ends without an error.  (The fallback advisory, if it is
\* due, is in AdvisoryFlow; its error is only logged.)
RunCompletes(o) ==
  /\ At("agent")
  /\ o.result # NoResult
  /\ o.result.tokens \in 0..MaxTokens
  /\ run' = [run EXCEPT !.step = "fetch", !.spent = o.result.tokens,
                        !.tokens = o.contents.tokens, !.error = o.contents.error]
  /\ UNCHANGED <<now, skill, cached, call>>

\* Mutant: the step is not left, and may be taken again.
RefetchAgain ==
  /\ At("fetch")
  /\ run' = [run EXCEPT !.copy = [cached EXCEPT !.last = now,
                                       !.tokens = @ + run.spent,
                                       !.runs = @ + 1]]
  /\ UNCHANGED <<now, skill, cached, call>>

\* The Skill is read again, from the cache, and its status filled in.
Refetch ==
  /\ At("fetch")
  /\ run' = [run EXCEPT !.step = "update",
               !.copy = [cached EXCEPT !.last = now,
                                       !.tokens = @ + run.spent,
                                       !.runs = @ + 1]]
  /\ UNCHANGED <<now, skill, cached, call>>

\* The API server takes a write made from the version it holds.
Accepts(copy) == copy.rev = skill.rev

\* Mutant: a Status().Patch, which carries no resource version.
PatchStatus ==
  /\ At("update")
  /\ skill' = [skill EXCEPT !.rev = @ + 1, !.last = run.copy.last,
                            !.tokens = run.copy.tokens, !.runs = run.copy.runs]
  /\ run' = NoRun
  /\ UNCHANGED <<now, cached, call>>

\* Status().Update: the status subresource of the copy replaces the stored
\* one; the spec and the annotations are not touched.
UpdateStatus ==
  /\ At("update")
  /\ Accepts(run.copy)
  /\ skill' = [skill EXCEPT !.rev = @ + 1, !.last = run.copy.last,
                            !.tokens = run.copy.tokens, !.runs = run.copy.runs]
  /\ run' = NoRun
  /\ UNCHANGED <<now, cached, call>>

-----------------------------------------------------------------------------
(* update_owner.                                                           *)

Given(arg, old) == IF arg = Keep THEN old ELSE arg

\* The field is marked omitempty: an update made from a Go object leaves out a
\* zero, and the API server puts the default in its place.
Defaulted(i) == IF i = 0 THEN DefaultInterval ELSE i

\* update_owner reads the Skill and sets the fields it was given; with none
\* it returns without writing.  Any agent run may call it: the loop's, or one
\* of RunWithPrompt, which the loop does not know of.
GetOwner(e, i) ==
  /\ call = NoCall
  /\ e # Keep \/ i # Keep
  /\ call' = [copy |-> [cached EXCEPT !.enable = Given(e, @), !.ival = Given(i, @)],
              enable |-> e, ival |-> i]
  /\ UNCHANGED <<now, skill, cached, run>>

\* Mutant: the spec is rebuilt from the arguments; one left out reads as its
\* zero value.
UpdateOwnerFromArgs ==
  /\ Writable
  /\ call # NoCall
  /\ Accepts(call.copy)
  /\ skill' = [skill EXCEPT !.rev = @ + 1, !.ival = call.copy.ival,
                            !.enable = IF call.enable = Keep THEN FALSE ELSE call.enable]
  /\ call' = NoCall
  /\ UNCHANGED <<now, cached, run>>

\* Update replaces the metadata and spec by the copy's; the status is not
\* part of it, and a write that changes nothing keeps the version.
UpdateOwner ==
  /\ Writable
  /\ call # NoCall
  /\ Accepts(call.copy)
  /\ LET new == [skill EXCEPT !.enable = call.copy.enable,
                              !.ival = Defaulted(call.copy.ival),
                              !.requested = call.copy.requested]
     IN  skill' = IF new = skill THEN skill ELSE [new EXCEPT !.rev = @ + 1]
  /\ call' = NoCall
  /\ UNCHANGED <<now, cached, run>>

\* The update is refused or fails; the tool returns an error to the agent.
OwnerFails ==
  /\ call # NoCall
  /\ call' = NoCall
  /\ UNCHANGED <<now, skill, cached, run>>

-----------------------------------------------------------------------------
UserStep ==
  \/ RequestRun
  \/ SwitchAgent
  \/ \E i \in SpecIntervals : SetInterval(i)
  \/ Recreate

RunStep ==
  \/ StartRun
  \/ RunFails
  \/ \E o \in Outcomes : RunCompletes(o)
  \/ Refetch
  \/ UpdateStatus

ToolStep ==
  \/ \E e \in BOOLEAN \cup {Keep}, i \in SpecIntervals \cup {Keep} : GetOwner(e, i)
  \/ UpdateOwner
  \/ OwnerFails

Next == Tick \/ Sync \/ UserStep \/ RunStep \/ ToolStep

Spec == Init /\ [][Next]_vars

\* The informer catches up, the loop sweeps and no run hangs; runs and requests
\* that are tried over and over do not fail every time.
Fairness ==
  /\ WF_vars(Sync) /\ WF_vars(RunStep)
  /\ SF_vars(\E o \in Outcomes : RunCompletes(o))
  /\ SF_vars(Refetch) /\ SF_vars(UpdateStatus)

FairSpec == Spec /\ Fairness

-----------------------------------------------------------------------------
(* Properties.                                                             *)

\* The totals in the status go on from where they are, by one run and all its
\* tokens at a time: however far the cache trails and whoever writes in between,
\* no run is counted twice or undone.  (A run whose update is refused, and one
\* of RunWithPrompt, is not counted at all.)
TotalsGrowByTheRun ==
  [][skill'.runs # skill.runs \/ skill'.tokens # skill.tokens =>
       \/ Recreate
       \/ /\ run # NoRun /\ run' = NoRun
          /\ skill'.runs = skill.runs + 1
          /\ skill'.tokens = skill.tokens + run.tokens]_vars

\* Whatever events the agent yields, an error drops all of them, and otherwise
\* every token is counted and a failed tool left to the fallback exactly when
\* create_advisory was never called; and what a run goes on to record is a
\* stream without an error, with all its tokens.
RunsAreFolded ==
  /\ At("agent") => FoldsRight
  /\ At("fetch") \/ At("update") => ~run.error /\ run.spent = run.tokens

\* update_owner changes what it was asked to change: what users, the loop or
\* another call wrote after it read the Skill is never put back.  Only an
\* interval of zero, which an update cannot carry, becomes the default.
UpdateOwnerKeepsEdits ==
  [][call # NoCall /\ call' = NoCall =>
       /\ call.enable = Keep => skill'.enable = skill.enable
       /\ call.ival = Keep => skill'.ival \in {skill.ival, Defaulted(skill.ival)}
       /\ skill'.requested = skill.requested
       /\ skill'.last = skill.last /\ skill'.runs = skill.runs]_vars

\* A requested run is not lost to a stale cache, a refused update or a failed
\* run: the request is answered, or the Skill switched off or written so often
\* that the bound is reached.
RequestIsServed ==
  (skill.enable /\ RunRequested(skill))
    ~> (~skill.enable \/ ~RunRequested(skill) \/ ~Writable)

\* What the README says of the annotation: setting it makes the Skill run.
\* A request stops being outstanding only by a run that started after it, or
\* with the Skill.
RequestIsAnswered ==
  [][RunRequested(skill) /\ ~RunRequested(skill') =>
       Recreate \/ (run # NoRun /\ run.start >= skill.requested)]_vars

\* What the README says of the interval: the agent is not started again
\* before the interval since the last recorded analysis has passed, unless a
\* run was requested.
IntervalIsKept ==
  [][run = NoRun /\ run' # NoRun => RunRequested(skill) \/ IntervalElapsed(skill)]_vars
=============================================================================
