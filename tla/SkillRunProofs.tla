--------------------------- MODULE SkillRunProofs ---------------------------
(***************************************************************************)
(* Theorems about SkillRun, for any interval, clock, token counts and      *)
(* number of writes: the totals grow run by run, and update_owner          *)
(* overwrites nobody, although every read comes from a cache that trails;  *)
(* and what a run records is what its events were.                         *)
(***************************************************************************)
EXTENDS SkillRun, AgentEventsProofs, TLAPS

USE DEF At

-----------------------------------------------------------------------------
(* The invariant.                                                          *)

\* The cache is behind the API server or agrees with it.
CacheTrails ==
  /\ cached.rev <= skill.rev
  /\ cached.rev = skill.rev => cached = skill

\* A status that can still be accepted was filled in from what is stored.
StatusTrails ==
  At("update") =>
    /\ run.copy.rev <= skill.rev
    /\ Accepts(run.copy) => /\ run.copy.tokens = skill.tokens + run.spent
                            /\ run.copy.runs = skill.runs + 1

\* A spec that can still be accepted differs from what is stored in nothing
\* but the fields update_owner was given.
OwnerTrails ==
  call # NoCall =>
    /\ call.copy.rev <= skill.rev
    /\ Accepts(call.copy) => /\ call.enable = Keep => call.copy.enable = skill.enable
                             /\ call.ival = Keep => call.copy.ival = skill.ival
                             /\ call.copy.requested = skill.requested

\* A run on its way to the status update had no error in its stream, and has
\* all its tokens.
StreamCounted == At("fetch") \/ At("update") => ~run.error /\ run.spent = run.tokens

RunInv == TypeOK /\ StreamCounted /\ CacheTrails /\ StatusTrails /\ OwnerTrails

-----------------------------------------------------------------------------
(* Type correctness.                                                       *)

LEMMA NewType ==
  ASSUME NEW rev \in Nat, NEW i \in SpecIntervals
  PROVE  New(rev, i) \in Skill
BY DEF New, Skill, Stamp

\* Writing one field of a Skill.
LEMMA EditedType ==
  ASSUME NEW sk \in Skill
  PROVE  /\ \A t \in Stamp : [sk EXCEPT !.requested = t] \in Skill
         /\ \A i \in SpecIntervals : [sk EXCEPT !.ival = i] \in Skill
         /\ [sk EXCEPT !.enable = ~@] \in Skill
         /\ \A n \in Nat : [sk EXCEPT !.rev = n] \in Skill
BY DEF Skill

\* Writing its status.
LEMMA WrittenType ==
  ASSUME NEW sk \in Skill, NEW copy \in Skill
  PROVE  [sk EXCEPT !.rev = @ + 1, !.last = copy.last,
                    !.tokens = copy.tokens, !.runs = copy.runs] \in Skill
<1>1. sk.rev + 1 \in Nat /\ copy.last \in Stamp /\ copy.tokens \in Nat /\ copy.runs \in Nat
  BY DEF Skill
<1> QED
  BY <1>1 DEF Skill

\* Writing its spec and annotation.
LEMMA MergedType ==
  ASSUME NEW sk \in Skill, NEW copy \in Skill
  PROVE  [sk EXCEPT !.enable = copy.enable, !.ival = Defaulted(copy.ival),
                    !.requested = copy.requested] \in Skill
<1>1. Defaulted(copy.ival) \in SpecIntervals
  BY BoundsAssumption DEF Defaulted, Skill
<1> QED
  BY <1>1 DEF Skill

\* A status filled in from a Skill is one of a Skill.
LEMMA FilledInType ==
  ASSUME NEW sk \in Skill, NEW t \in Time, NEW n \in Nat
  PROVE  [sk EXCEPT !.last = t, !.tokens = @ + n, !.runs = @ + 1] \in Skill
<1>1. t \in Stamp
  BY DEF Stamp
<1>2. sk.tokens + n \in Nat /\ sk.runs + 1 \in Nat
  BY DEF Skill
<1> QED
  BY <1>1, <1>2 DEF Skill

\* A Skill whose spec update_owner has changed is a Skill.
LEMMA GivenType ==
  ASSUME NEW sk \in Skill, NEW e \in BOOLEAN \cup {Keep}, NEW i \in SpecIntervals \cup {Keep}
  PROVE  [sk EXCEPT !.enable = Given(e, @), !.ival = Given(i, @)] \in Skill
<1>1. Given(e, sk.enable) \in BOOLEAN
  BY DEF Given, Skill
<1>2. Given(i, sk.ival) \in SpecIntervals
  BY DEF Given, Skill
<1> QED
  BY <1>1, <1>2 DEF Skill

LEMMA TypeStep == TypeOK /\ [Next]_vars => TypeOK'
<1> SUFFICES ASSUME TypeOK, [Next]_vars
             PROVE  TypeOK'
  OBVIOUS
<1> USE DEF TypeOK
<1>1. CASE Tick \/ Sync
  BY <1>1, BoundsAssumption DEF Tick, Sync, Time
<1>2. ASSUME NEW new \in Skill, UserWrites(new)
      PROVE  TypeOK'
  <2>1. skill.rev + 1 \in Nat
    BY DEF Skill
  <2>2. skill' = [new EXCEPT !.rev = skill.rev + 1]
    BY <1>2 DEF UserWrites
  <2>3. skill' \in Skill
    BY <2>1, <2>2, EditedType, Zenon
  <2> QED
    BY <1>2, <2>3 DEF UserWrites
<1>3. CASE RequestRun \/ SwitchAgent
  <2>1. now \in Stamp
    BY DEF Stamp
  <2>2. [skill EXCEPT !.requested = now] \in Skill /\ [skill EXCEPT !.enable = ~@] \in Skill
    BY <2>1, EditedType, Zenon
  <2> QED
    BY <1>2, <1>3, <2>2, Zenon DEF RequestRun, SwitchAgent
<1>4. ASSUME NEW i \in SpecIntervals, SetInterval(i)
      PROVE  TypeOK'
  <2>1. [skill EXCEPT !.ival = i] \in Skill
    BY EditedType, Zenon
  <2> QED
    BY <1>2, <1>4, <2>1, Zenon DEF SetInterval
<1>5. CASE Recreate
  <2>1. skill' \in Skill
    BY <1>5, NewType DEF Recreate, Skill
  <2> QED
    BY <1>5, <2>1 DEF Recreate
<1>6. CASE StartRun
  <2>1. run' \in Run /\ run'.step = "agent" /\ run'.copy = NoCopy
    BY <1>6 DEF StartRun, Run
  <2> QED
    BY <1>6, <2>1 DEF StartRun
<1>7. CASE RunFails
  BY <1>7 DEF RunFails
<1>8. ASSUME NEW o \in Outcomes, RunCompletes(o)
      PROVE  TypeOK'
  <2>1. /\ run \in Run /\ run.copy = NoCopy /\ o.result.tokens \in Nat
        /\ o.contents.tokens \in Nat /\ o.contents.error \in BOOLEAN
    BY <1>8, BoundsAssumption, OutcomeType DEF RunCompletes
  <2>2. run' \in Run /\ run'.step = "fetch" /\ run'.copy = NoCopy
    BY <1>8, <2>1 DEF RunCompletes, Run
  <2> QED
    BY <1>8, <2>2 DEF RunCompletes
<1>9. CASE Refetch
  <2> DEFINE filled == [cached EXCEPT !.last = now, !.tokens = @ + run.spent, !.runs = @ + 1]
  <2>1. run \in Run /\ run' = [run EXCEPT !.step = "update", !.copy = filled]
    BY <1>9 DEF Refetch
  <2>2. filled \in Skill
    BY <2>1, FilledInType DEF Run
  <2> HIDE DEF filled
  <2>3. run' \in Run /\ run'.step = "update" /\ run'.copy = filled
    BY <2>1, <2>2 DEF Run
  <2> QED
    BY <1>9, <2>2, <2>3, NamesAssumption DEF Refetch
<1>10. CASE UpdateStatus
  <2> DEFINE written == [skill EXCEPT !.rev = @ + 1, !.last = run.copy.last,
                                      !.tokens = run.copy.tokens, !.runs = run.copy.runs]
  <2>1. run.copy \in Skill /\ skill' = written
    BY <1>10 DEF UpdateStatus, Run
  <2>2. written \in Skill
    BY <2>1, WrittenType, Zenon
  <2> HIDE DEF written
  <2> QED
    BY <1>10, <2>1, <2>2 DEF UpdateStatus
<1>11. ASSUME NEW e \in BOOLEAN \cup {Keep}, NEW i \in SpecIntervals \cup {Keep}, GetOwner(e, i)
       PROVE  TypeOK'
  <2>1. call' \in Call
    BY <1>11, GivenType DEF GetOwner, Call
  <2> QED
    BY <1>11, <2>1 DEF GetOwner
<1>12. CASE UpdateOwner
  <2> DEFINE new == [skill EXCEPT !.enable = call.copy.enable,
                                  !.ival = Defaulted(call.copy.ival),
                                  !.requested = call.copy.requested]
  <2>1. call.copy \in Skill
    BY <1>12 DEF UpdateOwner, Call
  <2>2. new \in Skill
    BY <2>1, MergedType, Zenon
  <2>3. skill' = skill \/ skill' = [new EXCEPT !.rev = @ + 1]
    BY <1>12 DEF UpdateOwner
  <2> HIDE DEF new
  <2>4. new.rev + 1 \in Nat
    BY <2>2 DEF Skill
  <2>5. skill' \in Skill
    BY <2>2, <2>3, <2>4, EditedType, Zenon
  <2> QED
    BY <1>12, <2>5 DEF UpdateOwner
<1>13. CASE OwnerFails
  BY <1>13 DEF OwnerFails
<1>14. CASE UNCHANGED vars
  BY <1>14 DEF vars
<1> QED
  BY <1>1, <1>2, <1>3, <1>4, <1>5, <1>6, <1>7, <1>8, <1>9, <1>10, <1>11, <1>12, <1>13, <1>14
     DEF Next, UserStep, RunStep, ToolStep

LEMMA InitType == Init => TypeOK
<1> SUFFICES ASSUME Init PROVE TypeOK
  OBVIOUS
<1>1. skill \in Skill
  BY NewType, BoundsAssumption DEF Init
<1> QED
  BY <1>1, BoundsAssumption DEF Init, TypeOK, Time

\* The Skill, its cached copy, the run, the call and the totals keep their
\* types; a status update has a copy to write exactly when it is due.
THEOREM TypeCorrect == Spec => []TypeOK
BY InitType, TypeStep, PTL DEF Spec

-----------------------------------------------------------------------------
(* The invariant is inductive.                                             *)

\* A write of the Skill makes every copy of it stale.
LEMMA WriteStales ==
  ASSUME TypeOK, TypeOK', CacheTrails, StatusTrails, OwnerTrails,
         skill'.rev = skill.rev + 1, cached' = cached
  PROVE  /\ CacheTrails'
         /\ run' = run \/ run' = NoRun => StatusTrails'
         /\ call' = call \/ call' = NoCall => OwnerTrails'
<1>1. cached.rev \in Nat /\ skill.rev \in Nat
  BY DEF TypeOK, Skill
<1>2. CacheTrails'
  BY <1>1 DEF CacheTrails
<1>3. ASSUME run' = run
      PROVE  StatusTrails'
  <2>1. At("update") => run.copy.rev \in Nat
    BY DEF TypeOK, Run, Skill
  <2> QED
    BY <1>1, <1>3, <2>1 DEF StatusTrails, Accepts
<1>4. ASSUME call' = call
      PROVE  OwnerTrails'
  <2>1. call # NoCall => call.copy.rev \in Nat
    BY DEF TypeOK, Call, Skill
  <2> QED
    BY <1>1, <1>4, <2>1 DEF OwnerTrails, Accepts
<1> QED
  BY <1>2, <1>3, <1>4 DEF StatusTrails, OwnerTrails

\* A step that leaves the Skill and the copies made of it alone.
LEMMA QuietStep ==
  ASSUME TypeOK, CacheTrails, StatusTrails, OwnerTrails,
         skill' = skill,
         cached' = cached \/ cached' = skill,
         run' = run \/ ~At("update")',
         call' = call \/ call' = NoCall
  PROVE  CacheTrails' /\ StatusTrails' /\ OwnerTrails'
<1>1. CacheTrails'
  BY DEF CacheTrails, TypeOK, Skill
<1>2. StatusTrails'
  BY DEF StatusTrails, Accepts
<1>3. OwnerTrails'
  BY DEF OwnerTrails, Accepts
<1> QED
  BY <1>1, <1>2, <1>3

\* What becomes of the stream a run has read: only RunCompletes sets it.
LEMMA StreamStep == TypeOK /\ StreamCounted /\ [Next]_vars => StreamCounted'
<1> SUFFICES ASSUME TypeOK, StreamCounted, [Next]_vars
             PROVE  StreamCounted'
  OBVIOUS
<1> USE DEF StreamCounted
<1>1. CASE run' = run \/ run' = NoRun
  BY <1>1
<1>2. CASE StartRun
  BY <1>2 DEF StartRun
<1>3. ASSUME NEW o \in Outcomes, RunCompletes(o)
      PROVE  StreamCounted'
  <2>1. ~o.contents.error /\ o.result.tokens = o.contents.tokens
    BY <1>3, EventsFoldRight DEF RunCompletes, FoldsRight
  <2>2. /\ run'.error = o.contents.error
        /\ run'.spent = o.result.tokens /\ run'.tokens = o.contents.tokens
    BY <1>3 DEF RunCompletes, TypeOK, Run
  <2> QED
    BY <2>1, <2>2
<1>4. CASE Refetch
  <2>1. run'.error = run.error /\ run'.spent = run.spent /\ run'.tokens = run.tokens
    BY <1>4 DEF Refetch, TypeOK, Run
  <2> QED
    BY <1>4, <2>1 DEF Refetch
<1>5. CASE Tick \/ Sync \/ UserStep \/ ToolStep \/ RunFails \/ UpdateStatus \/ UNCHANGED vars
  BY <1>1, <1>5 DEF Tick, Sync, UserStep, RequestRun, SwitchAgent, SetInterval, UserWrites,
     Recreate, ToolStep, GetOwner, UpdateOwner, OwnerFails, RunFails, UpdateStatus, vars
<1> QED
  BY <1>2, <1>3, <1>4, <1>5 DEF Next, RunStep

LEMMA RunInvStep == RunInv /\ [Next]_vars => RunInv'
<1> SUFFICES ASSUME RunInv, [Next]_vars
             PROVE  RunInv'
  OBVIOUS
<1> DEFINE Trails == CacheTrails /\ StatusTrails /\ OwnerTrails
<1>0. TypeOK /\ TypeOK' /\ StreamCounted' /\ Trails
  BY TypeStep, StreamStep DEF RunInv
<1>a. Trails' => RunInv'
  BY <1>0 DEF RunInv
<1> HIDE DEF Trails
<1>b. CacheTrails /\ StatusTrails /\ OwnerTrails
  BY <1>0 DEF Trails
<1>c. CacheTrails' /\ StatusTrails' /\ OwnerTrails' => RunInv'
  BY <1>a DEF Trails
<1>1. CASE Tick \/ Sync \/ UNCHANGED vars
  BY <1>0, <1>b, <1>c, <1>1, QuietStep DEF Tick, Sync, vars
<1>2. ASSUME NEW new \in Skill, UserWrites(new)
      PROVE  RunInv'
  <2>1. /\ skill' = [new EXCEPT !.rev = skill.rev + 1]
        /\ UNCHANGED <<cached, run, call>>
    BY <1>2 DEF UserWrites
  <2>2. skill'.rev = skill.rev + 1
    BY <1>2, <2>1 DEF Skill
  <2> QED
    BY <1>0, <1>b, <1>c, <2>1, <2>2, WriteStales
<1>3. CASE RequestRun \/ SwitchAgent
  <2>1. [skill EXCEPT !.requested = now] \in Skill /\ [skill EXCEPT !.enable = ~@] \in Skill
    BY <1>0, EditedType, Zenon DEF TypeOK, Stamp
  <2> QED
    BY <1>2, <1>3, <2>1, Zenon DEF RequestRun, SwitchAgent
<1>4. ASSUME NEW i \in SpecIntervals, SetInterval(i)
      PROVE  RunInv'
  <2>1. [skill EXCEPT !.ival = i] \in Skill
    BY <1>0, EditedType, Zenon DEF TypeOK
  <2> QED
    BY <1>2, <1>4, <2>1, Zenon DEF SetInterval
<1>5. CASE Recreate
  <2>1. skill'.rev = skill.rev + 1 /\ UNCHANGED <<cached, run, call>>
    BY <1>5 DEF Recreate, New
  <2> QED
    BY <1>0, <1>b, <1>c, <2>1, WriteStales
<1>6. CASE StartRun \/ RunFails \/ \E o \in Outcomes : RunCompletes(o)
  <2>1. UNCHANGED <<skill, cached, call>>
    BY <1>6 DEF StartRun, RunFails, RunCompletes
  <2>2. ~At("update")'
    <3>1. CASE StartRun \/ RunFails
      BY <3>1 DEF StartRun, RunFails
    <3>2. ASSUME NEW o \in Outcomes, RunCompletes(o)
          PROVE  run'.step = "fetch"
      BY <1>0, <3>2 DEF RunCompletes, TypeOK, Run
    <3> QED
      BY <1>6, <3>1, <3>2
  <2> QED
    BY <1>0, <1>b, <1>c, <2>1, <2>2, QuietStep
<1>7. CASE Refetch
  <2> DEFINE filled == [cached EXCEPT !.last = now, !.tokens = @ + run.spent, !.runs = @ + 1]
  <2>1. /\ UNCHANGED <<skill, cached, call>>
        /\ run \in Run /\ cached \in Skill
        /\ run' = [run EXCEPT !.step = "update", !.copy = filled]
    BY <1>0, <1>7 DEF Refetch, TypeOK
  <2>2. run'.copy = filled /\ run'.spent = run.spent
    BY <2>1 DEF Run
  <2>3. /\ filled.rev = cached.rev
        /\ filled.tokens = cached.tokens + run.spent
        /\ filled.runs = cached.runs + 1
    BY <2>1 DEF Skill
  <2>4. StatusTrails'
    BY <1>b, <2>1, <2>2, <2>3 DEF StatusTrails, CacheTrails, Accepts
  <2>5. CacheTrails' /\ OwnerTrails'
    BY <1>b, <2>1 DEF CacheTrails, OwnerTrails, Accepts
  <2> QED
    BY <1>c, <2>4, <2>5
<1>8. CASE UpdateStatus
  <2>1. run' = NoRun /\ UNCHANGED <<cached, call>>
    BY <1>8 DEF UpdateStatus
  <2>2. skill'.rev = skill.rev + 1
    BY <1>0, <1>8 DEF UpdateStatus, TypeOK, Skill
  <2> QED
    BY <1>0, <1>b, <1>c, <2>1, <2>2, WriteStales
<1>9. ASSUME NEW e \in BOOLEAN \cup {Keep}, NEW i \in SpecIntervals \cup {Keep}, GetOwner(e, i)
      PROVE  RunInv'
  <2>1. /\ UNCHANGED <<skill, cached, run>>
        /\ cached \in Skill
        /\ call' = [copy |-> [cached EXCEPT !.enable = Given(e, @), !.ival = Given(i, @)],
                    enable |-> e, ival |-> i]
    BY <1>0, <1>9 DEF GetOwner, TypeOK
  <2>2. /\ call'.copy.rev = cached.rev
        /\ call'.copy.requested = cached.requested
        /\ call'.enable = Keep => call'.copy.enable = cached.enable
        /\ call'.ival = Keep => call'.copy.ival = cached.ival
    BY <2>1 DEF Skill, Given
  <2>3. OwnerTrails'
    BY <1>b, <2>1, <2>2 DEF OwnerTrails, CacheTrails, Accepts
  <2>4. CacheTrails' /\ StatusTrails'
    BY <1>b, <2>1 DEF CacheTrails, StatusTrails, Accepts
  <2> QED
    BY <1>c, <2>3, <2>4
<1>10. CASE UpdateOwner
  <2> DEFINE new == [skill EXCEPT !.enable = call.copy.enable,
                                  !.ival = Defaulted(call.copy.ival),
                                  !.requested = call.copy.requested]
  <2>1. /\ skill' = IF new = skill THEN skill ELSE [new EXCEPT !.rev = @ + 1]
        /\ call' = NoCall /\ UNCHANGED <<cached, run>>
    BY <1>10 DEF UpdateOwner
  <2>2. [new EXCEPT !.rev = @ + 1].rev = skill.rev + 1
    BY <1>0 DEF TypeOK, Skill
  <2>3. CASE skill' = skill
    BY <1>0, <1>b, <1>c, <2>1, <2>3, QuietStep
  <2>4. CASE skill' = [new EXCEPT !.rev = @ + 1]
    BY <1>0, <1>b, <1>c, <2>1, <2>2, <2>4, WriteStales
  <2> QED
    BY <2>1, <2>3, <2>4
<1>11. CASE OwnerFails
  BY <1>0, <1>b, <1>c, <1>11, QuietStep DEF OwnerFails
<1> QED
  BY <1>1, <1>3, <1>4, <1>5, <1>6, <1>7, <1>8, <1>9, <1>10, <1>11
     DEF Next, UserStep, RunStep, ToolStep

LEMMA RunInvHolds == Spec => []RunInv
<1>1. Init => RunInv
  <2> SUFFICES ASSUME Init PROVE RunInv
    OBVIOUS
  <2>1. skill = New(0, DefaultInterval)
    BY DEF Init
  <2>2. skill \in Skill
    BY <2>1, NewType, BoundsAssumption
  <2>3. StreamCounted /\ CacheTrails /\ StatusTrails /\ OwnerTrails
    BY <2>2 DEF Init, StreamCounted, CacheTrails, StatusTrails, OwnerTrails, Skill
  <2> QED
    BY <2>3, InitType DEF RunInv
<1> QED
  BY <1>1, RunInvStep, PTL DEF Spec

-----------------------------------------------------------------------------
\* Each change of the totals adds one run, and all the tokens in its stream, to
\* what is stored, however far the cache trails and whoever writes the Skill in
\* between; only deleting the Skill starts them afresh.
THEOREM TotalsCorrect == Spec => TotalsGrowByTheRun
<1> DEFINE Grown == skill'.runs # skill.runs \/ skill'.tokens # skill.tokens =>
                      \/ Recreate
                      \/ /\ run # NoRun /\ run' = NoRun
                         /\ skill'.runs = skill.runs + 1
                         /\ skill'.tokens = skill.tokens + run.tokens
<1>1. RunInv /\ [Next]_vars => [Grown]_vars
  <2> SUFFICES ASSUME RunInv, Next
               PROVE  Grown
    BY DEF vars
  <2>1. skill \in Skill /\ now \in Time /\ StreamCounted /\ StatusTrails
    BY DEF RunInv, TypeOK
  <2>2. CASE UpdateStatus
    <3>1. /\ At("update") /\ Accepts(run.copy) /\ run' = NoRun
          /\ skill'.tokens = run.copy.tokens /\ skill'.runs = run.copy.runs
      BY <2>1, <2>2 DEF UpdateStatus, Skill
    <3> QED
      BY <2>1, <3>1 DEF StatusTrails, StreamCounted
  <2>3. CASE UpdateOwner
    <3> DEFINE new == [skill EXCEPT !.enable = call.copy.enable,
                                    !.ival = Defaulted(call.copy.ival),
                                    !.requested = call.copy.requested]
    <3>1. skill' = skill \/ skill' = [new EXCEPT !.rev = @ + 1]
      BY <2>3 DEF UpdateOwner
    <3>2. /\ [new EXCEPT !.rev = @ + 1].tokens = skill.tokens
          /\ [new EXCEPT !.rev = @ + 1].runs = skill.runs
      BY <2>1 DEF Skill
    <3> QED
      BY <3>1, <3>2
  <2>4. CASE RequestRun \/ SwitchAgent \/ \E i \in SpecIntervals : SetInterval(i)
    BY <2>1, <2>4 DEF RequestRun, SwitchAgent, SetInterval, UserWrites, Skill
  <2>5. CASE skill' = skill \/ Recreate
    BY <2>5
  <2> QED
    BY <2>2, <2>3, <2>4, <2>5 DEF Next, Tick, Sync, UserStep, RunStep, StartRun, RunFails,
       RunCompletes, Refetch, ToolStep, GetOwner, OwnerFails
<1> QED
  BY <1>1, RunInvHolds, PTL DEF Spec, TotalsGrowByTheRun

\* A successful update_owner changes the fields it was given and no other,
\* whatever was written after it read the Skill.
THEOREM OwnerCorrect == Spec => UpdateOwnerKeepsEdits
<1> DEFINE Kept == call # NoCall /\ call' = NoCall =>
                     /\ call.enable = Keep => skill'.enable = skill.enable
                     /\ call.ival = Keep => skill'.ival \in {skill.ival, Defaulted(skill.ival)}
                     /\ skill'.requested = skill.requested
                     /\ skill'.last = skill.last /\ skill'.runs = skill.runs
<1>1. RunInv /\ [Next]_vars => [Kept]_vars
  <2> SUFFICES ASSUME RunInv, Next, call # NoCall, call' = NoCall
               PROVE  Kept
    BY DEF vars
  <2>1. skill \in Skill /\ OwnerTrails
    BY DEF RunInv, TypeOK
  <2>2. CASE OwnerFails
    BY <2>2 DEF OwnerFails
  <2>3. CASE UpdateOwner
    <3> DEFINE new == [skill EXCEPT !.enable = call.copy.enable,
                                    !.ival = Defaulted(call.copy.ival),
                                    !.requested = call.copy.requested]
    <3>1. /\ Accepts(call.copy)
          /\ skill' = IF new = skill THEN skill ELSE [new EXCEPT !.rev = @ + 1]
      BY <2>3 DEF UpdateOwner
    <3>2. /\ call.enable = Keep => call.copy.enable = skill.enable
          /\ call.ival = Keep => call.copy.ival = skill.ival
          /\ call.copy.requested = skill.requested
      BY <2>1, <3>1 DEF OwnerTrails
    <3>3. \A rev \in Nat :
            /\ [new EXCEPT !.rev = rev].enable = call.copy.enable
            /\ [new EXCEPT !.rev = rev].ival = Defaulted(call.copy.ival)
            /\ [new EXCEPT !.rev = rev].requested = call.copy.requested
            /\ [new EXCEPT !.rev = rev].last = skill.last
            /\ [new EXCEPT !.rev = rev].runs = skill.runs
      BY <2>1 DEF Skill
    <3> QED
      BY <2>1, <3>1, <3>2, <3>3 DEF Skill
  <2>4. CASE Tick \/ Sync \/ UserStep \/ RunStep
               \/ \E e \in BOOLEAN \cup {Keep}, i \in SpecIntervals \cup {Keep} : GetOwner(e, i)
    BY <2>4 DEF Tick, Sync, UserStep, RequestRun, SwitchAgent, SetInterval, UserWrites, Recreate,
       RunStep, StartRun, RunFails, RunCompletes, Refetch, UpdateStatus, GetOwner
  <2> QED
    BY <2>2, <2>3, <2>4 DEF Next, ToolStep
<1> QED
  BY <1>1, RunInvHolds, PTL DEF Spec, UpdateOwnerKeepsEdits

\* An agent that is started although no run was requested and its interval has
\* not passed (IntervalIsKept, which TLC refutes) was started from an old copy:
\* no other interleaving breaks the interval.
THEOREM OnlyStaleStartsAreEarly ==
  Spec => [][run = NoRun /\ run' # NoRun =>
               RunRequested(skill) \/ IntervalElapsed(skill) \/ cached.rev < skill.rev]_vars
<1> DEFINE InTime == RunRequested(skill) \/ IntervalElapsed(skill) \/ cached.rev < skill.rev
<1>1. RunInv /\ [Next]_vars => [run = NoRun /\ run' # NoRun => InTime]_vars
  <2> SUFFICES ASSUME RunInv, Next, run = NoRun, run' # NoRun
               PROVE  InTime
    BY DEF vars
  <2>1. StartRun
    BY DEF Next, Tick, Sync, UserStep, RequestRun, SwitchAgent, SetInterval, UserWrites,
       Recreate, RunStep, RunFails, RunCompletes, Refetch, UpdateStatus,
       ToolStep, GetOwner, UpdateOwner, OwnerFails
  <2>2. RunRequested(cached) \/ IntervalElapsed(cached)
    BY <2>1 DEF StartRun, isRunDue
  <2>3. cached.rev \in Nat /\ skill.rev \in Nat
    BY DEF RunInv, TypeOK, Skill
  <2>4. cached.rev < skill.rev \/ cached = skill
    BY <2>3 DEF RunInv, CacheTrails
  <2> QED
    BY <2>2, <2>4
<1> QED
  BY <1>1, RunInvHolds, PTL DEF Spec

-----------------------------------------------------------------------------
(* The events of a run.                                                    *)

\* A run that gets as far as its accounting had no error anywhere in its
\* stream, and records the tokens of every event in it, for streams of any
\* length; whatever they are, a failed tool is left to the fallback exactly when
\* create_advisory was never called.
THEOREM RunsFoldedCorrect == Spec => []RunsAreFolded
<1>1. RunInv => RunsAreFolded
  BY EventsFoldRight DEF RunInv, StreamCounted, RunsAreFolded
<1> QED
  BY <1>1, RunInvHolds, PTL
=============================================================================
