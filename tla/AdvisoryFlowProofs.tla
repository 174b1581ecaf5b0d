------------------------- MODULE AdvisoryFlowProofs -------------------------
(***************************************************************************)
(* Theorems about AdvisoryFlow, for any number of advisories, agents and   *)
(* proposals: it implements ApprovalContract, an approval once recorded    *)
(* stays, and what it settles on is what the API server holds.             *)
(***************************************************************************)
EXTENDS AdvisoryFlow, TLAPS

USE DEF At, InTool

-----------------------------------------------------------------------------
(* Types.                                                                  *)

\* A tool that updates an advisory knows which one, and a proposal that is
\* executed is not empty.
Targeted ==
  /\ \A c \in Callers : tool[c] # NoCall /\ tool[c].op # "create" => tool[c].name \in Names
  /\ work # NoWork /\ work.step # "update" => work.copy.prop # NoProp

FlowTypes == TypeOK /\ Targeted

LEMMA BlankType ==
  ASSUME NEW t \in Texts \cup {FallbackText, NoText}, NEW p \in Props \cup {NoProp}
  PROVE  Blank(t, p) \in Advisory
BY DEF Blank, Advisory

\* Only advisories exist.
LEMMA ExistingType ==
  ASSUME NEW x \in Advisory \cup {Unused, Gone}
  PROVE  Exists(x) <=> x \in Advisory
BY NamesAssumption DEF Exists

LEMMA WithStatusType ==
  ASSUME NEW x \in Advisory, NEW copy \in Advisory
  PROVE  /\ WithStatus(x, copy) \in Advisory
         /\ WithStatus(x, copy).rev = x.rev + 1
         /\ WithStatus(x, copy).prop = copy.prop
         /\ WithStatus(x, copy).approved = copy.approved
         /\ WithStatus(x, copy).approver = x.approver
<1>1. x.rev + 1 \in Nat /\ copy.text \in Texts \cup {FallbackText, NoText}
      /\ copy.prop \in Props \cup {NoProp} /\ copy.approved \in BOOLEAN
  BY DEF Advisory
<1> QED
  BY <1>1 DEF WithStatus, Advisory

LEMMA WithApproverType ==
  ASSUME NEW x \in Advisory
  PROVE  /\ [x EXCEPT !.approver = TRUE, !.rev = @ + 1] \in Advisory
         /\ [x EXCEPT !.approver = TRUE, !.rev = @ + 1].rev = x.rev + 1
         /\ [x EXCEPT !.approver = TRUE, !.rev = @ + 1].approver
         /\ [x EXCEPT !.approver = TRUE, !.rev = @ + 1].approved = x.approved
<1>1. x.rev + 1 \in Nat
  BY DEF Advisory
<1> QED
  BY <1>1 DEF Advisory

LEMMA WithMetadataType ==
  ASSUME NEW x \in Advisory, NEW copy \in Advisory
  PROVE  /\ WithMetadata(x, copy) \in Advisory
         /\ WithMetadata(x, copy).rev = x.rev + 1
         /\ WithMetadata(x, copy).prop = x.prop
         /\ WithMetadata(x, copy).approver = copy.approver
         /\ WithMetadata(x, copy).approved = x.approved
<1>1. x.rev + 1 \in Nat /\ copy.approver \in BOOLEAN
  BY DEF Advisory
<1> QED
  BY <1>1 DEF WithMetadata, Advisory

\* Copies with another proposal, or with Approved set.
LEMMA CopyType ==
  ASSUME NEW x \in Advisory
  PROVE  /\ \A p \in Props \cup {NoProp} : /\ [x EXCEPT !.prop = p] \in Advisory
                             /\ [x EXCEPT !.prop = p].rev = x.rev
                             /\ [x EXCEPT !.prop = p].approver = x.approver
                             /\ [x EXCEPT !.prop = p].approved = x.approved
         /\ [x EXCEPT !.approved = TRUE] \in Advisory
         /\ [x EXCEPT !.approved = TRUE].rev = x.rev
         /\ [x EXCEPT !.approved = TRUE].prop = x.prop
         /\ [x EXCEPT !.approved = TRUE].approved
BY DEF Advisory

\* What entering a tool does to the calls.
LEMMA EnterType ==
  ASSUME FlowTypes, NEW c \in Callers, NEW op \in {"create", "status", "label"},
         NEW a \in Names \cup {NoName}, NEW copy \in Advisory,
         op # "create" => a \in Names, Enter(c, op, a, copy)
  PROVE  FlowTypes'
<1>1. tool' = [tool EXCEPT ![c] = [op |-> op, name |-> a, copy |-> copy]]
  BY DEF Enter
<1>2. [op |-> op, name |-> a, copy |-> copy] \in Call
  BY DEF Call
<1>3. tool' \in [Callers -> Call \cup {NoCall}]
  BY <1>1, <1>2 DEF FlowTypes, TypeOK
<1>4. \A d \in Callers :
        tool'[d] # NoCall /\ tool'[d].op # "create" => tool'[d].name \in Names
  BY <1>1 DEF FlowTypes, TypeOK, Targeted
<1> QED
  BY <1>3, <1>4 DEF Enter, FlowTypes, TypeOK, Targeted

\* Leaving one is harmless.
LEMMA LeaveType ==
  ASSUME FlowTypes, NEW c \in Callers, Leave(c)
  PROVE  /\ tool' \in [Callers -> Call \cup {NoCall}]
         /\ \A d \in Callers :
              tool'[d] # NoCall /\ tool'[d].op # "create" => tool'[d].name \in Names
BY DEF FlowTypes, TypeOK, Targeted, Leave

\* A call in a tool, and what it may be about.
LEMMA ToolFacts ==
  ASSUME FlowTypes, NEW c \in Callers, tool[c] # NoCall
  PROVE  /\ tool[c] \in Call /\ tool[c].copy \in Advisory
         /\ tool[c].op # "create" => tool[c].name \in Names
BY DEF FlowTypes, TypeOK, Targeted, Call

LEMMA FlowTypesStep == FlowTypes /\ [Next]_vars => FlowTypes'
<1> SUFFICES ASSUME FlowTypes, [Next]_vars
             PROVE  FlowTypes'
  OBVIOUS
<1>1. ASSUME NEW a \in Names, Sync(a)
      PROVE  FlowTypes'
  BY <1>1 DEF Sync, FlowTypes, TypeOK, Targeted
<1>2. ASSUME NEW a \in Names, SetApprover(a)
      PROVE  FlowTypes'
  <2>1. adv[a] \in Advisory
    BY <1>2, ExistingType DEF SetApprover, FlowTypes, TypeOK
  <2>2. [adv[a] EXCEPT !.approver = TRUE, !.rev = @ + 1] \in Advisory
    BY <2>1, WithApproverType
  <2>3. adv' \in [Names -> Advisory \cup {Unused, Gone}]
    BY <1>2, <2>1, <2>2 DEF SetApprover, FlowTypes, TypeOK
  <2> QED
    BY <1>2, <2>3 DEF SetApprover, FlowTypes, TypeOK, Targeted
<1>3. ASSUME NEW a \in Names, DeleteAdvisory(a)
      PROVE  FlowTypes'
  BY <1>3 DEF DeleteAdvisory, FlowTypes, TypeOK, Targeted
<1>4. ASSUME NEW c \in Callers, NEW t \in Texts \cup {NoText}, NEW p \in Props \cup {NoProp},
             FindExisting(c, t, p)
      PROVE  FlowTypes'
  <2>1. PICK a \in Matches(t) : Enter(c, "status", a, [view[a] EXCEPT !.prop = p])
    BY <1>4 DEF FindExisting
  <2>2. a \in Names /\ view[a] \in Advisory
    BY ExistingType DEF Matches, FlowTypes, TypeOK
  <2>3. [view[a] EXCEPT !.prop = p] \in Advisory
    BY <2>2, CopyType
  <2> QED
    BY <2>1, <2>2, <2>3, EnterType
<1>5. ASSUME NEW c \in Callers, NEW t \in Texts \cup {NoText}, NEW p \in Props \cup {NoProp},
             FindNone(c, t, p)
      PROVE  FlowTypes'
  <2>1. Blank(t, p) \in Advisory
    BY BlankType
  <2> QED
    BY <1>5, <2>1, EnterType DEF FindNone
<1>6. ASSUME NEW c \in Callers, Fallback(c)
      PROVE  FlowTypes'
  <2>1. Blank(FallbackText, FallbackProp) \in Advisory
    BY BlankType, BoundAssumption
  <2> QED
    BY <1>6, <2>1, EnterType DEF Fallback
<1>7. ASSUME NEW c \in Callers, NEW a \in Names, GetForLabels(c, a)
      PROVE  FlowTypes'
  <2>1. view[a] \in Advisory
    BY <1>7, ExistingType DEF GetForLabels, FlowTypes, TypeOK
  <2> QED
    BY <1>7, <2>1, EnterType DEF GetForLabels
<1>8. ASSUME NEW c \in Callers, NEW a \in Names, CreateObject(c, a) \/ CreateAnswerLost(c, a)
      PROVE  FlowTypes'
  <2>1. Blank(NoText, NoProp) \in Advisory
    BY BlankType
  <2>2. adv' \in [Names -> Advisory \cup {Unused, Gone}]
    BY <1>8, <2>1 DEF CreateObject, CreateAnswerLost, FlowTypes, TypeOK
  <2>3. CASE CreateObject(c, a)
    <3>1. /\ tool[c] \in Call
          /\ tool' = [tool EXCEPT ![c] = [tool[c] EXCEPT !.op = "status", !.name = a]]
      BY <2>3, ToolFacts DEF CreateObject
    <3>2. [tool[c] EXCEPT !.op = "status", !.name = a] \in Call
      BY <3>1 DEF Call
    <3>3. [tool[c] EXCEPT !.op = "status", !.name = a].name = a
      BY <3>1 DEF Call
    <3>4. tool' \in [Callers -> Call \cup {NoCall}]
      BY <3>1, <3>2 DEF FlowTypes, TypeOK
    <3>5. \A d \in Callers :
            tool'[d] # NoCall /\ tool'[d].op # "create" => tool'[d].name \in Names
      BY <3>1, <3>3 DEF FlowTypes, TypeOK, Targeted
    <3> QED
      BY <2>2, <2>3, <3>4, <3>5 DEF CreateObject, FlowTypes, TypeOK, Targeted
  <2>4. CASE CreateAnswerLost(c, a)
    BY <2>2, <2>4, LeaveType DEF CreateAnswerLost, FlowTypes, TypeOK, Targeted
  <2> QED
    BY <1>8, <2>3, <2>4
<1>9. ASSUME NEW c \in Callers, WriteStatus(c)
      PROVE  FlowTypes'
  <2> DEFINE a == tool[c].name
  <2>1. a \in Names /\ adv[a] \in Advisory /\ tool[c].copy \in Advisory
    BY <1>9, ToolFacts, ExistingType DEF WriteStatus, Accepts, FlowTypes, TypeOK
  <2>2. WithStatus(adv[a], tool[c].copy) \in Advisory
    BY <2>1, WithStatusType
  <2>3. adv' \in [Names -> Advisory \cup {Unused, Gone}]
    BY <1>9, <2>1, <2>2 DEF WriteStatus, FlowTypes, TypeOK
  <2> QED
    BY <1>9, <2>3, LeaveType DEF WriteStatus, FlowTypes, TypeOK, Targeted
<1>10. ASSUME NEW c \in Callers, WriteLabels(c)
       PROVE  FlowTypes'
  <2> DEFINE a == tool[c].name
  <2>1. a \in Names /\ adv[a] \in Advisory /\ tool[c].copy \in Advisory
    BY <1>10, ToolFacts, ExistingType DEF WriteLabels, Accepts, FlowTypes, TypeOK
  <2>2. WithMetadata(adv[a], tool[c].copy) \in Advisory
    BY <2>1, WithMetadataType
  <2>3. adv' \in [Names -> Advisory \cup {Unused, Gone}]
    BY <1>10, <2>1, <2>2 DEF WriteLabels, FlowTypes, TypeOK
  <2> QED
    BY <1>10, <2>3, LeaveType DEF WriteLabels, FlowTypes, TypeOK, Targeted
<1>11. ASSUME NEW c \in Callers, ToolFails(c)
       PROVE  FlowTypes'
  BY <1>11, LeaveType DEF ToolFails, FlowTypes, TypeOK, Targeted
<1>12. ASSUME NEW a \in Names, ReconcileAdvisory(a)
       PROVE  FlowTypes'
  <2>1. CASE AwaitsApproval(view[a])
    <3>1. view[a] \in Advisory
      BY <2>1, ExistingType DEF AwaitsApproval, FlowTypes, TypeOK
    <3>2. [view[a] EXCEPT !.approved = TRUE] \in Advisory
      BY <3>1, CopyType
    <3>3. work' \in Work /\ work'.step = "update"
      BY <1>12, <2>1, <3>2 DEF ReconcileAdvisory, Work
    <3> QED
      BY <1>12, <3>3 DEF ReconcileAdvisory, FlowTypes, TypeOK, Targeted
  <2>2. CASE ~AwaitsApproval(view[a])
    BY <1>12, <2>2 DEF ReconcileAdvisory, FlowTypes, TypeOK, Targeted
  <2> QED
    BY <2>1, <2>2
<1>13. CASE Approve /\ (MarkApproved \/ ApprovalAnswerLost)
  <2> DEFINE a == work.name
  <2>1. /\ work \in Work /\ a \in Names
        /\ adv[a] \in Advisory /\ work.copy \in Advisory
    BY <1>13, ExistingType DEF Approve, Accepts, FlowTypes, TypeOK, Work
  <2>2. WithStatus(adv[a], work.copy) \in Advisory
    BY <2>1, WithStatusType
  <2>3. adv' \in [Names -> Advisory \cup {Unused, Gone}]
    BY <1>13, <2>1, <2>2 DEF Approve, FlowTypes, TypeOK
  <2>4. agreed' \in [Names -> Props \cup {NoProp, Undecided}]
    BY <1>13, <2>1 DEF Approve, FlowTypes, TypeOK, Advisory
  <2>5. queue' \subseteq Names
    BY <1>13, <2>1 DEF MarkApproved, ApprovalAnswerLost, Retry, FlowTypes, TypeOK
  <2>6. \/ work' = NoWork
        \/ work' \in Work /\ work'.copy = work.copy /\ work.copy.prop # NoProp
    BY <1>13, <2>1 DEF MarkApproved, ApprovalAnswerLost, Retry, Work
  <2> QED
    BY <1>13, <2>3, <2>4, <2>5, <2>6 DEF Approve, FlowTypes, TypeOK, Targeted
<1>14. CASE ApprovalFails
  BY <1>14 DEF ApprovalFails, Retry, FlowTypes, TypeOK, Targeted, Work
<1>15. CASE StartProposal
  <2>1. /\ work \in Work /\ work.name \in Names
        /\ work' \in Work /\ work'.copy = work.copy
    BY <1>15 DEF StartProposal, FlowTypes, TypeOK, Work
  <2>2. work.copy.prop \in Props
    BY <1>15, <2>1 DEF StartProposal, FlowTypes, Targeted, Work, Advisory
  <2>3. done' \in [Names -> Seq(Props)]
    BY <1>15, <2>1, <2>2 DEF StartProposal, FlowTypes, TypeOK
  <2> QED
    BY <1>15, <2>1, <2>3 DEF StartProposal, FlowTypes, TypeOK, Targeted
<1>16. CASE ProposalNotStarted \/ ProposalEnds
  BY <1>16 DEF ProposalNotStarted, ProposalEnds, FlowTypes, TypeOK, Targeted
<1>17. CASE Crash
  BY <1>17 DEF Crash, FlowTypes, TypeOK, Targeted
<1>18. CASE UNCHANGED vars
  BY <1>18 DEF vars, FlowTypes, TypeOK, Targeted
<1> QED
  BY <1>1, <1>2, <1>3, <1>4, <1>5, <1>6, <1>7, <1>8, <1>9, <1>10, <1>11, <1>12,
     <1>13, <1>14, <1>15, <1>16, <1>17, <1>18
     DEF Next, PeopleStep, FindStep, WriteStep, WorkStep, MarkApproved, ApprovalAnswerLost

LEMMA InitTypes == Init => FlowTypes
BY DEF Init, FlowTypes, TypeOK, Targeted

\* Advisories, calls, requests and their histories keep their types: in
\* particular no empty proposal is ever executed.
THEOREM TypeCorrect == Spec => []TypeOK
BY InitTypes, FlowTypesStep, PTL DEF Spec, FlowTypes

-----------------------------------------------------------------------------
(* The invariant: every copy is behind the API server or agrees with it.   *)

\* A copy of a is not ahead of what is stored, and a was stored before it.
Behind(a, copy) ==
  /\ adv[a] # Unused
  /\ Exists(adv[a]) => copy.rev <= adv[a].rev

ViewTrails ==
  \A a \in Names : Exists(view[a]) =>
    /\ Behind(a, view[a])
    /\ Accepts(a, view[a]) => view[a] = adv[a]

\* What a tool may still write takes no approval back.
ToolTrailsOf(c) ==
  tool[c] # NoCall =>
    /\ tool[c].op = "create" =>
         tool[c].copy.rev = 0 /\ ~tool[c].copy.approver /\ ~tool[c].copy.approved
    /\ tool[c].op # "create" =>
         /\ Behind(tool[c].name, tool[c].copy)
         /\ Accepts(tool[c].name, tool[c].copy) =>
              /\ tool[c].copy.approver = adv[tool[c].name].approver
              /\ tool[c].copy.approved = adv[tool[c].name].approved

\* An approval that can still be recorded is of what is stored, and one that
\* is to be executed is the one agreed on, not executed before.
WorkTrails ==
  /\ At("update") =>
       /\ Behind(work.name, work.copy)
       /\ work.copy.approved
       /\ Accepts(work.name, work.copy) => /\ adv[work.name].approver
                                           /\ ~adv[work.name].approved
                                           /\ adv[work.name].prop = work.copy.prop
  /\ At("execute") => agreed[work.name] = work.copy.prop /\ done[work.name] = <<>>

\* The histories follow what is stored.
ApprovalKnown(a) ==
  /\ adv[a] = Unused => agreed[a] = Undecided
  /\ Exists(adv[a]) => /\ adv[a].approved <=> agreed[a] # Undecided
                       /\ adv[a].approved => adv[a].approver
  /\ agreed[a] = Undecided => done[a] = <<>>

FlowInv ==
  /\ FlowTypes
  /\ ViewTrails
  /\ \A c \in Callers : ToolTrailsOf(c)
  /\ WorkTrails
  /\ \A a \in Names : ApprovalKnown(a)

-----------------------------------------------------------------------------
(* What a step does to one advisory.                                       *)

Removed(a) == Exists(adv[a]) /\ adv'[a] = Gone

Created(a) == adv[a] = Unused /\ adv'[a] = Blank(NoText, NoProp)

\* Written by anything but the approval.
Rewritten(a) ==
  /\ Exists(adv[a]) /\ Exists(adv'[a])
  /\ adv'[a].rev = adv[a].rev + 1
  /\ adv'[a].approved = adv[a].approved
  /\ adv[a].approver => adv'[a].approver

\* Written by the approval.
ApprovedNow(a) ==
  /\ At("update") /\ work.name = a
  /\ Exists(adv[a]) /\ Exists(adv'[a])
  /\ adv'[a].rev = adv[a].rev + 1
  /\ ~adv[a].approved /\ adv'[a].approved
  /\ adv[a].approver /\ adv'[a].approver
  /\ adv[a].prop = work.copy.prop /\ adv'[a].prop = work.copy.prop
  /\ agreed' = [agreed EXCEPT ![a] = work.copy.prop]

AdvStep(a) ==
  \/ /\ adv'[a] = adv[a] \/ Removed(a) \/ Created(a) \/ Rewritten(a)
     /\ agreed'[a] = agreed[a]
  \/ ApprovedNow(a)

LEMMA ApproveStep ==
  ASSUME FlowInv, Approve
  PROVE  /\ work.name \in Names /\ work \in Work
         /\ ApprovedNow(work.name)
         /\ \A a \in Names : a # work.name => adv'[a] = adv[a] /\ agreed'[a] = agreed[a]
<1> DEFINE n == work.name
<1>1. /\ work \in Work /\ n \in Names
      /\ adv \in [Names -> Advisory \cup {Unused, Gone}]
      /\ agreed \in [Names -> Props \cup {NoProp, Undecided}]
      /\ work.copy \in Advisory
  BY DEF FlowInv, FlowTypes, TypeOK, Approve, Work
<1>2. /\ At("update") /\ Accepts(n, work.copy)
      /\ adv' = [adv EXCEPT ![n] = WithStatus(adv[n], work.copy)]
      /\ agreed' = [agreed EXCEPT ![n] = work.copy.prop]
  BY DEF Approve
<1>3. Exists(adv[n]) /\ adv[n] \in Advisory
  BY <1>1, <1>2, ExistingType DEF Accepts
<1>4. /\ adv[n].approver /\ ~adv[n].approved /\ adv[n].prop = work.copy.prop
      /\ work.copy.approved
  BY <1>2 DEF FlowInv, WorkTrails
<1>5. adv'[n] = WithStatus(adv[n], work.copy)
  BY <1>1, <1>2
<1>6. /\ adv'[n] \in Advisory /\ adv'[n].rev = adv[n].rev + 1
      /\ adv'[n].prop = work.copy.prop /\ adv'[n].approved /\ adv'[n].approver
  BY <1>1, <1>3, <1>4, <1>5, WithStatusType
<1>7. Exists(adv'[n])
  BY <1>6, ExistingType
<1>8. \A a \in Names : a # n => adv'[a] = adv[a] /\ agreed'[a] = agreed[a]
  BY <1>1, <1>2
<1> QED
  BY <1>1, <1>2, <1>3, <1>4, <1>6, <1>7, <1>8 DEF ApprovedNow

LEMMA AdvSteps ==
  ASSUME FlowInv, [Next]_vars, NEW a \in Names
  PROVE  AdvStep(a)
<1> USE DEF AdvStep
<1>0. /\ FlowTypes
      /\ adv \in [Names -> Advisory \cup {Unused, Gone}]
  BY DEF FlowInv, FlowTypes, TypeOK
<1>1. CASE UNCHANGED <<adv, agreed>>
  BY <1>1
<1>2. CASE Approve
  BY <1>2, ApproveStep
<1>3. ASSUME NEW b \in Names, SetApprover(b)
      PROVE  AdvStep(a)
  <2>1. adv[b] \in Advisory /\ agreed' = agreed
        /\ adv' = [adv EXCEPT ![b] = [adv[b] EXCEPT !.approver = TRUE, !.rev = @ + 1]]
    BY <1>0, <1>3, ExistingType DEF SetApprover
  <2>2. \A x \in Names : x # b => adv'[x] = adv[x]
    BY <1>0, <2>1
  <2>3. /\ adv'[b] \in Advisory
        /\ adv'[b].rev = adv[b].rev + 1
        /\ adv'[b].approver /\ adv'[b].approved = adv[b].approved
    BY <1>0, <2>1, WithApproverType
  <2>4. Exists(adv[b]) /\ Exists(adv'[b])
    BY <2>1, <2>3, ExistingType
  <2> QED
    BY <2>1, <2>2, <2>3, <2>4 DEF Rewritten
<1>4. ASSUME NEW b \in Names, DeleteAdvisory(b)
      PROVE  AdvStep(a)
  BY <1>0, <1>4 DEF DeleteAdvisory, Removed
<1>5. ASSUME NEW c \in Callers, NEW b \in Names, CreateObject(c, b) \/ CreateAnswerLost(c, b)
      PROVE  AdvStep(a)
  BY <1>0, <1>5 DEF CreateObject, CreateAnswerLost, Created
<1>6. ASSUME NEW c \in Callers, WriteStatus(c) \/ WriteLabels(c)
      PROVE  AdvStep(a)
  <2> DEFINE b == tool[c].name
             copy == tool[c].copy
  <2>1. /\ b \in Names /\ copy \in Advisory /\ adv[b] \in Advisory
        /\ tool[c] # NoCall /\ tool[c].op # "create" /\ Accepts(b, copy)
        /\ agreed' = agreed
    BY <1>0, <1>6, ToolFacts, ExistingType DEF WriteStatus, WriteLabels, Accepts
  <2>2. copy.approver = adv[b].approver /\ copy.approved = adv[b].approved
    BY <2>1 DEF FlowInv, ToolTrailsOf
  <2>3. /\ \A x \in Names : x # b => adv'[x] = adv[x]
        /\ \/ adv'[b] = WithStatus(adv[b], copy)
           \/ adv'[b] = adv[b]
           \/ adv'[b] = WithMetadata(adv[b], copy)
    BY <1>0, <1>6, <2>1 DEF WriteStatus, WriteLabels
  <2>4. CASE adv'[b] = WithStatus(adv[b], copy)
    <3>1. /\ adv'[b] \in Advisory /\ adv'[b].rev = adv[b].rev + 1
          /\ adv'[b].approved = adv[b].approved /\ adv'[b].approver = adv[b].approver
      BY <2>1, <2>2, <2>4, WithStatusType
    <3> QED
      BY <2>1, <2>3, <3>1, ExistingType DEF Rewritten
  <2>5. CASE adv'[b] = WithMetadata(adv[b], copy)
    <3>1. /\ adv'[b] \in Advisory /\ adv'[b].rev = adv[b].rev + 1
          /\ adv'[b].approved = adv[b].approved /\ adv'[b].approver = adv[b].approver
      BY <2>1, <2>2, <2>5, WithMetadataType
    <3> QED
      BY <2>1, <2>3, <3>1, ExistingType DEF Rewritten
  <2>6. CASE adv'[b] = adv[b]
    BY <2>1, <2>3, <2>6
  <2> QED
    BY <2>3, <2>4, <2>5, <2>6
<1> QED
  BY <1>1, <1>2, <1>3, <1>4, <1>5, <1>6
     DEF Next, Sync, PeopleStep, FindStep, FindExisting, FindNone, Fallback, GetForLabels,
         Enter, WriteStep, ToolFails, ReconcileAdvisory, WorkStep, MarkApproved,
         ApprovalAnswerLost, ApprovalFails, StartProposal, ProposalNotStarted,
         ProposalEnds, Crash, vars

\* A copy stays behind, and one that is still accepted is of an advisory the
\* step did not write.
LEMMA CopyStays ==
  ASSUME FlowTypes, FlowTypes', NEW a \in Names, NEW copy \in Advisory,
         Behind(a, copy), AdvStep(a)
  PROVE  /\ Behind(a, copy)'
         /\ Accepts(a, copy)' => adv'[a] = adv[a] /\ Accepts(a, copy)
<1>1. copy.rev \in Nat /\ Unused # Gone
  BY NamesAssumption DEF Advisory
<1>2. CASE adv'[a] = adv[a]
  BY <1>2 DEF Behind, Accepts
<1>3. CASE Removed(a)
  BY <1>1, <1>3 DEF Removed, Behind, Accepts, Exists
<1>4. CASE Rewritten(a) \/ ApprovedNow(a)
  <2>1. /\ Exists(adv[a]) /\ Exists(adv'[a]) /\ adv'[a].rev = adv[a].rev + 1
        /\ copy.rev <= adv[a].rev
    BY <1>4 DEF Rewritten, ApprovedNow, Behind
  <2>2. adv[a].rev \in Nat
    BY <2>1, ExistingType DEF FlowTypes, TypeOK, Advisory
  <2> QED
    BY <1>1, <2>1, <2>2 DEF Behind, Accepts, Exists
<1> QED
  BY <1>2, <1>3, <1>4 DEF AdvStep, Created, Behind

-----------------------------------------------------------------------------
(* The invariant is inductive.                                             *)

LEMMA ViewStep ==
  ASSUME FlowInv, FlowTypes', [Next]_vars
  PROVE  ViewTrails'
<1> SUFFICES ASSUME NEW a \in Names, Exists(view'[a])
             PROVE  Behind(a, view[a])' /\ (Accepts(a, view[a])' => view'[a] = adv'[a])
  BY DEF ViewTrails
<1>1. CASE view'[a] = view[a]
  <2>1. view[a] \in Advisory /\ FlowTypes
    BY <1>1, ExistingType DEF FlowInv, FlowTypes, TypeOK
  <2>2. Behind(a, view[a]) /\ (Accepts(a, view[a]) => view[a] = adv[a])
    BY <1>1 DEF FlowInv, ViewTrails
  <2>3. AdvStep(a)
    BY AdvSteps
  <2>4. /\ adv'[a] # Unused
        /\ Exists(adv'[a]) => view[a].rev <= adv'[a].rev
        /\ (IF Exists(adv'[a]) THEN adv'[a].rev = view[a].rev ELSE FALSE)
             => adv'[a] = adv[a] /\ Accepts(a, view[a])
    BY <2>1, <2>2, <2>3, CopyStays DEF Behind, Accepts
  <2> QED
    BY <1>1, <2>2, <2>4 DEF Behind, Accepts
<1>2. CASE view'[a] = adv[a] /\ adv' = adv
  <2>1. view'[a] \in Advisory
    BY <1>2, ExistingType DEF FlowInv, FlowTypes, TypeOK
  <2> QED
    BY <1>2, <2>1 DEF Behind, Exists, Advisory
<1>3. CASE \E b \in Names : Sync(b)
  BY <1>1, <1>2, <1>3 DEF Sync, FlowInv, FlowTypes, TypeOK
<1>4. CASE Crash
  BY <1>2, <1>4 DEF Crash
<1> QED
  BY <1>1, <1>3, <1>4
     DEF Next, PeopleStep, SetApprover, DeleteAdvisory, FindStep, FindExisting, FindNone,
         Fallback, GetForLabels, Enter, WriteStep, CreateObject, CreateAnswerLost,
         WriteStatus, WriteLabels, ToolFails, ReconcileAdvisory, WorkStep, MarkApproved,
         Approve, ApprovalAnswerLost, ApprovalFails, StartProposal, ProposalNotStarted,
         ProposalEnds, vars

\* A call on a copy of what the cache shows.
LEMMA EnterTrails ==
  ASSUME FlowInv, NEW c \in Callers, NEW op \in {"status", "label"}, NEW a \in Names,
         NEW copy \in Advisory, Exists(view[a]),
         copy.rev = view[a].rev, copy.approver = view[a].approver,
         copy.approved = view[a].approved,
         Enter(c, op, a, copy)
  PROVE  ToolTrailsOf(c)'
<1>1. tool'[c] = [op |-> op, name |-> a, copy |-> copy] /\ adv' = adv
  BY DEF Enter, FlowInv, FlowTypes, TypeOK
<1>2. Behind(a, view[a]) /\ (Accepts(a, view[a]) => view[a] = adv[a])
  BY DEF FlowInv, ViewTrails
<1> QED
  BY <1>1, <1>2 DEF ToolTrailsOf, Behind, Accepts

LEMMA ToolStep ==
  ASSUME FlowInv, FlowTypes', [Next]_vars, NEW c \in Callers
  PROVE  ToolTrailsOf(c)'
<1>0. /\ FlowTypes /\ tool \in [Callers -> Call \cup {NoCall}]
      /\ view \in [Names -> Advisory \cup {Unused, Gone}]
      /\ adv \in [Names -> Advisory \cup {Unused, Gone}]
  BY DEF FlowInv, FlowTypes, TypeOK
<1>1. CASE tool'[c] = NoCall
  BY <1>1 DEF ToolTrailsOf
<1>2. CASE tool'[c] = tool[c] /\ tool[c] # NoCall
  <2>1. CASE tool[c].op = "create"
    BY <1>2, <2>1 DEF FlowInv, ToolTrailsOf
  <2>2. CASE tool[c].op # "create"
    <3> DEFINE n == tool[c].name
               copy == tool[c].copy
    <3>1. n \in Names /\ copy \in Advisory
      BY <1>0, <1>2, <2>2, ToolFacts
    <3>2. /\ Behind(n, copy)
          /\ Accepts(n, copy) => copy.approver = adv[n].approver /\ copy.approved = adv[n].approved
      BY <1>2, <2>2 DEF FlowInv, ToolTrailsOf
    <3>3. AdvStep(n)
      BY <3>1, AdvSteps
    <3>4. /\ adv'[n] # Unused
          /\ Exists(adv'[n]) => copy.rev <= adv'[n].rev
          /\ (IF Exists(adv'[n]) THEN adv'[n].rev = copy.rev ELSE FALSE)
               => adv'[n] = adv[n] /\ Accepts(n, copy)
      BY <1>0, <3>1, <3>2, <3>3, CopyStays DEF Behind, Accepts
    <3> QED
      BY <1>2, <2>2, <3>2, <3>4 DEF ToolTrailsOf, Behind, Accepts
  <2> QED
    BY <2>1, <2>2
<1>3. ASSUME NEW t \in Texts \cup {NoText}, NEW p \in Props \cup {NoProp}, FindExisting(c, t, p)
      PROVE  ToolTrailsOf(c)'
  <2>1. PICK a \in Matches(t) : Enter(c, "status", a, [view[a] EXCEPT !.prop = p])
    BY <1>3 DEF FindExisting
  <2>2. a \in Names /\ Exists(view[a]) /\ view[a] \in Advisory
    BY <1>0, ExistingType DEF Matches
  <2>3. /\ [view[a] EXCEPT !.prop = p] \in Advisory
        /\ [view[a] EXCEPT !.prop = p].rev = view[a].rev
        /\ [view[a] EXCEPT !.prop = p].approver = view[a].approver
        /\ [view[a] EXCEPT !.prop = p].approved = view[a].approved
    BY <2>2, CopyType
  <2> QED
    BY <2>1, <2>2, <2>3, EnterTrails
<1>4. ASSUME NEW a \in Names, GetForLabels(c, a)
      PROVE  ToolTrailsOf(c)'
  <2>1. Exists(view[a]) /\ view[a] \in Advisory
    BY <1>0, <1>4, ExistingType DEF GetForLabels
  <2> QED
    BY <1>4, <2>1, EnterTrails DEF GetForLabels
<1>5. CASE Fallback(c) \/ \E t \in Texts \cup {NoText}, p \in Props \cup {NoProp} : FindNone(c, t, p)
  <2>1. /\ tool'[c].op = "create" /\ tool'[c].copy.rev = 0
        /\ ~tool'[c].copy.approver /\ ~tool'[c].copy.approved
    BY <1>0, <1>5 DEF Fallback, FindNone, Enter, Blank
  <2> QED
    BY <2>1 DEF ToolTrailsOf
<1>6. ASSUME NEW a \in Names, CreateObject(c, a)
      PROVE  ToolTrailsOf(c)'
  <2>1. /\ tool[c] \in Call /\ tool[c].op = "create"
        /\ tool' = [tool EXCEPT ![c] = [tool[c] EXCEPT !.op = "status", !.name = a]]
        /\ adv'[a] = Blank(NoText, NoProp)
    BY <1>0, <1>6, ToolFacts DEF CreateObject
  <2>2. tool'[c].op = "status" /\ tool'[c].name = a /\ tool'[c].copy = tool[c].copy
    BY <1>0, <2>1 DEF Call
  <2>3. /\ tool[c].copy.rev = 0 /\ ~tool[c].copy.approver /\ ~tool[c].copy.approved
        /\ tool[c].copy \in Advisory
    BY <1>6, <2>1 DEF CreateObject, FlowInv, ToolTrailsOf, Call
  <2>4. /\ Blank(NoText, NoProp) \in Advisory
        /\ Blank(NoText, NoProp).rev = 0
        /\ ~Blank(NoText, NoProp).approver /\ ~Blank(NoText, NoProp).approved
    BY BlankType DEF Blank
  <2>5. adv'[a] # Unused
    BY <2>1, <2>4, NamesAssumption
  <2>6. /\ tool[c].copy.approver = Blank(NoText, NoProp).approver
        /\ tool[c].copy.approved = Blank(NoText, NoProp).approved
    BY <2>3, <2>4 DEF Advisory
  <2> QED
    BY <2>1, <2>2, <2>3, <2>4, <2>5, <2>6 DEF ToolTrailsOf, Behind, Accepts
<1>7. ASSUME NEW d \in Callers, FindStep(d) \/ WriteStep(d), d # c
      PROVE  tool'[c] = tool[c]
  BY <1>0, <1>7 DEF FindStep, FindExisting, FindNone, Fallback, GetForLabels, Enter, WriteStep,
     CreateObject, CreateAnswerLost, WriteStatus, WriteLabels, ToolFails, Leave
<1>8. CASE WriteStep(c) /\ ~\E a \in Names : CreateObject(c, a)
  BY <1>0, <1>1, <1>8 DEF WriteStep, CreateAnswerLost, WriteStatus, WriteLabels, ToolFails, Leave
<1>9. CASE Crash
  BY <1>1, <1>9 DEF Crash
<1>10. CASE UNCHANGED tool
  BY <1>1, <1>2, <1>10
<1> QED
  BY <1>1, <1>2, <1>3, <1>4, <1>5, <1>6, <1>7, <1>8, <1>9, <1>10
     DEF Next, Sync, PeopleStep, SetApprover, DeleteAdvisory, FindStep, WriteStep,
         ReconcileAdvisory, WorkStep, MarkApproved, Approve, ApprovalAnswerLost,
         ApprovalFails, StartProposal, ProposalNotStarted, ProposalEnds, vars

\* The worker's request, when the step is not the worker's.
LEMMA WorkStays ==
  ASSUME FlowInv, FlowTypes', [Next]_vars, UNCHANGED <<work, agreed, done>>
  PROVE  WorkTrails'
<1> DEFINE n == work.name
           copy == work.copy
<1>1. CASE At("update")
  <2>1. n \in Names /\ copy \in Advisory /\ FlowTypes
    BY <1>1 DEF FlowInv, FlowTypes, TypeOK, Work
  <2>2. /\ Behind(n, copy) /\ copy.approved
        /\ Accepts(n, copy) => adv[n].approver /\ ~adv[n].approved /\ adv[n].prop = copy.prop
    BY <1>1 DEF FlowInv, WorkTrails
  <2>3. AdvStep(n)
    BY <2>1, AdvSteps
  <2>4. /\ adv'[n] # Unused
        /\ Exists(adv'[n]) => copy.rev <= adv'[n].rev
        /\ (IF Exists(adv'[n]) THEN adv'[n].rev = copy.rev ELSE FALSE)
             => adv'[n] = adv[n] /\ Accepts(n, copy)
    BY <2>1, <2>2, <2>3, CopyStays DEF Behind, Accepts
  <2> QED
    BY <1>1, <2>2, <2>4 DEF WorkTrails, Behind, Accepts
<1>2. CASE ~At("update")
  BY <1>2 DEF FlowInv, WorkTrails
<1> QED
  BY <1>1, <1>2

LEMMA WorkTrailsStep ==
  ASSUME FlowInv, FlowTypes', [Next]_vars
  PROVE  WorkTrails'
<1>1. CASE UNCHANGED <<work, agreed, done>>
  BY <1>1, WorkStays
<1>2. ASSUME NEW a \in Names, ReconcileAdvisory(a)
      PROVE  WorkTrails'
  <2>1. CASE AwaitsApproval(view[a])
    <3> DEFINE copy == [view[a] EXCEPT !.approved = TRUE]
    <3>1. view[a] \in Advisory /\ Exists(view[a]) /\ view[a].approver /\ ~view[a].approved
      BY <2>1, ExistingType DEF AwaitsApproval, FlowInv, FlowTypes, TypeOK
    <3>2. copy.rev = view[a].rev /\ copy.prop = view[a].prop /\ copy.approved
      BY <3>1, CopyType
    <3>3. Behind(a, view[a]) /\ (Accepts(a, view[a]) => view[a] = adv[a])
      BY <3>1 DEF FlowInv, ViewTrails
    <3>4. work' = [step |-> "update", name |-> a, copy |-> copy] /\ adv' = adv
      BY <1>2, <2>1 DEF ReconcileAdvisory
    <3> HIDE DEF copy
    <3> QED
      BY <3>1, <3>2, <3>3, <3>4 DEF WorkTrails, Behind, Accepts
  <2>2. CASE ~AwaitsApproval(view[a])
    BY <1>2, <2>2 DEF ReconcileAdvisory, WorkTrails
  <2> QED
    BY <2>1, <2>2
<1>3. CASE MarkApproved
  <2> DEFINE n == work.name
  <2>1. /\ n \in Names /\ work \in Work /\ ApprovedNow(n) /\ Approve
    BY <1>3, ApproveStep DEF MarkApproved
  <2>2. CASE work.copy.prop = NoProp
    BY <1>3, <2>2 DEF MarkApproved, WorkTrails
  <2>3. CASE work.copy.prop # NoProp
    <3>1. work' = [work EXCEPT !.step = "execute"] /\ done' = done
      BY <1>3, <2>3 DEF MarkApproved, Approve
    <3>2. work'.step = "execute" /\ work'.name = n /\ work'.copy = work.copy
      BY <2>1, <3>1 DEF Work
    <3>3. agreed'[n] = work.copy.prop
      BY <2>1 DEF ApprovedNow, FlowInv, FlowTypes, TypeOK
    <3>4. done[n] = <<>>
      BY <2>1 DEF ApprovedNow, FlowInv, ApprovalKnown
    <3> QED
      BY <3>1, <3>2, <3>3, <3>4 DEF WorkTrails
  <2> QED
    BY <2>2, <2>3
<1>4. CASE ApprovalAnswerLost \/ ApprovalFails \/ ProposalNotStarted \/ ProposalEnds \/ Crash
  BY <1>4 DEF ApprovalAnswerLost, ApprovalFails, Retry, ProposalNotStarted, ProposalEnds,
              Crash, WorkTrails
<1>5. CASE StartProposal
  <2>1. work'.step = "run"
    BY <1>5 DEF StartProposal, FlowInv, FlowTypes, TypeOK, Work
  <2> QED
    BY <2>1 DEF WorkTrails
<1> QED
  BY <1>1, <1>2, <1>3, <1>4, <1>5
     DEF Next, Sync, PeopleStep, SetApprover, DeleteAdvisory, FindStep, FindExisting, FindNone,
         Fallback, GetForLabels, Enter, WriteStep, CreateObject, CreateAnswerLost,
         WriteStatus, WriteLabels, ToolFails, WorkStep, vars

\* A proposal is executed only after its advisory's approval.
LEMMA DoneStep ==
  ASSUME FlowInv, [Next]_vars, NEW a \in Names
  PROVE  done'[a] = done[a] \/ agreed[a] # Undecided
<1>1. CASE StartProposal
  <2>1. work.name \in Names /\ work.copy.prop \in Props \cup {NoProp}
    BY <1>1 DEF StartProposal, FlowInv, FlowTypes, TypeOK, Work, Advisory
  <2>2. agreed[work.name] # Undecided
    BY <1>1, <2>1, NamesAssumption DEF StartProposal, FlowInv, WorkTrails
  <2> QED
    BY <1>1, <2>2 DEF StartProposal, FlowInv, FlowTypes, TypeOK
<1>2. CASE UNCHANGED done
  BY <1>2
<1> QED
  BY <1>1, <1>2
     DEF Next, Sync, PeopleStep, SetApprover, DeleteAdvisory, FindStep, FindExisting, FindNone,
         Fallback, GetForLabels, Enter, WriteStep, CreateObject, CreateAnswerLost,
         WriteStatus, WriteLabels, ToolFails, ReconcileAdvisory, WorkStep, MarkApproved,
         Approve, ApprovalAnswerLost, ApprovalFails, ProposalNotStarted, ProposalEnds, Crash,
         vars

LEMMA KnownStep ==
  ASSUME FlowInv, FlowTypes', [Next]_vars, NEW a \in Names
  PROVE  ApprovalKnown(a)'
<1>1. ApprovalKnown(a) /\ AdvStep(a) /\ (done'[a] = done[a] \/ agreed[a] # Undecided)
  BY AdvSteps, DoneStep DEF FlowInv
<1>2. CASE ApprovedNow(a)
  <2>1. agreed'[a] = work.copy.prop /\ work.copy.prop \in Props \cup {NoProp}
    BY <1>2 DEF ApprovedNow, FlowInv, FlowTypes, TypeOK, Work, Advisory
  <2>2. agreed'[a] # Undecided
    BY <2>1, NamesAssumption
  <2> QED
    BY <1>2, <2>2 DEF ApprovedNow, ApprovalKnown, Exists
<1>3. CASE adv'[a] = adv[a] /\ agreed'[a] = agreed[a]
  BY <1>1, <1>3 DEF ApprovalKnown
<1>4. CASE Removed(a) /\ agreed'[a] = agreed[a]
  BY <1>1, <1>4, NamesAssumption DEF Removed, ApprovalKnown, Exists
<1>5. CASE Created(a) /\ agreed'[a] = agreed[a]
  <2>1. Blank(NoText, NoProp) \in Advisory /\ ~Blank(NoText, NoProp).approved
    BY BlankType DEF Blank
  <2> QED
    BY <1>1, <1>5, <2>1, NamesAssumption DEF Created, ApprovalKnown
<1>6. CASE Rewritten(a) /\ agreed'[a] = agreed[a]
  BY <1>1, <1>6 DEF Rewritten, ApprovalKnown, Exists
<1> QED
  BY <1>1, <1>2, <1>3, <1>4, <1>5, <1>6 DEF AdvStep

LEMMA FlowInvStep == FlowInv /\ [Next]_vars => FlowInv'
<1> SUFFICES ASSUME FlowInv, [Next]_vars
             PROVE  FlowInv'
  OBVIOUS
<1>1. FlowTypes'
  BY FlowTypesStep DEF FlowInv
<1> QED
  BY <1>1, ViewStep, ToolStep, WorkTrailsStep, KnownStep DEF FlowInv

LEMMA FlowInvHolds == Spec => []FlowInv
<1>1. Init => FlowInv
  BY InitTypes, NamesAssumption
     DEF Init, FlowInv, ViewTrails, ToolTrailsOf, WorkTrails, ApprovalKnown, Exists
<1> QED
  BY <1>1, FlowInvStep, PTL DEF Spec

-----------------------------------------------------------------------------
\* The controller implements the contract: however far the cache trails,
\* whichever request fails or loses its answer and whenever the process dies,
\* an approval settles on one proposal and executes it at most once.
THEOREM ContractKept == Spec => KeepsContract
<1>1. Init => Contract!ContractInit
  BY DEF Init, Contract!ContractInit
<1>2. FlowInv /\ [Next]_vars => [Contract!ContractNext]_(Contract!contractVars)
  <2> SUFFICES ASSUME FlowInv, [Next]_vars
               PROVE  Contract!ContractNext \/ UNCHANGED <<agreed, done>>
    BY DEF Contract!contractVars
  <2>1. CASE Approve
    <3>1. work.name \in Names /\ ApprovedNow(work.name) /\ work \in Work /\ done' = done
      BY <2>1, ApproveStep DEF Approve
    <3>2. agreed[work.name] = Undecided
      BY <3>1 DEF ApprovedNow, FlowInv, ApprovalKnown
    <3>3. work.copy.prop \in Props \cup {NoProp}
      BY <3>1 DEF Work, Advisory
    <3>4. Contract!Settle(work.name, work.copy.prop)
      BY <3>1, <3>2 DEF ApprovedNow, Contract!Settle
    <3> QED
      BY <3>1, <3>3, <3>4 DEF Contract!ContractNext
  <2>2. CASE StartProposal
    <3> DEFINE n == work.name
    <3>1. /\ n \in Names /\ work.copy.prop \in Props /\ done \in [Names -> Seq(Props)]
          /\ agreed[n] = work.copy.prop /\ done[n] = <<>> /\ agreed' = agreed
          /\ done' = [done EXCEPT ![n] = Append(done[n], work.copy.prop)]
      BY <2>2 DEF StartProposal, FlowInv, FlowTypes, TypeOK, Targeted, WorkTrails, Work, Advisory
    <3>2. Append(done[n], work.copy.prop) = <<agreed[n]>>
      BY <3>1
    <3>3. Contract!Execute(n)
      BY <3>1, <3>2 DEF Contract!Execute
    <3> QED
      BY <3>1, <3>3 DEF Contract!ContractNext
  <2>3. CASE UNCHANGED <<agreed, done>>
    BY <2>3
  <2> QED
    BY <2>1, <2>2, <2>3
       DEF Next, Sync, PeopleStep, SetApprover, DeleteAdvisory, FindStep, FindExisting,
           FindNone, Fallback, GetForLabels, Enter, WriteStep, CreateObject,
           CreateAnswerLost, WriteStatus, WriteLabels, ToolFails, ReconcileAdvisory,
           WorkStep, MarkApproved, ApprovalAnswerLost, ApprovalFails, ProposalNotStarted,
           ProposalEnds, Crash, vars
<1> QED
  BY <1>1, <1>2, FlowInvHolds, PTL DEF Spec, KeepsContract, Contract!ContractSpec

-----------------------------------------------------------------------------
(* What the contract promises, whoever implements it.                      *)

\* Nothing is executed but the proposal that was agreed on, and that once.
AtMostOnce ==
  \A a \in Names : done[a] = <<>> \/ (agreed[a] \in Props /\ done[a] = <<agreed[a]>>)

ContractTypes ==
  /\ agreed \in [Names -> Props \cup {NoProp, Undecided}]
  /\ DOMAIN done = Names /\ done = [a \in Names |-> done[a]]

LEMMA ContractStep ==
  ASSUME ContractTypes, AtMostOnce, [Contract!ContractNext]_(Contract!contractVars)
  PROVE  ContractTypes' /\ AtMostOnce'
<1> USE DEF ContractTypes, AtMostOnce
<1>1. ASSUME NEW a \in Names, NEW p \in Props \cup {NoProp}, Contract!Settle(a, p)
      PROVE  ContractTypes' /\ AtMostOnce'
  <2>1. done[a] = <<>>
    BY <1>1, NamesAssumption DEF Contract!Settle
  <2> QED
    BY <1>1, <2>1 DEF Contract!Settle
<1>2. ASSUME NEW a \in Names, Contract!Execute(a)
      PROVE  ContractTypes' /\ AtMostOnce'
  BY <1>2 DEF Contract!Execute
<1>3. CASE UNCHANGED Contract!contractVars
  BY <1>3 DEF Contract!contractVars
<1> QED
  BY <1>1, <1>2, <1>3 DEF Contract!ContractNext

\* With ContractKept: however often updates are repeated and the process is
\* started again, a proposal is executed at most once, after it was agreed on.
THEOREM ExecutedAtMostOnce == Spec => []AtMostOnce
<1>1. Contract!ContractInit => ContractTypes /\ AtMostOnce
  BY DEF Contract!ContractInit, ContractTypes, AtMostOnce
<1>2. ContractTypes /\ AtMostOnce /\ [Contract!ContractNext]_(Contract!contractVars)
        => ContractTypes' /\ AtMostOnce'
  BY ContractStep
<1> QED
  BY <1>1, <1>2, ContractKept, PTL DEF KeepsContract, Contract!ContractSpec

\* No tool that writes from an older copy takes an approver or an approval
\* back, and no approval is recorded without an approver.
THEOREM ApprovalSticksCorrect == Spec => ApprovalSticks
<1> DEFINE Sticks == \A a \in Names : Exists(adv[a]) /\ Exists(adv'[a]) =>
                       /\ adv[a].approver => adv'[a].approver
                       /\ adv[a].approved => adv'[a].approved
                       /\ adv'[a].approved => adv'[a].approver
<1>1. FlowInv /\ [Next]_vars => [Sticks]_vars
  <2> SUFFICES ASSUME FlowInv, [Next]_vars, NEW a \in Names,
                      Exists(adv[a]), Exists(adv'[a])
               PROVE  /\ adv[a].approver => adv'[a].approver
                      /\ adv[a].approved => adv'[a].approved
                      /\ adv'[a].approved => adv'[a].approver
    OBVIOUS
  <2>1. AdvStep(a) /\ ApprovalKnown(a)
    BY AdvSteps DEF FlowInv
  <2> QED
    BY <2>1 DEF AdvStep, ApprovalKnown, Removed, Created, Rewritten, ApprovedNow, Exists
<1> QED
  BY <1>1, FlowInvHolds, PTL DEF Spec, ApprovalSticks

\* The proposal an approval settles on is the one stored at that moment.
THEOREM AgreedAsStoredCorrect == Spec => AgreedAsStored
<1> DEFINE Stored == \A a \in Names : agreed'[a] # agreed[a] =>
                       /\ Exists(adv[a]) /\ Exists(adv'[a])
                       /\ adv[a].approver
                       /\ adv[a].prop = agreed'[a] /\ adv'[a].prop = agreed'[a]
<1>1. FlowInv /\ [Next]_vars => [Stored]_vars
  <2> SUFFICES ASSUME FlowInv, [Next]_vars, NEW a \in Names, agreed'[a] # agreed[a]
               PROVE  /\ Exists(adv[a]) /\ Exists(adv'[a])
                      /\ adv[a].approver
                      /\ adv[a].prop = agreed'[a] /\ adv'[a].prop = agreed'[a]
    OBVIOUS
  <2>1. ApprovedNow(a)
    BY AdvSteps DEF AdvStep
  <2> QED
    BY <2>1 DEF ApprovedNow, FlowInv, FlowTypes, TypeOK
<1> QED
  BY <1>1, FlowInvHolds, PTL DEF Spec, AgreedAsStored
=============================================================================
