-------------------------- MODULE MCAdvisoryFlow --------------------------
(* AdvisoryFlow with the constants its configurations give.                *)
EXTENDS AdvisoryFlow

\* Next while the process lives on and every answer to an approval arrives.
ReliableNext ==
  \/ \E a \in Names : Sync(a) \/ ReconcileAdvisory(a)
  \/ PeopleStep
  \/ \E c \in Callers : FindStep(c) \/ WriteStep(c)
  \/ MarkApproved
  \/ ApprovalFails
  \/ StartProposal
  \/ ProposalNotStarted
  \/ ProposalEnds

ReliableSpec == Init /\ [][ReliableNext]_vars
=============================================================================
