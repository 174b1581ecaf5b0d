------------------------- MODULE ApprovalContract -------------------------
(***************************************************************************)
(* What approving an advisory promises its approver, whatever the          *)
(* controller does to keep it: the approval settles on one proposal for    *)
(* good, and that proposal, and no other, is executed at most once.        *)
(***************************************************************************)
EXTENDS Sequences

CONSTANTS
  Names,        \* advisories
  Props,        \* proposals
  NoProp,       \* an advisory with an empty proposal
  Undecided     \* the advisory has not been approved

VARIABLES
  agreed,       \* the proposal an advisory was approved with
  done          \* the proposals executed for an advisory

contractVars == <<agreed, done>>

ContractInit ==
  /\ agreed = [a \in Names |-> Undecided]
  /\ done = [a \in Names |-> <<>>]

Settle(a, p) ==
  /\ agreed[a] = Undecided
  /\ agreed' = [agreed EXCEPT ![a] = p]
  /\ UNCHANGED done

Execute(a) ==
  /\ agreed[a] \in Props
  /\ done[a] = <<>>
  /\ done' = [done EXCEPT ![a] = <<agreed[a]>>]
  /\ UNCHANGED agreed

ContractNext ==
  \E a \in Names :
    \/ \E p \in Props \cup {NoProp} : Settle(a, p)
    \/ Execute(a)

ContractSpec == ContractInit /\ [][ContractNext]_contractVars
=============================================================================
