--------------------------- MODULE RolloutProofs ---------------------------
(***************************************************************************)
(* Theorems about Rollout: why a new revision cannot take over.            *)
(***************************************************************************)
EXTENDS Rollout, TLAPS

\* Whoever leads or is ready holds the lease.
LeaseInv ==
  /\ TypeOK
  /\ \A p \in Pods :
       /\ phase[p] = "leading" => holder = p
       /\ modelReady[p] => phase[p] \in {"leading", "terminating"}

LEMMA LeaseStep ==
  ASSUME NoHolder \notin Pods, LeaseInv, [Next]_vars
  PROVE  LeaseInv'
<1> USE DEF LeaseInv, TypeOK, Phase, MovesTo
<1>1. ASSUME NEW p \in Pods, StartManager(p)
      PROVE  LeaseInv'
  BY <1>1 DEF StartManager
<1>2. ASSUME NEW p \in Pods, Lead(p)
      PROVE  LeaseInv'
  BY <1>2 DEF Lead
<1>3. ASSUME NEW p \in Pods, CreateModel(p)
      PROVE  LeaseInv'
  BY <1>3 DEF CreateModel
<1>4. ASSUME NEW p \in Pods, Exit(p)
      PROVE  LeaseInv'
  BY <1>4 DEF Exit
<1>5. CASE LeaseExpires
  BY <1>5 DEF LeaseExpires
<1>6. CASE Upgrade
  BY <1>6 DEF Upgrade, Ready, Pods
<1>7. CASE ScaleDown
  BY <1>7 DEF ScaleDown, Ready, Pods
<1>8. CASE Terminated
  BY <1>8 DEF Terminated, Pods
<1>9. CASE UNCHANGED vars
  BY <1>9 DEF vars
<1> QED
  BY <1>1, <1>2, <1>3, <1>4, <1>5, <1>6, <1>7, <1>8, <1>9 DEF Next, ProcessStep

\* While the old pod leads, the new one is not ready: ReadyzCheck is about the
\* model, which only the holder of the lease creates.
OldBlocksNew == phase[old] = "leading" => ~Ready(new)

\* Readiness waits for the lease: as long as the old pod leads, the new one is
\* not ready, and the Deployment does not stop the old one.
THEOREM OldBlocksNewCorrect ==
  ASSUME NoHolder \notin Pods, old # new
  PROVE  Spec => []OldBlocksNew
<1>1. Init => LeaseInv
  BY DEF Init, LeaseInv, TypeOK, Phase, Pods
<1>2. LeaseInv /\ [Next]_vars => LeaseInv'
  BY LeaseStep
<1>3. LeaseInv => OldBlocksNew
  BY DEF LeaseInv, OldBlocksNew, TypeOK, Ready, Pods
<1> QED
  BY <1>1, <1>2, <1>3, PTL DEF Spec

-----------------------------------------------------------------------------
(* How an upgrade ends as long as the old process keeps running.           *)

\* The new pod is never ready, and the old one is never told to stop.
UpgradeBlocked == ~Ready(new) /\ phase[old] \notin {"terminating", "gone"}

\* From the moment there is a new pod, the old one leads with its model.
OldHolds ==
  /\ LeaseInv
  /\ phase[old] \notin {"terminating", "gone"}
  /\ phase[new] # "none" => phase[old] = "leading" /\ modelReady[old]

LEMMA OldHoldsBlocks ==
  ASSUME old # new, OldHolds
  PROVE  UpgradeBlocked
BY DEF OldHolds, LeaseInv, TypeOK, UpgradeBlocked, Ready, Pods

LEMMA OldHoldsStep ==
  ASSUME NoHolder \notin Pods, old # new, OldHolds, [Next]_vars, [~Exit(old)]_vars
  PROVE  OldHolds'
<1> USE DEF OldHolds, LeaseInv, TypeOK, MovesTo, Pods
<1>1. LeaseInv'
  BY LeaseStep
<1>2. ~Ready(new)
  BY OldHoldsBlocks DEF UpgradeBlocked
<1> DEFINE Keeps == /\ phase'[old] \notin {"terminating", "gone"}
                    /\ phase'[new] # "none" => phase'[old] = "leading" /\ modelReady'[old]
<1>3. ASSUME NEW p \in Pods, ProcessStep(p)
      PROVE  Keeps
  BY <1>3 DEF ProcessStep, StartManager, Lead, CreateModel
<1>4. ASSUME Exit(new)
      PROVE  Keeps
  BY <1>4 DEF Exit
<1>5. ~Exit(old) \/ UNCHANGED vars
  OBVIOUS
<1>6. ASSUME Upgrade
      PROVE  Keeps
  BY <1>6 DEF Upgrade, Ready
<1>7. ~ScaleDown /\ ~Terminated
  BY <1>2 DEF ScaleDown, Terminated
<1>8. ASSUME LeaseExpires
      PROVE  Keeps
  BY <1>8 DEF LeaseExpires
<1>9. ASSUME UNCHANGED vars
      PROVE  Keeps
  BY <1>9 DEF vars
<1>10. Keeps
  BY <1>3, <1>4, <1>5, <1>6, <1>7, <1>8, <1>9 DEF Next
<1> QED
  BY <1>1, <1>10

\* Whatever happens to the new pod, an upgrade does not complete while the
\* process of the old one keeps running: only an Exit of the old pod can let
\* the new one take the lease, create its model and be ready.
THEOREM UpgradeBlockedCorrect ==
  ASSUME NoHolder \notin Pods, old # new
  PROVE  Spec /\ [][~Exit(old)]_vars => []UpgradeBlocked
<1>1. Init => OldHolds
  BY DEF Init, OldHolds, LeaseInv, TypeOK, Phase, Pods
<1>2. OldHolds /\ [Next]_vars /\ [~Exit(old)]_vars => OldHolds'
  BY OldHoldsStep
<1>3. OldHolds => UpgradeBlocked
  BY OldHoldsBlocks
<1> QED
  BY <1>1, <1>2, <1>3, PTL DEF Spec
=============================================================================
