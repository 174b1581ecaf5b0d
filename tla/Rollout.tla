------------------------------ MODULE Rollout ------------------------------
(***************************************************************************)
(* The start of the manager (cmd/main.go, AgentRunnerLoop.Start and        *)
(* ReadyzCheck in agent_runner.go) in the pods of its Deployment, while a  *)
(* new revision is rolled out.  The Deployment asks for one replica, starts*)
(* the manager with --leader-elect and leaves the strategy at its default: *)
(* with one replica, a pod more and none less.                             *)
(***************************************************************************)
CONSTANTS
  old, new,     \* the pod that runs, and the one that is to replace it
  NoHolder      \* the lease is free or has expired

Pods == {old, new}

VARIABLES
  phase,        \* how far each pod is
  modelReady,   \* AgentRunnerLoop.modelReady of each pod
  holder        \* the holder of the lease cbc2d9a5.khieron.io

vars == <<phase, modelReady, holder>>

\* A pod does not exist, its process starts up, its manager waits for the
\* lease or leads, or it is being terminated, or was.
Phase == {"none", "booting", "waiting", "leading", "terminating", "gone"}

TypeOK ==
  /\ phase \in [Pods -> Phase]
  /\ modelReady \in [Pods -> BOOLEAN]
  /\ holder \in Pods \cup {NoHolder}

Init ==
  /\ phase = [p \in Pods |-> IF p = old THEN "booting" ELSE "none"]
  /\ modelReady = [p \in Pods |-> FALSE]
  /\ holder = NoHolder

MovesTo(p, ph) == phase' = [phase EXCEPT ![p] = ph]

-----------------------------------------------------------------------------
(* The process.                                                            *)

\* main has built the manager, added the loop and the two controllers to it,
\* set up the probes, and starts it.
StartManager(p) ==
  /\ phase[p] = "booting"
  /\ MovesTo(p, "waiting")
  /\ UNCHANGED <<modelReady, holder>>

\* The lease is free: this manager leads.  The loop and the controllers are
\* runnables that need the lease, and only start now.
Lead(p) ==
  /\ phase[p] = "waiting"
  /\ holder = NoHolder
  /\ holder' = p
  /\ MovesTo(p, "leading")
  /\ UNCHANGED modelReady

\* Start creates the model.
CreateModel(p) ==
  /\ phase[p] = "leading"
  /\ ~modelReady[p]
  /\ modelReady' = [modelReady EXCEPT ![p] = TRUE]
  /\ UNCHANGED <<phase, holder>>

\* createModel fails, the lease is lost or the process crashes: it exits, and
\* the container is started again.  Nothing gives the lease back.
Exit(p) ==
  /\ phase[p] \in {"waiting", "leading"}
  /\ MovesTo(p, "booting")
  /\ modelReady' = [modelReady EXCEPT ![p] = FALSE]
  /\ UNCHANGED holder

\* The manager does not renew the lease, and its duration passes.
LeaseExpires ==
  /\ holder # NoHolder
  /\ phase[holder] \notin {"leading", "terminating"}
  /\ holder' = NoHolder
  /\ UNCHANGED <<phase, modelReady>>

\* ReadyzCheck.
Ready(p) == phase[p] \in {"waiting", "leading"} /\ modelReady[p]

-----------------------------------------------------------------------------
(* The Deployment controller and the kubelet.                              *)

\* helm upgrade, once the first revision is up: one pod more.
Upgrade ==
  /\ Ready(old)
  /\ phase[new] = "none"
  /\ MovesTo(new, "booting")
  /\ UNCHANGED <<modelReady, holder>>

\* None less: the old pod is told to stop once the new one is ready.
ScaleDown ==
  /\ phase[old] \in {"booting", "waiting", "leading"}
  /\ Ready(new)
  /\ MovesTo(old, "terminating")
  /\ UNCHANGED <<modelReady, holder>>

\* mgr.Start returns, or the grace period is over.
Terminated ==
  /\ phase[old] = "terminating"
  /\ MovesTo(old, "gone")
  /\ modelReady' = [modelReady EXCEPT ![old] = FALSE]
  /\ UNCHANGED holder

-----------------------------------------------------------------------------
ProcessStep(p) == StartManager(p) \/ Lead(p) \/ CreateModel(p)

Next ==
  \/ \E p \in Pods : ProcessStep(p) \/ Exit(p)
  \/ LeaseExpires
  \/ Upgrade
  \/ ScaleDown
  \/ Terminated

Spec == Init /\ [][Next]_vars

\* Processes and controllers make progress; a lease that is not renewed
\* expires, and who keeps trying to take it gets it in the end.
Fairness ==
  /\ \A p \in Pods :
       /\ WF_vars(StartManager(p)) /\ WF_vars(CreateModel(p))
       /\ SF_vars(Lead(p))
  /\ WF_vars(LeaseExpires)
  /\ WF_vars(ScaleDown) /\ WF_vars(Terminated)

FairSpec == Spec /\ Fairness

-----------------------------------------------------------------------------
\* What the docs use helm upgrade for, to configure Khieron: the pod with the
\* new configuration takes over, unless processes keep exiting.
RolloutCompletes ==
  \/ phase[new] = "booting" ~> (Ready(new) /\ phase[old] = "gone")
  \/ []<><<\E p \in Pods : Exit(p)>>_vars
=============================================================================
