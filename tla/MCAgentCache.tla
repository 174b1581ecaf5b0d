--------------------------- MODULE MCAgentCache ---------------------------
(* Constants for AgentCache: Skills that share one ConfigMap.  The names   *)
(* of Skills and of temporary directories are interchangeable: symmetric   *)
(* where only safety is checked, and otherwise given out in order (Dirs is *)
(* a set of numbers).                                                      *)
EXTENDS AgentCache, TLC

CONSTANTS
  c1,
  Good          \* writes of it that can be built

MCSpecs ==
  {[cfg |-> c1, mcp |-> NoRef, ival |-> 5, runRequested |-> TRUE]}

MCBuilds == {c1} \X Good

MCSymmetry == Permutations(Skills) \cup Permutations(Dirs)

\* os.MkdirTemp returns the first name that is free.
InOrder ==
  \A d \in dirs' \ dirs :
    \A e \in Dirs \ (dirs \cup CachedDirs \cup HeldDirs) : d <= e

OrderedSpec == CacheInit /\ [][CacheNext /\ InOrder]_cacheVars /\ CacheFairness

\* A sweep and RunWithPrompt change nothing the other reads: each is
\* interleaved with everything but the other.
InTurn == prompted' # NoRun => loop' \in {"select", "stopped"}

InTurnSpec == CacheInit /\ [][CacheNext /\ InTurn]_cacheVars
=============================================================================
