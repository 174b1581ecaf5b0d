------------------------- MODULE MCSkillReconciler -------------------------
(* Constants for SkillReconciler: Skills that differ in their interval.    *)
EXTENDS SkillReconciler

CONSTANTS c1, c2

Written(cfg, mcp, ival, run) ==
  [cfg |-> cfg, mcp |-> mcp, ival |-> ival, runRequested |-> run]

MCIntervalSpecs ==
  {Written(c1, NoRef, i, FALSE) : i \in Intervals}
=============================================================================
