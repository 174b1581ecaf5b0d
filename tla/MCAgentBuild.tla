--------------------------- MODULE MCAgentBuild ---------------------------
(* Constants for AgentBuild: a Skill over two ConfigMaps, one with skills  *)
(* and one with MCP servers, whose second versions cannot be built.        *)
EXTENDS AgentBuild

CONSTANTS c1, c2, m1, m2

Written(cfg, mcp, ival, run) ==
  [cfg |-> cfg, mcp |-> mcp, ival |-> ival, runRequested |-> run]

MCSpecs ==
  {Written(c1, NoRef, 5, FALSE), Written(c1, c2, 5, TRUE)}

Stdio == [type |-> "", command |-> TRUE, url |-> FALSE]
HttpWithoutURL == [type |-> "http", command |-> FALSE, url |-> FALSE]

MCLoads == {<<c1, 1>>}

MCMCPConfig ==
  [v \in RV |-> CASE v = <<c2, 1>> -> [m \in {m1} |-> Stdio]
                  [] v = <<c2, 2>> -> [m \in {m1, m2} |-> IF m = m1 THEN Stdio ELSE HttpWithoutURL]
                  [] OTHER -> NoServers]
=============================================================================
