SPECIFICATION BuildFairSpec
CONSTANTS
  c1 = c1
  c2 = c2
  Skills = {s1}
  ConfigMaps = {c1, c2}
  MaxVersion = 2
  Intervals = {5}
  Dirs = {d1, d2, d3}
  NoEntry = NoEntry
  NoRV = NoRV
  NoRef = NoRef
  Absent = Absent
  Idle = Idle
  NoDir = NoDir
  MaxLeaks = 3
  Specs <- MCSpecs
  m1 = m1
  m2 = m2
  Servers = {m1, m2}
  Loads <- MCLoads
  MCPConfig <- MCMCPConfig
  NoServers = NoServers
  NoTransport = NoTransport
  NoBuild = NoBuild
INVARIANTS TypeOK BuildTypeOK NoLostChange StaleWorkIsRepeated DirsOwned AgentsAreWhole
PROPERTIES ImplementsReconciler Converges
CHECK_DEADLOCK TRUE
