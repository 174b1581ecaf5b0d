SPECIFICATION CacheSpec
CONSTANTS
  c1 = c1
  Skills = {s1}
  ConfigMaps = {c1}
  MaxVersion = 2
  Intervals = {5}
  Dirs = {d1, d2, d3}
  NoEntry = NoEntry
  NoRV = NoRV
  NoRef = NoRef
  Absent = Absent
  Idle = Idle
  NoDir = NoDir
  NoRun = NoRun
  Approvable = {s1}
  MaxLeaks = 1
  Specs <- MCSpecs
  Good = {1, 2}
  Builds <- MCBuilds
INVARIANTS RunningAgentHasFiles
CHECK_DEADLOCK TRUE
