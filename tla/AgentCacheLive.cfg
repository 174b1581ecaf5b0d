SPECIFICATION OrderedSpec
CONSTANTS
  c1 = c1
  Skills = {s1}
  ConfigMaps = {c1}
  MaxVersion = 3
  Intervals = {5}
  Dirs = {1, 2, 3}
  NoEntry = NoEntry
  NoRV = NoRV
  NoRef = NoRef
  Absent = Absent
  Idle = Idle
  NoDir = NoDir
  NoRun = NoRun
  Approvable = {}
  MaxLeaks = 3
  Specs <- MCSpecs
  Good = {1, 3}
  Builds <- MCBuilds
PROPERTIES RunsCurrentAgent SignalsAreHeeded
CHECK_DEADLOCK TRUE
