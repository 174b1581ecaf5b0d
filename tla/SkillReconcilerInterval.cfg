SPECIFICATION Spec
CONSTANTS
  c1 = c1
  c2 = c2
  Skills = {s1}
  ConfigMaps = {c1, c2}
  MaxVersion = 2
  Intervals = {5, 9}
  Dirs = {d1, d2, d3}
  NoEntry = NoEntry
  NoRV = NoRV
  NoRef = NoRef
  Absent = Absent
  Idle = Idle
  NoDir = NoDir
  MaxLeaks = 1
  Specs <- MCIntervalSpecs
INVARIANTS IntervalInEffect

CHECK_DEADLOCK TRUE
