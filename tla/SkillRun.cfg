SPECIFICATION FairSpec
CONSTANTS
  Interval = 2
  SpecIntervals = {0, 5}
  TokenCounts = {2}
  NoResult = NoResult
  MaxEvents = 2
  MaxTokens = 2
  MaxTime = 2
  MaxRev = 3
  Never = Never
  Keep = Keep
  NoCopy = NoCopy
  NoRun = NoRun
  NoCall = NoCall
INVARIANTS TypeOK RunsAreFolded
PROPERTIES TotalsGrowByTheRun UpdateOwnerKeepsEdits RequestIsServed
CHECK_DEADLOCK TRUE
