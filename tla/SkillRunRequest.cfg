SPECIFICATION Spec
CONSTANTS
  Interval = 1
  SpecIntervals = {5, 9}
  TokenCounts = {2}
  NoResult = NoResult
  MaxEvents = 2
  MaxTokens = 2
  MaxTime = 2
  MaxRev = 3
  Never = Never
  Keep = Keep
  NoCopy = NoCopy
  NoRun = NoRun
  NoCall = NoCall

PROPERTIES RequestIsAnswered
CHECK_DEADLOCK TRUE
