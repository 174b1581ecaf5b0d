SPECIFICATION FairSpec
CONSTANTS
  Names = {a1}
  Callers = {k1, k2}
  Texts = {t1}
  Props = {p1}
  FallbackText = FallbackText
  FallbackProp = p1
  NoText = NoText
  NoProp = NoProp
  Undecided = Undecided
  Unused = Unused
  Gone = Gone
  NoName = NoName
  NoCall = NoCall
  NoWork = NoWork
  TokenCounts = {2}
  NoResult = NoResult
  MaxEvents = 2
  MaxRev = 4
INVARIANTS TypeOK
PROPERTIES KeepsContract ApprovalSticks AgreedAsStored ApproverIsHeard
CHECK_DEADLOCK TRUE
