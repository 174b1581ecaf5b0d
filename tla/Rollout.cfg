SPECIFICATION FairSpec
CONSTANTS
  old = old
  new = new
  NoHolder = NoHolder
PROPERTIES RolloutCompletes
CHECK_DEADLOCK TRUE
