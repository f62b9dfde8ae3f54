SPECIFICATION FairSpec
CONSTANTS
  None = None
  Attempts = 2
  MaxLines = 2
CHECK_DEADLOCK FALSE
INVARIANTS
  NothingIsLost
  LaunchOutlivesProcess
  OneCompilation
PROPERTIES
  EventuallyEnds
