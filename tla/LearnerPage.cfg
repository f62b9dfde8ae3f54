SPECIFICATION Spec
CONSTANTS
  None = None
  j1 = j1
  j2 = j2
  r1 = r1
  Compiles <- TwoCompiles
  Jobs <- ThreeJobs
  MaxEvents = 2
  MaxTotal = 2
  MaxWaits = 2
  GracePolls = 1
SYMMETRY Symmetry
CHECK_DEADLOCK FALSE
INVARIANTS
  NothingIsMissed
PROPERTY
  RunningStaysKnown
