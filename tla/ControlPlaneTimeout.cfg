SPECIFICATION Spec
CONSTANTS
  None = None
  r1 = r1
  r2 = r2
  Requests <- TwoRequests
  Starts <- FromPrediction
  MaxNew = 2
SYMMETRY Symmetry
PROPERTIES
  TimeoutProjectedOnce
CHECK_DEADLOCK FALSE
