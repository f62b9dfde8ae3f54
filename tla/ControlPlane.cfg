SPECIFICATION Spec
CONSTANTS
  None = None
  r1 = r1
  r2 = r2
  Requests <- TwoRequests
  Starts <- FromAll
  MaxNew = 2
SYMMETRY Symmetry
INVARIANTS
  AuthorityIsBacked
  AnsweredIsProjected
  OneJobPerRequest
CHECK_DEADLOCK FALSE
