SPECIFICATION Spec
CONSTANTS
  o1 = o1
  o2 = o2
  o3 = o3
  c1 = c1
  c2 = c2
  s1 = s1
  s2 = s2
  w1 = w1
  w2 = w2
  w3 = w3
  None = None
  Operations <- ThreeOperations
  Callers <- TwoCallers
  SessionOf <- Sessions
  Holders <- ThreeHolders
  Policy <- Policies
  Window = 3
  LeaseTTL = 2
  MaxTime = 4
SYMMETRY Symmetry
CHECK_DEADLOCK FALSE
INVARIANTS
  BudgetsHold
  LeasesWithinLimit
  LeaseHasAlarm
  WorkIsBacked
  ReleaseEndsLease
