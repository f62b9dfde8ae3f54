SPECIFICATION Spec
CONSTANTS
  None = None
  Plan = Plan
  c1 = c1
  c2 = c2
  k1 = k1
  k2 = k2
  p1 = p1
  p2 = p2
  i1 = i1
  i2 = i2
  r1 = r1
  r2 = r2
  m1 = m1
  m2 = m2
  e1 = e1
  a1 = a1
  f1 = f1
  Claims <- TwoClaims
  Concepts <- TwoConcepts
  Predictions <- TwoPredictions
  IRs <- TwoIRs
  Runs <- TwoRuns
  Manifests <- TwoManifests
  Reports <- OneReport
  Packets <- OnePacket
  Patches <- OnePatch
CHECK_DEADLOCK FALSE
INVARIANTS
  EvidenceStaysBound
  RepairIsEarned
  RejectionReleasesNothing
  DirectorFollowsBelief
  ProofCanBeCited
  CapsuleSealsTheSession
PROPERTIES
  NothingIsRewritten
