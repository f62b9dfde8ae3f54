SPECIFICATION Spec
CONSTANTS
  r1 = r1
  r2 = r2
  r3 = r3
  created = created
  k1 = k1
  Requests <- ThreeRequests
  Creator = created
  Contents <- Aggregates
  First = "ingested"
  Steps <- Operations
  Readers <- OneReader
  MaxAttempts = 2
SYMMETRY Symmetry
CHECK_DEADLOCK FALSE
INVARIANTS
  ChainIsHistory
  AnswersAreTrue
  SnapshotIsSound
PROPERTIES
  ImplementsLedger
