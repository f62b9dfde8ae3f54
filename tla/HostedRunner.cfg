SPECIFICATION FairSpec
CONSTANTS
  Kinds <- AllKinds
  Dispatches = 2
  Files = 2
  MaxAttempts = 2
  MaxRepairs = 2
  CallbackTries = 3
  MaxLate = 1
  MaxRejections = 2
  MaxCursor = 2
CHECK_DEADLOCK FALSE
INVARIANTS
  InStep
  AnsweredRunSettles
  OutcomeIsEarned
PROPERTIES
  ContainerEnds
