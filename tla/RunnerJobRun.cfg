SPECIFICATION Spec
CONSTANTS
  h1 = h1
  h2 = h2
  d1 = d1
  d2 = d2
  u1 = u1
  u2 = u2
  None = None
  Handlers <- TwoHandlers
  Deliveries <- TwoDeliveries
  Uploads <- NoUploads
  Callbacks <- AllCallbacks
  Repairs = FALSE
  Closes = TRUE
  AuthorityEvents = 2
  MaxAttempts = 2
  Timeout = 2
  ClaimTTL = 1
  Grace = 1
  MaxCursor = 1
  LastDispatch = 0
  MaxTime = 3
SYMMETRY Symmetry
CHECK_DEADLOCK FALSE
INVARIANTS
  OutcomeIsExplained
  SettledInTime
  AnswersAreTrue
  VerifiedRunIsWitnessed
  NeverStranded
PROPERTIES
  DispatchFailureIsFenced
  ClaimFence
  KeepsPromise
