SPECIFICATION FairSpec
CONSTANTS
  h1 = h1
  h2 = h2
  d1 = d1
  d2 = d2
  u1 = u1
  u2 = u2
  None = None
  Handlers <- OneHandler
  Deliveries <- OneDelivery
  Uploads <- TwoUploads
  Callbacks <- OnlyVerified
  Repairs = TRUE
  Closes = FALSE
  AuthorityEvents = 0
  MaxAttempts = 2
  Timeout = 2
  ClaimTTL = 1
  Grace = 1
  MaxCursor = 1
  LastDispatch = 0
  MaxTime = 3
CHECK_DEADLOCK FALSE
INVARIANTS
  SchemaHolds
PROPERTIES
  EventFence
  EventuallyTerminal
