SPECIFICATION Spec
CONSTANTS
  None = None
  Attempts = 2
  MaxLines = 3
CHECK_DEADLOCK FALSE
INVARIANTS
  DeniedRunFails
