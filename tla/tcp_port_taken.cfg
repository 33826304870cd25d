SPECIFICATION Spec
CONSTANTS
  N = 2
  Networks = 2
  Attempts = 1
INVARIANT ListenSucceeds
CHECK_DEADLOCK FALSE
