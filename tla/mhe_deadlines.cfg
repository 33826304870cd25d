SPECIFICATION ClientSpec
CONSTANTS
  N = 3
  Branching = 2
  ChanCap = 2
  DeadlinesFire = TRUE
INVARIANTS SetupDone TriplesExact StopHarmless
CHECK_DEADLOCK FALSE
