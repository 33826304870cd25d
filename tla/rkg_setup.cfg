SPECIFICATION Spec
CONSTANTS
  N = 5
  Branching = 2
  ChanCap = 2
  DeadlinesFire = TRUE
INVARIANTS IInv KeyExact RoundsDoNotMix ReturnIsCollective NothingAfterReturn
CHECK_DEADLOCK FALSE
