SPECIFICATION ClientFairSpec
CONSTANTS
  N = 4
  Branching = 2
  ChanCap = 2
  DeadlinesFire = FALSE
INVARIANTS IInv TriplesExact OwnShareFirst NeverFull PanicOnlyAfterLoss
PROPERTY AllReturnOrLoss
CHECK_DEADLOCK FALSE
