SPECIFICATION MainFairSpec
CONSTANTS
  N = 4
  NGoRoutine = 3
  QueryIndex = 2
  Galois = 2
INVARIANTS IInv PartialsFinal OutputIsRow
PROPERTY MainReturns
CHECK_DEADLOCK FALSE
