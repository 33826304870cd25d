SPECIFICATION MainFairSpec
CONSTANTS
  N = 8
  NGoRoutine = 3
  MaxZeros = 2
INVARIANTS IInv NoSharedCiphertext OperandsFinished VerdictCorrect
PROPERTY MainReturns
CHECK_DEADLOCK FALSE
