SPECIFICATION MainSpec
CONSTANTS
  N = 3
  NGoRoutine = 1
  MaxZeros = 1
INVARIANT VerdictCorrect
CHECK_DEADLOCK FALSE
