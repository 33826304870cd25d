SPECIFICATION FairSpec
CONSTANTS
  N = 3
  Networks = 2
  Attempts = 2
INVARIANTS IInv ReadyMeansMesh ResetOnlyByOldListener
PROPERTIES RefusedOnlyBeforeListen ConnectReturns
CHECK_DEADLOCK FALSE
