SPECIFICATION SharesSpec
CONSTANTS
  Parties <- MCParties
  T = 5
  N = 2
  Word = 16
  Samples <- MCSamples
  Asked <- MCAsked
INVARIANTS SharesInv ProductShared
PROPERTY DeliveredCount
CHECK_DEADLOCK FALSE
