SPECIFICATION FairSpec
CONSTANTS
  Parties = {p0, p1}
  ChanCap = 2
  DeadlinesFire = FALSE
PROPERTY EveryPartyFinishes
CHECK_DEADLOCK FALSE
