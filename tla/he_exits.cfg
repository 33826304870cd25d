SPECIFICATION FairSpec
CONSTANTS
  Parties = {p0, p1, p2}
  ChanCap = 2
  DeadlinesFire = FALSE
INVARIANTS TypeOK QueryBeforeResponse CompletionNotMissed AggregateExact NoQueryLeftBehind PanicOnlyAfterLoss
PROPERTIES AllReturnOrLoss ImplementsExchange
CHECK_DEADLOCK FALSE
