SPECIFICATION Spec
CONSTANTS
  Parties = {p0, p1, p2}
  ChanCap = 1
  DeadlinesFire = TRUE
SYMMETRY Symmetry
CONSTRAINT FewPanics
INVARIANT IInv
CHECK_DEADLOCK FALSE
