SPECIFICATION Spec
CONSTANTS
  r1 = r1
  r2 = r2
  Requests <- SomeRequests
  Week = 1
  PeriodEnd = 0
  Expires = 0
  Never = never
  MaxRows = 3
  MaxDay = 1
  MaxUpsets = 1
SYMMETRY Symmetry
INVARIANTS LadderSettled BanNeedsThree
