SPECIFICATION Spec
CONSTANTS
  Gaps <- Steady
  Lapses <- LateOrOut
  Offline = 7
  Hits = 3
  ClaimAfter = 4
  Grace = 7
  Fresh = 2
  StillFor = 3
  HoldStill = 5
  DoublePark = 8
  Lost = 6
  LookEvery = 4
  ClaimLook = 2
  Ttl = 5
  ToldBy = 15
  MaxUpsets = 1
INVARIANT FreeBayUnnamed TruthInTime
PROPERTY NeverTakenInPassing
