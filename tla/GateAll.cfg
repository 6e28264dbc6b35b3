SPECIFICATION FairSpec
CONSTANTS
  Registered = {reg}
  Roster = {sup}
  NoPlate = noplate
  Grace = 0
  Breathing = 2
  Cooldown = 2
  DayLength = 4
  Requests = {h1, h2}
  Paths <- AllPaths
  MaxRows = 3
  MaxNow = 4
INVARIANTS PairingSound
PROPERTY RequestsEnd
PROPERTY StayKept
