SPECIFICATION Spec
CONSTANTS
  Registered = {car}
  Roster = {}
  NoPlate = noplate
  Grace = 0
  Breathing = 2
  Cooldown = 2
  DayLength = 10
  Car = car
  Requests = {r1, r2}
  Minutes = {0}
  Minute = 2
  Plated = {FALSE}
  Picked = {TRUE}
  MaxPasses = 1
  MaxPrints = 2
  MaxRows = 3
  MaxUpsets = 1
  MaxNow = 2
SYMMETRY Symmetric
INVARIANTS EntryOnce VisitRecorded CopyInHandWorks
PROPERTY ExitStands
