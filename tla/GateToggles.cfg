SPECIFICATION Spec
CONSTANTS
  Registered = {reg}
  Roster = {sup}
  NoPlate = noplate
  Grace = 0
  Breathing = 2
  Cooldown = 2
  DayLength = 4
  Requests = {h1, h2}
  Paths <- LockingPaths
  MaxRows = 4
  MaxNow = 5
SYMMETRY Symmetric
INVARIANTS LockedEntryOpen OneExitPerEntry BreathingKept
PROPERTY VisitsSpec
