SPECIFICATION Spec
CONSTANTS
  campus = campus
  cloud = cloud
  Servers = {campus, cloud}
  Steady = {campus}
  Everyone = everyone
  Jobs <- JobOrder
  Backup = "scheduled_backup"
  Hourly = {"expire_unpaid_registrations"}
  Skipped <- CloudSkips
  Hour = 2
  DayLength = 8
  Period = 12
  Clocks = {1}
  Off = off
  PassMax = 1
  MaxUpsets = 1
  MaxNow = 13
INVARIANTS NeverTwice OnlyFaultsCostADay OnlyFaultsLeaveClaims SweptInTime BackedUpInTime
