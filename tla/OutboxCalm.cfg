SPECIFICATION Spec
CONSTANTS
  Msgs = {m1}
  Servers = {s1, s2}
  Shells = {}
  Lease = 2
  RetryDelays <- OneThenTwo
  MaxAge = 3
  Idle = 3
  FailWait = 1
  Batch = 1
  PassMax = 2
  MaxFaults = 2
  LosesAnswers = TRUE
SYMMETRY SymmetricSets
INVARIANTS OneSender AlarmClosed Attended
PROPERTY NoFalseAlarm
