SPECIFICATION FairSpec
CONSTANTS
  Msgs = {m1}
  Servers = {s1}
  Shells = {sh}
  Lease = 1
  RetryDelays <- OneThenTwo
  MaxAge = 2
  Idle = 2
  FailWait = 1
  Batch = 1
  PassMax = 1
  MaxFaults = 1
  LosesAnswers = TRUE
INVARIANT SentInTime
PROPERTIES PromiseSpec Settled
