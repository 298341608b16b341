SPECIFICATION FairSpec
CONSTANTS
  Master = Master
  s1 = s1
  s2 = s2
  c1 = c1
  Servers = {s1, s2, s3}
  Clients = {c1}
  Starts <- OneCommand
  MaxMembers = 3
  Passes = 1
  MayRaise = FALSE
INVARIANT PeriodicThreadRuns
CHECK_DEADLOCK FALSE
