\* Three replicas in a cycle: logs, clocks and propagation.
SPECIFICATION FairSpec
CONSTANTS
  Servers = {0, 1, 2}
  Clients = {c1, c2}
  Keys = {k1}
  Values = {v1}
  ClientTimes = {0, 1}
  MaxWrites = 2
  InitialLinks <- Ring
  Links <- NoLinks
  NoValue = NoValue
INVARIANTS TypeOK NoWriteLost SessionOrder
PROPERTY WritesReachEveryone
