\* An entry appended to a list that is being replaced.
SPECIFICATION Spec
CONSTANTS
  Servers = {0, 1}
  Clients = {c1}
  Keys = {k1}
  Values = {v1}
  ClientTimes = {0, 1}
  MaxWrites = 2
  Reachable <- Mutual
  Writable = {0, 1}
  NoValue = NoValue
INVARIANT ClaimedIsHeld
\* Writes are bounded and the periodic threads may die: the system can stop.
CHECK_DEADLOCK FALSE
