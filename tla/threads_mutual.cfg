\* Two replicas that pull from each other, one of which takes writes.
SPECIFICATION FairSpec
CONSTANTS
  Servers = {0, 1}
  Clients = {c1}
  Keys = {k1}
  Values = {v1}
  ClientTimes = {0, 1}
  MaxWrites = 2
  Reachable <- Mutual
  Writable = {0}
  NoValue = NoValue
INVARIANT ThreadTypeOK
PROPERTIES KnowledgeOfOthersGrows EveryRequestEnds ClaimsKeptIfSerial FreshIfSerial
\* Writes are bounded and the periodic threads may die: the system can stop.
CHECK_DEADLOCK FALSE
