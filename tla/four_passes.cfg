\* The four passes of stabilize() over five replicas.
SPECIFICATION Spec
CONSTANTS
  Servers = {0, 1, 2, 3, 4}
  Clients = {c1}
  Keys = {k1}
  Values = {v1}
  ClientTimes = {0}
  NoValue = NoValue
  Topologies <- Trees
  Written <- OneEach
  MaxRounds = 1
INVARIANTS TypeOK PassCarriesOneLink FourPassesReachAll
\* The command ends.
CHECK_DEADLOCK FALSE
