\* Two replicas whose connection comes and goes: stores, and the refinement.
SPECIFICATION Spec
CONSTANTS
  Servers = {0, 1}
  Clients = {c1, c2}
  Keys = {k1}
  Values = {v1, v2}
  ClientTimes = {0, 1}
  MaxWrites = 3
  InitialLinks <- Pair
  Links <- Pair
  NoValue = NoValue
SYMMETRY Symmetry
INVARIANTS AcceptTimeAhead UniqueStamps KvStoreIsReplay Convergence
PROPERTY ImplementsReplicatedStore
