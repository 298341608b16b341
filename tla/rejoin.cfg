\* One ID killed and joined again, with two other replicas.
SPECIFICATION RejoinSpec
CONSTANTS
  Servers = {0, 1, 2}
  Clients = {c1, c2}
  Keys = {k1}
  Values = {v1}
  ClientTimes = {0, 1}
  MaxWrites = 2
  InitialLinks <- Star
  Links <- NoLinks
  NoValue = NoValue
  Victim = 0
  MaxKills = 1
SYMMETRY Symmetry
INVARIANTS UniqueIfHeard NoneLostIfHeard
\* The model of a log ends with the first stamp that is used again.
CONSTRAINT StampsStayUnique

