\* A put at the new process before its first round.
SPECIFICATION RejoinSpec
CONSTANTS
  Servers = {0, 1, 2}
  Clients = {c1, c2}
  Keys = {k1}
  Values = {v1}
  ClientTimes = {0, 1}
  MaxWrites = 2
  InitialLinks <- Star
  Links <- NoLinks
  NoValue = NoValue
  Victim = 0
  MaxKills = 1
SYMMETRY Symmetry
INVARIANT StampsStayUnique
