\* A pure reader returns to an entry it saw replaced.
SPECIFICATION SystemSpec
CONSTANTS
  Servers = {0, 1}
  Clients = {c1, c2, c3}
  Keys = {k1}
  Values = {v1}
  ClientTimes = {0, 1}
  MaxWrites = 3
  InitialLinks <- Pair
  Links <- NoLinks
  NoValue = NoValue
  InitialClientLinks <- Everywhere
  ClientLinks <- NoLinks
  ERR_DEP = ERR_DEP
  ERR_KEY = ERR_KEY
  NoEntry = NoEntry
SYMMETRY Symmetry
INVARIANTS MonotonicReads
