\* Clients that move between replicas that come and go.
SPECIFICATION SystemSpec
CONSTANTS
  Servers = {0, 1}
  Clients = {c1, c2}
  Keys = {k1, k2}
  Values = {v1, ERR_KEY}
  ClientTimes = {0, 1}
  MaxWrites = 2
  InitialLinks <- OneWay
  Links <- OneWay
  NoValue = NoValue
  InitialClientLinks <- FirstReplica
  ClientLinks <- Everywhere
  ERR_DEP = ERR_DEP
  ERR_KEY = ERR_KEY
  NoEntry = NoEntry
SYMMETRY Symmetry
INVARIANTS SystemTypeOK ReadYourWrites KeyStaysPresent
PROPERTIES ReadersSeeWritersInOrder
