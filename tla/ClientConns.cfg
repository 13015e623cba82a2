\* Connections fail and are renewed while the list of servers changes.
SPECIFICATION FairSpec
CONSTANTS
  a1 = a1
  a2 = a2
  b1 = b1
  s1 = s1
  s2 = s2
  Addrs <- TwoAddrs
  Servers <- TwoServers
  IdOf <- IdOfTwo
  Configs <- TwoConfigs
  First = "large"
  ServersOf <- ListOf
  MaxConns = 4
  MaxReloads = 1
  MaxCloses = 1
INVARIANTS
  NoDeadEntry
PROPERTIES
  Reconnects
