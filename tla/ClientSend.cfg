\* Two senders, connections that come and go, and reloads of the list of servers.
SPECIFICATION FairSendSpec
CONSTANTS
  s1 = s1
  s2 = s2
  x = x
  y = y
  Servers <- TwoServers
  Configs <- ThreeConfigs
  First = "small"
  ServersOf <- ListOf
  RouteOf <- Index
  Hashes <- OneHash
  Senders <- TwoSenders
INVARIANTS
  PanicNeedsReload
  SoleRobinTriesAll
PROPERTIES
  RobinReturns
\* A caller that panics leaves mu locked, and everything that needs mu stops.
CHECK_DEADLOCK FALSE
