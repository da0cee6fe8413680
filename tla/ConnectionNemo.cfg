SPECIFICATION FairSpec
CONSTANTS
  Conns <- TwoConns
  Imsi <- TwoSims
  NoConn = "none"
  NoImsi = ""
  MaxInbox = 2
  MaxCrashes = 1
INVARIANTS
  PendingKeepsObjects
  ReservationFollowsUse
PROPERTIES
  ImplementsConnections
  ConnectionSettles
CHECK_DEADLOCK FALSE
