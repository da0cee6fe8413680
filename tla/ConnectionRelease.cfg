SPECIFICATION Spec
CONSTANTS
  Conns <- TwoConns
  Imsi <- TwoSims
  NoConn = "none"
  NoImsi = ""
  MaxInbox = 2
  MaxCrashes = 0
PROPERTIES
  ReleasesItsOwn
CHECK_DEADLOCK FALSE
