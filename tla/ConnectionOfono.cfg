SPECIFICATION FairSpec
CONSTANTS
  Conns = {"c1", "c2"}
  Modems <- TwoModems
  Sims <- ModemSims
  Names = {"name"}
  NoConn = "none"
  NoModem = "none"
  NoSim = ""
  NoName = ""
INVARIANTS
  PointersAreFresh
  HeldIsUsable
PROPERTIES
  ImplementsConnections
  CloseEnds
CHECK_DEADLOCK FALSE
