SPECIFICATION Spec
CONSTANTS
  Conns = {"c1", "c2"}
  Modems <- TwoModems
  Sims <- ModemSims
  Names = {}
  NoConn = "none"
  NoModem = "none"
  NoSim = ""
  NoName = ""
INVARIANTS
  HeldIsReferenced
CHECK_DEADLOCK FALSE
