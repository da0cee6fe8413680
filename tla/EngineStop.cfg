SPECIFICATION EngineSpec
CONSTANTS
  Class <- Sending
  Tasks <- SendingTasks
  Msg <- SendingMsg
  Imsi <- SendingImsi
  UserTasks = {}
  NoImsi = "none"
  MaxOrder = 2
  KeepRunning = TRUE
  MaxCalls = 3
INVARIANTS
  StopTakesPlace
CHECK_DEADLOCK FALSE
