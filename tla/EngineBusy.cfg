SPECIFICATION EngineSpec
CONSTANTS
  Class <- Sending
  Tasks <- SendingTasks
  Msg <- SendingMsg
  Imsi <- SendingImsi
  UserTasks = {}
  NoImsi = "none"
  MaxOrder = 2
  KeepRunning = FALSE
  MaxCalls = 2
INVARIANTS
  NoExitWhileBusy
CHECK_DEADLOCK FALSE
