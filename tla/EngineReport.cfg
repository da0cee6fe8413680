SPECIFICATION EngineSpec
CONSTANTS
  Class <- Sending
  Tasks <- SendingTasks
  Msg <- SendingMsg
  Imsi <- SendingImsi
  UserTasks = {}
  NoImsi = "none"
  MaxOrder = 2
  KeepRunning = FALSE
  MaxCalls = 3
INVARIANTS
  TimerSparesCalls
CHECK_DEADLOCK FALSE
