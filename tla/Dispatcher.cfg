SPECIFICATION Spec
CONSTANTS
  Class <- Receiving
  Tasks <- ReceivingTasks
  Msg <- ReceivingMsg
  Imsi <- ReceivingImsi
  UserTasks = {"u3"}
  NoImsi = "none"
  MaxOrder = 2
INVARIANTS
  NoLostWakeup
  DoneIsReported
  UnusedConnectionEnds
  TransmitOnOpenConnection
  IdleTimerSparesUsers
PROPERTIES
  TransmissionUndisturbed
