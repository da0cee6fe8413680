SPECIFICATION Spec
CONSTANTS
  Class <- Sending
  Tasks <- SendingTasks
  Msg <- SendingMsg
  Imsi <- SendingImsi
  UserTasks = {}
  NoImsi = "none"
  MaxOrder = 2
PROPERTIES
  OnlyLiveMessagesAreSent
