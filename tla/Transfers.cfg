SPECIFICATION FairSpec
CONSTANTS
  Messages = {"m"}
  Types = {"Retrieve", "Ack"}
  Clients = {"a", "b"}
  NoTransfer = NoTransfer
  MaxCookie = 2
  MaxBytes = 1
INVARIANTS
  ListenersKnowTheList
PROPERTIES
  ProgressReachesRequests
  EndReachesRequests
  LeaversAreForgotten
CHECK_DEADLOCK FALSE
