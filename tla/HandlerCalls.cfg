SPECIFICATION FairSpec
CONSTANTS
  Tasks <- OneOfEach
  Notifications <- OneNotification
  Calls = {c1, c2, c3, c4}
  NoCall = NoCall
  NoTask = "none"
INVARIANTS
  BusyCountsCalls
  PendingIsAnswered
  RefsBalanced
PROPERTIES
  DoneIsFinal
  PendingEnds
CHECK_DEADLOCK FALSE
