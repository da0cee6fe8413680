SPECIFICATION Spec
CONSTANTS
  Tasks <- OneOfEach
  Notifications <- OneNotification
  Calls = {c1, c2, c3, c4}
  NoCall = NoCall
  NoTask = "none"
INVARIANTS
  RunsWithoutCall
CHECK_DEADLOCK FALSE
