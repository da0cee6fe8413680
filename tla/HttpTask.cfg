SPECIFICATION Spec
CONSTANTS
  ConnType = "USER"
  MaxSessions = 5
INVARIANTS
  WakeupIffSleeping
  OutcomeReportedOnce
  TransmitsOverItsSession
  TransferEnds
PROPERTIES
  ImplementsTaskLife
CHECK_DEADLOCK FALSE
