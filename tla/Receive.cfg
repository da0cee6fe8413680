SPECIFICATION Spec
CONSTANTS
  Pdus <- MCPdus
  Ids = {"tx", "long"}
  MaxTries = 1
INVARIANTS
  MessageIsWhole
  PartsAreKept
  AnswersDecode
  NothingIsLeft
CHECK_DEADLOCK FALSE
