SPECIFICATION SortSpec
CONSTANTS
  Length = 3
  Sims = {"simA", "simB"}
  TaskStates <- SomeStates
  ConnStates = {"NONE", "OPENING", "OPEN"}
INVARIANTS
  HeadHidesNobody
  OrderedAsPromised
CHECK_DEADLOCK FALSE
