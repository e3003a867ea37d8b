CONSTANTS
  MAX_RESERVES = 2
  STACK_SIZE = 2
  Params <- OnePeriod
  UserPriority = 0
  MIN_PRIORITY = 1
  UINT_SPAN = 1
  START_PERIOD_DEPTH = 0
  Features = {"delete"}
  Handles = {0, 1}
  HasHyptask = {TRUE}
  Mishaps = {}
SPECIFICATION HypertaskSpec
CONSTRAINT StackHasRoom
INVARIANT HypertasksOwned
INVARIANT EveryDeadlineAnswered
PROPERTY NoDefaultAfterCommand
CHECK_DEADLOCK FALSE
