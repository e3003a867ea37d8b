CONSTANTS
  MAX_RESERVES = 2
  STACK_SIZE = 4
  Params <- OnePeriod
  UserPriority = 0
  MIN_PRIORITY = 1
  UINT_SPAN = 1
  START_PERIOD_DEPTH = 1
  Features = {}
SPECIFICATION Spec
CONSTRAINT StackHasRoom
INVARIANT ActiveJobIsTimed
