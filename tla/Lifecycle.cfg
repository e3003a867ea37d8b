CONSTANTS
  MAX_RESERVES = 2
  STACK_SIZE = 2
  Params <- BothZeroSlack
  UserPriority = 0
  MIN_PRIORITY = 1
  UINT_SPAN = 1
  START_PERIOD_DEPTH = 0
  Features = {"exit", "delete", "hypertask"}
SPECIFICATION Spec
CONSTRAINT LowThenHigh
INVARIANT RmSorted
INVARIANT TimersOwned
INVARIANT PeriodTimerKept
INVARIANT ReadySorted
PROPERTY ImplementsFixedPriority
