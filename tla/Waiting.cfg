CONSTANTS
  MAX_RESERVES = 2
  STACK_SIZE = 2
  Params <- MixedCriticality
  UserPriority = 0
  MIN_PRIORITY = 1
  UINT_SPAN = 4
  START_PERIOD_DEPTH = 0
  Features = {"nonperiodic", "unpaired"}
SPECIFICATION Spec
CONSTRAINT LowThenHigh
INVARIANT QueuedSleepersAreWoken
INVARIANT SysCritIsTop
INVARIANT StopPendingOnStack
