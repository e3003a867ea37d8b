CONSTANTS
  MAX_RESERVES = 3
  STACK_SIZE = 2
  Params <- TwoPeriods
  UserPriority = 0
  MIN_PRIORITY = 1
  UINT_SPAN = 1
  START_PERIOD_DEPTH = 1
  Features = {}
SPECIFICATION Spec
CONSTRAINT StackHasRoom
INVARIANT TypeOK
INVARIANT ReadySorted
INVARIANT RateMonotonic
INVARIANT QueuedAreAwake
INVARIANT AwakeAreQueued
INVARIANT OnlyHeadTimed
INVARIANT StopPendingOnStack
PROPERTY ImplementsFixedPriority
