CONSTANTS
  MAX_RESERVES = 2
  STACK_SIZE = 2
  Params <- BothZeroSlack
  UserPriority = 0
  MIN_PRIORITY = 1
  UINT_SPAN = 1
  START_PERIOD_DEPTH = 0
  Features = {"lost"}
SPECIFICATION SchedulerSpec
CONSTRAINT CriticalityIsSlot
INVARIANT SysCritIsTop
INVARIANT OnlyHeadTimed
PROPERTY LockReleased
PROPERTY RequestServed
CHECK_DEADLOCK FALSE
