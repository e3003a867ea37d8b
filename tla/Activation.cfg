CONSTANTS
  MAX_RESERVES = 2
  STACK_SIZE = 2
  ACTIVATE_STACK_SIZE = 3
  Params <- TwoPeriods
  UserPriority = 0
  MIN_PRIORITY = 1
  UINT_SPAN = 1
  START_PERIOD_DEPTH = 0
  Features = {"delete"}
SPECIFICATION ActivatorSpec
CONSTRAINT RoomAndShorterSecond
INVARIANT HeadRuns
INVARIANT TimersOwned
CHECK_DEADLOCK FALSE
