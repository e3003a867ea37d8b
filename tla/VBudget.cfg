CONSTANTS
  Rid <- Reserves
  Budget <- ShortAndLong
  Period <- Periods
  Prio <- RateMonotonicPrio
  SPAN = 64
  HORIZON = 8
SPECIFICATION Spec
CHECK_DEADLOCK FALSE
INVARIANT RunsWithinBudget
