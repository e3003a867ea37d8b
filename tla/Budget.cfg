CONSTANTS
  Rid <- Reserves
  Budget <- ShortAndLong
  Period <- Periods
  Prio <- RateMonotonicPrio
  SPAN = 64
  HORIZON = 8
SPECIFICATION Spec
INVARIANT EveryTickCharged
INVARIANT HeldWithinBudget
INVARIANT BudgetGranted
CHECK_DEADLOCK FALSE
