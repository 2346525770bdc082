\* Three threads; more slots are granted than the budget of one hour.
SPECIFICATION GovernorSpec
CONSTANTS
  Threads = {t1, t2, t3}
  Interval = 2
  Hour = 7
  Budget = 3
  Retries = 1
  BaseBackoff = 1
  LongWait = 3
  MaxCooldown = 4
  RetryAfters = {3}
  NoHeader = NoHeader
  MaxClock = 8
SYMMETRY Symmetric
INVARIANTS
  SlotsSpaced
  BudgetKept
CHECK_DEADLOCK FALSE
