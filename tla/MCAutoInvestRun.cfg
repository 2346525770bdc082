\* Two trades and two shares a run, three in cash of which one is reserve.
SPECIFICATION FairSpec
CONSTANTS
  NoCode = NoCode
  Positions = {c1}
  Runs = {timer, client}
  Timer = timer
  Codes = {c1, c2}
  MaxTrades = 2
  Budget = 2
  Reserve = 1
  Cash = 3
  MaxCrashes = 1
INVARIANTS
  OneOwner
  RunWithinLimits
  RetryIsClean
PROPERTIES
  ClosedDayStays
  ReserveIsLeft
  DeadRunIsTakenOver
