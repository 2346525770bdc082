\* A day that was completed, and POST /performance/ai/auto-invest/run-now.
SPECIFICATION Spec
CONSTANTS
  NoCode = NoCode
  Positions = {c1}
  Runs = {timer, client}
  Timer = timer
  Codes = {c1, c2}
  MaxTrades = 2
  Budget = 2
  Reserve = 1
  Cash = 3
  MaxCrashes = 0
INVARIANTS
  DailyTradesKept
