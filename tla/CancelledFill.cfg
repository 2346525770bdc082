\* A pass that dies between a fill and its row.
CONSTANTS
  bought = bought
  sold = sold
  ClientKeys <- MCClientKeys
  Side <- MCSide
  Quantity <- MCQuantity
  Posts = {r1, r2}
  Calls = {"BUY", "SELL"}
  KiashaShares = 1
  MaxShares = 3
  CashShares = 2
  DailyShares = 1
  Limit = 2
SPECIFICATION QueueSpec
INVARIANT CancelledNeverFilled
