\* Two orders, two requests, one pass of the runner at a time.
CONSTANTS
  bought = bought
  sold = sold
  ClientKeys <- MCClientKeys
  Side <- MCSide
  Quantity <- MCQuantity
  Posts = {r1, r2}
  Calls = {"BUY", "SELL"}
  KiashaShares = 1
  MaxShares = 3
  CashShares = 2
  DailyShares = 1
  Limit = 1
SPECIFICATION FairQueueSpec
INVARIANTS
  QueueTypeOK
  FilledRowsFilledOnce
PROPERTIES
  DecidedIsFinal
  OrdersDecided
