\* As deployed: no route and no job calls complete_if_flat.
CONSTANTS
  k1 = k1
  k2 = k2
  k3 = k3
  k4 = k4
  r1 = r1
  r2 = r2
  s1 = s1
  s2 = s2
  Keys = {k1, k2}
  Codes = {s1}
  Requests = {r1}
  Prices <- MCPrices
  Quantities <- MCQuantities
  Allocations <- MCAllocations
  Durations = {1}
  InitialCash = 180
  MaxDailyNotional = 216
  MaxDailyLoss = 36
  MaxDay = 1
  ClosesWhenFlat = FALSE
SPECIFICATION FairSpec
PROPERTY FlatStoppedMandateCloses
CHECK_DEADLOCK FALSE
