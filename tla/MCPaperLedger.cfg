\* One account, three fills, two requests that race to create a mandate.
CONSTANTS
  k1 = k1
  k2 = k2
  k3 = k3
  k4 = k4
  r1 = r1
  r2 = r2
  s1 = s1
  s2 = s2
  Keys <- MCKeys
  Codes <- MCCodes
  Requests = {r1, r2}
  Prices <- MCPrices
  Quantities <- MCQuantities
  Allocations <- MCAllocations
  Durations = {1}
  InitialCash = 180
  MaxDailyNotional = 216
  MaxDailyLoss = 36
  MaxDay = 1
  ClosesWhenFlat = TRUE
SPECIFICATION Spec
SYMMETRY Symmetry
INVARIANTS
  KiashaSharesBacked
  CashConservation
  MandateEquityIdentity
PROPERTIES
  ReserveNeverEroded
  StopIsFinal
  LossBreakerHolds
  BoundaryKept
CHECK_DEADLOCK FALSE
