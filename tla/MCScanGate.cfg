\* Every call is made once, so the system stops when all have returned.
CHECK_DEADLOCK FALSE
CONSTANTS
  c1 = c1
  c2 = c2
  c3 = c3
  k1 = k1
  k2 = k2
  k3 = k3
  Calls <- MCCalls
  Keys <- MCKeys
  MaxConcurrent = 2
SPECIFICATION FairGateSpec
INVARIANTS
  PermitsConserved
  OneScanPerKey
  OutcomeShared
PROPERTIES
  EveryCallerMovesOn
  ImplementsFlights
