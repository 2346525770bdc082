\* One crash of a ledger rebuild between its two writes of the base.
SPECIFICATION Spec
CONSTANTS
  Jobs = {j1}
  Scanners = {s1}
  NoFile = NoFile
  Window = 2
  MaxNow = 3
  MaxCrashes = 1
  MaxRollbacks = 0
CHECK_DEADLOCK FALSE
INVARIANT
  NeverCompounded
