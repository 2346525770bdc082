\* One handler, so one order after the other, against a cap of 1.
CONSTANTS
  Intents = {i1, i2}
  Keys = {k1}
  NoKey = NoKey
  NoIntent = NoIntent
  Requests = {r1}
  Notionals = {1}
  DailyCap = 1
SPECIFICATION Spec
INVARIANT ApprovalsWithinCap
