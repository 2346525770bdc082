\* Three intents, two handlers, one idempotency key; orders of 1 against a cap of 1.
CONSTANTS
  Intents = {i1, i2, i3}
  Keys = {k1}
  NoKey = NoKey
  NoIntent = NoIntent
  Requests = {r1, r2}
  Notionals = {1}
  DailyCap = 1
SYMMETRY Symmetric
SPECIFICATION Spec
INVARIANTS
  FilledAsRecorded
  OvershootBounded
PROPERTIES
  ImplementsBoundary
  AnsweredKeyIsQuiet
