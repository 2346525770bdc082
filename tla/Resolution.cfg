\* The smallest instance that resolves one intent twice.
CONSTANTS
  Intents = {i1}
  Keys = {k1}
  NoKey = NoKey
  NoIntent = NoIntent
  Requests = {r1, r2}
  Notionals = {1}
  DailyCap = 2
SPECIFICATION Spec
PROPERTIES
  ResolutionIsFinal
