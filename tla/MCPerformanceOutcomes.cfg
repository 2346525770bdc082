\* Three observations in batches of two, one of which may never be evaluated.
SPECIFICATION Spec
CONSTANTS
  Count = 3
  Agents = {a}
  Votes <- SomeVotes
  Evaluators = {timer}
  Limit = 2
  Returns <- SomeReturns
  Suspicious <- SuspiciousReturns
  None = None
  Short = Short
  Broken = Broken
  MaxBroken = 1
  MaxChanges = 1
  MaxFaults = 1
  MaxRepairs = 1
INVARIANTS
  GradesMatchOutcome
PROPERTY
  MatureIsEvaluated
