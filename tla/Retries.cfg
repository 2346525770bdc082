\* Retries of a row whose analysis keeps raising.
CONSTANTS
  old = old
  new = new
  w1 = w1
  w2 = w2
  Tickers <- MCTickers
  Workers <- MCWorkers
  Legacy = {old}
  MaxAttempts = 2
  BatchLimit = 2
  MaxCrashes = 1
SPECIFICATION Spec
SYMMETRY Symmetry
PROPERTY RetriesBounded
