\* Two rows, two processes, one of which may be killed.
CONSTANTS
  old = old
  new = new
  w1 = w1
  w2 = w2
  Tickers <- MCTickers
  Workers <- MCWorkers
  Legacy = {old}
  MaxAttempts = 2
  BatchLimit = 2
  MaxCrashes = 1
SPECIFICATION Spec
SYMMETRY Symmetry
INVARIANTS
  TypeOK
  AnalyzingIsOwned
  OutageIsNoVerdict
PROPERTY CompleteIsKept
