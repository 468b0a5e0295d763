CONSTANTS
  SAs = {"e1", "i1"}
  EspSAs = {"e1"}
  Capacity = 1
  Conns = {"c1", "c2"}
  MaxKeys = 2
  MaxReuses = 1
  MaxCount = 2
  MaxFaults = 2
  MaxLag = 1
  Jumps = {1, 2, 3}
  Lags = {0, 1}
  MinJump = 2
  EsnSpan = 4
  IkeEnd = 4
  CounterMax = 4
SPECIFICATION FairSpec
CHECK_DEADLOCK FALSE
INVARIANTS ProtectedIsHeld NoNonceReuse
PROPERTIES CustodyAdvances CoverageReturns
