CONSTANTS
  Workers = {"w1", "w2"}
  Watchers = {"x1", "x2"}
  PageLimit = 2
  MaxVersion = 4
  MaxFaults = 1
SPECIFICATION Spec
CHECK_DEADLOCK FALSE
INVARIANTS GapFree
PROPERTIES CatchesUp
