CONSTANTS
  Tasks = {"f", "d"}
  Callers = {"r1", "r2"}
  Checkers = {"k1"}
  Criticality <- ByName
  Beating = {"f", "d"}
  MaxTasks = 2
  MaxRestarts = 1
  MaxEvents = 1
SPECIFICATION FairSpec
CHECK_DEADLOCK FALSE
INVARIANTS DegradeCountSettles StoppedIsQuiet
PROPERTIES FatalStops
