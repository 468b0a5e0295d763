SPECIFICATION Spec
CONSTANTS
  Hosts = {h1, h2}
  Procs = {p1, p2}
  Owners = {a, b}
  None = None
  MaxRequests = 2
  MaxBirths = 2
  MaxFence = 7
  MaxFaults = 0
CHECK_DEADLOCK FALSE
INVARIANT RetirementReplacesItsOwn
