SPECIFICATION Spec
CONSTANTS
  Hosts = {h1, h2}
  Procs = {p1, p2}
  Owners = {a, b}
  None = None
  MaxRequests = 2
  MaxBirths = 2
  MaxFence = 6
  MaxFaults = 1
SYMMETRY Symmetry
CHECK_DEADLOCK FALSE
INVARIANTS
  SteersOnlyCommitted
  CommittedOnce
  ActivationReplacesItsBirth
  SteeringAdvances
  RefusedOnlyByResidue
PROPERTIES
  RebirthUntouched
