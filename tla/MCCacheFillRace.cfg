SPECIFICATION Spec
CONSTANTS
  Keys = {k1}
  Readers = {r1}
  Writers = {}
  None = None
  Generations = {1, 2}
  WatchCapacity = 1
  MaxBacklog = 1
  MaxRetained = 2
  MaxCommits = 2
  MaxFaults = 0
INVARIANTS
  CoherentHits
