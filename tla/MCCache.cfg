SPECIFICATION FairSpec
CONSTANTS
  Keys = {k1}
  Readers = {r1}
  Writers = {w1}
  None = None
  Generations = {1}
  WatchCapacity = 1
  MaxBacklog = 1
  MaxRetained = 1
  MaxCommits = 2
  MaxFaults = 1
INVARIANTS
  QuietHitsCurrent
  WatchLosesNothing
PROPERTIES
  CursorCatchesUp
