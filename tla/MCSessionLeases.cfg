SPECIFICATION ReplSpec
CONSTANTS
  Keys = {1, 2, 3}
  Owners = {o1, o2}
  Classes = {"authoritative"}
  None = None
  RetiredKeysPerEpoch = 2
  MaxTrackedKeys = 2
  ReplicaLimit = 2
  MaxReplicationEntries = 3
  LeaseTtls = {1}
  RecordTtls = {}
  Generations = {}
  MaxTime = 2
  MaxCommits = 4
  MaxBatch = 0
SYMMETRY Symmetry
INVARIANTS
  TypeOK
  FencesNeverReused
  HolderIsNewest
  FinalizationSucceeds
  ReplicaFollowsSource
  RedeliveryIdempotent
PROPERTIES
  FenceNeverDecreases
