SPECIFICATION ReplSpec
CONSTANTS
  Keys = {1}
  Owners = {o1, o2}
  Classes = {"authoritative"}
  None = None
  RetiredKeysPerEpoch = 1
  MaxTrackedKeys = 1
  ReplicaLimit = 1
  MaxReplicationEntries = 1
  LeaseTtls = {1}
  RecordTtls = {1}
  Generations = {1, 2}
  MaxTime = 2
  MaxCommits = 4
  MaxBatch = 1
SYMMETRY Symmetry
INVARIANTS
  ReplicaFollowsSource
PROPERTIES
  WritesFollowFences
  ExpiryMarksFollowRecords
  ImplementsFencedLeases
