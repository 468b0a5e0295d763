SPECIFICATION FairSpec
CONSTANTS
  c1 = c1
  c2 = c2
  k1 = k1
  k2 = k2
  q1 = q1
  q2 = q2
  q3 = q3
  q4 = q4
  q5 = q5
  q6 = q6
  q7 = q7
  None = None
  Configs = {c0, c1, c2}
  Initial = c0
  RetryKeys = {k1, k2}
  RequestIds = {q1, q2, q3, q4, q5, q6, q7}
  Requests <- LongRequests
  Buses = {b1}
  Port = TRUE
  LateWrites = FALSE
  MaxSubmits = 5
  MaxFaults = 2
  MaxCrashes = 2

CHECK_DEADLOCK FALSE
INVARIANTS
  IdleBusAgrees
PROPERTIES
  PendingDecided
