CONSTANTS
  None = None
  Subscribers = {s1}
  Options <- SmallOptions
  Sizes = {1, 3, None}
  MarkerSize = 2
  MaxVersion = 4
SPECIFICATION FairSpec
CHECK_DEADLOCK FALSE
INVARIANTS QueuesFaithful NoSilentGap DrainedIsCurrent
PROPERTIES RecvReturns
