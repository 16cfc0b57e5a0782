CONSTANTS
  w1 = w1
  w2 = w2
  Workload = {w1, w2}
  Cap = {1, 3}
SPECIFICATION FairSpec
INVARIANTS AnnouncedTruth HeardOrFailed DisabledRespected
PROPERTIES ItemsEnd
CHECK_DEADLOCK FALSE
