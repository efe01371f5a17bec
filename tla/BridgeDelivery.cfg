SPECIFICATION FairSpec
CONSTANTS
  Ops = {o1, o2}
  Conns = {c1, c2}
  Writers = {api, mcp}
  MaxBatch = 2
  MaxItems = 3
  None = None
INVARIANT NothingSkipped
INVARIANT OneReviewPerOperation
INVARIANT ToldIsIdle
PROPERTY EventuallyAcked
CHECK_DEADLOCK FALSE
