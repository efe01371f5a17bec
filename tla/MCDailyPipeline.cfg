SPECIFICATION MCFairSpec
CONSTANTS
  c1 = c1
  c2 = c2
  j1 = j1
  j2 = j2
  None = None
  Companies <- MCCompanies
  Jobs <- MCJobs
  OwnerOf <- MCOwners
  MaxAttempts = 3
  MaxConcurrency = 2
  MaxUpsets = 1
INVARIANT ReceiptsAreBacked
INVARIANT CheckpointIsRecoverable
INVARIANT AttemptsBounded
PROPERTY ResultsAreKept
PROPERTY ClosedOnEvidence
PROPERTY ScopeIsFinished
CHECK_DEADLOCK FALSE
