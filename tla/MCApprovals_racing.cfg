SPECIFICATION FairSpec
CONSTANTS
  p1 = p1
  p2 = p2
  t1 = t1
  t2 = t2
  t3 = t3
  k1 = k1
  k2 = k2
  a1 = a1
  NoPreview = NoPreview
  NoKey = NoKey
  Procs = {p1, p2}
  Threads = {t1, t2, t3}
  ProcOf <- MCProcOf3
  Keys = {k1}
  Apps = {a1}
  Previews <- MCRacingIssuers
  StartStage = "applied"
  EditStages = {"applied"}
  MaxTime = 2
  MaxEdits = 0
CHECK_DEADLOCK FALSE
INVARIANT TypeOK
INVARIANT ClaimIsExclusive
PROPERTY OrphanedClaimBlocks
PROPERTY BindingIsImmutable
PROPERTY ImplementsLifecycle
PROPERTY ExecutionEnds
