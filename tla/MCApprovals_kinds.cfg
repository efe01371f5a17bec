SPECIFICATION Spec
CONSTANTS
  p1 = p1
  p2 = p2
  t1 = t1
  t2 = t2
  t3 = t3
  k1 = k1
  k2 = k2
  a1 = a1
  NoPreview = NoPreview
  NoKey = NoKey
  Procs = {p1, p2}
  Threads = {t1, t2}
  ProcOf <- MCProcOf2
  Keys = {k1, k2}
  Apps = {a1}
  Previews <- MCKinds
  StartStage = "applied"
  EditStages = {"assessment"}
  MaxTime = 0
  MaxEdits = 1
CHECK_DEADLOCK FALSE
INVARIANT AppliedAtMostOnce
INVARIANT WritesAreApproved
PROPERTY StageNeverRegresses
