SPECIFICATION NoCrashSpec
CONSTANTS
  p1 = p1
  p2 = p2
  t1 = t1
  t2 = t2
  t3 = t3
  k1 = k1
  k2 = k2
  a1 = a1
  NoPreview = NoPreview
  NoKey = NoKey
  Procs = {p1, p2}
  Threads = {t1, t2}
  ProcOf <- MCProcOf2
  Keys = {k1}
  Apps = {a1}
  Previews <- MCSingle
  StartStage = "applied"
  EditStages = {"applied"}
  MaxTime = 1
  MaxEdits = 0
CHECK_DEADLOCK FALSE
INVARIANT AppliedWriteIsAudited
