SPECIFICATION Spec
CONSTANTS
  Ops = {o1}
  Conns = {c1, c2}
  Writers = {api, mcp}
  MaxBatch = 1
  MaxItems = 2
  None = None
INVARIANT DisconnectsPersist
CHECK_DEADLOCK FALSE
