SPECIFICATION Spec
CONSTANTS
  o1 = o1
  mcp1 = mcp1
  mcp2 = mcp2
  api = api
  Ops <- MCOne
  Kinds = {"review", "observe", "capture"}
  Callers <- MCCallers
  Progress = {"VALIDATING"}
  MaxEvents <- MCEvents
INVARIANT LogIsNumbered
INVARIANT SuccessIsVerified
INVARIANT CancelIsQueued
INVARIANT RetiredStaysCancelled
PROPERTY OnlyStaleWritesReopen
SYMMETRY MCSymmetry
CHECK_DEADLOCK FALSE
