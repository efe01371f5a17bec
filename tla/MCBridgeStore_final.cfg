SPECIFICATION Spec
CONSTANTS
  o1 = o1
  mcp1 = mcp1
  mcp2 = mcp2
  api = api
  Ops <- MCOne
  Kinds = {"review"}
  Callers <- MCCallers
  Progress = {"EXTRACTING", "VALIDATING"}
  MaxEvents <- MCEvents
PROPERTY TerminalIsFinal
CHECK_DEADLOCK FALSE
