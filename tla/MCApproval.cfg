SPECIFICATION Spec
CONSTANTS
  s1 = s1
  s2 = s2
  s3 = s3
  t1 = t1
  t2 = t2
  Streams <- MCStreams
  Tools <- MCTools
  Extra <- MCDelegate
  Hooked <- MCHooked
  Policies <- MCPolicies
  Hintings <- MCHintings
  Patterns = {"chat", "plan"}
  Isolated = FALSE
  Faults = {"snapshot", "log", "state", "restore", "crash"}
  MaxCalls = 2
  NoFile = NoFile
  NoTool = NoTool
SYMMETRY Symmetry
CHECK_DEADLOCK FALSE
INVARIANTS PauseSound AskHolds
PROPERTIES PlanStops
