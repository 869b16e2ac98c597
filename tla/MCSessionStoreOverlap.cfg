SPECIFICATION Spec
CONSTANTS
  r1 = r1
  r2 = r2
  r3 = r3
  m1 = m1
  Requests <- MCRequests
  Matters <- MCMatters
  NoMatter = NoMatter
  NoFile = NoFile
  Serial = FALSE
  Audit = FALSE
  Faults = {"crash", "abandon", "classify", "hydrate", "write", "unlink"}
SYMMETRY Symmetry
CHECK_DEADLOCK FALSE
INVARIANTS TurnsCounted
