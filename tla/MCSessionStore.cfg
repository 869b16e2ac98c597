SPECIFICATION Spec
CONSTANTS
  r1 = r1
  r2 = r2
  r3 = r3
  m1 = m1
  Requests <- MCRequests
  Matters <- MCMatters
  NoMatter = NoMatter
  NoFile = NoFile
  Serial = TRUE
  Audit = TRUE
  Faults = {"crash", "abandon", "classify", "write"}
SYMMETRY Symmetry
CHECK_DEADLOCK FALSE
INVARIANTS NoLostTurn Forgotten
PROPERTIES GraphGrows IsSessionLog
