SPECIFICATION MCSpec
CONSTANTS
  none = none
  short = short
  long = long
  longer = longer
  heading = heading
  t1 = t1
  t2 = t2
  Groups = {"search", "write", "web", "admin"}
  Allowed = {"search"}
  SoftCeiling = {"web", "write"}
  Green = {"web", "admin"}
  AutoElevate = TRUE
  Texts = {none, short, long, longer, heading}
  None = none
  Substantive = {long, longer, heading}
  HeaderOnly = {heading}
  Same <- MCSame
  ToolRuns <- MCRuns
  Tools = {t1, t2}
  Critics = {"M2", "M3"}
  Strict = {"M3"}
  CitationGate = TRUE
  GoalModel = TRUE
  MaxIterations = 3
  CostCap = 4
  CallCap = 2
  Threshold = 2
  ToolCap = 3
  Costs = {0, 1, 3}
  Drafts <- MCDrafts
  MaxConcurrent = 2
  Cases <- MCCases
  NoCase = NoCase
  NoAnswer = NoAnswer
  NoYear = NoYear
  Perceivers <- MCPerceivers
  ToolCount = 2
  Kinds = {"document_qa", "general_recall"}
  Yields <- MCYields
  NoScore = NoScore
  Full = 2
  MinConfidence = 2
  MaxResults = 2
CHECK_DEADLOCK FALSE
INVARIANTS CitationsReachWorker
