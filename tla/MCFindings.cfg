SPECIFICATION FindingsSpec
CONSTANTS
  Corpora <- MCCorpora
  Ids <- MCIds
  Keeps <- MCKeeps
  Answers <- MCAnswers
  Caps = {0, 3, 7}
  ChunkSize = 2
  NumParallel = 3
  Runs = 2
  Threshold = 2
  Estimate = 1
  MaxCandidates = 7
  MaxChunks = 6
  ScanBudget = 1
  UnitCost = 1
  Scores = {1, 2, 3}
  FilterCosts = {1, 2}
  SynthesisCosts = {3}
  PlanningCosts = {3}
INVARIANTS FindingsSound
PROPERTIES Returns
