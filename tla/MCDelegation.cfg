SPECIFICATION MCSpec
CONSTANTS
  Runs = {r1, r2, r3, r4}
  NoRun = NoRun
  Agents = {"lead", "aide"}
  Root = "lead"
  Delegates <- SubAgents
  Handoffs <- Targets
  Cap <- Caps
  Own <- OwnLimits
  Tools = {"write"}
  RootRules <- RootPolicy
  SafeRules <- DefaultSafe
  HookSays <- HookAnswers
  MaxCalls = 2
  PlanResults <- MCResults
  PlanCosts = {2}
  PriorCount = 1
  MaxJudged = 1
  MaxPlanTurns = 2
  Rubrics <- MCRubrics
  JudgeCosts = {1}
  MaxIterations = 3
  Patience = 1
  MinGain = 1
  NoRubric = NoRubric
  Specialists = {law, tax}
  Unregistered = nobody
  NoDefault = NoDefault
  MaxScore = 2
  RawScores <- MCRawScores
  Threshold = 2
  MinConfidence = 1
  Attempts = {1, 3}
  Costs = {1}
  Matters = {"a", "b"}
  NoMatter = NoMatter
  Candidates <- MCCandidates
  Confident = 2
  Grounding = {TRUE, FALSE}
  TopKs = {1, 2}
  MinConfidences = {0, 3}
  Sessions = {"s"}
  LessonSizes = {1, 2, 4}
  Budget = 3
  MaxEntries = 3
  MaxWrites = 4
SYMMETRY Symmetry
CHECK_DEADLOCK FALSE
INVARIANTS DelegationSound RefineSound ReflexionSound KnowledgeSound
