SPECIFICATION MCSpec
CONSTANTS
  MaxPlan = 3
  MaxSteps = 4
  MaxReplans = 1
  MaxCost = 3
  StepCosts <- FewCosts
  EmptySure = TRUE
  t1 = t1
  t2 = t2
  ToolCalls <- MCToolCalls
  Requests <- MCRequests
  SessionIds = {"s", "t"}
  Nobody = Nobody
  Owner <- Makers
  Size <- Sizes
  InlineMax = 4
  SummaryMax = 5
  TurnCosts = {1, 2}
  NoCap = NoCap
  TextVersions = {"t1", "t2"}
  HeadOf <- Heads
  ItemIds = {"i", "j", "k"}
  Scores = {1, 2}
  SampleSize = 1
  MinHybrid = 1
  MaxHybrid = 1
  MinReflect = 2
  MinRerank = 2
  MaxQueries = 1
  RoundLimits = {1, 2, 3}
  MaxDocuments = 2
  MaxChanges = 2
SYMMETRY Symmetry
CHECK_DEADLOCK FALSE
INVARIANTS WalkSound ChargedUnlessCut ToolsSound RetrieveSound
