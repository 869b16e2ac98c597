SPECIFICATION MCSpec
CONSTANTS
  none = none
  short = short
  long = long
  shown = shown
  r1 = r1
  r2 = r2
  s1 = s1
  s2 = s2
  NoTurn = NoTurn
  Roots = {r1, r2}
  Subs = {s1, s2}
  Streaming = {r1}
  Reacting = {r2}
  Answers = {none, short, long, shown}
  Empty = none
  Joined = long
  ResultRepr = shown
  Long = {long, shown}
  PlannerResults <- MCResults
  SubResults <- MCSubResults
  MaxSubs = 2
  MaxDepth = 2
  StreamMode = "value-only"
  MaxTurnCost = 3
  Window = 3
  Earlier <- MCEarlier
  Recent = 2
  Never = {"LOOP_DETECTED"}
  MaxPlan = 2
  MaxSteps = 3
  MaxReplans = 2
  MaxCost = 3
  StepCosts <- FewCosts
  EmptySure = TRUE
CHECK_DEADLOCK FALSE
INVARIANTS StrategySound
PROPERTIES TurnsSound StreamEnds EndsEventually
