SPECIFICATION MCSpec
CONSTANTS
  c1 = c1
  c2 = c2
  c3 = c3
  Calls <- ThreeCalls
  Threshold = 2
  MaxCount = 6
  Enforced = FALSE
  NoCap = NoCap
  Setups <- MCSetups
  MaxCalls = 2
  MaxDrops = 1
  Bypass = 2
  TopK = 1
  Costs = {1, 3}
  Estimate = 1
  t1 = t1
  t2 = t2
  p1 = p1
  p2 = p2
  Turns = {t1, t2}
  Programs = {p1, p2}
  Ids = {"a", "b"}
  MaxSpans = 4
  MaxLLMCalls = 1
  MaxPending = 3
INVARIANTS TurnSound BreakerSound TraceSound
PROPERTIES TurnEnds ProbeResolved
