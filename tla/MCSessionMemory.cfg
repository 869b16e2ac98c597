SPECIFICATION MCSpec
CONSTANTS
  Order <- TypeOrder
  Priority <- TypeOrder
  Documents = "documents"
  Configs <- Profiles
  Sizes <- SizesOf
  Weights = {0, 1}
  Totals = {0, 3}
  Threshold = 2
  Unlimited = 9
  HandleSize = 1
  MaxItems = 3
  MaxReads = 2
  RetrievalCalls = {c1}
  Contexts = {x, y}
  Addresses = {1, 2}
  Corpora <- CorporaHeld
  MemoryDocs <- DocsHeld
  NoCorpus = NoCorpus
  FormatMax = 1
  SearchMax = 3
  RerankMin = 2
  SparseMax = 2
  ReflectMin = 3
  Limits = {1, 2}
  Runs = {"r", "s"}
  Logged = {"event"}
  Authorized = {"alice"}
  Admins = {"alice", "mallory"}
  Caps = {2}
  StartSpends = {0, 1}
  Amounts = {1}
  NoLine = NoLine
  NoSnapshot = NoSnapshot
  MaxEvents = 2
  MaxOps = 2
  Tools = {"read", "send", "post", "file"}
  Unnamed = "unnamed"
  Globs <- MCGlobs
  Matches <- MCMatches
  Default = "d"
  Limited = TRUE
  Rate <- MCRate
  Decision <- MCDecision
  Configured = TRUE
  MaxClock = 2
  MaxCalls = 3
  MaxPlans = 1
  Intents = {"respond", "research", "tool_use", "plan", "clarify"}
  Kinds = {"perceive", "act", "respond", "reflect"}
  MaxSteps = 3
  MaxLength = 4
CHECK_DEADLOCK FALSE
INVARIANTS RetrievalSound GovernanceSound GateSound PlanSound
PROPERTIES MemorySound
