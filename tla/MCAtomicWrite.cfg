SPECIFICATION MCSpec
CONSTANTS
  w1 = w1
  w2 = w2
  w3 = w3
  NoFile = NoFile
  Empty = Empty
  Torn = Torn
  Writers <- MCWriters
  MaxSaves = 5
  Files = {"f", "g", "h"}
  Texts = {"one", "two", "bad", "blank"}
  Missing = "missing"
  Unreadable = {"bad"}
  Passages <- MCPassages
  Loads <- MCLoads
  Workers = 2
  MaxLoads = 2
  MaxEdits = 1
  MaxKills = 1
  Options <- MCOptions
  NoLimit = NoLimit
  Costs = {1, 2}
  MaxTurns = 3
  MaxCommands = 2
  MaxEvents = 2
SYMMETRY Symmetry
CHECK_DEADLOCK FALSE
INVARIANTS CorpusSound SessionAccounted
PROPERTIES SavesSound IsAtomicFile
