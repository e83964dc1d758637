SPECIFICATION ViewerFairSpec
CONSTANTS
  d1 = d1
  v = v
  a1 = a1
  Domain = {d1, v}
  Order <- OneOrder
  Requires <- NoRequires
  Watcher = {v}
  Unnamed = {}
  Id = {a1}
  NoId = NoId
  Upgrades <- Asked
  Reports <- FewReports
  RETRY_TIMES = 0
  Viewer = v
  Cases <- ThreeCases
  MaxUnder = 2
VIEW WithoutOutput
CHECK_DEADLOCK FALSE
INVARIANTS
  PromptSettles
  CancelToldIsCancel
PROPERTY
  QuestionsEnd
