SPECIFICATION ProgressSpec
CONSTANTS
  d1 = d1
  a1 = a1
  Domain = {d1}
  Order <- OneOrder
  Requires <- OneRequires
  Watcher = {d1}
  Unnamed = {}
  Id = {a1}
  NoId = NoId
  Upgrades <- ForcedUpgrade
  Reports <- LastReports
  RETRY_TIMES = 0
  MaxOffers = 2
  MaxEvents = 2
  Cases <- ThreeCases
  Size = 1
VIEW WithoutOutput
INVARIANTS
  TransferUnderway
  NotAhead
PROPERTIES
  ServerSpec
