SPECIFICATION SystemFairSpec
CONSTANTS
  d1 = d1
  d2 = d2
  d3 = d3
  a1 = a1
  Domain = {d1, d2, d3}
  Order <- AllOrder
  Requires <- TwoRequires
  Watcher = {d3}
  Unnamed = {}
  Id = {a1}
  NoId = NoId
  Upgrades <- Forced
  Reports = {}
  RETRY_TIMES = 1
  CancelEnable = {d1, d2, d3}
  VersionOf <- OneVersion
  Total = 20
  Vehicles <- ThreeCases
  MaxEvents = 1
VIEW WithoutOutput
INVARIANTS
  DeploysComplete
PROPERTIES
  SuccessIsReal
  UpgradeEnds
  CancelEnds
\* The bounds are reached, or an upgrade has ended.
CHECK_DEADLOCK FALSE
