SPECIFICATION FairSpec
CONSTANTS
  d1 = d1
  d2 = d2
  a1 = a1
  Domain = {d1}
  Name = {d1, d2}
  Requires <- OneRequires
  Watcher = {d1}
  CancelEnable = {d1}
  Id = {a1}
  NoId = NoId
  VersionOf <- OneVersion
  Patched = {a1}
  Controls <- OneControls
  Shown = {"MR_DEPLOY_ASK"}
  MaxNumber = 1
  MaxQueue = 1
INVARIANTS
  PhaseUnderway
PROPERTY
  PhaseEnds
