SPECIFICATION Spec
CONSTANTS
  d1 = d1
  a1 = a1
  Domain = {d1}
  Order <- OneOrder
  Requires <- OneRequires
  Watcher = {d1}
  Unnamed = {}
  Id = {a1}
  NoId = NoId
  Upgrades <- OneUpgrades
  Reports <- SomeReports
  RETRY_TIMES = 1
INVARIANTS
  ConfirmationCanEnd
  CancelUnderway
  SelectionFresh
  DetailsOfUpgrade
  ControlFitsState
  ResumeAsked
VIEW WithoutOutput
PROPERTY
  SuccessIsTrue
