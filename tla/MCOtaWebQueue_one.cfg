SPECIFICATION WebSpec
CONSTANTS
  a1 = a1
  Id = {a1}
  NoId = NoId
  Upgrades <- OneUpgrade
  NoUpgrade <- Empty
  MaxOffers = 2
  MaxEvents = 2
INVARIANTS
  StateIsWorked
PROPERTY
  HandlersReturn
