SPECIFICATION HawkbitFairSpec
CONSTANTS
  a1 = a1
  a2 = a2
  Id = {a1, a2}
  NoId = NoId
  Documents <- ThreeDocuments
  Subscribed = TRUE
  MaxOffers = 3
  MaxFaults = 2
  MaxEvents = 2
CHECK_DEADLOCK TRUE
PROPERTIES
  PostedIsWanted
  ActionsEnd
