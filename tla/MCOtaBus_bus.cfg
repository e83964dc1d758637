SPECIFICATION BusSpec
CONSTANTS
  c1 = c1
  Cases <- FewMessages
  Client = {c1}
  Watcher = {c1}
  Total = 1
  Depth = 1
  MaxBreaks = 1
  MaxRestarts = 1
  Transports <- AllTransports
  MaxChanges = 2
INVARIANT
  FieldsCarried
PROPERTIES
  InOrder
  ControlHeard
  StatusHeard
\* The bounds are reached, and everything is heard.
CHECK_DEADLOCK FALSE
