SPECIFICATION FairSpec
CONSTANTS
  f1 = f1
  f2 = f2
  File = {f1, f2}
  Orders <- OneOrTwo
  Url <- OwnUrl
  Size <- OneAndTwo
  NoFile = NoFile
  ThreadCount = 8
  RETRY_TIMES = 2
  MaxCalls = 2
  MaxConns = 8
  MaxAccidents <- TwoOrNone
\* Both ends may be done.
CHECK_DEADLOCK FALSE
INVARIANTS
  PulledIsWhole
  NeverBehind
  SuccessIsOffered
PROPERTIES
  CallEnds
  StopEnds
  BothFinish
