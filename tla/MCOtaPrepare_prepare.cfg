SPECIFICATION FairSpec
CONSTANTS
  p = p
  q = q
  r = r
  n = n
  u3 = u3
  u1 = u1
  u2 = u2
  Upgrade = {u1, u2, u3}
  File = {p, q, r, n}
  NoUpgrade = NoUpgrade
  Files <- Offered
  Patch = {p, q}
  Summed = {p, q, r}
  Tool = TRUE
  MaxSends = 3
  MaxQueue = 2
CHECK_DEADLOCK FALSE
PROPERTIES
  VerifiedIsIntact
  ErrorHasCause
  PreparationEnds
