SPECIFICATION Spec
CONSTANTS
  r1 = r1
  r2 = r2
  t1 = t1
  t2 = t2
  i1 = i1
  Requests = {r1, r2}
  Tokens = {t1, t2}
  Ids = {i1}
  TokenOf <- OwnToken
  IdOf <- SameId
  BodyLimit = 1
  MaxFaults = 0
  MaxCrashes = 0
INVARIANTS ReadByItsOwnToken
CHECK_DEADLOCK FALSE
