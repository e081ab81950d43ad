SPECIFICATION Spec
CONSTANTS
  Requests = {r1, r2}
  Tokens = {t1, t2}
  Instance = Instance
  NoCell = NoCell
  Quota <- TightQuota
  Minute = 2
  DayLength = 2
  Directions = {"up", "down"}
  Releases = {"release"}
  ByteSizes = {1}
  MaxClock = 3
  MaxBack = 1
  MaxCrashes = 1
SYMMETRY Symmetry
INVARIANTS TypeOK RateBound DailyAccounting
PROPERTIES ImplementsExecutionQuota
CHECK_DEADLOCK FALSE
