SPECIFICATION FairSpec
CONSTANTS
  Requests = {r1, r2, r3}
  Tokens = {t1}
  Instance = Instance
  NoCell = NoCell
  Quota <- SlotQuota
  Minute = 1
  DayLength = 1
  Directions = {}
  Releases = {"release", "again"}
  ByteSizes = {0}
  MaxClock = 0
  MaxBack = 0
  MaxCrashes = 1
INVARIANTS ConcurrencyBound
PROPERTIES CallsSettle
CHECK_DEADLOCK FALSE
