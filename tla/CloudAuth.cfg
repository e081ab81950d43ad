SPECIFICATION MCSpec
CONSTANTS
  Calls = {c1, c2}
  MaxFailures = 2
  Lockout = 1
  AccessLife = 1
  RefreshLife = 1
  PendingLife = 1
  Limit = 2
  MaxClock = 1
  MaxPairs = 3
  MaxHash = 2
  MaxSecrets = 1
  MaxEnrolments = 1
SYMMETRY Symmetry
INVARIANTS EachGoodOnce
PROPERTIES SessionsEndForGood SupabaseLoginIsCurrent
CHECK_DEADLOCK FALSE
