SPECIFICATION Spec
CONSTANTS
  Calls = {c1, c2}
  Handlers = {"bootstrap", "refresh", "logout"}
  MaxFailures = 1
  Lockout = 1
  BootstrapLife = 1
  AccessLife = 1
  RefreshLife = 1
  MaxClock = 0
  MaxPairs = 3
  MaxHash = 1
  MaxSecrets = 0
  MaxRestarts = 0
INVARIANTS SessionEndsAudited
CHECK_DEADLOCK FALSE
