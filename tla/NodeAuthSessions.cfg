SPECIFICATION Spec
CONSTANTS
  Calls = {c1, c2}
  Handlers = {"bootstrap", "login", "refresh", "logout", "revoke", "password"}
  MaxFailures = 1
  Lockout = 1
  BootstrapLife = 1
  AccessLife = 1
  RefreshLife = 2
  MaxClock = 1
  MaxPairs = 3
  MaxHash = 2
  MaxSecrets = 0
  MaxRestarts = 1
SYMMETRY Symmetry
INVARIANTS EndedSessionsStayEnded RotatedOnce
PROPERTIES LoginIsCurrent
CHECK_DEADLOCK FALSE
