SPECIFICATION FairSpec
CONSTANTS
  Calls = {c1, c2}
  Handlers = {"bootstrap", "login", "prepare", "enable"}
  MaxFailures = 1
  Lockout = 1
  BootstrapLife = 1
  AccessLife = 2
  RefreshLife = 2
  MaxClock = 0
  MaxPairs = 3
  MaxHash = 1
  MaxSecrets = 2
  MaxRestarts = 0
INVARIANTS SecondFactorSound
PROPERTIES CallsReturn
CHECK_DEADLOCK FALSE
