SPECIFICATION CloudflareSpec
CONSTANTS
  Calls = {c1, c2}
  MaxFailures = 2
  Lockout = 1
  AccessLife = 1
  RefreshLife = 1
  PendingLife = 1
  Limit = 2
  MaxClock = 1
  MaxPairs = 2
  MaxHash = 2
  MaxSecrets = 2
  MaxEnrolments = 1
INVARIANT EnrolledIsVerified
CHECK_DEADLOCK FALSE
