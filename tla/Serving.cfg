SPECIFICATION ServingSpec
CONSTANTS
  inner = inner
  outer = outer
  Origins = {"a", "b", "c", "d"}
  Addresses = {inner, outer}
  Home = "a"
  MaxRedirects = 3
  Allowed <- OuterOnly
  Inherited <- OfOthers
  Insecure = {"c"}
  Services = {"c"}
  Scope = {"a", "b", "c"}
  Denied <- DeniedAtB
  q1 = q1
  t1 = t1
  i1 = i1
  Exchanges = {q1}
  Bearers = {t1}
  Ids = {i1}
  TokenOf <- OneToken
  IdOf <- OneId
  BodyLimit = 2
  GatewayFaults = 2
  MaxCrashes = 1
  Tunnels = {p1}
  Allowance = 1
  MaxFrames = 2
  Statements = {s1, s2}
  Later = {s2}
  Builds = {"old", "new", "fork"}
  Migrations <- Released
  MaxStarts = 2
  ServerFaults = 1
  MaxAttempts = 3
  Writers = {1, 2, 3}
  Limit = 1
  MaxClock = 1
  MaxAltered = 1
  Tokens = {k1, k2}
  Revokes = {v1, v2}
  Callers = {c1}
  MaxFaults = 1
INVARIANTS
  OnlyPermittedContacted NothingComesBack
  OutcomeHonest OneFaultIsVisible
  FileIsTrusted
  DeletedIsRefused ChangesAreAudited
  WalkIsFaithful ChainUnbroken
PROPERTIES LeaseIsReturned StopsGracefully StreamEndIsFinal CallEndsQuietly
CHECK_DEADLOCK FALSE
