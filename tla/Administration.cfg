SPECIFICATION AdministrationSpec
CONSTANTS
  Clients = {u1, u2}
  Policies = {none, some}
  NoRules = none
  MaxChanges = 3
  MaxClock = 1
  u1 = u1
  u2 = u2
  w1 = w1
  w2 = w2
  Helpers = {u1, u2}
  Versions = {"v1", "v2", "v3", "v4"}
  Migrations <- Released
  MaxConfig = 3
  Machines = {w1, w2}
  Builds = {"b1", "b2"}
  Schema <- SchemaOfBuild
  MaxRevision = 4
  CloudflareFaults = 1
  EdgeBuilds = {"b1", "b2", "b3"}
  EdgeSchema <- SchemaOfEdgeBuild
  EdgeFaults = 1
  Tabs = {u1, u2}
  Calls = {w1, w2}
  Profiles = {"p", "q"}
  Endpoints = {"e", "f"}
  MaxPairs = 2
  MaxLoads = 3
  MaxMoves = 1
SYMMETRY Symmetry
INVARIANTS
  NodeConfigurationSafe
  NodeHasWayBack CloudflareHasWayBack DegradedIsRecorded
  PresentedOnce SignedInWhereAsked
PROPERTIES
  ImplementsSharedConfiguration SupabaseImplementsShared ActsOnWhatItChecked
CHECK_DEADLOCK FALSE
