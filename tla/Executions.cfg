SPECIFICATION Spec
CONSTANTS
  Requests = {r1, r2}
  RequestsPerMinute = 2
  BurstPerSecond = 1
  ConcurrentHttp = 1
  ConcurrentTunnels = 1
  ResponseLimit = 1
  ClientTimeouts = {9}
  MaxFrames = 1
  SupabaseBytes = 1
  SupabaseDay = 5
  SupabaseClock = 8
  SupabaseFaults = 2
  WorkerBytes = 3
  WorkerDay = 3
  WorkerClock = 3
  WorkerFaults = 2
  TunnelClock = 4
  TunnelFaults = 2
SYMMETRY Sym
INVARIANTS
  WorkIsLeased EndsOnceOnRecord ChargedInFull LeftoverOnlyByFault
CHECK_DEADLOCK FALSE
