---------------------------- MODULE MCExecutions ----------------------------
(***************************************************************************)
(* The executions of the two cloud adapters for TLC: an HTTP request of    *)
(* the Supabase gateway, one of the Cloudflare gateway, or a Cloudflare    *)
(* tunnel.  A behaviour is one of the three, chosen in Init; the variables *)
(* the three have in common are shared, the others stay as they began.     *)
(***************************************************************************)
EXTENDS Integers, TLC

CONSTANTS
  Requests,
  RequestsPerMinute, BurstPerSecond, ConcurrentHttp, ConcurrentTunnels,
  ResponseLimit, ClientTimeouts, MaxFrames,
  SupabaseBytes, SupabaseDay, SupabaseClock, SupabaseFaults,
  WorkerBytes, WorkerDay, WorkerClock, WorkerFaults,
  TunnelClock, TunnelFaults

ASSUME ExecutionsAssumption ==
  /\ {ResponseLimit} \cup ClientTimeouts \subseteq Nat
  /\ ConcurrentHttp \in Nat /\ ConcurrentTunnels \in Nat

VARIABLES
  kind,  \* which of the three runs
  clock, lease, minute, second, day, alarm, report, terminal, charges,
  degraded, req, faults

vars == <<kind, clock, lease, minute, second, day, alarm, report, terminal,
          charges, degraded, req, faults>>

Sym == Permutations(Requests)

Supabase == INSTANCE SupabaseExecution WITH
  auditDegraded <- degraded, BytesPerDay <- SupabaseBytes,
  TicksPerDay <- SupabaseDay, MaxClock <- SupabaseClock,
  MaxFaults <- SupabaseFaults
Worker == INSTANCE CloudflareExecution WITH
  BytesPerDay <- WorkerBytes, TicksPerDay <- WorkerDay,
  MaxClock <- WorkerClock, MaxFaults <- WorkerFaults
Tunnel == INSTANCE CloudflareTunnel WITH
  BytesPerDay <- WorkerBytes, TicksPerDay <- WorkerDay,
  MaxClock <- TunnelClock, MaxFaults <- TunnelFaults

Init ==
  \/ /\ kind = "supabase" /\ Supabase!Init
     /\ second = <<>> /\ alarm = -1
  \/ kind = "worker" /\ Worker!Init /\ charges = <<>>
  \/ kind = "tunnel" /\ Tunnel!Init /\ charges = <<>>

Next ==
  \/ kind = "supabase" /\ Supabase!Next /\ UNCHANGED <<kind, second, alarm>>
  \/ kind = "worker" /\ Worker!Next /\ UNCHANGED <<kind, charges>>
  \/ kind = "tunnel" /\ Tunnel!Next /\ UNCHANGED <<kind, charges>>

Spec == Init /\ [][Next]_vars

-----------------------------------------------------------------------------
(* What waits for its target, reads its body or streams still holds a       *)
(* counted lease: on Supabase although nothing renews leases, on Cloudflare *)
(* however long the upload took; a tunnel's bridge that has lost its lease  *)
(* has missed a whole lease of renewals or is closed by the first answer.   *)
(* And the leases that count are never more than the limits of the token.   *)
WorkIsLeased ==
  /\ kind = "supabase" => Supabase!WorkIsLeased
  /\ kind = "worker" => Worker!RelayIsLeased /\ Worker!LeasesWithinLimits
  /\ kind = "tunnel" => Tunnel!BridgeIsLeased /\ Tunnel!LeasesWithinLimits

(* An execution ends on record once, also when its completion is called     *)
(* again after a lost answer, and what it was told as degraded is not       *)
(* reported as recorded.                                                    *)
EndsOnceOnRecord ==
  /\ kind = "supabase" => Supabase!FinalizedOnce /\ Supabase!DegradedStays
  /\ kind = "worker" => Worker!TerminalOnce
  /\ kind = "tunnel" => Tunnel!TerminalOnce

(* Cloudflare HTTP: what a request announced, was seen to upload and got    *)
(* back is charged, and charged twice only when the lease had run out       *)
(* before the release; a body that is relayed beyond that had no length.    *)
ChargedInFull == kind = "worker" => Worker!ChargedInFull

(* An execution that met no fault leaves no lease, however it ended; on     *)
(* Supabase one lost answer is repaired by the retry in finalize, unless it *)
(* came and could not be read.                                              *)
LeftoverOnlyByFault ==
  /\ kind = "supabase" => Supabase!LeakOnlyByFault /\ Supabase!UnfinalizedIsRare
  /\ kind = "worker" => Worker!LeakOnlyByFault
  /\ kind = "tunnel" => Tunnel!LeakOnlyByFault
=============================================================================
