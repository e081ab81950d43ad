-------------------------- MODULE CloudflareQuota --------------------------
(***************************************************************************)
(* The quota of one execution token in the Cloudflare adapter: the Durable *)
(* Object of adapters/cloudflare/src/durable-objects/quota.ts.  It runs    *)
(* one call at a time.  Leases carry the request id and run out by the     *)
(* clock; an alarm deletes those that have.  Buckets are fixed windows;    *)
(* old ones are deleted but never read again, so they stay here.           *)
(* Time is counted in ticks of thirty seconds; bytes are small numbers.    *)
(***************************************************************************)
EXTENDS Integers, FiniteSets, FiniteSetsExt

CONSTANTS
  Requests,           \* the requests of a behaviour, each with its own id
  RequestsPerMinute,  \* limits of the token
  BurstPerSecond,
  ConcurrentHttp,
  ConcurrentTunnels,
  BytesPerDay,
  TicksPerDay,        \* length of a day
  MaxClock            \* bound: ticks

VARIABLES
  clock,
  lease,     \* active_leases, by request
  minute,    \* quota_buckets of kind minute: count
  second,    \* quota_buckets of kind second: count
  day,       \* quota_buckets of kind day: bytes
  alarm      \* the alarm that is set, or -1

quota == <<lease, minute, second, day, alarm>>

\* requestTimeoutMs + 30 s, at least 90 s
RequestTimeout == 2
LeaseTtl == Max({RequestTimeout + 1, 3})

NoLease == [transport |-> "none", bytes |-> 0, expires |-> -1]

QuotaInit ==
  /\ clock = 0
  /\ lease = [r \in Requests |-> NoLease]
  /\ minute = [m \in 0..(MaxClock \div 2) |-> 0]
  /\ second = [s \in 0..MaxClock |-> 0]
  /\ day = [d \in 0..(MaxClock \div TicksPerDay) |-> 0]
  /\ alarm = -1

Holds(r) == lease[r] # NoLease
Live(r) == Holds(r) /\ lease[r].expires > clock

(* expireLeases: rows past their time are deleted.                          *)
Expired == [r \in Requests |-> IF Live(r) THEN lease[r] ELSE NoLease]

(* scheduleNextAlarm: the earliest expiry, or none.                         *)
NextAlarm(rows) ==
  LET times == {rows[r].expires : r \in {q \in Requests : rows[q] # NoLease}}
  IN IF times = {} THEN -1 ELSE Min(times)

(* activeCount: HTTP requests and tunnels are counted apart.                *)
ActiveCount(rows, transport) ==
  Cardinality({r \in Requests :
    rows[r] # NoLease /\ (rows[r].transport = "http") = (transport = "http")})

(* acquire: an id that holds a lease is refused; then the rates, the        *)
(* concurrency and the day's bytes, in this order; an admission is counted  *)
(* in every bucket.                                                         *)
Admits(r, transport, bytes) ==
  /\ Expired[r] = NoLease
  /\ minute[clock \div 2] < RequestsPerMinute
  /\ second[clock] < BurstPerSecond
  /\ ActiveCount(Expired, transport) <
       (IF transport = "http" THEN ConcurrentHttp ELSE ConcurrentTunnels)
  /\ day[clock \div TicksPerDay] + bytes <= BytesPerDay

Acquire(r, transport, bytes) ==
  IF Admits(r, transport, bytes)
    THEN /\ minute' = [minute EXCEPT ![clock \div 2] = @ + 1]
         /\ second' = [second EXCEPT ![clock] = @ + 1]
         /\ day' = [day EXCEPT ![clock \div TicksPerDay] = @ + bytes]
         /\ lease' = [Expired EXCEPT ![r] =
              [transport |-> transport, bytes |-> bytes,
               expires |-> clock + LeaseTtl]]
         /\ alarm' = NextAlarm(lease')
    ELSE /\ lease' = Expired
         /\ UNCHANGED <<minute, second, day, alarm>>

(* release: the lease goes, and the response is charged together with the   *)
(* request bytes the lease had not paid for; without a lease, all of them.  *)
ReleaseCharge_RequestAgain(r, response, request) == response + request
ReleaseCharge(r, response, request) ==
  Max({0, response}) + Max({0, request - lease[r].bytes})

Release(r, response, request) ==
  /\ day' = [day EXCEPT ![clock \div TicksPerDay] =
               @ + ReleaseCharge(r, response, request)]
  /\ lease' = [lease EXCEPT ![r] = NoLease]
  /\ alarm' = NextAlarm(lease')
  /\ UNCHANGED <<minute, second>>

(* renew: only a lease that has not run out is extended.                    *)
Renews(r) == Expired[r] # NoLease

Renew(r) ==
  /\ lease' = IF Renews(r) THEN [Expired EXCEPT ![r].expires = clock + LeaseTtl]
                           ELSE Expired
  /\ alarm' = IF Renews(r) THEN NextAlarm(lease') ELSE alarm
  /\ UNCHANGED <<minute, second, day>>

(* alarm: the platform calls it at or after the time it was set to.         *)
Alarm ==
  /\ alarm # -1 /\ clock >= alarm
  /\ lease' = Expired
  /\ alarm' = NextAlarm(lease')
  /\ UNCHANGED <<clock, minute, second, day>>

(* However leases run out, are renewed at the last moment, returned twice   *)
(* or deleted late, those that count never exceed the limit of their kind.  *)
LeasesWithinLimits ==
  /\ ActiveCount(Expired, "http") <= ConcurrentHttp
  /\ ActiveCount(Expired, "websocket") <= ConcurrentTunnels
=============================================================================
