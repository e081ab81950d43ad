------------------------------ MODULE NodeQuota ------------------------------
(***************************************************************************)
(* The execution-quota coordinator of the Node adapter                     *)
(* (adapters/node/src/quota.ts).                                           *)
(*                                                                         *)
(* A gateway request or tunnel acquires a lease, charges bytes to it and   *)
(* releases it.  Every call runs inside #exclusive, a promise chain that   *)
(* serves the calls in the order they were made.  Inside it a call reads   *)
(* rows, awaits, and writes what it computed in one transaction: the read  *)
(* ("Plan...") and the write ("Commit...") are separate steps here, and    *)
(* only the chain keeps other calls out between them.                      *)
(*                                                                         *)
(* Rows (rate, daily) are durable, the counters of live leases (entry,     *)
(* cell, instanceActive) and the chain (queue) live in the process and     *)
(* are lost by a crash.                                                    *)
(***************************************************************************)
EXTENDS Integers, Sequences, FiniteSets

CONSTANTS
  Requests,     \* callers: one gateway request or tunnel each
  Tokens,       \* execution tokens (credential.id)
  Instance,     \* the key of the instance-wide quota
  NoCell,       \* activeByToken has no entry for the token
  Quota,        \* Quota[key]: the ExecutionQuotaV1 of a token or of the instance
  Minute,       \* clock ticks per minute (60 000 in the code)
  DayLength,    \* clock ticks per UTC day
  Directions,   \* of a tunnel ("up", "down"): each charges its own bytes
  Releases,     \* callers that may release one lease (stream end, abort)
  ByteSizes,    \* sizes a request body or a chunk may have
  MaxClock,     \* bound: the clock stays in 0..MaxClock
  MaxBack,      \* bound: how often the wall clock is set back by a tick
  MaxCrashes    \* bound: restarts of the process

Kinds == {"http", "tunnel"}
Keys  == Tokens \cup {Instance}

Ops   == {"acquire"} \cup Directions \cup Releases
Calls == Requests \X Ops

QuotaType ==
  [burst : Nat, requestsPerMinute : Nat, concurrent : [Kinds -> Nat],
   bytesPerDay : Nat]

ASSUME QuotaAssumption ==
  /\ Instance \notin Tokens
  /\ NoCell \notin Requests
  /\ IsFiniteSet(Requests)
  /\ Quota \in [Keys -> QuotaType]
  /\ Minute \in Nat \ {0}
  /\ DayLength \in Nat \ {0}
  /\ "acquire" \notin Directions \cup Releases
  /\ Directions \cap Releases = {}
  /\ ByteSizes \subseteq Nat
  /\ MaxClock \in Nat
  /\ MaxBack \in Nat
  /\ MaxCrashes \in Nat

dayAt(now) == now \div DayLength
Days       == {dayAt(now) : now \in 0 .. MaxClock}

VARIABLES
  pc,             \* pc[r]: where the caller is with its lease
  tok, kind,      \* the credential and the lease kind r asked for
  bytes,          \* bytes[c]: the size call c was made with
  queue,          \* #tail: calls in the order they were made, head running
  plan,           \* plan[c]: locals of call c between its reads and its write
  entry,          \* #activeByToken: the ActiveState object of a token
  cell,           \* the ActiveState objects, named after their creator
  cellOf,         \* tokenActive as captured by the lease of r
  instanceActive, \* #instanceActive
  rate,           \* table quota_rate_state, tokens in 1/Minute of a request
  daily,          \* table quota_daily_usage
  clock,          \* Date.now()
  backs, crashes, \* bounded: clock corrections and restarts so far
  \* history
  elapsed,        \* all forward movement of the clock
  granted,        \* granted[key]: leases whose transaction committed
  charged         \* charged[d][key]: bytes whose transaction committed

callVars  == <<pc, tok, kind, bytes, queue, plan>>
memVars   == <<entry, cell, cellOf, instanceActive>>
dbVars    == <<rate, daily>>
clockVars == <<clock, backs, elapsed>>
histVars  == <<granted, charged>>
vars == <<callVars, memVars, dbVars, clockVars, crashes, histVars>>

NoPlan ==
  [on |-> FALSE, now |-> 0, cell |-> NoCell,
   rate |-> [k \in {"token", "instance"} |-> 0],
   used |-> [k \in {"token", "instance"} |-> 0]]

Init ==
  /\ pc = [r \in Requests |-> "idle"]
  /\ tok \in [Requests -> Tokens]
  /\ kind \in [Requests -> Kinds]
  /\ bytes = [c \in Calls |-> 0]
  /\ queue = <<>>
  /\ plan = [c \in Calls |-> NoPlan]
  /\ entry = [t \in Tokens |-> NoCell]
  /\ cell = [r \in Requests |-> [k \in Kinds |-> 0]]
  /\ cellOf = [r \in Requests |-> NoCell]
  /\ instanceActive = [k \in Kinds |-> 0]
  \* An absent row reads as a full bucket: planRate takes burst for it and
  \* no elapsed time, which is what this row yields at any clock.
  /\ rate = [q \in Keys |->
               [tokens |-> Quota[q].burst * Minute, updated_at |-> 0]]
  /\ daily = [d \in Days |-> [q \in Keys |-> 0]]
  /\ clock = 0
  /\ backs = 0
  /\ crashes = 0
  /\ elapsed = 0
  /\ granted = [q \in Keys |-> 0]
  /\ charged = [d \in Days |-> [q \in Keys |-> 0]]

-----------------------------------------------------------------------------
(* #exclusive: a call joins the chain when it is made; the finally block   *)
(* lets the next one in however the work ended.                            *)

Outstanding(c) == \E i \in 1 .. Len(queue) : queue[i] = c
HasLock_AnyOrder(c) == Outstanding(c)
HasLock(c)     == queue # <<>> /\ Head(queue) = c

Enqueue(c, b) ==
  /\ queue' = Append(queue, c)
  /\ bytes' = [bytes EXCEPT ![c] = b]

Leave_KeepsChain(c) ==
  /\ plan' = [plan EXCEPT ![c] = NoPlan]
  /\ bytes' = [bytes EXCEPT ![c] = 0]
  /\ UNCHANGED queue
Leave(c) ==
  /\ queue' = Tail(queue)
  /\ plan' = [plan EXCEPT ![c] = NoPlan]
  /\ bytes' = [bytes EXCEPT ![c] = 0]

-----------------------------------------------------------------------------
(* What the reads of a call compute.                                       *)

Lesser(a, b) == IF a <= b THEN a ELSE b
Since(now, then) == IF now >= then THEN now - then ELSE 0

\* planRate: the bucket of quota key q, refilled up to now.
Available(q, now) ==
  Lesser(Quota[q].burst * Minute,
         rate[q].tokens
           + Since(now, rate[q].updated_at) * Quota[q].requestsPerMinute)

RateAllows_Partial(q, now) == Available(q, now) > 0
RateAllows(q, now) == Available(q, now) >= Minute

BytesAllow_TokenOnly(t, b, now) ==
  daily[dayAt(now)][t] + b <= Quota[t].bytesPerDay

\* planByteCharge: both daily totals stay within their limits.
BytesAllow(t, b, now) ==
  /\ daily[dayAt(now)][t] + b <= Quota[t].bytesPerDay
  /\ daily[dayAt(now)][Instance] + b <= Quota[Instance].bytesPerDay

\* The ActiveState object acquire works on: the map's, or a new one.
ActiveCell(r) == IF entry[tok[r]] = NoCell THEN r ELSE entry[tok[r]]

ConcurrencyAllows(r) ==
  /\ cell[ActiveCell(r)][kind[r]] < Quota[tok[r]].concurrent[kind[r]]
  /\ instanceActive[kind[r]] < Quota[Instance].concurrent[kind[r]]

Planned(t, b, now, c, spend) ==
  [on   |-> TRUE, now |-> now, cell |-> c,
   rate |-> [k \in {"token", "instance"} |->
               Available(IF k = "token" THEN t ELSE Instance, now) - spend],
   used |-> [k \in {"token", "instance"} |->
               daily[dayAt(now)][IF k = "token" THEN t ELSE Instance] + b]]

\* rateOperation: the row acquire stores for quota key q.
RateRow(q, tokens, now) == [tokens |-> tokens, updated_at |-> now]

\* Add n to what a row of counters holds for token t and the instance.
Raised(row, t, n) == [row EXCEPT ![t] = @ + n, ![Instance] = @ + n]

\* The daily rows a planned charge writes, and the bytes it really adds.
WriteDaily(t, p, b) ==
  LET day == dayAt(p.now) IN
  /\ daily' = [daily EXCEPT ![day] =
                 [@ EXCEPT ![t] = p.used["token"],
                           ![Instance] = p.used["instance"]]]
  /\ charged' = [charged EXCEPT ![day] = Raised(@, t, b)]

-----------------------------------------------------------------------------
(* acquire *)

Acquire(r, b) ==
  /\ pc[r] = "idle"
  /\ pc' = [pc EXCEPT ![r] = "acquiring"]
  /\ Enqueue(<<r, "acquire">>, b)
  /\ UNCHANGED <<tok, kind, plan, memVars, dbVars, clockVars, crashes,
                 histVars>>

AcquireAdmissible(r, b) ==
  /\ ConcurrencyAllows(r)
  /\ RateAllows(tok[r], clock)
  /\ RateAllows(Instance, clock)
  /\ BytesAllow(tok[r], b, clock)

PlanAcquire(r) ==
  LET c == <<r, "acquire">> IN
  /\ HasLock(c)
  /\ ~plan[c].on
  /\ AcquireAdmissible(r, bytes[c])
  /\ plan' = [plan EXCEPT ![c] =
                Planned(tok[r], bytes[c], clock, ActiveCell(r), Minute)]
  /\ UNCHANGED <<pc, tok, kind, bytes, queue, memVars, dbVars, clockVars,
                 crashes, histVars>>

RejectAcquire(r) ==
  LET c == <<r, "acquire">> IN
  /\ HasLock(c)
  /\ ~plan[c].on
  /\ ~AcquireAdmissible(r, bytes[c])
  /\ pc' = [pc EXCEPT ![r] = "closed"]
  /\ Leave(c)
  /\ UNCHANGED <<tok, kind, memVars, dbVars, clockVars, crashes,
                 histVars>>

\* The transaction of acquire: both buckets and both daily rows.
CommitRows(r) ==
  LET c == <<r, "acquire">>
      p == plan[c]
  IN
  /\ HasLock(c)
  /\ p.on
  /\ rate' = [rate EXCEPT
       ![tok[r]]   = RateRow(tok[r], p.rate["token"], p.now),
       ![Instance] = RateRow(Instance, p.rate["instance"], p.now)]
  /\ WriteDaily(tok[r], p, bytes[c])
  /\ granted' = Raised(granted, tok[r], 1)

CommitAcquire(r) ==
  LET p == plan[<<r, "acquire">>] IN
  /\ CommitRows(r)
  /\ cell' = [cell EXCEPT ![p.cell][kind[r]] = @ + 1]
  /\ instanceActive' = [instanceActive EXCEPT ![kind[r]] = @ + 1]
  /\ entry' = [entry EXCEPT ![tok[r]] = p.cell]
  /\ cellOf' = [cellOf EXCEPT ![r] = p.cell]
  /\ pc' = [pc EXCEPT ![r] = "leased"]
  /\ Leave(<<r, "acquire">>)
  /\ UNCHANGED <<tok, kind, clockVars, crashes>>

\* The transaction committed but the worker died before it answered.
LoseAcquire(r) ==
  /\ CommitRows(r)
  /\ pc' = [pc EXCEPT ![r] = "closed"]
  /\ Leave(<<r, "acquire">>)
  /\ UNCHANGED <<tok, kind, memVars, clockVars, crashes>>

\* A read or the transaction failed: the rows keep their values.
FailAcquire(r) ==
  /\ HasLock(<<r, "acquire">>)
  /\ pc' = [pc EXCEPT ![r] = "closed"]
  /\ Leave(<<r, "acquire">>)
  /\ UNCHANGED <<tok, kind, memVars, dbVars, clockVars, crashes,
                 histVars>>

-----------------------------------------------------------------------------
(* lease.chargeBytes: refused once the lease is released, otherwise it     *)
(* joins the chain.  An HTTP request charges its download only.            *)

DirectionsOf(r) == IF kind[r] = "http" THEN Directions \ {"up"} ELSE Directions

ChargeBytes(r, dir, b) ==
  /\ pc[r] = "leased"
  /\ dir \in DirectionsOf(r)
  /\ ~Outstanding(<<r, dir>>)
  /\ Enqueue(<<r, dir>>, b)
  /\ UNCHANGED <<pc, tok, kind, plan, memVars, dbVars, clockVars, crashes,
                 histVars>>

PlanCharge(r, dir) ==
  LET c == <<r, dir>> IN
  /\ HasLock(c)
  /\ ~plan[c].on
  /\ bytes[c] # 0
  /\ BytesAllow(tok[r], bytes[c], clock)
  /\ plan' = [plan EXCEPT ![c] = Planned(tok[r], bytes[c], clock, NoCell, 0)]
  /\ UNCHANGED <<pc, tok, kind, bytes, queue, memVars, dbVars, clockVars,
                 crashes, histVars>>

CommitCharge(r, dir) ==
  LET c == <<r, dir>> IN
  /\ HasLock(c)
  /\ plan[c].on
  /\ WriteDaily(tok[r], plan[c], bytes[c])
  /\ Leave(c)
  /\ UNCHANGED <<pc, tok, kind, memVars, rate, clockVars, crashes,
                 granted>>

\* Nothing to charge, the quota is exhausted, or the database failed.
EndCharge(r, dir) ==
  /\ HasLock(<<r, dir>>)
  /\ Leave(<<r, dir>>)
  /\ UNCHANGED <<pc, tok, kind, memVars, dbVars, clockVars, crashes,
                 histVars>>

-----------------------------------------------------------------------------
(* lease.release: several calls may be waiting, one takes effect. *)

Release(r, op) ==
  /\ pc[r] = "leased"
  /\ ~Outstanding(<<r, op>>)
  /\ Enqueue(<<r, op>>, 0)
  /\ UNCHANGED <<pc, tok, kind, plan, memVars, dbVars, clockVars, crashes,
                 histVars>>

Less(n) == IF n > 0 THEN n - 1 ELSE 0

\* The map entry goes once neither kind of lease is left on the object.
EntryAfter_EitherKind(o, t) ==
  IF \E k \in Kinds : o[k] = 0 THEN [entry EXCEPT ![t] = NoCell] ELSE entry
EntryAfter(o, t) ==
  IF \A k \in Kinds : o[k] = 0 THEN [entry EXCEPT ![t] = NoCell] ELSE entry

DoRelease(r, op) ==
  LET active == cell[cellOf[r]]
      o == [active EXCEPT ![kind[r]] = Less(active[kind[r]])]
  IN
  /\ HasLock(<<r, op>>)
  /\ pc[r] = "leased"
  /\ pc' = [pc EXCEPT ![r] = "closed"]
  /\ cell' = [cell EXCEPT ![cellOf[r]] = o]
  /\ instanceActive' = [instanceActive EXCEPT ![kind[r]] = Less(@)]
  /\ entry' = EntryAfter(o, tok[r])
  /\ Leave(<<r, op>>)
  /\ UNCHANGED <<tok, kind, cellOf, dbVars, clockVars, crashes,
                 histVars>>

\* The check of `released` inside the chain: another call was first.
SkipRelease(r, op) ==
  /\ HasLock(<<r, op>>)
  /\ pc[r] # "leased"
  /\ Leave(<<r, op>>)
  /\ UNCHANGED <<pc, tok, kind, memVars, dbVars, clockVars, crashes,
                 histVars>>

-----------------------------------------------------------------------------
(* The environment: the wall clock moves, mostly forward, and the process  *)
(* restarts with empty memory over the same database.                      *)

Tick ==
  /\ clock < MaxClock
  /\ clock' = clock + 1
  /\ elapsed' = elapsed + 1
  /\ UNCHANGED <<callVars, memVars, dbVars, backs, crashes, histVars>>

ClockBack ==
  /\ clock > 0
  /\ backs < MaxBack
  /\ clock' = clock - 1
  /\ backs' = backs + 1
  /\ UNCHANGED <<callVars, memVars, dbVars, elapsed, crashes, histVars>>

Crash ==
  /\ crashes < MaxCrashes
  /\ crashes' = crashes + 1
  /\ pc' = [r \in Requests |-> IF pc[r] = "idle" THEN "idle" ELSE "closed"]
  /\ bytes' = [c \in Calls |-> 0]
  /\ queue' = <<>>
  /\ plan' = [c \in Calls |-> NoPlan]
  /\ entry' = [t \in Tokens |-> NoCell]
  /\ cell' = [r \in Requests |-> [k \in Kinds |-> 0]]
  /\ cellOf' = [r \in Requests |-> NoCell]
  /\ instanceActive' = [k \in Kinds |-> 0]
  /\ UNCHANGED <<tok, kind, dbVars, clockVars, histVars>>

-----------------------------------------------------------------------------
Step(r) ==
  \/ PlanAcquire(r)
  \/ RejectAcquire(r)
  \/ CommitAcquire(r)
  \/ LoseAcquire(r)
  \/ FailAcquire(r)
  \/ \E dir \in Directions :
       PlanCharge(r, dir) \/ CommitCharge(r, dir) \/ EndCharge(r, dir)
  \/ \E op \in Releases : DoRelease(r, op) \/ SkipRelease(r, op)

Caller(r) ==
  \/ \E b \in ByteSizes : Acquire(r, b)
  \/ \E dir \in Directions, b \in ByteSizes : ChargeBytes(r, dir, b)
  \/ \E op \in Releases : Release(r, op)

Next ==
  \/ \E r \in Requests : Step(r) \/ Caller(r)
  \/ Tick
  \/ ClockBack
  \/ Crash

Spec == Init /\ [][Next]_vars

(* The event loop resumes a promise that is settled, and every database    *)
(* call settles (database.ts rejects what a dead worker leaves pending).   *)
Fairness == \A r \in Requests : WF_vars(Step(r))
FairSpec == Spec /\ Fairness

-----------------------------------------------------------------------------
(* Properties *)

PlanType ==
  [on : BOOLEAN, now : 0 .. MaxClock, cell : Requests \cup {NoCell},
   rate : [{"token", "instance"} -> Int],
   used : [{"token", "instance"} -> Nat]]

\* Every variable has its type; the stored buckets are never negative
\* (the CHECK of quota_rate_state).
TypeOK ==
  /\ pc \in [Requests -> {"idle", "acquiring", "leased", "closed"}]
  /\ tok \in [Requests -> Tokens]
  /\ kind \in [Requests -> Kinds]
  /\ bytes \in [Calls -> Nat]
  /\ queue \in Seq(Calls)
  /\ plan \in [Calls -> PlanType]
  /\ entry \in [Tokens -> Requests \cup {NoCell}]
  /\ cell \in [Requests -> [Kinds -> Nat]]
  /\ cellOf \in [Requests -> Requests \cup {NoCell}]
  /\ instanceActive \in [Kinds -> Nat]
  /\ rate \in [Keys -> [tokens : Nat, updated_at : 0 .. MaxClock]]
  /\ daily \in [Days -> [Keys -> Nat]]
  /\ clock \in 0 .. MaxClock
  /\ backs \in Nat /\ crashes \in Nat /\ elapsed \in Nat
  /\ granted \in [Keys -> Nat]
  /\ charged \in [Days -> [Keys -> Nat]]

Leases(t, k) == {r \in Requests : pc[r] = "leased" /\ tok[r] = t /\ kind[r] = k}
LeasesOf(k)  == {r \in Requests : pc[r] = "leased" /\ kind[r] = k}

\* Never more live leases of a kind than the token's and the instance's
\* quota allow, although the counters are kept in objects that are dropped
\* from the map and created again while other leases come and go.
ConcurrencyBound ==
  \A k \in Kinds :
    /\ \A t \in Tokens : Cardinality(Leases(t, k)) <= Quota[t].concurrent[k]
    /\ Cardinality(LeasesOf(k)) <= Quota[Instance].concurrent[k]

\* Over any history, restarts and clock corrections included, a quota key
\* is granted at most its burst plus its rate times the forward movement of
\* the clock: the refill of planRate cannot be collected twice.
RateBound ==
  \A q \in Keys :
    granted[q] * Minute
      <= Quota[q].burst * Minute + elapsed * Quota[q].requestsPerMinute

\* The daily rows hold exactly the bytes of the committed charges (no
\* update is lost between a read and its write) and stay within the quota.
DailyAccounting ==
  \A d \in Days, q \in Keys :
    /\ daily[d][q] = charged[d][q]
    /\ daily[d][q] <= Quota[q].bytesPerDay

AcquireSettles ==
  \A r \in Requests : pc[r] = "acquiring" ~> pc[r] # "acquiring"

ReleaseTakesEffect ==
  \A r \in Requests, op \in Releases :
    Outstanding(<<r, op>>) ~> pc[r] = "closed" /\ ~Outstanding(<<r, op>>)

\* Every acquire settles and every release that was asked for takes effect:
\* the chain is handed on whatever a call ends with.
CallsSettle == AcquireSettles /\ ReleaseTakesEffect
=============================================================================
