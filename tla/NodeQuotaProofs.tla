--------------------------- MODULE NodeQuotaProofs ---------------------------
(***************************************************************************)
(* Proofs about the quota coordinator, for every set of requests, tokens   *)
(* and quotas.                                                             *)
(***************************************************************************)
EXTENDS MCNodeQuota, FiniteSetTheorems, TLAPS

(* The chain: no call waits twice, only its head has read anything, and an *)
(* acquire waits exactly while its caller does.                            *)
ChainInv ==
  /\ \A i, j \in 1 .. Len(queue) : queue[i] = queue[j] => i = j
  /\ \A i \in 1 .. Len(queue), r \in Requests :
       queue[i] = <<r, "acquire">> => pc[r] = "acquiring"
  /\ \A c \in Calls : plan[c].on => queue # <<>> /\ Head(queue) = c
  /\ \A c \in Calls, k \in {"token", "instance"} :
       plan[c].on /\ c[2] = "acquire" => plan[c].rate[k] >= 0

BaseInv == TypeOK /\ ChainInv

(* The locals of a call that has read nothing have the type of a plan. *)
LEMMA NoPlanType == NoPlan \in PlanType
BY QuotaAssumption DEF NoPlan, PlanType

(* What the assumptions say of the quota keys, their limits and the days. *)
LEMMA KeyFacts ==
  /\ Instance \in Keys /\ Tokens \subseteq Keys
  /\ \A q \in Keys : Quota[q].burst \in Nat /\ Quota[q].requestsPerMinute \in Nat
                     /\ Quota[q].bytesPerDay \in Nat
                     /\ \A k \in Kinds : Quota[q].concurrent[k] \in Nat
  /\ \A now \in 0 .. MaxClock : dayAt(now) \in Days
BY QuotaAssumption DEF Keys, QuotaType, Days

(* The coordinator starts well typed, with an empty chain and no plan. *)
LEMMA InitBase == Init => BaseInv
<1> SUFFICES ASSUME Init PROVE BaseInv
  OBVIOUS
<1>1. \A q \in Keys : Quota[q].burst * Minute \in Nat
  BY KeyFacts, QuotaAssumption
<1>2. TypeOK
  BY <1>1, NoPlanType, KeyFacts, QuotaAssumption DEF Init, TypeOK
<1>3. ChainInv
  BY DEF Init, ChainInv, NoPlan
<1> QED BY <1>2, <1>3 DEF BaseInv

(* The refilled bucket of planRate is a natural number at any clock. *)
LEMMA AvailableType ==
  ASSUME TypeOK, NEW q \in Keys, NEW now \in 0 .. MaxClock
  PROVE  Available(q, now) \in Nat
<1>1. /\ Quota[q].burst \in Nat /\ Quota[q].requestsPerMinute \in Nat
      /\ Minute \in Nat /\ MaxClock \in Nat
      /\ rate[q].tokens \in Nat /\ rate[q].updated_at \in 0 .. MaxClock
  BY KeyFacts, QuotaAssumption DEF TypeOK
<1>2. Since(now, rate[q].updated_at) \in Nat
  BY <1>1 DEF Since
<1>3. /\ Since(now, rate[q].updated_at) * Quota[q].requestsPerMinute \in Nat
      /\ Quota[q].burst * Minute \in Nat
  BY <1>1, <1>2
<1> QED BY <1>1, <1>3 DEF Available, Lesser

-----------------------------------------------------------------------------
(* A call that joins the chain goes to its end and disturbs no plan. *)
LEMMA EnqueueFacts ==
  ASSUME BaseInv, NEW c \in Calls, NEW b \in Nat, ~Outstanding(c),
         Enqueue(c, b)
  PROVE  /\ queue' \in Seq(Calls)
         /\ bytes' \in [Calls -> Nat]
         /\ \A i, j \in 1 .. Len(queue') : queue'[i] = queue'[j] => i = j
         /\ \A i \in 1 .. Len(queue') :
              \/ i \in 1 .. Len(queue) /\ queue'[i] = queue[i]
              \/ queue'[i] = c
         /\ queue # <<>> => queue' # <<>> /\ Head(queue') = Head(queue)
         /\ \A d \in Calls : plan[d].on => bytes'[d] = bytes[d]
<1>1. queue \in Seq(Calls) /\ bytes \in [Calls -> Nat]
  BY DEF BaseInv, TypeOK
<1>2. /\ queue' = Append(queue, c)
      /\ bytes' = [bytes EXCEPT ![c] = b]
  BY DEF Enqueue
<1>3. /\ queue' \in Seq(Calls)
      /\ Len(queue') = Len(queue) + 1
      /\ \A i \in 1 .. Len(queue) : queue'[i] = queue[i]
      /\ queue'[Len(queue) + 1] = c
      /\ Len(queue) \in Nat
  BY <1>1, <1>2
<1>4. \A i \in 1 .. Len(queue) : queue[i] # c
  BY DEF Outstanding
<1>5. \A i, j \in 1 .. Len(queue) : queue[i] = queue[j] => i = j
  BY DEF BaseInv, ChainInv
<1>6. \A i, j \in 1 .. Len(queue') : queue'[i] = queue'[j] => i = j
  BY <1>3, <1>4, <1>5
<1>7. \A i \in 1 .. Len(queue') :
        \/ i \in 1 .. Len(queue) /\ queue'[i] = queue[i]
        \/ queue'[i] = c
  BY <1>3
<1>8. queue # <<>> => queue' # <<>> /\ Head(queue') = Head(queue)
  BY <1>1, <1>2
<1>9. \A d \in Calls : plan[d].on => bytes'[d] = bytes[d]
  <2> SUFFICES ASSUME NEW d \in Calls, plan[d].on PROVE d # c
    BY <1>1, <1>2
  <2>1. queue # <<>> /\ Head(queue) = d
    BY DEF BaseInv, ChainInv
  <2>2. 1 \in 1 .. Len(queue) /\ queue[1] = d
    BY <2>1, <1>1
  <2> QED BY <2>2, <1>4
<1> QED BY <1>1, <1>2, <1>3, <1>6, <1>7, <1>8, <1>9

(* When the running call leaves the chain no call has a plan any more. *)
LEMMA LeaveFacts ==
  ASSUME BaseInv, NEW c \in Calls, HasLock(c), Leave(c)
  PROVE  /\ queue' \in Seq(Calls)
         /\ bytes' \in [Calls -> Nat]
         /\ plan' \in [Calls -> PlanType]
         /\ \A i, j \in 1 .. Len(queue') : queue'[i] = queue'[j] => i = j
         /\ \A i \in 1 .. Len(queue') :
              /\ queue'[i] # c
              /\ \E j \in 1 .. Len(queue) : queue'[i] = queue[j]
         /\ \A d \in Calls : ~plan'[d].on
<1>1. /\ queue \in Seq(Calls) /\ bytes \in [Calls -> Nat]
      /\ plan \in [Calls -> PlanType]
  BY DEF BaseInv, TypeOK
<1>2. /\ queue # <<>> /\ Head(queue) = c
      /\ queue' = Tail(queue)
      /\ plan' = [plan EXCEPT ![c] = NoPlan]
      /\ bytes' = [bytes EXCEPT ![c] = 0]
  BY DEF HasLock, Leave
<1>3. /\ Len(queue) \in Nat \ {0}
      /\ Len(queue') = Len(queue) - 1
      /\ \A i \in 1 .. Len(queue') : queue'[i] = queue[i + 1]
      /\ queue[1] = c
      /\ queue' \in Seq(Calls)
  BY <1>1, <1>2
<1>4. \A i, j \in 1 .. Len(queue) : queue[i] = queue[j] => i = j
  BY DEF BaseInv, ChainInv
<1>5. \A i, j \in 1 .. Len(queue') : queue'[i] = queue'[j] => i = j
  <2> SUFFICES ASSUME NEW i \in 1 .. Len(queue'), NEW j \in 1 .. Len(queue'),
                      queue'[i] = queue'[j]
               PROVE  i = j
    OBVIOUS
  <2>1. /\ i + 1 \in 1 .. Len(queue) /\ j + 1 \in 1 .. Len(queue)
        /\ queue[i + 1] = queue[j + 1]
    BY <1>3
  <2> QED BY <2>1, <1>4
<1>6. \A i \in 1 .. Len(queue') :
        /\ queue'[i] # c
        /\ \E j \in 1 .. Len(queue) : queue'[i] = queue[j]
  <2> SUFFICES ASSUME NEW i \in 1 .. Len(queue')
               PROVE  /\ queue'[i] # c
                      /\ \E j \in 1 .. Len(queue) : queue'[i] = queue[j]
    OBVIOUS
  <2>1. /\ i + 1 \in 1 .. Len(queue) /\ 1 \in 1 .. Len(queue) /\ i + 1 # 1
        /\ queue'[i] = queue[i + 1]
    BY <1>3
  <2> QED BY <2>1, <1>3, <1>4
<1>7. \A d \in Calls : ~plan'[d].on
  <2>1. \A d \in Calls : plan[d].on => d = c
    BY <1>2 DEF BaseInv, ChainInv
  <2> QED BY <1>1, <1>2, <2>1 DEF NoPlan
<1>8. plan' \in [Calls -> PlanType] /\ bytes' \in [Calls -> Nat]
  BY <1>1, <1>2, NoPlanType
<1> QED BY <1>3, <1>5, <1>6, <1>7, <1>8

(* What a plan holds is within its type, and an admissible acquire leaves  *)
(* no bucket below zero.                                                   *)
LEMMA PlannedType ==
  ASSUME BaseInv, NEW t \in Tokens, NEW b \in Nat, NEW x \in Requests \cup {NoCell},
         NEW spend \in Nat
  PROVE  /\ Planned(t, b, clock, x, spend) \in PlanType
         /\ Planned(t, b, clock, x, spend).on
         /\ RateAllows(t, clock) /\ RateAllows(Instance, clock) =>
              \A k \in {"token", "instance"} :
                Planned(t, b, clock, x, Minute).rate[k] >= 0
<1>1. /\ t \in Keys /\ Instance \in Keys /\ clock \in 0 .. MaxClock
      /\ dayAt(clock) \in Days /\ Minute \in Nat
  BY KeyFacts, QuotaAssumption DEF BaseInv, TypeOK
<1>2. Available(t, clock) \in Nat /\ Available(Instance, clock) \in Nat
  BY <1>1, AvailableType DEF BaseInv
<1>3. daily[dayAt(clock)][t] \in Nat /\ daily[dayAt(clock)][Instance] \in Nat
  BY <1>1 DEF BaseInv, TypeOK
<1>4. Planned(t, b, clock, x, spend) \in PlanType
  BY <1>1, <1>2, <1>3 DEF Planned, PlanType
<1>5. Planned(t, b, clock, x, spend).on
  BY DEF Planned
<1>6. RateAllows(t, clock) /\ RateAllows(Instance, clock) =>
        \A k \in {"token", "instance"} :
          Planned(t, b, clock, x, Minute).rate[k] >= 0
  BY <1>1, <1>2 DEF Planned, RateAllows
<1> QED BY <1>4, <1>5, <1>6

(* The transaction of a charge, and that of an acquire, keep the types. *)
LEMMA RaisedType ==
  ASSUME NEW row \in [Keys -> Nat], NEW t \in Tokens, NEW n \in Nat
  PROVE  /\ Raised(row, t, n) \in [Keys -> Nat]
         /\ \A q \in Keys : Raised(row, t, n)[q] =
              IF q \in {t, Instance} THEN row[q] + n ELSE row[q]
BY KeyFacts DEF Raised

(* The two daily rows a charge writes are natural numbers. *)
LEMMA WriteDailyType ==
  ASSUME TypeOK, NEW t \in Tokens, NEW c \in Calls, WriteDaily(t, plan[c], bytes[c])
  PROVE  daily' \in [Days -> [Keys -> Nat]] /\ charged' \in [Days -> [Keys -> Nat]]
<1> DEFINE d == dayAt(plan[c].now)
<1>1. /\ plan[c] \in PlanType /\ bytes[c] \in Nat
      /\ daily \in [Days -> [Keys -> Nat]] /\ charged \in [Days -> [Keys -> Nat]]
  BY DEF TypeOK
<1>2. /\ plan[c].used["token"] \in Nat /\ plan[c].used["instance"] \in Nat
      /\ plan[c].now \in 0 .. MaxClock
  BY <1>1 DEF PlanType
<1>3. d \in Days
  BY <1>2, KeyFacts
<1>4. daily' \in [Days -> [Keys -> Nat]]
  BY <1>1, <1>2 DEF WriteDaily
<1>5. Raised(charged[d], t, bytes[c]) \in [Keys -> Nat]
  <2>1. charged[d] \in [Keys -> Nat] /\ bytes[c] \in Nat
    BY <1>1, <1>3
  <2> QED BY <2>1, RaisedType
<1>6. charged' = [charged EXCEPT ![d] = Raised(charged[d], t, bytes[c])]
  BY DEF WriteDaily
<1>7. charged' \in [Days -> [Keys -> Nat]]
  BY <1>1, <1>5, <1>6
<1> QED BY <1>4, <1>7

(* The transaction of acquire leaves no bucket and no daily row negative. *)
LEMMA CommitRowsType ==
  ASSUME BaseInv, NEW r \in Requests, CommitRows(r)
  PROVE  /\ rate' \in [Keys -> [tokens : Nat, updated_at : 0 .. MaxClock]]
         /\ daily' \in [Days -> [Keys -> Nat]]
         /\ charged' \in [Days -> [Keys -> Nat]]
         /\ granted' \in [Keys -> Nat]
<1> DEFINE c == <<r, "acquire">>
<1>1. /\ c \in Calls /\ plan[c] \in PlanType /\ tok[r] \in Tokens
      /\ rate \in [Keys -> [tokens : Nat, updated_at : 0 .. MaxClock]]
      /\ granted \in [Keys -> Nat]
  BY DEF BaseInv, TypeOK, Calls, Ops
<1>2. plan[c].on
  BY DEF CommitRows
<1>3. \A k \in {"token", "instance"} : plan[c].rate[k] >= 0
  BY <1>1, <1>2 DEF BaseInv, ChainInv
<1>4. /\ \A k \in {"token", "instance"} : plan[c].rate[k] \in Nat
      /\ plan[c].now \in 0 .. MaxClock
  BY <1>1, <1>3 DEF PlanType
<1>5. rate' \in [Keys -> [tokens : Nat, updated_at : 0 .. MaxClock]]
  BY <1>1, <1>4 DEF CommitRows, RateRow
<1>6. granted' \in [Keys -> Nat]
  BY <1>1, RaisedType DEF CommitRows
<1>7. WriteDaily(tok[r], plan[c], bytes[c])
  BY DEF CommitRows
<1>8. /\ daily' \in [Days -> [Keys -> Nat]]
      /\ charged' \in [Days -> [Keys -> Nat]]
  BY <1>1, <1>7, WriteDailyType DEF BaseInv
<1> QED BY <1>5, <1>6, <1>8

-----------------------------------------------------------------------------
(* A request and one of its operations make a call. *)
LEMMA CallFacts ==
  ASSUME NEW r \in Requests, NEW op \in Ops
  PROVE  <<r, op>> \in Calls
BY DEF Calls

(* One counter of a family goes up, or down to no less than zero. *)
LEMMA CellType ==
  ASSUME NEW f \in [Requests -> [Kinds -> Nat]], NEW x, NEW k \in Kinds
  PROVE  [f EXCEPT ![x][k] = @ + 1] \in [Requests -> [Kinds -> Nat]]
<1>1. CASE x \in Requests
  BY <1>1
<1>2. CASE x \notin Requests
  BY <1>2
<1> QED BY <1>1, <1>2

(* A release lowers its two counters to no less than zero. *)
LEMMA LowerType ==
  ASSUME NEW f \in [Requests -> [Kinds -> Nat]], NEW g \in [Kinds -> Nat],
         NEW x, NEW k \in Kinds
  PROVE  /\ [f EXCEPT ![x] = [f[x] EXCEPT ![k] = Less(f[x][k])]]
              \in [Requests -> [Kinds -> Nat]]
         /\ [g EXCEPT ![k] = Less(@)] \in [Kinds -> Nat]
<1>1. \A n \in Nat : Less(n) \in Nat
  BY DEF Less
<1>2. CASE x \in Requests
  BY <1>1, <1>2
<1>3. CASE x \notin Requests
  <2>1. [f EXCEPT ![x] = [f[x] EXCEPT ![k] = Less(f[x][k])]] = f
    BY <1>3
  <2> QED BY <1>1, <2>1
<1> QED BY <1>2, <1>3

(* Once a call has left the chain, ChainInv needs only that no waiting     *)
(* acquire lost its caller.                                                *)
LEMMA ChainAfterLeave ==
  ASSUME BaseInv, NEW c \in Calls, HasLock(c), Leave(c),
         \A r \in Requests : pc[r] = "acquiring" /\ <<r, "acquire">> # c
                              => pc'[r] = "acquiring"
  PROVE  ChainInv'
<1>1. \A i \in 1 .. Len(queue), r \in Requests :
        queue[i] = <<r, "acquire">> => pc[r] = "acquiring"
  BY DEF BaseInv, ChainInv
<1>2. ASSUME NEW i \in 1 .. Len(queue'), NEW r \in Requests,
             queue'[i] = <<r, "acquire">>
      PROVE  pc'[r] = "acquiring"
  <2>1. \A n \in 1 .. Len(queue') :
          /\ queue'[n] # c
          /\ \E j \in 1 .. Len(queue) : queue'[n] = queue[j]
    BY LeaveFacts
  <2>2. /\ <<r, "acquire">> # c
        /\ \E j \in 1 .. Len(queue) : queue[j] = <<r, "acquire">>
    BY <1>2, <2>1
  <2> QED BY <1>1, <2>2
<1> QED BY <1>2, LeaveFacts DEF ChainInv

(* A call that joins the chain is not there yet. *)
LEMMA ChainAfterEnqueue ==
  ASSUME BaseInv, NEW c \in Calls, NEW b \in Nat, ~Outstanding(c),
         Enqueue(c, b), plan' = plan,
         \A r \in Requests : pc[r] = "acquiring" \/ <<r, "acquire">> = c
                              => pc'[r] = "acquiring"
  PROVE  ChainInv'
<1>1. \A i \in 1 .. Len(queue), r \in Requests :
        queue[i] = <<r, "acquire">> => pc[r] = "acquiring"
  BY DEF BaseInv, ChainInv
<1>2. ASSUME NEW i \in 1 .. Len(queue'), NEW r \in Requests,
             queue'[i] = <<r, "acquire">>
      PROVE  pc'[r] = "acquiring"
  <2>1. \/ i \in 1 .. Len(queue) /\ queue[i] = <<r, "acquire">>
        \/ <<r, "acquire">> = c
    BY <1>2, EnqueueFacts
  <2> QED BY <1>1, <2>1
<1>3. \A d \in Calls : plan[d].on => queue # <<>> /\ Head(queue) = d
  BY DEF BaseInv, ChainInv
<1>4. \A d \in Calls, k \in {"token", "instance"} :
        plan[d].on /\ d[2] = "acquire" => plan[d].rate[k] >= 0
  BY DEF BaseInv, ChainInv
<1>5. queue # <<>> => queue' # <<>> /\ Head(queue') = Head(queue)
  BY EnqueueFacts
<1>6. \A i, j \in 1 .. Len(queue') : queue'[i] = queue'[j] => i = j
  BY EnqueueFacts
<1> QED BY <1>2, <1>3, <1>4, <1>5, <1>6 DEF ChainInv

(* Every step keeps the types and the order of the chain. *)
LEMMA NextBase == BaseInv /\ [Next]_vars => BaseInv'
<1> SUFFICES ASSUME BaseInv, [Next]_vars PROVE BaseInv'
  OBVIOUS
<1> USE DEF callVars, memVars, dbVars, clockVars, histVars
<1>1. TypeOK /\ ChainInv
  BY DEF BaseInv
<1>2. ASSUME NEW r \in Requests, NEW b \in ByteSizes, Acquire(r, b)
      PROVE  BaseInv'
  <2> DEFINE c == <<r, "acquire">>
  <2>1. c \in Calls /\ b \in Nat
    BY CallFacts, QuotaAssumption DEF Ops
  <2>2. Enqueue(c, b) /\ plan' = plan /\ ~Outstanding(c)
    BY <1>2, <1>1 DEF Acquire, Outstanding, ChainInv
  <2>3. \A s \in Requests : pc[s] = "acquiring" \/ <<s, "acquire">> = c
                             => pc'[s] = "acquiring"
    BY <1>2, <1>1, QuotaAssumption DEF Acquire, TypeOK
  <2>4. ChainInv'
    BY <2>1, <2>2, <2>3, ChainAfterEnqueue
  <2>5. queue' \in Seq(Calls) /\ bytes' \in [Calls -> Nat]
    BY <2>1, <2>2, EnqueueFacts
  <2>6. TypeOK'
    BY <1>2, <1>1, <2>5 DEF Acquire, TypeOK
  <2> QED BY <2>4, <2>6 DEF BaseInv
<1>3. ASSUME NEW r \in Requests, NEW dir \in Directions, NEW b \in ByteSizes,
             ChargeBytes(r, dir, b)
      PROVE  BaseInv'
  <2> DEFINE c == <<r, dir>>
  <2>1. c \in Calls /\ b \in Nat
    BY CallFacts, QuotaAssumption DEF Ops
  <2>2. Enqueue(c, b) /\ plan' = plan /\ ~Outstanding(c)
    BY <1>3, <1>1 DEF ChargeBytes, Outstanding, ChainInv
  <2>3. \A s \in Requests : pc[s] = "acquiring" \/ <<s, "acquire">> = c
                             => pc'[s] = "acquiring"
    BY <1>3, <1>1, QuotaAssumption DEF ChargeBytes, TypeOK
  <2>4. ChainInv'
    BY <2>1, <2>2, <2>3, ChainAfterEnqueue
  <2>5. queue' \in Seq(Calls) /\ bytes' \in [Calls -> Nat]
    BY <2>1, <2>2, EnqueueFacts
  <2>6. TypeOK'
    BY <1>3, <1>1, <2>5 DEF ChargeBytes, TypeOK
  <2> QED BY <2>4, <2>6 DEF BaseInv
<1>4. ASSUME NEW r \in Requests, NEW op \in Releases, Release(r, op)
      PROVE  BaseInv'
  <2> DEFINE c == <<r, op>>
  <2>1. c \in Calls /\ 0 \in Nat
    BY CallFacts, QuotaAssumption DEF Ops
  <2>2. Enqueue(c, 0) /\ plan' = plan /\ ~Outstanding(c)
    BY <1>4, <1>1 DEF Release, Outstanding, ChainInv
  <2>3. \A s \in Requests : pc[s] = "acquiring" \/ <<s, "acquire">> = c
                             => pc'[s] = "acquiring"
    BY <1>4, <1>1, QuotaAssumption DEF Release, TypeOK
  <2>4. ChainInv'
    BY <2>1, <2>2, <2>3, ChainAfterEnqueue
  <2>5. queue' \in Seq(Calls) /\ bytes' \in [Calls -> Nat]
    BY <2>1, <2>2, EnqueueFacts
  <2>6. TypeOK'
    BY <1>4, <1>1, <2>5 DEF Release, TypeOK
  <2> QED BY <2>4, <2>6 DEF BaseInv
<1>5. ASSUME NEW r \in Requests, PlanAcquire(r)
      PROVE  BaseInv'
  <2> DEFINE c == <<r, "acquire">>
             p == Planned(tok[r], bytes[c], clock, ActiveCell(r), Minute)
  <2>1. /\ c \in Calls /\ tok[r] \in Tokens /\ bytes[c] \in Nat
        /\ ActiveCell(r) \in Requests \cup {NoCell} /\ Minute \in Nat
    BY <1>1, CallFacts, QuotaAssumption DEF Ops, TypeOK, ActiveCell
  <2>2. p \in PlanType
    BY <2>1, PlannedType
  <2>3. \A k \in {"token", "instance"} : p.rate[k] >= 0
    BY <1>5, <2>1, PlannedType DEF PlanAcquire, AcquireAdmissible
  <2>4. HasLock(c) /\ plan' = [plan EXCEPT ![c] = p] /\ queue' = queue /\ pc' = pc
    BY <1>5 DEF PlanAcquire
  <2>5. TypeOK'
    BY <1>5, <1>1, <2>1, <2>2, <2>4 DEF PlanAcquire, TypeOK
  <2>6. \A d \in Calls : plan'[d].on => queue' # <<>> /\ Head(queue') = d
    BY <1>1, <2>1, <2>4 DEF TypeOK, ChainInv, HasLock
  <2>7. \A d \in Calls, k \in {"token", "instance"} :
          plan'[d].on /\ d[2] = "acquire" => plan'[d].rate[k] >= 0
    BY <1>1, <2>1, <2>3, <2>4 DEF TypeOK, ChainInv
  <2>8. ChainInv'
    BY <1>1, <2>4, <2>6, <2>7 DEF ChainInv
  <2> QED BY <2>5, <2>8 DEF BaseInv
<1>6. ASSUME NEW r \in Requests, NEW dir \in Directions, PlanCharge(r, dir)
      PROVE  BaseInv'
  <2> DEFINE c == <<r, dir>>
             p == Planned(tok[r], bytes[c], clock, NoCell, 0)
  <2>1. /\ c \in Calls /\ tok[r] \in Tokens /\ bytes[c] \in Nat
        /\ NoCell \in Requests \cup {NoCell} /\ 0 \in Nat
    BY <1>1, CallFacts, QuotaAssumption DEF Ops, TypeOK
  <2>2. p \in PlanType
    BY <2>1, PlannedType
  <2>3. c[2] # "acquire"
    BY QuotaAssumption
  <2>4. HasLock(c) /\ plan' = [plan EXCEPT ![c] = p] /\ queue' = queue /\ pc' = pc
    BY <1>6 DEF PlanCharge
  <2>5. TypeOK'
    BY <1>6, <1>1, <2>1, <2>2, <2>4 DEF PlanCharge, TypeOK
  <2>6. \A d \in Calls : plan'[d].on => queue' # <<>> /\ Head(queue') = d
    BY <1>1, <2>1, <2>4 DEF TypeOK, ChainInv, HasLock
  <2>7. \A d \in Calls, k \in {"token", "instance"} :
          plan'[d].on /\ d[2] = "acquire" => plan'[d].rate[k] >= 0
    BY <1>1, <2>1, <2>3, <2>4 DEF TypeOK, ChainInv
  <2>8. ChainInv'
    BY <1>1, <2>4, <2>6, <2>7 DEF ChainInv
  <2> QED BY <2>5, <2>8 DEF BaseInv
<1>7. ASSUME NEW r \in Requests, RejectAcquire(r)
      PROVE  BaseInv'
  <2> DEFINE c == <<r, "acquire">>
  <2>1. c \in Calls
    BY CallFacts DEF Ops
  <2>2. HasLock(c) /\ Leave(c)
    BY <1>7 DEF RejectAcquire
  <2>3. /\ queue' \in Seq(Calls) /\ bytes' \in [Calls -> Nat]
        /\ plan' \in [Calls -> PlanType]
    BY <2>1, <2>2, LeaveFacts
  <2>4. ChainInv'
    <3>1. \A s \in Requests : pc[s] = "acquiring" /\ <<s, "acquire">> # c
                               => pc'[s] = "acquiring"
      BY <1>7, <1>1 DEF RejectAcquire, TypeOK
    <3> QED BY <3>1, <2>1, <2>2, ChainAfterLeave
  <2>5. TypeOK'
    BY <1>7, <1>1, <2>3 DEF RejectAcquire, TypeOK
  <2> QED BY <2>4, <2>5 DEF BaseInv
<1>8. ASSUME NEW r \in Requests, FailAcquire(r)
      PROVE  BaseInv'
  <2> DEFINE c == <<r, "acquire">>
  <2>1. c \in Calls
    BY CallFacts DEF Ops
  <2>2. HasLock(c) /\ Leave(c)
    BY <1>8 DEF FailAcquire
  <2>3. /\ queue' \in Seq(Calls) /\ bytes' \in [Calls -> Nat]
        /\ plan' \in [Calls -> PlanType]
    BY <2>1, <2>2, LeaveFacts
  <2>4. ChainInv'
    <3>1. \A s \in Requests : pc[s] = "acquiring" /\ <<s, "acquire">> # c
                               => pc'[s] = "acquiring"
      BY <1>8, <1>1 DEF FailAcquire, TypeOK
    <3> QED BY <3>1, <2>1, <2>2, ChainAfterLeave
  <2>5. TypeOK'
    BY <1>8, <1>1, <2>3 DEF FailAcquire, TypeOK
  <2> QED BY <2>4, <2>5 DEF BaseInv
<1>9. ASSUME NEW r \in Requests, LoseAcquire(r)
      PROVE  BaseInv'
  <2> DEFINE c == <<r, "acquire">>
  <2>1. c \in Calls
    BY CallFacts DEF Ops
  <2>2. HasLock(c) /\ Leave(c)
    BY <1>9 DEF LoseAcquire, CommitRows
  <2>3. /\ queue' \in Seq(Calls) /\ bytes' \in [Calls -> Nat]
        /\ plan' \in [Calls -> PlanType]
    BY <2>1, <2>2, LeaveFacts
  <2>4. /\ rate' \in [Keys -> [tokens : Nat, updated_at : 0 .. MaxClock]]
        /\ daily' \in [Days -> [Keys -> Nat]]
        /\ charged' \in [Days -> [Keys -> Nat]]
        /\ granted' \in [Keys -> Nat]
    BY <1>9, CommitRowsType DEF LoseAcquire
  <2>5. ChainInv'
    <3>1. \A s \in Requests : pc[s] = "acquiring" /\ <<s, "acquire">> # c
                               => pc'[s] = "acquiring"
      BY <1>9, <1>1 DEF LoseAcquire, CommitRows, TypeOK
    <3> QED BY <3>1, <2>1, <2>2, ChainAfterLeave
  <2>6. TypeOK'
    BY <1>9, <1>1, <2>3, <2>4 DEF LoseAcquire, TypeOK
  <2> QED BY <2>5, <2>6 DEF BaseInv
<1>10. ASSUME NEW r \in Requests, CommitAcquire(r)
      PROVE  BaseInv'
  <2> DEFINE c == <<r, "acquire">>
  <2>1. c \in Calls
    BY CallFacts DEF Ops
  <2>2. HasLock(c) /\ Leave(c)
    BY <1>10 DEF CommitAcquire, CommitRows
  <2>3. /\ queue' \in Seq(Calls) /\ bytes' \in [Calls -> Nat]
        /\ plan' \in [Calls -> PlanType]
    BY <2>1, <2>2, LeaveFacts
  <2>4. /\ rate' \in [Keys -> [tokens : Nat, updated_at : 0 .. MaxClock]]
        /\ daily' \in [Days -> [Keys -> Nat]]
        /\ charged' \in [Days -> [Keys -> Nat]]
        /\ granted' \in [Keys -> Nat]
    BY <1>10, CommitRowsType DEF CommitAcquire
  <2>5. plan[c].cell \in Requests \cup {NoCell}
    BY <1>1, <2>1 DEF TypeOK, PlanType
  <2>6. /\ kind[r] \in Kinds /\ tok[r] \in Tokens
        /\ instanceActive' \in [Kinds -> Nat]
    BY <1>10, <1>1 DEF CommitAcquire, TypeOK
  <2>7. /\ entry' \in [Tokens -> Requests \cup {NoCell}]
        /\ cellOf' \in [Requests -> Requests \cup {NoCell}]
    BY <1>10, <1>1, <2>5 DEF CommitAcquire, TypeOK
  <2>8. cell' \in [Requests -> [Kinds -> Nat]]
    BY <1>10, <1>1, <2>5, <2>6, CellType DEF CommitAcquire, TypeOK
  <2>9. ChainInv'
    <3>1. \A s \in Requests : pc[s] = "acquiring" /\ <<s, "acquire">> # c
                               => pc'[s] = "acquiring"
      BY <1>10, <1>1 DEF CommitAcquire, CommitRows, TypeOK
    <3> QED BY <3>1, <2>1, <2>2, ChainAfterLeave
  <2>10. TypeOK'
    BY <1>10, <1>1, <2>3, <2>4, <2>5, <2>6, <2>7, <2>8 DEF CommitAcquire, TypeOK
  <2> QED BY <2>9, <2>10 DEF BaseInv
<1>11. ASSUME NEW r \in Requests, NEW dir \in Directions, CommitCharge(r, dir)
      PROVE  BaseInv'
  <2> DEFINE c == <<r, dir>>
  <2>1. c \in Calls
    BY CallFacts DEF Ops
  <2>2. HasLock(c) /\ Leave(c)
    BY <1>11 DEF CommitCharge
  <2>3. /\ queue' \in Seq(Calls) /\ bytes' \in [Calls -> Nat]
        /\ plan' \in [Calls -> PlanType]
    BY <2>1, <2>2, LeaveFacts
  <2>4. /\ daily' \in [Days -> [Keys -> Nat]]
        /\ charged' \in [Days -> [Keys -> Nat]]
    BY <1>11, <1>1, <2>1, WriteDailyType DEF CommitCharge, TypeOK
  <2>5. ChainInv'
    <3>1. \A s \in Requests : pc[s] = "acquiring" /\ <<s, "acquire">> # c
                               => pc'[s] = "acquiring"
      BY <1>11, <1>1 DEF CommitCharge, TypeOK
    <3> QED BY <3>1, <2>1, <2>2, ChainAfterLeave
  <2>6. TypeOK'
    BY <1>11, <1>1, <2>3, <2>4 DEF CommitCharge, TypeOK
  <2> QED BY <2>5, <2>6 DEF BaseInv
<1>12. ASSUME NEW r \in Requests, NEW dir \in Directions, EndCharge(r, dir)
      PROVE  BaseInv'
  <2> DEFINE c == <<r, dir>>
  <2>1. c \in Calls
    BY CallFacts DEF Ops
  <2>2. HasLock(c) /\ Leave(c)
    BY <1>12 DEF EndCharge
  <2>3. /\ queue' \in Seq(Calls) /\ bytes' \in [Calls -> Nat]
        /\ plan' \in [Calls -> PlanType]
    BY <2>1, <2>2, LeaveFacts
  <2>4. ChainInv'
    <3>1. \A s \in Requests : pc[s] = "acquiring" /\ <<s, "acquire">> # c
                               => pc'[s] = "acquiring"
      BY <1>12, <1>1 DEF EndCharge, TypeOK
    <3> QED BY <3>1, <2>1, <2>2, ChainAfterLeave
  <2>5. TypeOK'
    BY <1>12, <1>1, <2>3 DEF EndCharge, TypeOK
  <2> QED BY <2>4, <2>5 DEF BaseInv
<1>13. ASSUME NEW r \in Requests, NEW op \in Releases, DoRelease(r, op)
      PROVE  BaseInv'
  <2> DEFINE c == <<r, op>>
  <2>1. c \in Calls
    BY CallFacts DEF Ops
  <2>2. HasLock(c) /\ Leave(c)
    BY <1>13 DEF DoRelease
  <2>3. /\ queue' \in Seq(Calls) /\ bytes' \in [Calls -> Nat]
        /\ plan' \in [Calls -> PlanType]
    BY <2>1, <2>2, LeaveFacts
  <2>4. /\ cell' \in [Requests -> [Kinds -> Nat]]
        /\ instanceActive' \in [Kinds -> Nat]
    BY ZenonT(60), <1>13, <1>1, LowerType DEF DoRelease, TypeOK
  <2>5. entry' \in [Tokens -> Requests \cup {NoCell}]
    BY <1>13, <1>1 DEF DoRelease, EntryAfter, TypeOK
  <2>6. ChainInv'
    <3>1. \A s \in Requests : pc[s] = "acquiring" /\ <<s, "acquire">> # c
                               => pc'[s] = "acquiring"
      BY <1>13, <1>1 DEF DoRelease, TypeOK
    <3> QED BY <3>1, <2>1, <2>2, ChainAfterLeave
  <2>7. TypeOK'
    BY <1>13, <1>1, <2>3, <2>4, <2>5 DEF DoRelease, TypeOK
  <2> QED BY <2>6, <2>7 DEF BaseInv
<1>14. ASSUME NEW r \in Requests, NEW op \in Releases, SkipRelease(r, op)
      PROVE  BaseInv'
  <2> DEFINE c == <<r, op>>
  <2>1. c \in Calls
    BY CallFacts DEF Ops
  <2>2. HasLock(c) /\ Leave(c)
    BY <1>14 DEF SkipRelease
  <2>3. /\ queue' \in Seq(Calls) /\ bytes' \in [Calls -> Nat]
        /\ plan' \in [Calls -> PlanType]
    BY <2>1, <2>2, LeaveFacts
  <2>4. ChainInv'
    <3>1. \A s \in Requests : pc[s] = "acquiring" /\ <<s, "acquire">> # c
                               => pc'[s] = "acquiring"
      BY <1>14, <1>1 DEF SkipRelease, TypeOK
    <3> QED BY <3>1, <2>1, <2>2, ChainAfterLeave
  <2>5. TypeOK'
    BY <1>14, <1>1, <2>3 DEF SkipRelease, TypeOK
  <2> QED BY <2>4, <2>5 DEF BaseInv
<1>15. ASSUME Tick
      PROVE  BaseInv'
  <2>1. TypeOK'
    BY <1>15, <1>1, NoPlanType, QuotaAssumption DEF Tick, TypeOK
  <2>2. ChainInv'
    BY <1>15, <1>1 DEF Tick, ChainInv, NoPlan
  <2> QED BY <2>1, <2>2 DEF BaseInv
<1>16. ASSUME ClockBack
      PROVE  BaseInv'
  <2>1. TypeOK'
    BY <1>16, <1>1, NoPlanType, QuotaAssumption DEF ClockBack, TypeOK
  <2>2. ChainInv'
    BY <1>16, <1>1 DEF ClockBack, ChainInv, NoPlan
  <2> QED BY <2>1, <2>2 DEF BaseInv
<1>17. ASSUME Crash
      PROVE  BaseInv'
  <2>1. TypeOK'
    BY <1>17, <1>1, NoPlanType, QuotaAssumption DEF Crash, TypeOK
  <2>2. ChainInv'
    BY <1>17, <1>1 DEF Crash, ChainInv, NoPlan
  <2> QED BY <2>1, <2>2 DEF BaseInv
<1>18. ASSUME UNCHANGED vars
      PROVE  BaseInv'
  <2>1. TypeOK'
    BY <1>18, <1>1, NoPlanType, QuotaAssumption DEF vars, TypeOK
  <2>2. ChainInv'
    BY <1>18, <1>1 DEF vars, ChainInv, NoPlan
  <2> QED BY <2>1, <2>2 DEF BaseInv
<1> QED BY <1>2, <1>3, <1>4, <1>5, <1>6, <1>7, <1>8, <1>9, <1>10, <1>11, <1>12, <1>13, <1>14, <1>15, <1>16, <1>17, <1>18 DEF Next, Step, Caller

(* Every variable keeps its type; in particular no stored bucket ever goes *)
(* below zero, the CHECK of table quota_rate_state.                        *)
THEOREM TypeCorrect == Spec => []TypeOK
<1>1. Init => BaseInv
  BY InitBase
<1>2. BaseInv /\ [Next]_vars => BaseInv'
  BY NextBase
<1>3. BaseInv => TypeOK
  BY DEF BaseInv
<1> QED BY <1>1, <1>2, <1>3, PTL DEF Spec

-----------------------------------------------------------------------------
(* The rows change only in a commit; any other step keeps every plan that  *)
(* is still there, or makes one.                                           *)
QuietStep ==
  /\ UNCHANGED <<tok, kind, rate, daily, granted, charged>>
  /\ \A c \in Calls : plan'[c].on => plan'[c] = plan[c] /\ bytes'[c] = bytes[c]
  /\ UNCHANGED clockVars \/ Tick \/ ClockBack

Charges == Requests \X Directions

StepKind ==
  \/ QuietStep
  \/ \E r \in Requests : PlanAcquire(r)
  \/ \E c \in Charges : PlanCharge(c[1], c[2])
  \/ \E r \in Requests : /\ CommitRows(r) /\ Leave(<<r, "acquire">>)
                         /\ UNCHANGED <<tok, kind, clockVars>>
  \/ \E c \in Charges : CommitCharge(c[1], c[2])

(* Every step is one of the kinds above, as the durable rows see it. *)
LEMMA StepKinds == BaseInv /\ [Next]_vars => StepKind
<1> SUFFICES ASSUME BaseInv, [Next]_vars PROVE StepKind
  OBVIOUS
<1>1. ASSUME NEW c \in Calls, NEW b \in Nat, Enqueue(c, b), ~Outstanding(c),
             UNCHANGED <<tok, kind, plan, dbVars, histVars, clockVars>>
      PROVE  QuietStep
  <2>1. \A d \in Calls : plan[d].on => bytes'[d] = bytes[d]
    BY <1>1, EnqueueFacts
  <2> QED BY <1>1, <2>1 DEF QuietStep, dbVars, histVars
<1>2. ASSUME NEW c \in Calls, HasLock(c), Leave(c),
             UNCHANGED <<tok, kind, dbVars, histVars, clockVars>>
      PROVE  QuietStep
  <2>1. \A d \in Calls : ~plan'[d].on
    BY <1>2, LeaveFacts
  <2> QED BY <1>2, <2>1 DEF QuietStep, dbVars, histVars
<1>3. ASSUME NEW r \in Requests, Caller(r)
      PROVE  QuietStep
  <2>1. ASSUME NEW b \in ByteSizes, Acquire(r, b) PROVE QuietStep
    <3>1. <<r, "acquire">> \in Calls /\ b \in Nat
      BY CallFacts, QuotaAssumption DEF Ops
    <3>2. ~Outstanding(<<r, "acquire">>)
      BY <2>1 DEF Acquire, Outstanding, BaseInv, ChainInv
    <3> QED BY <1>1, <2>1, <3>1, <3>2 DEF Acquire
  <2>2. ASSUME NEW dir \in Directions, NEW b \in ByteSizes, ChargeBytes(r, dir, b)
        PROVE  QuietStep
    <3>1. <<r, dir>> \in Calls /\ b \in Nat
      BY CallFacts, QuotaAssumption DEF Ops
    <3> QED BY <1>1, <2>2, <3>1 DEF ChargeBytes
  <2>3. ASSUME NEW op \in Releases, Release(r, op) PROVE QuietStep
    <3>1. <<r, op>> \in Calls
      BY CallFacts DEF Ops
    <3> QED BY <1>1, <2>3, <3>1 DEF Release
  <2> QED BY <1>3, <2>1, <2>2, <2>3 DEF Caller
<1>4. ASSUME NEW r \in Requests, Step(r)
      PROVE  StepKind
  <2>1. ASSUME RejectAcquire(r) \/ FailAcquire(r) PROVE QuietStep
    <3>1. <<r, "acquire">> \in Calls
      BY CallFacts DEF Ops
    <3> QED BY <1>2, <2>1, <3>1 DEF RejectAcquire, FailAcquire
  <2>2. ASSUME NEW dir \in Directions, EndCharge(r, dir) PROVE QuietStep
    <3>1. <<r, dir>> \in Calls
      BY CallFacts DEF Ops
    <3> QED BY <1>2, <2>2, <3>1 DEF EndCharge
  <2>3. ASSUME NEW op \in Releases, DoRelease(r, op) \/ SkipRelease(r, op)
        PROVE  QuietStep
    <3>1. <<r, op>> \in Calls
      BY CallFacts DEF Ops
    <3> QED BY <1>2, <2>3, <3>1 DEF DoRelease, SkipRelease
  <2>4. ASSUME CommitAcquire(r) \/ LoseAcquire(r)
        PROVE  /\ CommitRows(r) /\ Leave(<<r, "acquire">>)
               /\ UNCHANGED <<tok, kind, clockVars>>
    BY <2>4 DEF CommitAcquire, LoseAcquire
  <2>5. ASSUME NEW dir \in Directions, PlanCharge(r, dir) \/ CommitCharge(r, dir)
        PROVE  StepKind
    <3>1. <<r, dir>> \in Charges /\ <<r, dir>>[1] = r /\ <<r, dir>>[2] = dir
      BY DEF Charges
    <3>2. CASE PlanCharge(r, dir)
      <4>1. \E c \in Charges : PlanCharge(c[1], c[2])
        BY <3>1, <3>2
      <4> QED BY <4>1 DEF StepKind
    <3>3. CASE CommitCharge(r, dir)
      <4>1. \E c \in Charges : CommitCharge(c[1], c[2])
        BY <3>1, <3>3
      <4> QED BY <4>1 DEF StepKind
    <3> QED BY <2>5, <3>2, <3>3
  <2>6. ASSUME PlanAcquire(r) PROVE StepKind
    BY <2>6 DEF StepKind
  <2> QED BY <1>4, <2>1, <2>2, <2>3, <2>4, <2>5, <2>6 DEF Step, StepKind
<1>5. ASSUME Tick \/ ClockBack PROVE QuietStep
  BY <1>5 DEF Tick, ClockBack, QuietStep, callVars, dbVars, histVars
<1>6. ASSUME Crash PROVE QuietStep
  BY <1>6 DEF Crash, QuietStep, dbVars, histVars, NoPlan
<1>7. ASSUME UNCHANGED vars PROVE QuietStep
  BY <1>7 DEF vars, QuietStep, callVars, dbVars, histVars
<1> QED BY <1>3, <1>4, <1>5, <1>6, <1>7 DEF Next, StepKind

-----------------------------------------------------------------------------
(* Daily bytes.  A planned total is the stored one plus the call's bytes,  *)
(* and stays so until it is written: the plan is not stale.                *)
KeyOf(c, k) == IF k = "token" THEN tok[c[1]] ELSE Instance

PlannedBytes(c) ==
  \A k \in {"token", "instance"} :
    /\ plan[c].used[k] = daily[dayAt(plan[c].now)][KeyOf(c, k)] + bytes[c]
    /\ plan[c].used[k] <= Quota[KeyOf(c, k)].bytesPerDay

DailyInv ==
  /\ DailyAccounting
  /\ \A c \in Calls : plan[c].on => PlannedBytes(c)

(* What a plan made by either call holds. *)
LEMMA PlanDaily ==
  ASSUME BaseInv, DailyInv, NEW c \in Calls, NEW x, NEW spend,
         BytesAllow(tok[c[1]], bytes[c], clock),
         plan' = [plan EXCEPT ![c] =
                    Planned(tok[c[1]], bytes[c], clock, x, spend)],
         UNCHANGED <<tok, bytes, daily, charged>>
  PROVE  DailyInv'
<1>1. DailyAccounting'
  BY DEF DailyInv, DailyAccounting
<1>2. ASSUME NEW d \in Calls, plan'[d].on PROVE PlannedBytes(d)'
  <2>1. CASE d # c
    <3>1. plan'[d] = plan[d]
      BY <2>1
    <3> QED BY <1>2, <3>1 DEF DailyInv, PlannedBytes, KeyOf
  <2>2. CASE d = c
    <3>1. plan'[d] = Planned(tok[d[1]], bytes[d], clock, x, spend)
      BY <2>2 DEF BaseInv, TypeOK
    <3> QED BY <2>2, <3>1 DEF PlannedBytes, KeyOf, Planned, BytesAllow
  <2> QED BY <2>1, <2>2
<1> QED BY <1>1, <1>2 DEF DailyInv

(* What the transaction of either call does to the daily rows. *)
LEMMA CommitDaily ==
  ASSUME BaseInv, DailyInv, NEW c \in Calls, HasLock(c), plan[c].on, Leave(c),
         WriteDaily(tok[c[1]], plan[c], bytes[c])
  PROVE  DailyInv'
<1> DEFINE d == dayAt(plan[c].now)
           t == tok[c[1]]
           row == [daily[d] EXCEPT ![t] = plan[c].used["token"],
                                   ![Instance] = plan[c].used["instance"]]
<1>1. /\ t \in Tokens /\ t # Instance /\ t \in Keys /\ Instance \in Keys
      /\ plan[c] \in PlanType /\ bytes[c] \in Nat
      /\ daily \in [Days -> [Keys -> Nat]] /\ charged \in [Days -> [Keys -> Nat]]
  <2>1. c[1] \in Requests
    BY DEF Calls
  <2>2. t \in Tokens
    BY <2>1 DEF BaseInv, TypeOK
  <2> QED BY <2>2, KeyFacts, QuotaAssumption DEF BaseInv, TypeOK
<1>2. d \in Days
  <2>1. plan[c].now \in 0 .. MaxClock
    BY <1>1 DEF PlanType
  <2> QED BY <2>1, KeyFacts
<1>3. charged[d] \in [Keys -> Nat] /\ daily[d] \in [Keys -> Nat]
  BY <1>1, <1>2
<1>4. /\ plan[c].used["token"] = daily[d][t] + bytes[c]
      /\ plan[c].used["token"] <= Quota[t].bytesPerDay
      /\ plan[c].used["instance"] = daily[d][Instance] + bytes[c]
      /\ plan[c].used["instance"] <= Quota[Instance].bytesPerDay
  BY DEF DailyInv, PlannedBytes, KeyOf
<1>5. \A q \in Keys : Raised(charged[d], t, bytes[c])[q] =
        IF q \in {t, Instance} THEN charged[d][q] + bytes[c] ELSE charged[d][q]
  <2>1. charged[d] \in [Keys -> Nat] /\ t \in Tokens /\ bytes[c] \in Nat
    BY <1>1, <1>3
  <2> HIDE DEF d, t
  <2> QED BY <2>1, RaisedType
<1>6. /\ daily' = [daily EXCEPT ![d] = row]
      /\ charged' = [charged EXCEPT ![d] = Raised(charged[d], t, bytes[c])]
  BY DEF WriteDaily
<1>7. \A e \in Days, q \in Keys :
        daily[e][q] = charged[e][q] /\ daily[e][q] <= Quota[q].bytesPerDay
  BY DEF DailyInv, DailyAccounting
<1>8. \A q \in Keys : row[q] = IF q = t THEN plan[c].used["token"]
                               ELSE IF q = Instance THEN plan[c].used["instance"]
                               ELSE daily[d][q]
  BY <1>1, <1>3
<1>9. \A q \in Keys : /\ row[q] = Raised(charged[d], t, bytes[c])[q]
                      /\ row[q] <= Quota[q].bytesPerDay
  <2> DEFINE raised == Raised(charged[d], t, bytes[c])
  <2>1. ASSUME NEW q \in Keys
        PROVE  /\ daily[d][q] = charged[d][q]
               /\ daily[d][q] <= Quota[q].bytesPerDay
               /\ raised[q] = IF q \in {t, Instance} THEN charged[d][q] + bytes[c]
                                                    ELSE charged[d][q]
               /\ row[q] = IF q = t THEN plan[c].used["token"]
                           ELSE IF q = Instance THEN plan[c].used["instance"]
                           ELSE daily[d][q]
    BY <1>2, <1>5, <1>7, <1>8
  <2> HIDE DEF raised, row, t, d
  <2>2. ASSUME NEW q \in Keys
        PROVE  row[q] = raised[q] /\ row[q] <= Quota[q].bytesPerDay
    <3>1. CASE q = t BY <1>1, <1>4, <2>1, <3>1
    <3>2. CASE q = Instance /\ q # t BY <1>1, <1>4, <2>1, <3>2
    <3>3. CASE q \notin {t, Instance} BY <2>1, <3>3
    <3> QED BY <3>1, <3>2, <3>3
  <2> USE DEF raised
  <2> QED BY <2>2
<1>10. DailyAccounting'
  <2> HIDE DEF row, d
  <2>1. \A e \in Days : daily'[e] = IF e = d THEN row ELSE daily[e]
    BY <1>1, <1>6
  <2>2. \A e \in Days : charged'[e] =
          IF e = d THEN Raised(charged[d], t, bytes[c]) ELSE charged[e]
    BY <1>1, <1>6
  <2> QED BY <1>7, <1>9, <2>1, <2>2 DEF DailyAccounting
<1>11. \A e \in Calls : ~plan'[e].on
  BY LeaveFacts
<1> QED BY <1>10, <1>11 DEF DailyInv

(* Every step keeps the daily rows equal to the committed charges, and every
   pending plan of a charge current. *)
LEMMA NextDaily == BaseInv /\ DailyInv /\ [Next]_vars => DailyInv'
<1> SUFFICES ASSUME BaseInv, DailyInv, StepKind PROVE DailyInv'
  BY StepKinds
<1>1. CASE QuietStep
  <2>1. DailyAccounting'
    BY <1>1 DEF QuietStep, DailyInv, DailyAccounting
  <2>2. ASSUME NEW c \in Calls, plan'[c].on PROVE PlannedBytes(c)'
    <3>1. /\ plan'[c] = plan[c] /\ bytes'[c] = bytes[c] /\ tok' = tok /\ daily' = daily
          /\ plan[c].on
      BY <1>1, <2>2 DEF QuietStep
    <3>2. PlannedBytes(c)
      BY <3>1 DEF DailyInv
    <3> QED BY <3>1, <3>2 DEF PlannedBytes, KeyOf
  <2> QED BY <2>1, <2>2 DEF DailyInv
<1>2. ASSUME NEW r \in Requests, PlanAcquire(r) PROVE DailyInv'
  <2> DEFINE c == <<r, "acquire">>
  <2>1. c \in Calls /\ c[1] = r
    BY CallFacts DEF Ops
  <2> QED BY <1>2, <2>1, PlanDaily DEF PlanAcquire, AcquireAdmissible, dbVars, histVars
<1>3. ASSUME NEW c \in Charges, PlanCharge(c[1], c[2]) PROVE DailyInv'
  <2>1. c \in Calls /\ c = <<c[1], c[2]>>
    BY DEF Charges, Calls, Ops
  <2> QED BY <1>3, <2>1, PlanDaily DEF PlanCharge, dbVars, histVars
<1>4. ASSUME NEW r \in Requests, CommitRows(r), Leave(<<r, "acquire">>) PROVE DailyInv'
  <2> DEFINE c == <<r, "acquire">>
  <2>1. c \in Calls /\ c[1] = r
    BY CallFacts DEF Ops
  <2>2. HasLock(c) /\ plan[c].on /\ WriteDaily(tok[c[1]], plan[c], bytes[c])
    BY <1>4, <2>1 DEF CommitRows
  <2> QED BY <1>4, <2>1, <2>2, CommitDaily
<1>5. ASSUME NEW c \in Charges, CommitCharge(c[1], c[2]) PROVE DailyInv'
  <2>1. c \in Calls /\ c = <<c[1], c[2]>>
    BY DEF Charges, Calls, Ops
  <2>2. /\ HasLock(c) /\ plan[c].on /\ Leave(c)
        /\ WriteDaily(tok[c[1]], plan[c], bytes[c])
    BY <1>5, <2>1 DEF CommitCharge
  <2> QED BY <2>1, <2>2, CommitDaily
<1> QED BY <1>1, <1>2, <1>3, <1>4, <1>5 DEF StepKind

(* Nothing is charged and nothing planned at the start. *)
LEMMA InitDaily == Init => DailyInv
<1> SUFFICES ASSUME Init PROVE DailyInv
  OBVIOUS
<1>1. DailyAccounting
  BY KeyFacts DEF Init, DailyAccounting
<1> QED BY <1>1 DEF Init, DailyInv, NoPlan

(* Each daily row of quota_daily_usage is the sum of the committed charges *)
(* of that day and never exceeds bytesPerDay.                              *)
THEOREM DailyAccountingHolds == Spec => []DailyAccounting
<1>1. Init => BaseInv /\ DailyInv
  BY InitBase, InitDaily
<1>2. BaseInv /\ DailyInv /\ [Next]_vars => (BaseInv /\ DailyInv)'
  BY NextBase, NextDaily
<1>3. BaseInv /\ DailyInv => DailyAccounting
  BY DEF DailyInv
<1> QED BY <1>1, <1>2, <1>3, PTL DEF Spec

-----------------------------------------------------------------------------
(* Rates.  A bucket of q that held tokens at time then, after n grants, is *)
(* covered at time now if its burst and the refill of el ticks pay for the *)
(* grants, for the tokens left and for the refill not yet collected.       *)
Covered(q, tokens, n, then, now, el) ==
  tokens + n * Minute + Since(now, then) * Quota[q].requestsPerMinute
    <= Quota[q].burst * Minute + el * Quota[q].requestsPerMinute

PlannedRate(c) ==
  \A k \in {"token", "instance"} :
    Covered(KeyOf(c, k), plan[c].rate[k], granted[KeyOf(c, k)] + 1,
            plan[c].now, clock, elapsed)

RateInv ==
  /\ \A q \in Keys : Covered(q, rate[q].tokens, granted[q],
                             rate[q].updated_at, clock, elapsed)
  /\ \A c \in Calls : plan[c].on /\ c[2] = "acquire" => PlannedRate(c)

(* Multiplication distributes over the sums of the rate argument. *)
LEMMA Distribute ==
  \A a, b, c \in Int : (a + b) * c = a * c + b * c /\ 1 * c = c /\ 0 * c = 0
OBVIOUS

(* A product of natural numbers is one. *)
LEMMA ProductNat == \A a, b \in Nat : a * b \in Nat
OBVIOUS

(* The wall clock may stand still, advance (paid for by el) or go back. *)
LEMMA ClockCovered ==
  ASSUME NEW q \in Keys, NEW tokens \in Int, NEW n \in Nat, NEW then \in Nat,
         NEW now \in Nat, NEW el \in Nat, NEW now2 \in Nat, NEW el2 \in Nat,
         Covered(q, tokens, n, then, now, el),
         \/ now2 = now /\ el2 = el
         \/ now2 = now + 1 /\ el2 = el + 1
         \/ now2 = now - 1 /\ el2 = el
  PROVE  Covered(q, tokens, n, then, now2, el2)
<1> DEFINE R == Quota[q].requestsPerMinute
           s == Since(now, then)
           s2 == Since(now2, then)
           B == Quota[q].burst * Minute
           N == n * Minute
<1>1. R \in Nat /\ s \in Nat /\ s2 \in Nat /\ B \in Nat /\ N \in Nat
  BY KeyFacts, QuotaAssumption DEF Since
<1>2. tokens + N + s * R <= B + el * R
  BY DEF Covered
<1>3. \/ s2 = s /\ el2 = el
      \/ s2 = s /\ el2 = el + 1
      \/ s2 = s + 1 /\ el2 = el + 1
      \/ s2 + 1 = s /\ el2 = el
  BY DEF Since
<1> HIDE DEF R, s, s2, B, N
<1>4. s * R \in Nat /\ el * R \in Nat /\ s2 * R \in Nat
  BY <1>1, ProductNat
<1>5. /\ (s + 1) * R = s * R + R
      /\ (s2 + 1) * R = s2 * R + R
      /\ (el + 1) * R = el * R + R
  BY <1>1, Distribute
<1>6. tokens + N + s2 * R <= B + el2 * R
  <2>1. CASE s2 = s /\ el2 = el
    BY <1>2, <2>1
  <2>2. CASE s2 = s /\ el2 = el + 1
    BY <1>1, <1>2, <1>4, <1>5, <2>2
  <2>3. CASE s2 = s + 1 /\ el2 = el + 1
    BY <1>1, <1>2, <1>4, <1>5, <2>3
  <2>4. CASE s2 + 1 = s /\ el2 = el
    BY <1>1, <1>2, <1>4, <1>5, <2>4
  <2> QED BY <1>3, <2>1, <2>2, <2>3, <2>4
<1> QED BY <1>6 DEF Covered, R, s2, B, N

(* The numbers the rate argument is about are natural numbers. *)
LEMMA RowTypes ==
  ASSUME BaseInv, NEW q \in Keys
  PROVE  /\ rate[q].tokens \in Nat /\ rate[q].updated_at \in Nat
         /\ granted[q] \in Nat /\ clock \in Nat /\ elapsed \in Nat
         /\ Since(clock, rate[q].updated_at) \in Nat
<1>1. /\ rate[q].tokens \in Nat /\ rate[q].updated_at \in 0 .. MaxClock
      /\ granted[q] \in Nat /\ clock \in 0 .. MaxClock /\ elapsed \in Nat
  BY DEF BaseInv, TypeOK
<1> QED BY <1>1, QuotaAssumption DEF Since

(* Taking one request out of the refilled bucket stays covered. *)
LEMMA SpendCovered ==
  ASSUME BaseInv, NEW q \in Keys,
         Covered(q, rate[q].tokens, granted[q], rate[q].updated_at, clock, elapsed)
  PROVE  Covered(q, Available(q, clock) - Minute, granted[q] + 1, clock, clock, elapsed)
<1> DEFINE R == Quota[q].requestsPerMinute
           s == Since(clock, rate[q].updated_at)
           B == Quota[q].burst * Minute
           n == granted[q]
<1>1. /\ R \in Nat /\ B \in Nat /\ n \in Nat /\ Minute \in Nat /\ s \in Nat
      /\ rate[q].tokens \in Nat /\ elapsed \in Nat /\ clock \in Nat
  BY KeyFacts, RowTypes, QuotaAssumption, ProductNat
<1>2. Available(q, clock) <= rate[q].tokens + s * R
      /\ Available(q, clock) \in Int
  <2>1. s * R \in Nat
    BY <1>1, ProductNat
  <2> HIDE DEF s, B, R
  <2> QED BY <1>1, <2>1 DEF Available, Lesser, s, B, R
<1>3. rate[q].tokens + n * Minute + s * R <= B + elapsed * R
  BY DEF Covered
<1>4. Since(clock, clock) = 0
  BY <1>1 DEF Since
<1> HIDE DEF R, s, B, n
<1>5. (n + 1) * Minute = n * Minute + Minute /\ 0 * R = 0
  BY <1>1, Distribute
<1>6. n * Minute \in Nat /\ s * R \in Nat /\ elapsed * R \in Nat
  BY <1>1, ProductNat
<1>7. Available(q, clock) - Minute + (n + 1) * Minute + 0 * R <= B + elapsed * R
  BY <1>1, <1>2, <1>3, <1>5, <1>6
<1> QED BY <1>4, <1>7 DEF Covered, R, B, n

(* Every step keeps each stored and each planned bucket covered by what the
   clock has paid for. *)
LEMMA NextRate == BaseInv /\ RateInv /\ [Next]_vars => RateInv'
<1> SUFFICES ASSUME BaseInv, RateInv, StepKind, BaseInv' PROVE RateInv'
  BY StepKinds, NextBase
<1>1. /\ \A q \in Keys : rate[q].tokens \in Nat /\ rate[q].updated_at \in Nat
                         /\ granted[q] \in Nat
      /\ \A c \in Calls : /\ plan[c].now \in Nat
                          /\ \A k \in {"token", "instance"} :
                               plan[c].rate[k] \in Int /\ KeyOf(c, k) \in Keys
      /\ clock \in Nat /\ elapsed \in Nat /\ clock' \in Nat /\ elapsed' \in Nat
  <2>1. \A c \in Calls : plan[c] \in PlanType /\ tok[c[1]] \in Tokens
    BY DEF BaseInv, TypeOK, Calls
  <2>2. \A c \in Calls : /\ plan[c].now \in Nat
                         /\ \A k \in {"token", "instance"} : plan[c].rate[k] \in Int
    BY <2>1, QuotaAssumption DEF PlanType
  <2>3. \A c \in Calls, k \in {"token", "instance"} : KeyOf(c, k) \in Keys
    BY <2>1, KeyFacts DEF KeyOf
  <2> QED BY <2>2, <2>3, QuotaAssumption DEF BaseInv, TypeOK
<1>2. CASE QuietStep
  <2>1. \/ clock' = clock /\ elapsed' = elapsed
        \/ clock' = clock + 1 /\ elapsed' = elapsed + 1
        \/ clock' = clock - 1 /\ elapsed' = elapsed
    BY <1>2 DEF QuietStep, Tick, ClockBack, clockVars
  <2>2. rate' = rate /\ granted' = granted /\ tok' = tok
    BY <1>2 DEF QuietStep
  <2>3. ASSUME NEW q \in Keys
        PROVE  Covered(q, rate[q].tokens, granted[q], rate[q].updated_at,
                       clock', elapsed')
    <3>1. Covered(q, rate[q].tokens, granted[q], rate[q].updated_at,
                  clock, elapsed)
      BY DEF RateInv
    <3>2. rate[q].tokens \in Int
      BY <1>1
    <3> QED BY <1>1, <2>1, <3>1, <3>2, ClockCovered
  <2>4. ASSUME NEW c \in Calls, plan'[c].on, c[2] = "acquire",
               NEW k \in {"token", "instance"}
        PROVE  Covered(KeyOf(c, k), plan[c].rate[k], granted[KeyOf(c, k)] + 1,
                       plan[c].now, clock', elapsed')
    <3>1. plan[c].on
      BY <1>2, <2>4 DEF QuietStep
    <3>2. Covered(KeyOf(c, k), plan[c].rate[k], granted[KeyOf(c, k)] + 1,
                  plan[c].now, clock, elapsed)
      BY <2>4, <3>1 DEF RateInv, PlannedRate
    <3>3. /\ granted[KeyOf(c, k)] + 1 \in Nat /\ KeyOf(c, k) \in Keys
          /\ plan[c].rate[k] \in Int /\ plan[c].now \in Nat
      BY <1>1
    <3> QED BY <1>1, <2>1, <3>2, <3>3, ClockCovered
  <2>5. \A c \in Calls : plan'[c].on => plan'[c] = plan[c]
    BY <1>2 DEF QuietStep
  <2> QED BY <2>2, <2>3, <2>4, <2>5 DEF RateInv, PlannedRate, KeyOf
<1>3. ASSUME NEW r \in Requests, PlanAcquire(r) PROVE RateInv'
  <2> DEFINE c == <<r, "acquire">>
  <2>1. c \in Calls /\ c[1] = r
    BY CallFacts DEF Ops
  <2>2. /\ UNCHANGED <<rate, granted, tok, clock, elapsed>>
        /\ plan' = [plan EXCEPT ![c] =
             Planned(tok[r], bytes[c], clock, ActiveCell(r), Minute)]
    BY <1>3 DEF PlanAcquire, dbVars, histVars, clockVars
  <2>3. ASSUME NEW k \in {"token", "instance"}
        PROVE  Covered(KeyOf(c, k), Available(KeyOf(c, k), clock) - Minute,
                       granted[KeyOf(c, k)] + 1, clock, clock, elapsed)
    BY <1>1, <2>1, SpendCovered DEF RateInv
  <2>4. /\ plan'[c].now = clock
        /\ \A k \in {"token", "instance"} :
             plan'[c].rate[k] = Available(KeyOf(c, k), clock) - Minute
    BY <2>1, <2>2 DEF BaseInv, TypeOK, Planned, KeyOf
  <2>5. PlannedRate(c)'
    BY <2>2, <2>3, <2>4 DEF PlannedRate, KeyOf
  <2>6. \A d \in Calls : d # c => plan'[d] = plan[d]
    BY <2>1, <2>2 DEF BaseInv, TypeOK
  <2>7. ASSUME NEW d \in Calls, plan'[d].on, d[2] = "acquire", d # c
        PROVE  PlannedRate(d)'
    BY <2>2, <2>6, <2>7 DEF RateInv, PlannedRate, KeyOf
  <2> QED BY <2>2, <2>5, <2>7 DEF RateInv
<1>4. ASSUME NEW c \in Charges, PlanCharge(c[1], c[2]) PROVE RateInv'
  <2>1. c \in Calls /\ c = <<c[1], c[2]>> /\ c[2] # "acquire"
    BY QuotaAssumption DEF Charges, Calls, Ops
  <2>2. UNCHANGED <<rate, granted, tok, clock, elapsed>>
    BY <1>4 DEF PlanCharge, dbVars, histVars, clockVars
  <2>3. \A d \in Calls : d # c => plan'[d] = plan[d]
    BY <1>4, <2>1 DEF PlanCharge, BaseInv, TypeOK
  <2>4. ASSUME NEW d \in Calls, plan'[d].on, d[2] = "acquire"
        PROVE  PlannedRate(d)'
    <3>1. plan'[d] = plan[d]
      BY <2>1, <2>3, <2>4
    <3> QED BY <2>2, <2>4, <3>1 DEF RateInv, PlannedRate, KeyOf
  <2> QED BY <2>2, <2>4 DEF RateInv
<1>5. ASSUME NEW r \in Requests, CommitRows(r), Leave(<<r, "acquire">>),
             UNCHANGED <<tok, kind, clockVars>>
      PROVE  RateInv'
  <2> DEFINE c == <<r, "acquire">>
             p == plan[c]
  <2>1. c \in Calls /\ c[1] = r /\ tok[r] \in Tokens /\ tok[r] # Instance
    BY CallFacts, QuotaAssumption DEF Ops, BaseInv, TypeOK
  <2>2. HasLock(c) /\ plan[c].on /\ clock' = clock /\ elapsed' = elapsed
    BY <1>5 DEF CommitRows, clockVars
  <2>3. \A d \in Calls : ~plan'[d].on
    BY <1>5, <2>1, <2>2, LeaveFacts
  <2>4. \A q \in Keys : granted'[q] =
          IF q \in {tok[r], Instance} THEN granted[q] + 1 ELSE granted[q]
    <3>1. granted \in [Keys -> Nat] /\ granted' = Raised(granted, tok[r], 1)
      BY <1>5 DEF BaseInv, TypeOK, CommitRows
    <3> QED BY <2>1, <3>1, RaisedType
  <2>5. \A q \in Keys :
          rate'[q] = IF q = tok[r] THEN RateRow(q, p.rate["token"], p.now)
                     ELSE IF q = Instance THEN RateRow(q, p.rate["instance"], p.now)
                     ELSE rate[q]
    BY <1>5, <2>1 DEF CommitRows, BaseInv, TypeOK
  <2>6. ASSUME NEW k \in {"token", "instance"}
        PROVE  Covered(KeyOf(c, k), p.rate[k], granted[KeyOf(c, k)] + 1,
                       p.now, clock, elapsed)
    BY <2>1, <2>2 DEF RateInv, PlannedRate
  <2>7. ASSUME NEW q \in Keys
        PROVE  Covered(q, rate'[q].tokens, granted'[q], rate'[q].updated_at,
                       clock, elapsed)
    <3>1. CASE q = tok[r]
      <4>1. rate'[q].tokens = p.rate["token"] /\ rate'[q].updated_at = p.now
        BY <2>5, <3>1 DEF RateRow
      <4>2. granted'[q] = granted[q] + 1 /\ KeyOf(c, "token") = q
        BY <2>1, <2>4, <3>1 DEF KeyOf
      <4> QED BY <2>6, <4>1, <4>2
    <3>2. CASE q = Instance
      <4>1. rate'[q].tokens = p.rate["instance"] /\ rate'[q].updated_at = p.now
        BY <2>1, <2>5, <3>2 DEF RateRow
      <4>2. granted'[q] = granted[q] + 1 /\ KeyOf(c, "instance") = q
        BY <2>1, <2>4, <3>2 DEF KeyOf
      <4> QED BY <2>6, <4>1, <4>2
    <3>3. CASE q \notin {tok[r], Instance}
      <4>1. rate'[q] = rate[q] /\ granted'[q] = granted[q]
        BY <2>4, <2>5, <3>3
      <4> QED BY <4>1 DEF RateInv
    <3> QED BY <3>1, <3>2, <3>3
  <2> QED BY <2>2, <2>3, <2>7 DEF RateInv
<1>6. ASSUME NEW c \in Charges, CommitCharge(c[1], c[2]) PROVE RateInv'
  <2>1. c \in Calls /\ c = <<c[1], c[2]>>
    BY DEF Charges, Calls, Ops
  <2>2. HasLock(c) /\ Leave(c) /\ UNCHANGED <<rate, granted, clock, elapsed>>
    BY <1>6, <2>1 DEF CommitCharge, clockVars
  <2>3. \A d \in Calls : ~plan'[d].on
    BY <2>1, <2>2, LeaveFacts
  <2> QED BY <2>2, <2>3 DEF RateInv
<1> QED BY <1>2, <1>3, <1>4, <1>5, <1>6 DEF StepKind

(* Every bucket starts full, and nothing is granted. *)
LEMMA InitRate == Init => RateInv
<1> SUFFICES ASSUME Init PROVE RateInv
  OBVIOUS
<1>1. ASSUME NEW q \in Keys
      PROVE  Covered(q, rate[q].tokens, granted[q], rate[q].updated_at,
                     clock, elapsed)
  <2>1. /\ rate[q].tokens = Quota[q].burst * Minute /\ rate[q].updated_at = 0
        /\ granted[q] = 0 /\ clock = 0 /\ elapsed = 0
    BY DEF Init
  <2>2. Quota[q].burst * Minute \in Nat /\ Minute \in Nat
        /\ Quota[q].requestsPerMinute \in Nat
    BY KeyFacts, QuotaAssumption, ProductNat
  <2> QED BY <2>1, <2>2, Distribute DEF Covered, Since
<1> QED BY <1>1 DEF Init, RateInv, NoPlan

(* No key is ever granted more than its burst plus its rate times the time *)
(* that has passed, whatever crashes, clock corrections and interleavings. *)
THEOREM RateBoundHolds == Spec => []RateBound
<1>1. Init => BaseInv /\ RateInv
  BY InitBase, InitRate
<1>2. BaseInv /\ RateInv /\ [Next]_vars => (BaseInv /\ RateInv)'
  BY NextBase, NextRate
<1>3. BaseInv /\ RateInv => RateBound
  <2> SUFFICES ASSUME BaseInv, RateInv, NEW q \in Keys
               PROVE  granted[q] * Minute <= Quota[q].burst * Minute
                        + elapsed * Quota[q].requestsPerMinute
    BY DEF RateBound
  <2> DEFINE s == Since(clock, rate[q].updated_at)
  <2>1. /\ rate[q].tokens \in Nat /\ granted[q] \in Nat /\ elapsed \in Nat
        /\ s \in Nat /\ Minute \in Nat /\ Quota[q].burst \in Nat
        /\ Quota[q].requestsPerMinute \in Nat
    BY KeyFacts, RowTypes, QuotaAssumption
  <2>2. /\ granted[q] * Minute \in Nat /\ Quota[q].burst * Minute \in Nat
        /\ s * Quota[q].requestsPerMinute \in Nat
        /\ elapsed * Quota[q].requestsPerMinute \in Nat
    BY <2>1, ProductNat
  <2>3. rate[q].tokens + granted[q] * Minute + s * Quota[q].requestsPerMinute
          <= Quota[q].burst * Minute + elapsed * Quota[q].requestsPerMinute
    BY DEF RateInv, Covered
  <2> HIDE DEF s
  <2> QED BY <2>1, <2>2, <2>3
<1> QED BY <1>1, <1>2, <1>3, PTL DEF Spec

-----------------------------------------------------------------------------
(* Concurrency.  The ActiveState object the map holds for a token counts   *)
(* that token's live leases, every live lease holds that very object, and  *)
(* no object is shared by two tokens or counts for a request not yet let   *)
(* in.                                                                     *)
Zero == [k \in Kinds |-> 0]

CellInv ==
  /\ \A t \in Tokens : entry[t] # NoCell =>
       /\ tok[entry[t]] = t
       /\ pc[entry[t]] \notin {"idle", "acquiring"}
  /\ \A r \in Requests : pc[r] = "leased" =>
       cellOf[r] = entry[tok[r]] /\ cellOf[r] # NoCell
  /\ \A r \in Requests : pc[r] \in {"idle", "acquiring"} => cell[r] = Zero

CountInv ==
  /\ \A t \in Tokens, k \in Kinds :
       Cardinality(Leases(t, k)) = IF entry[t] = NoCell THEN 0 ELSE cell[entry[t]][k]
  /\ \A k \in Kinds : instanceActive[k] = Cardinality(LeasesOf(k))

PlannedSlot(r) ==
  plan[<<r, "acquire">>].on =>
    plan[<<r, "acquire">>].cell = ActiveCell(r) /\ ConcurrencyAllows(r)

SlotInv ==
  /\ CellInv
  /\ CountInv
  /\ \A r \in Requests : PlannedSlot(r)
  /\ ConcurrencyBound

(* The live leases are finitely many. *)
LEMMA LeaseSets ==
  ASSUME NEW t, NEW k
  PROVE  /\ IsFiniteSet(Leases(t, k)) /\ Cardinality(Leases(t, k)) \in Nat
         /\ IsFiniteSet(LeasesOf(k)) /\ Cardinality(LeasesOf(k)) \in Nat
<1>1. Leases(t, k) \subseteq Requests /\ LeasesOf(k) \subseteq Requests
  BY DEF Leases, LeasesOf
<1> QED BY <1>1, QuotaAssumption, FS_Subset, FS_CardinalityType

(* A step that neither gives nor takes a lease. *)
LEMMA SlotsKept ==
  ASSUME BaseInv, SlotInv, UNCHANGED <<tok, kind, memVars>>,
         \A r \in Requests :
           /\ \/ pc'[r] = pc[r]
              \/ pc[r] = "idle" /\ pc'[r] = "acquiring"
              \/ pc[r] = "acquiring" /\ pc'[r] = "closed"
           /\ \/ ~plan'[<<r, "acquire">>].on
              \/ plan'[<<r, "acquire">>] = plan[<<r, "acquire">>]
              \/ /\ plan'[<<r, "acquire">>].cell = ActiveCell(r)
                 /\ ConcurrencyAllows(r)
  PROVE  SlotInv'
<1> USE DEF memVars
<1>1. \A r \in Requests : pc'[r] = "leased" <=> pc[r] = "leased"
  OBVIOUS
<1>2. \A t, k : Leases(t, k)' = Leases(t, k)
  BY <1>1 DEF Leases
<1>3. \A k : LeasesOf(k)' = LeasesOf(k)
  BY <1>1 DEF LeasesOf
<1>4. CellInv'
  <2>1. \A t \in Tokens : entry[t] # NoCell =>
          entry[t] \in Requests /\ pc'[entry[t]] \notin {"idle", "acquiring"}
    <3>1. \A t \in Tokens : entry[t] # NoCell => entry[t] \in Requests
      BY DEF BaseInv, TypeOK
    <3>2. \A t \in Tokens : entry[t] # NoCell =>
            pc[entry[t]] \notin {"idle", "acquiring"}
      BY DEF SlotInv, CellInv
    <3>3. \A x \in Requests : pc[x] \notin {"idle", "acquiring"} =>
            pc'[x] \notin {"idle", "acquiring"}
      OBVIOUS
    <3> QED BY <3>1, <3>2, <3>3
  <2>2. \A r \in Requests : pc'[r] \in {"idle", "acquiring"}
                              => pc[r] \in {"idle", "acquiring"}
    OBVIOUS
  <2> QED BY <1>1, <2>1, <2>2 DEF SlotInv, CellInv
<1>5. CountInv'
  BY <1>2, <1>3 DEF SlotInv, CountInv
<1>6. ConcurrencyBound'
  BY <1>2, <1>3 DEF SlotInv, ConcurrencyBound
<1>7. \A r \in Requests : PlannedSlot(r)'
  <2> SUFFICES ASSUME NEW r \in Requests PROVE PlannedSlot(r)'
    OBVIOUS
  <2>1. ActiveCell(r)' = ActiveCell(r) /\ (ConcurrencyAllows(r)' <=> ConcurrencyAllows(r))
    BY DEF ActiveCell, ConcurrencyAllows
  <2> QED BY <2>1 DEF PlannedSlot, SlotInv
<1> QED BY <1>4, <1>5, <1>6, <1>7 DEF SlotInv

(* CommitAcquire: one more lease, counted in the token's object. *)
LEMMA CommitSlots ==
  ASSUME BaseInv, SlotInv, NEW r \in Requests, CommitAcquire(r)
  PROVE  SlotInv'
<1> DEFINE c == <<r, "acquire">>
           x == plan[c].cell
           t == tok[r]
           k == kind[r]
<1>1. /\ c \in Calls /\ HasLock(c) /\ plan[c].on /\ Leave(c)
      /\ t \in Tokens /\ k \in Kinds
  BY CallFacts DEF Ops, CommitAcquire, CommitRows, BaseInv, TypeOK
<1>2. pc[r] = "acquiring"
  <2>1. 1 \in 1 .. Len(queue) /\ queue[1] = c
    BY <1>1 DEF HasLock, BaseInv, TypeOK
  <2> QED BY <2>1 DEF BaseInv, ChainInv
<1>3. x = ActiveCell(r) /\ ConcurrencyAllows(r)
  BY <1>1 DEF SlotInv, PlannedSlot
<1>4. /\ x \in Requests /\ tok[x] = t
      /\ x = r \/ (entry[t] = x /\ x # r /\ pc[x] \notin {"idle", "acquiring"})
      /\ entry[t] # NoCell => x = entry[t]
      /\ entry[t] = NoCell => x = r
  BY <1>1, <1>2, <1>3 DEF ActiveCell, SlotInv, CellInv, BaseInv, TypeOK
<1>5. /\ pc' = [pc EXCEPT ![r] = "leased"] /\ tok' = tok /\ kind' = kind
      /\ cell' = [cell EXCEPT ![x][k] = @ + 1]
      /\ instanceActive' = [instanceActive EXCEPT ![k] = @ + 1]
      /\ entry' = [entry EXCEPT ![t] = x]
      /\ cellOf' = [cellOf EXCEPT ![r] = x]
  BY DEF CommitAcquire
<1>6. \A j \in Kinds : cell[x][j] = Cardinality(Leases(t, j))
  <2>1. CASE entry[t] = NoCell
    BY <1>1, <1>2, <1>4, <2>1 DEF SlotInv, CountInv, CellInv, Zero
  <2>2. CASE entry[t] # NoCell
    BY <1>1, <1>4, <2>2 DEF SlotInv, CountInv
  <2> QED BY <2>1, <2>2
<1>7. /\ cell \in [Requests -> [Kinds -> Nat]] /\ instanceActive \in [Kinds -> Nat]
      /\ entry \in [Tokens -> Requests \cup {NoCell}] /\ pc \in [Requests -> {"idle", "acquiring", "leased", "closed"}]
      /\ cellOf \in [Requests -> Requests \cup {NoCell}]
  BY DEF BaseInv, TypeOK
<1>8. /\ \A u \in Tokens, j \in Kinds : Leases(u, j)' =
           IF u = t /\ j = k THEN Leases(u, j) \cup {r} ELSE Leases(u, j)
      /\ \A j \in Kinds : LeasesOf(j)' =
           IF j = k THEN LeasesOf(j) \cup {r} ELSE LeasesOf(j)
      /\ \A u, j : r \notin Leases(u, j) /\ r \notin LeasesOf(j)
  BY <1>2, <1>5, <1>7 DEF Leases, LeasesOf
<1>9. /\ \A u \in Tokens, j \in Kinds : Cardinality(Leases(u, j)') =
           Cardinality(Leases(u, j)) + (IF u = t /\ j = k THEN 1 ELSE 0)
      /\ \A j \in Kinds : Cardinality(LeasesOf(j)') =
           Cardinality(LeasesOf(j)) + (IF j = k THEN 1 ELSE 0)
  <2>1. \A u, j : /\ Cardinality(Leases(u, j) \cup {r}) = Cardinality(Leases(u, j)) + 1
                  /\ Cardinality(LeasesOf(j) \cup {r}) = Cardinality(LeasesOf(j)) + 1
                  /\ Cardinality(Leases(u, j)) \in Nat /\ Cardinality(LeasesOf(j)) \in Nat
    BY <1>8, LeaseSets, FS_AddElement
  <2>2. ASSUME NEW u \in Tokens, NEW j \in Kinds
        PROVE  Cardinality(Leases(u, j)') =
                 Cardinality(Leases(u, j)) + (IF u = t /\ j = k THEN 1 ELSE 0)
    <3>1. CASE u = t /\ j = k
      <4>1. Leases(u, j)' = Leases(u, j) \cup {r}
        BY <1>8, <3>1
      <4> QED BY <2>1, <3>1, <4>1
    <3>2. CASE ~(u = t /\ j = k)
      <4>1. Leases(u, j)' = Leases(u, j)
        BY <1>8, <3>2
      <4> QED BY <2>1, <3>2, <4>1
    <3> QED BY <3>1, <3>2
  <2>3. ASSUME NEW j \in Kinds
        PROVE  Cardinality(LeasesOf(j)') =
                 Cardinality(LeasesOf(j)) + (IF j = k THEN 1 ELSE 0)
    <3>1. CASE j = k
      <4>1. LeasesOf(j)' = LeasesOf(j) \cup {r}
        BY <1>8, <3>1
      <4> QED BY <2>1, <3>1, <4>1
    <3>2. CASE j # k
      <4>1. LeasesOf(j)' = LeasesOf(j)
        BY <1>8, <3>2
      <4> QED BY <2>1, <3>2, <4>1
    <3> QED BY <3>1, <3>2
  <2> QED BY <2>2, <2>3
<1>10. /\ \A y \in Requests : y # x => cell'[y] = cell[y]
       /\ \A j \in Kinds : cell'[x][j] = IF j = k THEN cell[x][j] + 1 ELSE cell[x][j]
  BY <1>1, <1>4, <1>5, <1>7
<1>11. \A u \in Tokens : u # t => entry'[u] = entry[u] /\ entry'[u] # x
  <2>1. \A u \in Tokens : entry[u] # NoCell => tok[entry[u]] = u
    BY DEF SlotInv, CellInv
  <2> QED BY <1>4, <1>5, <1>7, <2>1, QuotaAssumption
<1>12. entry'[t] = x /\ x # NoCell
  BY <1>1, <1>4, <1>5, <1>7, QuotaAssumption
<1>13. CountInv'
  <2>1. ASSUME NEW u \in Tokens, NEW j \in Kinds
        PROVE  Cardinality(Leases(u, j)') =
                 IF entry'[u] = NoCell THEN 0 ELSE cell'[entry'[u]][j]
    <3>0. Cardinality(Leases(u, j)') =
            Cardinality(Leases(u, j)) + (IF u = t /\ j = k THEN 1 ELSE 0)
      BY <1>9
    <3>1. CASE u # t
      <4>1. entry'[u] = entry[u] /\ entry[u] # x /\ entry[u] \in Requests \cup {NoCell}
        BY <1>7, <1>11, <3>1
      <4>2. Cardinality(Leases(u, j)) = IF entry[u] = NoCell THEN 0 ELSE cell[entry[u]][j]
        BY DEF SlotInv, CountInv
      <4>3. Cardinality(Leases(u, j)) \in Nat
        BY LeaseSets
      <4> QED BY <1>10, <3>0, <3>1, <4>1, <4>2, <4>3
    <3>2. CASE u = t
      <4>1. cell[x][j] = Cardinality(Leases(u, j)) /\ Cardinality(Leases(u, j)) \in Nat
        BY <1>6, <3>2, LeaseSets
      <4> QED BY <1>10, <1>12, <3>0, <3>2, <4>1
    <3> QED BY <3>1, <3>2
  <2>2. ASSUME NEW j \in Kinds
        PROVE  instanceActive'[j] = Cardinality(LeasesOf(j)')
    <3>1. instanceActive[j] = Cardinality(LeasesOf(j))
      BY DEF SlotInv, CountInv
    <3>2. Cardinality(LeasesOf(j)) \in Nat
      BY LeaseSets
    <3> QED BY <1>1, <1>5, <1>7, <1>9, <3>1, <3>2
  <2> QED BY <2>1, <2>2 DEF CountInv
<1>14. CellInv'
  <2>1. ASSUME NEW u \in Tokens, entry'[u] # NoCell
        PROVE  tok'[entry'[u]] = u /\ pc'[entry'[u]] \notin {"idle", "acquiring"}
    <3>1. CASE u = t
      BY <1>4, <1>5, <1>7, <1>12, <3>1
    <3>2. CASE u # t
      <4>1. entry'[u] = entry[u] /\ entry[u] # NoCell /\ entry[u] \in Requests
        BY <1>7, <1>11, <2>1, <3>2
      <4>2. tok[entry[u]] = u /\ pc[entry[u]] \notin {"idle", "acquiring"}
        BY <4>1 DEF SlotInv, CellInv
      <4> QED BY <1>5, <1>7, <4>1, <4>2
    <3> QED BY <3>1, <3>2
  <2>2. ASSUME NEW s \in Requests, pc'[s] = "leased"
        PROVE  cellOf'[s] = entry'[tok'[s]] /\ cellOf'[s] # NoCell
    <3>1. CASE s = r
      BY <1>5, <1>7, <1>12, <3>1
    <3>2. CASE s # r
      <4>1. pc[s] = "leased" /\ cellOf'[s] = cellOf[s] /\ tok[s] \in Tokens
        BY <1>5, <1>7, <2>2, <3>2 DEF BaseInv, TypeOK
      <4>2. cellOf[s] = entry[tok[s]] /\ cellOf[s] # NoCell
        BY <4>1 DEF SlotInv, CellInv
      <4>3. entry'[tok[s]] = entry[tok[s]]
        BY <1>4, <1>11, <1>12, <4>1, <4>2
      <4> QED BY <1>5, <4>1, <4>2, <4>3
    <3> QED BY <3>1, <3>2
  <2>3. ASSUME NEW s \in Requests, pc'[s] \in {"idle", "acquiring"}
        PROVE  cell'[s] = Zero
    <3>1. s # r /\ pc[s] \in {"idle", "acquiring"}
      BY <1>5, <1>7, <2>3
    <3>2. s # x /\ cell[s] = Zero
      BY <1>4, <3>1 DEF SlotInv, CellInv
    <3> QED BY <1>10, <3>2
  <2> QED BY <2>1, <2>2, <2>3 DEF CellInv, Zero
<1>15. \A s \in Requests : PlannedSlot(s)'
  <2>1. \A d \in Calls : ~plan'[d].on
    BY <1>1, LeaveFacts
  <2> QED BY <2>1, CallFacts DEF PlannedSlot, Ops
<1>16. ConcurrencyBound'
  <2>1. /\ Cardinality(Leases(t, k)) < Quota[t].concurrent[k]
        /\ Cardinality(LeasesOf(k)) < Quota[Instance].concurrent[k]
    <3>1. instanceActive[k] = Cardinality(LeasesOf(k))
      BY <1>1 DEF SlotInv, CountInv
    <3> QED BY <1>1, <1>3, <1>6, <3>1 DEF ConcurrencyAllows
  <2>2. /\ Quota[t].concurrent[k] \in Nat /\ Quota[Instance].concurrent[k] \in Nat
        /\ Cardinality(Leases(t, k)) \in Nat /\ Cardinality(LeasesOf(k)) \in Nat
    BY <1>1, KeyFacts, LeaseSets
  <2>3. ASSUME NEW j \in Kinds
        PROVE  Cardinality(LeasesOf(j)') <= Quota[Instance].concurrent[j]
    <3>1. /\ Cardinality(LeasesOf(j)) <= Quota[Instance].concurrent[j]
          /\ Cardinality(LeasesOf(j)) \in Nat
      BY LeaseSets DEF SlotInv, ConcurrencyBound
    <3> QED BY <1>9, <2>1, <2>2, <3>1
  <2>4. ASSUME NEW j \in Kinds, NEW u \in Tokens
        PROVE  Cardinality(Leases(u, j)') <= Quota[u].concurrent[j]
    <3>1. /\ Cardinality(Leases(u, j)) <= Quota[u].concurrent[j]
          /\ Cardinality(Leases(u, j)) \in Nat
      BY LeaseSets DEF SlotInv, ConcurrencyBound
    <3> QED BY <1>9, <2>1, <2>2, <3>1
  <2> QED BY <2>3, <2>4 DEF ConcurrencyBound
<1> QED BY <1>13, <1>14, <1>15, <1>16 DEF SlotInv

(* DoRelease: one lease less; the map drops an object no lease holds. *)
LEMMA ReleaseSlots ==
  ASSUME BaseInv, SlotInv, NEW r \in Requests, NEW op \in Releases,
         DoRelease(r, op)
  PROVE  SlotInv'
<1> DEFINE c == <<r, op>>
           x == cellOf[r]
           t == tok[r]
           k == kind[r]
           o == [cell[x] EXCEPT ![k] = Less(cell[x][k])]
<1>1. /\ c \in Calls /\ HasLock(c) /\ Leave(c) /\ pc[r] = "leased"
      /\ t \in Tokens /\ k \in Kinds
  BY CallFacts DEF Ops, DoRelease, BaseInv, TypeOK
<1>2. /\ cell \in [Requests -> [Kinds -> Nat]] /\ instanceActive \in [Kinds -> Nat]
      /\ entry \in [Tokens -> Requests \cup {NoCell}]
      /\ pc \in [Requests -> {"idle", "acquiring", "leased", "closed"}]
      /\ cellOf \in [Requests -> Requests \cup {NoCell}]
  BY DEF BaseInv, TypeOK
<1>3. /\ entry[t] = x /\ x # NoCell /\ x \in Requests /\ tok[x] = t
      /\ pc[x] \notin {"idle", "acquiring"}
  BY <1>1, <1>2 DEF SlotInv, CellInv
<1>4. \A j \in Kinds : cell[x][j] = Cardinality(Leases(t, j))
  BY <1>1, <1>3 DEF SlotInv, CountInv
<1>5. /\ pc' = [pc EXCEPT ![r] = "closed"] /\ tok' = tok /\ kind' = kind
      /\ cellOf' = cellOf
      /\ cell' = [cell EXCEPT ![x] = o]
      /\ instanceActive' = [instanceActive EXCEPT ![k] = Less(@)]
      /\ entry' = EntryAfter(o, t)
  BY DEF DoRelease
<1>6. /\ \A u \in Tokens, j \in Kinds : Leases(u, j)' =
           IF u = t /\ j = k THEN Leases(u, j) \ {r} ELSE Leases(u, j)
      /\ \A j \in Kinds : LeasesOf(j)' =
           IF j = k THEN LeasesOf(j) \ {r} ELSE LeasesOf(j)
      /\ r \in Leases(t, k) /\ r \in LeasesOf(k)
  BY <1>1, <1>2, <1>5 DEF Leases, LeasesOf
<1>7. /\ \A u \in Tokens, j \in Kinds : Cardinality(Leases(u, j)') =
           IF u = t /\ j = k THEN Cardinality(Leases(u, j)) - 1
                             ELSE Cardinality(Leases(u, j))
      /\ \A j \in Kinds : Cardinality(LeasesOf(j)') =
           IF j = k THEN Cardinality(LeasesOf(j)) - 1 ELSE Cardinality(LeasesOf(j))
      /\ Cardinality(Leases(t, k)) > 0 /\ Cardinality(LeasesOf(k)) > 0
  <2>1. \A u, j :
          /\ r \in Leases(u, j) =>
               Cardinality(Leases(u, j) \ {r}) = Cardinality(Leases(u, j)) - 1
          /\ r \in LeasesOf(j) =>
               Cardinality(LeasesOf(j) \ {r}) = Cardinality(LeasesOf(j)) - 1
    BY LeaseSets, FS_RemoveElement
  <2>2. Cardinality(Leases(t, k)) # 0 /\ Cardinality(LeasesOf(k)) # 0
    BY <1>6, LeaseSets, FS_EmptySet
  <2>3. Cardinality(Leases(t, k)) \in Nat /\ Cardinality(LeasesOf(k)) \in Nat
    BY LeaseSets
  <2>4. ASSUME NEW u \in Tokens, NEW j \in Kinds
        PROVE  Cardinality(Leases(u, j)') =
                 IF u = t /\ j = k THEN Cardinality(Leases(u, j)) - 1
                                   ELSE Cardinality(Leases(u, j))
    BY <1>6, <2>1
  <2>5. ASSUME NEW j \in Kinds
        PROVE  Cardinality(LeasesOf(j)') =
                 IF j = k THEN Cardinality(LeasesOf(j)) - 1
                          ELSE Cardinality(LeasesOf(j))
    BY <1>6, <2>1
  <2> QED BY <2>2, <2>3, <2>4, <2>5
<1>8. /\ \A j \in Kinds : o[j] = Cardinality(Leases(t, j)')
      /\ \A u, j : Cardinality(Leases(u, j)) \in Nat /\ Cardinality(LeasesOf(j)) \in Nat
  <2>1. \A u, j : Cardinality(Leases(u, j)) \in Nat /\ Cardinality(LeasesOf(j)) \in Nat
    BY LeaseSets
  <2>2. cell[x] \in [Kinds -> Nat]
    BY <1>2, <1>3
  <2>3. \A j \in Kinds : o[j] = IF j = k THEN Cardinality(Leases(t, j)) - 1
                                         ELSE Cardinality(Leases(t, j))
    BY <1>1, <1>4, <1>7, <2>1, <2>2 DEF Less
  <2>4. \A j \in Kinds : Cardinality(Leases(t, j)') =
          IF j = k THEN Cardinality(Leases(t, j)) - 1 ELSE Cardinality(Leases(t, j))
    <3>1. \A u \in Tokens : u = t => \A j \in Kinds : Leases(u, j)' = Leases(t, j)'
      BY <1>5 DEF Leases
    <3> QED BY <1>1, <1>7, <3>1
  <2> QED BY <2>1, <2>3, <2>4
<1>9. /\ \A y \in Requests : y # x => cell'[y] = cell[y]
      /\ cell'[x] = o
  BY <1>2, <1>3, <1>5
<1>10. \A u \in Tokens : u # t =>
         /\ entry'[u] = entry[u]
         /\ entry[u] # x
  <2>1. \A u \in Tokens : entry[u] # NoCell => tok[entry[u]] = u
    BY DEF SlotInv, CellInv
  <2> QED BY <1>2, <1>3, <1>5, <2>1 DEF EntryAfter
<1>11. \/ entry'[t] = x
       \/ entry'[t] = NoCell /\ \A j \in Kinds : o[j] = 0
  BY <1>1, <1>2, <1>3, <1>5 DEF EntryAfter
<1> HIDE DEF o
<1>12. CountInv'
  <2>1. ASSUME NEW u \in Tokens, NEW j \in Kinds
        PROVE  Cardinality(Leases(u, j)') =
                 IF entry'[u] = NoCell THEN 0 ELSE cell'[entry'[u]][j]
    <3>1. CASE u # t
      <4>1. entry'[u] = entry[u] /\ entry[u] # x /\ entry[u] \in Requests \cup {NoCell}
        BY <1>2, <1>10, <3>1
      <4>2. Cardinality(Leases(u, j)) = IF entry[u] = NoCell THEN 0 ELSE cell[entry[u]][j]
        BY DEF SlotInv, CountInv
      <4>3. Cardinality(Leases(u, j)') = Cardinality(Leases(u, j))
        BY <1>7, <3>1
      <4> QED BY <1>9, <4>1, <4>2, <4>3
    <3>2. CASE u = t
      <4>1. Leases(u, j)' = Leases(t, j)'
        BY <1>5, <3>2 DEF Leases
      <4>2. Cardinality(Leases(u, j)') = o[j]
        BY <1>8, <4>1
      <4> QED BY <1>3, <1>9, <1>11, <3>2, <4>2
    <3> QED BY <3>1, <3>2
  <2>2. ASSUME NEW j \in Kinds
        PROVE  instanceActive'[j] = Cardinality(LeasesOf(j)')
    <3>1. instanceActive[j] = Cardinality(LeasesOf(j)) /\ Cardinality(LeasesOf(j)) \in Nat
      BY LeaseSets DEF SlotInv, CountInv
    <3>2. CASE j = k
      <4>1. instanceActive'[j] = Less(Cardinality(LeasesOf(j)))
        BY <1>2, <1>5, <3>1, <3>2
      <4> QED BY <1>7, <3>1, <3>2, <4>1 DEF Less
    <3>3. CASE j # k
      BY <1>2, <1>5, <1>7, <3>1, <3>3
    <3> QED BY <3>2, <3>3
  <2> QED BY <2>1, <2>2 DEF CountInv
<1>13. CellInv'
  <2>1. ASSUME NEW u \in Tokens, entry'[u] # NoCell
        PROVE  tok'[entry'[u]] = u /\ pc'[entry'[u]] \notin {"idle", "acquiring"}
    <3>1. entry'[u] = entry[u]
      BY <1>3, <1>10, <1>11, <2>1
    <3>2. tok[entry[u]] = u /\ pc[entry[u]] \notin {"idle", "acquiring"}
      BY <2>1, <3>1 DEF SlotInv, CellInv
    <3>3. entry[u] \in Requests
      BY <1>2, <2>1, <3>1
    <3> QED BY <1>2, <1>5, <3>1, <3>2, <3>3
  <2>2. ASSUME NEW s \in Requests, pc'[s] = "leased"
        PROVE  cellOf'[s] = entry'[tok'[s]] /\ cellOf'[s] # NoCell
    <3>1. s # r /\ pc[s] = "leased" /\ tok[s] \in Tokens /\ kind[s] \in Kinds
      BY <1>2, <1>5, <2>2 DEF BaseInv, TypeOK
    <3>2. cellOf[s] = entry[tok[s]] /\ cellOf[s] # NoCell
      BY <3>1 DEF SlotInv, CellInv
    <3>3. entry'[tok[s]] = entry[tok[s]]
      <4>1. CASE tok[s] # t
        BY <1>10, <3>1, <4>1
      <4>2. CASE tok[s] = t
        <5>1. PICK j \in Kinds : j = kind[s]
          BY <3>1
        <5>2. s \in Leases(t, j)'
          BY <1>5, <2>2, <4>2, <5>1 DEF Leases
        <5>3. IsFiniteSet(Leases(t, j)')
          <6>1. Leases(t, j)' \subseteq Requests
            BY DEF Leases
          <6> QED BY <6>1, QuotaAssumption, FS_Subset
        <5>4. Cardinality(Leases(t, j)') # 0
          BY <5>2, <5>3, FS_EmptySet
        <5>5. o[j] # 0
          BY <1>8, <5>4
        <5> QED BY <1>3, <1>11, <3>1, <4>2, <5>5
      <4> QED BY <4>1, <4>2
    <3> QED BY <1>5, <3>1, <3>2, <3>3
  <2>3. ASSUME NEW s \in Requests, pc'[s] \in {"idle", "acquiring"}
        PROVE  cell'[s] = Zero
    <3>1. pc[s] \in {"idle", "acquiring"}
      BY <1>2, <1>5, <2>3
    <3>2. s # x /\ cell[s] = Zero
      BY <1>3, <3>1 DEF SlotInv, CellInv
    <3> QED BY <1>9, <3>2
  <2> QED BY <2>1, <2>2, <2>3 DEF CellInv, Zero
<1>14. \A s \in Requests : PlannedSlot(s)'
  <2>1. \A d \in Calls : ~plan'[d].on
    BY <1>1, LeaveFacts
  <2> QED BY <2>1, CallFacts DEF PlannedSlot, Ops
<1>15. ConcurrencyBound'
  <2>1. \A q \in Keys, j \in Kinds : Quota[q].concurrent[j] \in Nat
    BY KeyFacts
  <2>2. ASSUME NEW j \in Kinds
        PROVE  Cardinality(LeasesOf(j)') <= Quota[Instance].concurrent[j]
    <3>1. Cardinality(LeasesOf(j)) <= Quota[Instance].concurrent[j]
      BY DEF SlotInv, ConcurrencyBound
    <3> QED BY <1>7, <1>8, <2>1, <3>1, KeyFacts
  <2>3. ASSUME NEW j \in Kinds, NEW u \in Tokens
        PROVE  Cardinality(Leases(u, j)') <= Quota[u].concurrent[j]
    <3>1. Cardinality(Leases(u, j)) <= Quota[u].concurrent[j]
      BY DEF SlotInv, ConcurrencyBound
    <3> QED BY <1>7, <1>8, <2>1, <3>1, KeyFacts
  <2> QED BY <2>2, <2>3 DEF ConcurrencyBound
<1> QED BY <1>12, <1>13, <1>14, <1>15 DEF SlotInv

(* At the start, and after a restart, no lease is held and no counter is up. *)
LEMMA EmptySlots ==
  ASSUME \A r \in Requests : pc[r] # "leased",
         entry = [t \in Tokens |-> NoCell],
         cell = [r \in Requests |-> [k \in Kinds |-> 0]],
         instanceActive = [k \in Kinds |-> 0],
         \A c \in Calls : ~plan[c].on
  PROVE  SlotInv
<1>1. \A t, k : Leases(t, k) = {} /\ LeasesOf(k) = {}
  BY DEF Leases, LeasesOf
<1>2. \A t, k : Cardinality(Leases(t, k)) = 0 /\ Cardinality(LeasesOf(k)) = 0
  BY <1>1, FS_EmptySet
<1>3. CellInv
  BY DEF CellInv, Zero
<1>4. CountInv
  BY <1>2 DEF CountInv
<1>5. ConcurrencyBound
  BY <1>2, KeyFacts DEF ConcurrencyBound
<1>6. \A r \in Requests : PlannedSlot(r)
  BY CallFacts DEF PlannedSlot, Ops
<1> QED BY <1>3, <1>4, <1>5, <1>6 DEF SlotInv

(* Every step keeps the counters of quota.ts equal to the leases they count. *)
LEMMA NextSlots == BaseInv /\ SlotInv /\ [Next]_vars => SlotInv'
<1> SUFFICES ASSUME BaseInv, SlotInv, [Next]_vars PROVE SlotInv'
  OBVIOUS
<1> USE DEF memVars
<1>1. \A r \in Requests : <<r, "acquire">> \in Calls
  BY CallFacts DEF Ops
<1>2. plan \in [Calls -> PlanType] /\ pc \in [Requests -> {"idle", "acquiring", "leased", "closed"}]
  BY DEF BaseInv, TypeOK
<1>3. ASSUME NEW c \in Calls, HasLock(c), Leave(c), UNCHANGED <<tok, kind, memVars>>,
             \A r \in Requests : \/ pc'[r] = pc[r]
                                 \/ pc[r] = "acquiring" /\ pc'[r] = "closed"
      PROVE  SlotInv'
  <2>1. \A d \in Calls : ~plan'[d].on
    BY <1>3, LeaveFacts
  <2> QED BY <1>1, <1>3, <2>1, SlotsKept
<1>4. ASSUME NEW r \in Requests, HasLock(<<r, "acquire">>) PROVE pc[r] = "acquiring"
  <2>1. 1 \in 1 .. Len(queue) /\ queue[1] = <<r, "acquire">>
    BY <1>4 DEF HasLock, BaseInv, TypeOK
  <2> QED BY <2>1 DEF BaseInv, ChainInv
<1>5. ASSUME NEW r \in Requests, RejectAcquire(r) \/ FailAcquire(r) \/ LoseAcquire(r)
      PROVE  SlotInv'
  <2>1. HasLock(<<r, "acquire">>) /\ Leave(<<r, "acquire">>)
        /\ UNCHANGED <<tok, kind, memVars>> /\ pc' = [pc EXCEPT ![r] = "closed"]
    BY <1>5 DEF RejectAcquire, FailAcquire, LoseAcquire, CommitRows
  <2>2. pc[r] = "acquiring"
    BY <1>4, <2>1
  <2>3. \A s \in Requests : \/ pc'[s] = pc[s]
                            \/ pc[s] = "acquiring" /\ pc'[s] = "closed"
    BY <1>2, <2>1, <2>2
  <2> QED BY <1>1, <1>3, <2>1, <2>3
<1>6. ASSUME NEW r \in Requests, NEW dir \in Directions,
             CommitCharge(r, dir) \/ EndCharge(r, dir)
      PROVE  SlotInv'
  <2>1. <<r, dir>> \in Calls
    BY CallFacts DEF Ops
  <2> QED BY <1>3, <1>6, <2>1 DEF CommitCharge, EndCharge
<1>7. ASSUME NEW r \in Requests, NEW op \in Releases, SkipRelease(r, op)
      PROVE  SlotInv'
  <2>1. <<r, op>> \in Calls
    BY CallFacts DEF Ops
  <2> QED BY <1>3, <1>7, <2>1 DEF SkipRelease
<1>8. ASSUME NEW r \in Requests, PlanAcquire(r) PROVE SlotInv'
  <2>1. /\ UNCHANGED <<tok, kind, memVars, pc>> /\ ConcurrencyAllows(r)
        /\ plan' = [plan EXCEPT ![<<r, "acquire">>] =
             Planned(tok[r], bytes[<<r, "acquire">>], clock, ActiveCell(r), Minute)]
    BY <1>8 DEF PlanAcquire, AcquireAdmissible
  <2>2. plan'[<<r, "acquire">>].cell = ActiveCell(r)
    BY <1>1, <1>2, <2>1 DEF Planned
  <2>3. \A s \in Requests : s # r => plan'[<<s, "acquire">>] = plan[<<s, "acquire">>]
    BY <1>1, <1>2, <2>1
  <2> QED BY <2>1, <2>2, <2>3, SlotsKept
<1>9. ASSUME NEW r \in Requests, NEW dir \in Directions, PlanCharge(r, dir)
      PROVE  SlotInv'
  <2>1. /\ UNCHANGED <<tok, kind, memVars, pc>>
        /\ plan' = [plan EXCEPT ![<<r, dir>>] =
             Planned(tok[r], bytes[<<r, dir>>], clock, NoCell, 0)]
    BY <1>9 DEF PlanCharge
  <2>2. \A s \in Requests : plan'[<<s, "acquire">>] = plan[<<s, "acquire">>]
    <3>1. dir # "acquire"
      BY QuotaAssumption
    <3> QED BY <1>1, <1>2, <2>1, <3>1
  <2> QED BY <2>1, <2>2, SlotsKept
<1>10. ASSUME NEW r \in Requests, Caller(r) PROVE SlotInv'
  <2>1. UNCHANGED <<tok, kind, memVars, plan>>
    BY <1>10 DEF Caller, Acquire, ChargeBytes, Release
  <2>2. \/ pc' = pc
        \/ pc[r] = "idle" /\ pc' = [pc EXCEPT ![r] = "acquiring"]
    BY <1>10 DEF Caller, Acquire, ChargeBytes, Release
  <2> QED BY <1>2, <2>1, <2>2, SlotsKept
<1>11. ASSUME Tick \/ ClockBack \/ UNCHANGED vars PROVE SlotInv'
  BY <1>11, SlotsKept DEF Tick, ClockBack, vars, callVars
<1>12. ASSUME Crash PROVE SlotInv'
  <2>1. /\ \A r \in Requests : pc'[r] # "leased"
        /\ entry' = [t \in Tokens |-> NoCell]
        /\ cell' = [r \in Requests |-> [k \in Kinds |-> 0]]
        /\ instanceActive' = [k \in Kinds |-> 0]
        /\ \A c \in Calls : ~plan'[c].on
    BY <1>12 DEF Crash, NoPlan
  <2>2. \A t, k : Leases(t, k)' = {} /\ LeasesOf(k)' = {}
    BY <2>1 DEF Leases, LeasesOf
  <2>3. \A t, k : Cardinality(Leases(t, k)') = 0 /\ Cardinality(LeasesOf(k)') = 0
    BY <2>2, FS_EmptySet
  <2>4. CellInv'
    BY <2>1 DEF CellInv, Zero
  <2>5. CountInv'
    BY <2>1, <2>3 DEF CountInv
  <2>6. ConcurrencyBound'
    BY <2>3, KeyFacts DEF ConcurrencyBound
  <2>7. \A r \in Requests : PlannedSlot(r)'
    BY <1>1, <2>1 DEF PlannedSlot
  <2> QED BY <2>4, <2>5, <2>6, <2>7 DEF SlotInv
<1> QED BY <1>5, <1>6, <1>7, <1>8, <1>9, <1>10, <1>11, <1>12,
           CommitSlots, ReleaseSlots DEF Next, Step

(* No lease and no counter at the start. *)
LEMMA InitSlots == Init => SlotInv
<1> SUFFICES ASSUME Init PROVE SlotInv
  OBVIOUS
<1> QED BY EmptySlots DEF Init, NoPlan

(* The leases alive at any time stay within the concurrency limits of the  *)
(* token and of the instance: the counters quota.ts keeps never fall       *)
(* behind the leases they stand for.                                       *)
THEOREM ConcurrencyBoundHolds == Spec => []ConcurrencyBound
<1>1. Init => BaseInv /\ SlotInv
  BY InitBase, InitSlots
<1>2. BaseInv /\ SlotInv /\ [Next]_vars => (BaseInv /\ SlotInv)'
  BY NextBase, NextSlots
<1>3. BaseInv /\ SlotInv => ConcurrencyBound
  BY DEF SlotInv
<1> QED BY <1>1, <1>2, <1>3, PTL DEF Spec

-----------------------------------------------------------------------------
(* Refinement.  ExecutionQuota sees of a caller only whether its lease is  *)
(* new, held or over; a transaction is its admission or charge, a refusal, *)
(* a release or a crash ends leases, and reading and waiting change        *)
(* nothing it sees.                                                        *)
Seen(place) ==
  IF place \in {"idle", "acquiring"} THEN "new"
  ELSE IF place = "leased" THEN "held" ELSE "over"

(* What waits in the chain to acquire or to charge was called with one of  *)
(* the sizes there are, and only the holder of a lease charges.            *)
AskedInv ==
  \A c \in Calls : Outstanding(c) =>
    /\ c[2] \notin Releases => bytes[c] \in ByteSizes
    /\ c[2] \in Directions => pc[c[1]] \in {"leased", "closed"}

QuotaInv == BaseInv /\ DailyInv /\ RateInv /\ SlotInv /\ AskedInv

(* The mapped lease of a request follows its place, before and after a step. *)
LEMMA LeaseSeen ==
  /\ AbstractLease = [r \in Requests |-> Seen(pc[r])]
  /\ AbstractLease' = [r \in Requests |-> Seen(pc'[r])]
BY DEF AbstractLease, Seen

(* When one caller goes on, its lease alone is seen to change. *)
LEMMA LeaseMoves ==
  ASSUME TypeOK, NEW r \in Requests, NEW place, pc' = [pc EXCEPT ![r] = place]
  PROVE  AbstractLease' = [AbstractLease EXCEPT ![r] = Seen(place)]
<1>1. pc \in [Requests -> {"idle", "acquiring", "leased", "closed"}]
  BY DEF TypeOK
<1>2. pc' = [s \in Requests |-> IF s = r THEN place ELSE pc[s]]
  BY <1>1
<1> HIDE DEF Seen
<1>3. AbstractLease' = [s \in Requests |-> IF s = r THEN Seen(place) ELSE Seen(pc[s])]
  BY <1>2, LeaseSeen
<1> QED BY <1>3, LeaseSeen

(* A call that holds the lock is the head of the chain. *)
LEMMA HeadIsOutstanding ==
  ASSUME BaseInv, NEW c \in Calls, HasLock(c)
  PROVE  Outstanding(c)
<1>1. queue \in Seq(Calls) /\ queue # <<>> /\ Head(queue) = c
  BY DEF BaseInv, TypeOK, HasLock
<1>2. 1 \in 1 .. Len(queue) /\ queue[1] = c
  BY <1>1
<1> QED BY <1>2 DEF Outstanding

(* Joining the chain leaves the others in it as they were. *)
LEMMA AskedAfterEnqueue ==
  ASSUME BaseInv, AskedInv, NEW c \in Calls, NEW b \in Nat, ~Outstanding(c),
         Enqueue(c, b),
         c[2] \notin Releases => b \in ByteSizes,
         c[2] \in Directions => pc'[c[1]] \in {"leased", "closed"},
         \A r \in Requests : pc[r] \in {"leased", "closed"} =>
                               pc'[r] \in {"leased", "closed"}
  PROVE  AskedInv'
<1>1. queue \in Seq(Calls) /\ queue' = Append(queue, c)
  BY DEF BaseInv, TypeOK, Enqueue
<1>2. bytes \in [Calls -> Nat] /\ bytes' = [bytes EXCEPT ![c] = b]
  BY DEF BaseInv, TypeOK, Enqueue
<1> SUFFICES ASSUME NEW d \in Calls, Outstanding(d)'
             PROVE  /\ d[2] \notin Releases => bytes'[d] \in ByteSizes
                    /\ d[2] \in Directions => pc'[d[1]] \in {"leased", "closed"}
  BY DEF AskedInv
<1>3. CASE d = c
  BY <1>2, <1>3
<1>4. CASE d # c
  <2>1. Outstanding(d)
    <3>1. PICK i \in 1 .. Len(queue') : queue'[i] = d
      BY DEF Outstanding
    <3>2. i \in 1 .. Len(queue) /\ queue[i] = d
      BY <1>1, <1>4, <3>1
    <3> QED BY <3>2 DEF Outstanding
  <2>2. bytes'[d] = bytes[d] /\ d[1] \in Requests
    BY <1>2, <1>4 DEF Calls
  <2> QED BY <2>1, <2>2 DEF AskedInv
<1> QED BY <1>3, <1>4

(* Leaving it, too. *)
LEMMA AskedAfterLeave ==
  ASSUME BaseInv, AskedInv, NEW c \in Calls, HasLock(c), Leave(c),
         \A r \in Requests : pc[r] \in {"leased", "closed"} =>
                               pc'[r] \in {"leased", "closed"}
  PROVE  AskedInv'
<1>1. /\ queue \in Seq(Calls) /\ queue # <<>> /\ queue[1] = c /\ queue' = Tail(queue)
      /\ \A i, j \in 1 .. Len(queue) : queue[i] = queue[j] => i = j
  BY DEF BaseInv, TypeOK, ChainInv, Leave, HasLock
<1>2. bytes \in [Calls -> Nat] /\ bytes' = [bytes EXCEPT ![c] = 0]
  BY DEF BaseInv, TypeOK, Leave
<1> SUFFICES ASSUME NEW d \in Calls, Outstanding(d)'
             PROVE  /\ d[2] \notin Releases => bytes'[d] \in ByteSizes
                    /\ d[2] \in Directions => pc'[d[1]] \in {"leased", "closed"}
  BY DEF AskedInv
<1>3. PICK i \in 1 .. Len(queue') : queue'[i] = d
  BY DEF Outstanding
<1>4. i + 1 \in 1 .. Len(queue) /\ queue[i + 1] = d /\ i + 1 # 1 /\ 1 \in 1 .. Len(queue)
  BY <1>1, <1>3
<1>5. d # c /\ Outstanding(d)
  BY <1>1, <1>4 DEF Outstanding
<1>6. bytes'[d] = bytes[d] /\ d[1] \in Requests
  BY <1>2, <1>5 DEF Calls
<1> QED BY <1>5, <1>6 DEF AskedInv

(* Every step keeps what a waiting call was asked. *)
LEMMA NextAsked == BaseInv /\ AskedInv /\ [Next]_vars => AskedInv'
<1> SUFFICES ASSUME BaseInv, AskedInv, [Next]_vars PROVE AskedInv'
  OBVIOUS
<1>1. pc \in [Requests -> {"idle", "acquiring", "leased", "closed"}]
  BY DEF BaseInv, TypeOK
<1>2. ASSUME NEW r \in Requests, NEW b \in ByteSizes, Acquire(r, b) PROVE AskedInv'
  <2> DEFINE c == <<r, "acquire">>
  <2>1. c \in Calls /\ b \in Nat /\ c[2] \notin Directions
    BY CallFacts, QuotaAssumption DEF Ops
  <2>2. ~Outstanding(c)
    BY <1>2 DEF Acquire, Outstanding, BaseInv, ChainInv
  <2>3. Enqueue(c, b) /\ \A s \in Requests : pc[s] \in {"leased", "closed"} =>
                                               pc'[s] \in {"leased", "closed"}
    BY <1>1, <1>2 DEF Acquire
  <2> QED BY <2>1, <2>2, <2>3, AskedAfterEnqueue
<1>3. ASSUME NEW r \in Requests, NEW dir \in Directions, NEW b \in ByteSizes,
             ChargeBytes(r, dir, b)
      PROVE  AskedInv'
  <2>1. <<r, dir>> \in Calls /\ b \in Nat
    BY CallFacts, QuotaAssumption DEF Ops
  <2>2. ~Outstanding(<<r, dir>>) /\ Enqueue(<<r, dir>>, b) /\ pc' = pc /\ pc[r] = "leased"
    BY <1>3 DEF ChargeBytes
  <2> QED BY <2>1, <2>2, AskedAfterEnqueue
<1>4. ASSUME NEW r \in Requests, NEW op \in Releases, Release(r, op) PROVE AskedInv'
  <2>1. <<r, op>> \in Calls /\ op \notin Directions
    BY CallFacts, QuotaAssumption DEF Ops
  <2>2. ~Outstanding(<<r, op>>) /\ Enqueue(<<r, op>>, 0) /\ pc' = pc
    BY <1>4 DEF Release
  <2> QED BY <2>1, <2>2, AskedAfterEnqueue
<1>5. ASSUME NEW r \in Requests, NEW op \in Ops, HasLock(<<r, op>>), Leave(<<r, op>>),
             pc' = pc \/ pc' = [pc EXCEPT ![r] = "closed"]
                      \/ pc' = [pc EXCEPT ![r] = "leased"]
      PROVE  AskedInv'
  <2>1. <<r, op>> \in Calls
    BY CallFacts
  <2>2. \A s \in Requests : pc[s] \in {"leased", "closed"} =>
                              pc'[s] \in {"leased", "closed"}
    BY <1>1, <1>5
  <2> QED BY <1>5, <2>1, <2>2, AskedAfterLeave
<1>6. ASSUME UNCHANGED <<pc, queue, bytes>> PROVE AskedInv'
  BY <1>6 DEF AskedInv, Outstanding
<1>7. ASSUME NEW r \in Requests, Step(r) PROVE AskedInv'
  <2>1. ASSUME RejectAcquire(r) \/ FailAcquire(r) \/ CommitAcquire(r) \/ LoseAcquire(r)
        PROVE  AskedInv'
    <3>1. /\ HasLock(<<r, "acquire">>) /\ Leave(<<r, "acquire">>)
          /\ pc' = [pc EXCEPT ![r] = "closed"] \/ pc' = [pc EXCEPT ![r] = "leased"]
      BY <2>1 DEF RejectAcquire, FailAcquire, CommitAcquire, LoseAcquire, CommitRows
    <3> QED BY <1>5, <3>1 DEF Ops
  <2>2. ASSUME NEW dir \in Directions, CommitCharge(r, dir) \/ EndCharge(r, dir)
        PROVE  AskedInv'
    <3>1. HasLock(<<r, dir>>) /\ Leave(<<r, dir>>) /\ pc' = pc
      BY <2>2 DEF CommitCharge, EndCharge
    <3> QED BY <1>5, <3>1 DEF Ops
  <2>3. ASSUME NEW op \in Releases, DoRelease(r, op) \/ SkipRelease(r, op)
        PROVE  AskedInv'
    <3>1. /\ HasLock(<<r, op>>) /\ Leave(<<r, op>>)
          /\ pc' = pc \/ pc' = [pc EXCEPT ![r] = "closed"]
      BY <2>3 DEF DoRelease, SkipRelease
    <3> QED BY <1>5, <3>1 DEF Ops
  <2>4. ASSUME NEW dir \in Directions, PlanAcquire(r) \/ PlanCharge(r, dir)
        PROVE  AskedInv'
    BY <1>6, <2>4 DEF PlanAcquire, PlanCharge
  <2>5. ASSUME PlanAcquire(r) PROVE AskedInv'
    BY <1>6, <2>5 DEF PlanAcquire
  <2> QED BY <1>7, <2>1, <2>2, <2>3, <2>4, <2>5 DEF Step
<1>8. ASSUME Tick \/ ClockBack \/ UNCHANGED vars PROVE AskedInv'
  BY <1>6, <1>8 DEF Tick, ClockBack, vars, callVars
<1>9. ASSUME Crash PROVE AskedInv'
  <2>1. queue' = <<>>
    BY <1>9 DEF Crash
  <2> QED BY <2>1 DEF AskedInv, Outstanding
<1> QED BY <1>2, <1>3, <1>4, <1>7, <1>8, <1>9 DEF Next, Caller

(* The transaction of a planned call keeps both daily limits. *)
LEMMA PayAllowed ==
  ASSUME BaseInv, DailyInv, NEW c \in Calls, plan[c].on,
         WriteDaily(tok[c[1]], plan[c], bytes[c])
  PROVE  Abstract!Pay(tok[c[1]], bytes[c])
<1> DEFINE t == tok[c[1]]
           d == dayAt(plan[c].now)
<1>1. /\ t \in Tokens /\ plan[c] \in PlanType /\ bytes[c] \in Nat /\ c[1] \in Requests
  BY DEF Calls, BaseInv, TypeOK
<1>2. d \in Days
  BY <1>1, KeyFacts DEF PlanType
<1>3. /\ plan[c].used["token"] = daily[d][t] + bytes[c]
      /\ plan[c].used["token"] <= Quota[t].bytesPerDay
      /\ plan[c].used["instance"] = daily[d][Instance] + bytes[c]
      /\ plan[c].used["instance"] <= Quota[Instance].bytesPerDay
  BY DEF DailyInv, PlannedBytes, KeyOf
<1>4. daily[d][t] = charged[d][t] /\ daily[d][Instance] = charged[d][Instance]
  BY <1>1, <1>2, KeyFacts DEF DailyInv, DailyAccounting
<1>5. charged' = [charged EXCEPT ![d] = Raised(@, t, bytes[c])]
  BY DEF WriteDaily
<1> HIDE DEF t, d
<1>6. \A q \in {t, Instance} : charged[d][q] + bytes[c] <= Quota[q].bytesPerDay
  BY <1>3, <1>4
<1>7. charged' = [charged EXCEPT ![d] = Abstract!Paid(@, t, bytes[c])]
  BY <1>5 DEF Raised, Abstract!Paid
<1>8. Abstract!Pay(t, bytes[c])
  BY <1>2, <1>6, <1>7 DEF Abstract!Pay
<1> QED BY <1>8 DEF t

(* A planned acquire finds both buckets within their rates. *)
LEMMA RateAllowed ==
  ASSUME BaseInv, RateInv, NEW r \in Requests, plan[<<r, "acquire">>].on
  PROVE  Abstract!WithinRate(tok[r]) /\ Abstract!WithinRate(Instance)
<1> DEFINE c == <<r, "acquire">>
<1>1. c \in Calls /\ c[2] = "acquire" /\ c[1] = r /\ tok[r] \in Tokens
  BY CallFacts DEF Ops, BaseInv, TypeOK
<1>2. PlannedRate(c) /\ \A k \in {"token", "instance"} : plan[c].rate[k] >= 0
  BY <1>1 DEF RateInv, BaseInv, ChainInv
<1>3. plan[c] \in PlanType /\ clock \in Nat
  BY <1>1, QuotaAssumption DEF BaseInv, TypeOK
<1> SUFFICES ASSUME NEW k \in {"token", "instance"}
             PROVE  Abstract!WithinRate(KeyOf(c, k))
  BY <1>1 DEF KeyOf
<1> DEFINE q == KeyOf(c, k)
           s == Since(clock, plan[c].now)
           x == plan[c].rate[k]
<1>4. q \in Keys
  BY <1>1, KeyFacts DEF KeyOf
<1>5. /\ granted[q] \in Nat /\ elapsed \in Nat /\ Minute \in Nat
      /\ Quota[q].burst \in Nat /\ Quota[q].requestsPerMinute \in Nat
  BY <1>4, KeyFacts, QuotaAssumption DEF BaseInv, TypeOK
<1>6. s \in Nat /\ x \in Nat
  BY <1>2, <1>3, QuotaAssumption DEF Since, PlanType
<1>7. x + (granted[q] + 1) * Minute + s * Quota[q].requestsPerMinute
        <= Quota[q].burst * Minute + elapsed * Quota[q].requestsPerMinute
  BY <1>2 DEF PlannedRate, Covered
<1> HIDE DEF q, s, x
<1>8. /\ (granted[q] + 1) * Minute \in Nat /\ s * Quota[q].requestsPerMinute \in Nat
      /\ Quota[q].burst * Minute \in Nat /\ elapsed * Quota[q].requestsPerMinute \in Nat
  <2>1. granted[q] + 1 \in Nat
    BY <1>5
  <2> QED BY <1>5, <1>6, <2>1, ProductNat
<1>9. (granted[q] + 1) * Minute
        <= Quota[q].burst * Minute + elapsed * Quota[q].requestsPerMinute
  BY <1>6, <1>7, <1>8
<1>10. Abstract!WithinRate(q)
  BY <1>9 DEF Abstract!WithinRate
<1> QED BY <1>10 DEF q

(* The instance counts as this module does. *)
LEMMA OneCardinality == \A S : Abstract!Cardinality(S) = Cardinality(S)
BY DEF Abstract!Cardinality, Cardinality

(* A planned acquire finds a slot for its token and one of the instance's. *)
LEMMA SlotAllowed ==
  ASSUME BaseInv, SlotInv, NEW r \in Requests, HasLock(<<r, "acquire">>),
         plan[<<r, "acquire">>].on
  PROVE  pc[r] = "acquiring" /\ Abstract!HasSlot(r)
<1> DEFINE t == tok[r]
           k == kind[r]
<1>1. t \in Tokens /\ k \in Kinds /\ queue \in Seq(Calls)
  BY DEF BaseInv, TypeOK
<1>2. pc[r] = "acquiring"
  <2>1. 1 \in 1 .. Len(queue) /\ queue[1] = <<r, "acquire">>
    BY <1>1 DEF HasLock
  <2> QED BY <2>1 DEF BaseInv, ChainInv
<1>3. ConcurrencyAllows(r)
  BY DEF SlotInv, PlannedSlot
<1>4. Cardinality(Leases(t, k)) = IF entry[t] = NoCell THEN 0 ELSE cell[entry[t]][k]
  BY <1>1 DEF SlotInv, CountInv
<1>5. cell[r][k] = 0
  BY <1>1, <1>2 DEF SlotInv, CellInv, Zero
<1>6. /\ Cardinality(Leases(t, k)) < Quota[t].concurrent[k]
      /\ Cardinality(LeasesOf(k)) < Quota[Instance].concurrent[k]
  BY <1>1, <1>3, <1>4, <1>5 DEF ConcurrencyAllows, ActiveCell, SlotInv, CountInv
<1>7. \A s \in Requests : AbstractLease[s] = "held" <=> pc[s] = "leased"
  BY LeaseSeen DEF Seen
<1>8. Abstract!Held(k) = LeasesOf(k) /\ Abstract!HeldBy(t, k) = Leases(t, k)
  BY <1>7 DEF Abstract!Held, Abstract!HeldBy, Leases, LeasesOf
<1> QED BY <1>2, <1>6, <1>8, OneCardinality DEF Abstract!HasSlot

(* The transaction of an acquire admits its caller, whether the answer is  *)
(* heard (the lease is held) or lost (it is over at once).                 *)
LEMMA CommitAdmits ==
  ASSUME QuotaInv, NEW r \in Requests, CommitRows(r),
         NEW place \in {"leased", "closed"}, pc' = [pc EXCEPT ![r] = place],
         UNCHANGED <<tok, kind, elapsed>>
  PROVE  Abstract!Next
<1> DEFINE c == <<r, "acquire">>
<1>1. c \in Calls /\ c[1] = r /\ c[2] = "acquire" /\ c[2] \notin Releases
  BY CallFacts, QuotaAssumption DEF Ops
<1>2. /\ HasLock(c) /\ plan[c].on /\ WriteDaily(tok[r], plan[c], bytes[c])
      /\ granted' = Raised(granted, tok[r], 1)
  BY DEF CommitRows
<1>3. bytes[c] \in ByteSizes
  BY <1>1, <1>2, HeadIsOutstanding DEF QuotaInv, AskedInv
<1>4. pc[r] = "acquiring" /\ Abstract!HasSlot(r)
  BY <1>2, SlotAllowed DEF QuotaInv
<1>5. Abstract!WithinRate(tok[r]) /\ Abstract!WithinRate(Instance)
  BY <1>2, RateAllowed DEF QuotaInv
<1>6. Abstract!Pay(tok[r], bytes[c])
  <2>1. WriteDaily(tok[c[1]], plan[c], bytes[c])
    BY <1>1, <1>2
  <2>2. Abstract!Pay(tok[c[1]], bytes[c])
    BY <1>1, <1>2, <2>1, PayAllowed DEF QuotaInv
  <2> QED BY <1>1, <2>2
<1>7. granted' = [granted EXCEPT ![tok[r]] = @ + 1, ![Instance] = @ + 1]
  BY <1>2 DEF Raised
<1>8. AbstractLease[r] = "new"
  BY <1>4, LeaseSeen DEF Seen
<1>9. PICK s \in {"held", "over"} : AbstractLease' = [AbstractLease EXCEPT ![r] = s]
  <2>1. AbstractLease' = [AbstractLease EXCEPT ![r] = Seen(place)]
    BY LeaseMoves DEF QuotaInv, BaseInv
  <2>2. Seen(place) \in {"held", "over"}
    BY DEF Seen
  <2> QED BY <2>1, <2>2
<1>10. Abstract!Admit(r, bytes[c])
  BY <1>4, <1>5, <1>6, <1>7, <1>8, <1>9 DEF Abstract!Admit
<1> QED BY <1>3, <1>10 DEF Abstract!Next

(* The transaction of a charge pays for a lease that was given. *)
LEMMA CommitCharges ==
  ASSUME QuotaInv, NEW r \in Requests, NEW dir \in Directions, CommitCharge(r, dir)
  PROVE  Abstract!Next
<1> DEFINE c == <<r, dir>>
<1>1. c \in Calls /\ c[1] = r /\ c[2] = dir /\ dir \notin Releases
  BY CallFacts, QuotaAssumption DEF Ops
<1>2. /\ HasLock(c) /\ plan[c].on /\ WriteDaily(tok[r], plan[c], bytes[c])
      /\ UNCHANGED <<pc, tok, kind, elapsed, granted>>
  BY DEF CommitCharge, clockVars
<1>3. bytes[c] \in ByteSizes /\ pc[r] \in {"leased", "closed"}
  BY <1>1, <1>2, HeadIsOutstanding DEF QuotaInv, AskedInv
<1>4. Abstract!Pay(tok[r], bytes[c])
  <2>1. WriteDaily(tok[c[1]], plan[c], bytes[c])
    BY <1>1, <1>2
  <2>2. Abstract!Pay(tok[c[1]], bytes[c])
    BY <1>1, <1>2, <2>1, PayAllowed DEF QuotaInv
  <2> QED BY <1>1, <2>2
<1>5. AbstractLease[r] # "new" /\ AbstractLease' = AbstractLease
  BY <1>2, <1>3, LeaseSeen DEF Seen
<1>6. Abstract!Charge(r, bytes[c])
  BY <1>2, <1>4, <1>5 DEF Abstract!Charge
<1> QED BY <1>3, <1>6 DEF Abstract!Next

(* A refusal, a release or a crash ends leases and pays for nothing. *)
LEMMA OthersEnd ==
  ASSUME TypeOK, UNCHANGED <<tok, kind, elapsed, granted, charged>>,
         \A r \in Requests : pc'[r] = pc[r] \/ pc'[r] = "closed"
  PROVE  Abstract!Next
<1>1. AbstractLease' \in [Requests -> {"new", "held", "over"}]
  BY LeaseSeen DEF Seen
<1>2. \A r \in Requests : AbstractLease'[r] \in {AbstractLease[r], "over"}
  BY LeaseSeen DEF Seen
<1> QED BY <1>1, <1>2 DEF Abstract!Next, Abstract!End

(* Asking, waiting and planning are not seen. *)
LEMMA OthersStutter ==
  ASSUME UNCHANGED <<tok, kind, elapsed, granted, charged>>,
         \A r \in Requests : pc'[r] = pc[r] \/ {pc[r], pc'[r]} \subseteq {"idle", "acquiring"}
  PROVE  UNCHANGED Abstract!vars
<1>1. \A r \in Requests : Seen(pc'[r]) = Seen(pc[r])
  BY DEF Seen
<1> HIDE DEF Seen
<1>2. AbstractLease' = AbstractLease
  BY <1>1, LeaseSeen
<1> QED BY <1>2 DEF Abstract!vars

(* Every step is one of ExecutionQuota's, or one it does not see. *)
LEMMA StepRefines ==
  ASSUME QuotaInv, [Next]_vars
  PROVE  [Abstract!Next]_(Abstract!vars)
<1>1. TypeOK /\ pc \in [Requests -> {"idle", "acquiring", "leased", "closed"}]
  BY DEF QuotaInv, BaseInv, TypeOK
<1> USE DEF clockVars, histVars
<1>2. ASSUME NEW r \in Requests, Step(r) PROVE [Abstract!Next]_(Abstract!vars)
  <2>1. ASSUME CommitAcquire(r) \/ LoseAcquire(r) PROVE Abstract!Next
    <3>1. CASE CommitAcquire(r)
      BY <3>1, CommitAdmits DEF CommitAcquire
    <3>2. CASE LoseAcquire(r)
      BY <3>2, CommitAdmits DEF LoseAcquire
    <3> QED BY <2>1, <3>1, <3>2
  <2>2. ASSUME RejectAcquire(r) \/ FailAcquire(r) PROVE Abstract!Next
    <3>1. pc' = [pc EXCEPT ![r] = "closed"]
          /\ UNCHANGED <<tok, kind, elapsed, granted, charged>>
      BY <2>2 DEF RejectAcquire, FailAcquire
    <3> QED BY <1>1, <3>1, OthersEnd
  <2>3. ASSUME NEW op \in Releases, DoRelease(r, op) PROVE Abstract!Next
    <3>1. pc' = [pc EXCEPT ![r] = "closed"]
          /\ UNCHANGED <<tok, kind, elapsed, granted, charged>>
      BY <2>3 DEF DoRelease
    <3> QED BY <1>1, <3>1, OthersEnd
  <2>4. ASSUME NEW op, PlanAcquire(r) \/ PlanCharge(r, op) \/ EndCharge(r, op)
                         \/ SkipRelease(r, op)
        PROVE  UNCHANGED Abstract!vars
    <3>1. UNCHANGED <<pc, tok, kind, elapsed, granted, charged>>
      BY <2>4 DEF PlanAcquire, PlanCharge, EndCharge, SkipRelease
    <3> QED BY <3>1, OthersStutter
  <2>5. ASSUME NEW dir \in Directions, CommitCharge(r, dir) PROVE Abstract!Next
    BY <2>5, CommitCharges
  <2> QED BY <1>2, <2>1, <2>2, <2>3, <2>4, <2>5 DEF Step
<1>3. ASSUME NEW r \in Requests, Caller(r) PROVE UNCHANGED Abstract!vars
  <2>1. UNCHANGED <<tok, kind, elapsed, granted, charged>>
    BY <1>3 DEF Caller, Acquire, ChargeBytes, Release
  <2>2. pc' = pc \/ (pc[r] = "idle" /\ pc' = [pc EXCEPT ![r] = "acquiring"])
    BY <1>3 DEF Caller, Acquire, ChargeBytes, Release
  <2>3. \A s \in Requests : pc'[s] = pc[s] \/ {pc[s], pc'[s]} \subseteq {"idle", "acquiring"}
    BY <1>1, <2>2
  <2> QED BY <2>1, <2>3, OthersStutter
<1>4. ASSUME Tick PROVE Abstract!Next
  <2>1. elapsed' = elapsed + 1 /\ UNCHANGED <<pc, tok, kind, granted, charged>>
    BY <1>4 DEF Tick, callVars
  <2>2. AbstractLease' = AbstractLease
    BY <2>1, LeaseSeen
  <2> QED BY <2>1, <2>2 DEF Abstract!Next, Abstract!TimePasses
<1>5. ASSUME ClockBack \/ UNCHANGED vars PROVE UNCHANGED Abstract!vars
  <2>1. UNCHANGED <<pc, tok, kind, elapsed, granted, charged>>
    BY <1>5 DEF ClockBack, vars, callVars
  <2> QED BY <2>1, OthersStutter
<1>6. ASSUME Crash PROVE Abstract!Next
  <2>1. UNCHANGED <<tok, kind, elapsed, granted, charged>>
    BY <1>6 DEF Crash
  <2>2. \A r \in Requests : pc'[r] = pc[r] \/ pc'[r] = "closed"
    BY <1>6 DEF Crash
  <2> QED BY <1>1, <2>1, <2>2, OthersEnd
<1> QED BY <1>2, <1>3, <1>4, <1>5, <1>6 DEF Next

(* The invariants of the coordinator hold together. *)
LEMMA QuotaInvariant ==
  /\ Init => QuotaInv
  /\ QuotaInv /\ [Next]_vars => QuotaInv'
<1>1. Init => QuotaInv
  <2>1. Init => AskedInv
    BY DEF Init, AskedInv, Outstanding
  <2> QED BY <2>1, InitBase, InitDaily, InitRate, InitSlots DEF QuotaInv
<1>2. QuotaInv /\ [Next]_vars => QuotaInv'
  BY NextBase, NextDaily, NextRate, NextSlots, NextAsked DEF QuotaInv
<1> QED BY <1>1, <1>2

(* The coordinator implements ExecutionQuota for all requests, quotas and  *)
(* clocks: with its chain, its plans and its counters in memory every lease *)
(* is admitted as if check and payment were one step, and none is paid     *)
(* back by a crash or a lost answer.                                       *)
THEOREM ImplementsExecutionQuotaHolds == Spec => ImplementsExecutionQuota
<1>1. Init => Abstract!Init
  <2> SUFFICES ASSUME Init PROVE Abstract!Init
    OBVIOUS
  <2>1. AbstractLease = [r \in Requests |-> "new"]
    BY LeaseSeen DEF Init, Seen
  <2> QED BY <2>1 DEF Init, Abstract!Init, Abstract!Keys, Keys
<1>2. QuotaInv /\ [Next]_vars => [Abstract!Next]_(Abstract!vars)
  BY StepRefines
<1> QED BY <1>1, <1>2, QuotaInvariant, PTL DEF Spec, ImplementsExecutionQuota, Abstract!Spec
=============================================================================
