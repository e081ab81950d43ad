--------------------------- MODULE ExecutionQuota ---------------------------
(***************************************************************************)
(* What an adapter's quota coordinator promises, free of how it counts: a  *)
(* lease is given only while the token and the instance are below their    *)
(* concurrency limit, within their rate and within their daily bytes; a    *)
(* restart may drop leases but never gives back what was granted.          *)
(* NodeQuota implements this specification.                                *)
(***************************************************************************)
EXTENDS Integers, FiniteSets

CONSTANTS Requests, Tokens, Instance, Kinds, Days, Quota, Minute, ByteSizes

Keys == Tokens \cup {Instance}

VARIABLES
  lease,    \* lease[r]: "new", "held" or "over"
  tok, kind,
  elapsed,  \* forward movement of the clock
  granted,  \* leases paid for, per quota key
  charged   \* bytes paid for, per day and quota key

vars == <<lease, tok, kind, elapsed, granted, charged>>

Init ==
  /\ lease = [r \in Requests |-> "new"]
  /\ tok \in [Requests -> Tokens]
  /\ kind \in [Requests -> Kinds]
  /\ elapsed = 0
  /\ granted = [q \in Keys |-> 0]
  /\ charged = [d \in Days |-> [q \in Keys |-> 0]]

Held(k)        == {r \in Requests : lease[r] = "held" /\ kind[r] = k}
HeldBy(t, k)   == {r \in Held(k) : tok[r] = t}

HasSlot(r) ==
  /\ Cardinality(HeldBy(tok[r], kind[r])) < Quota[tok[r]].concurrent[kind[r]]
  /\ Cardinality(Held(kind[r])) < Quota[Instance].concurrent[kind[r]]

WithinRate(q) ==
  (granted[q] + 1) * Minute
    <= Quota[q].burst * Minute + elapsed * Quota[q].requestsPerMinute

\* A row of totals with b more for the token and for the instance.
Paid(row, t, b) == [row EXCEPT ![t] = @ + b, ![Instance] = @ + b]

\* Charge b bytes of some day to the token and to the instance.
Pay(t, b) ==
  \E d \in Days :
    /\ \A q \in {t, Instance} : charged[d][q] + b <= Quota[q].bytesPerDay
    /\ charged' = [charged EXCEPT ![d] = Paid(@, t, b)]

\* A request is let in; "over": its grant was paid for and then lost.
Admit(r, b) ==
  /\ lease[r] = "new"
  /\ HasSlot(r)
  /\ WithinRate(tok[r])
  /\ WithinRate(Instance)
  /\ Pay(tok[r], b)
  /\ granted' = [granted EXCEPT ![tok[r]] = @ + 1, ![Instance] = @ + 1]
  /\ \E s \in {"held", "over"} : lease' = [lease EXCEPT ![r] = s]
  /\ UNCHANGED <<tok, kind, elapsed>>

Charge(r, b) ==
  /\ lease[r] # "new"
  /\ Pay(tok[r], b)
  /\ UNCHANGED <<lease, tok, kind, elapsed, granted>>

\* Requests are refused, leases are returned or lost in a restart.
End ==
  /\ lease' \in [Requests -> {"new", "held", "over"}]
  /\ \A r \in Requests : lease'[r] \in {lease[r], "over"}
  /\ UNCHANGED <<tok, kind, elapsed, granted, charged>>

TimePasses ==
  /\ elapsed' = elapsed + 1
  /\ UNCHANGED <<lease, tok, kind, granted, charged>>

Next ==
  \/ \E r \in Requests, b \in ByteSizes : Admit(r, b) \/ Charge(r, b)
  \/ End
  \/ TimePasses

Spec == Init /\ [][Next]_vars
=============================================================================
