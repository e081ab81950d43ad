---------------------------- MODULE MCNodeQuota ----------------------------
(* Instances of NodeQuota small enough to reach every limit. *)
EXTENDS NodeQuota, TLC

QuotaOf(burst, rpm, http, tunnel, day) ==
  [burst |-> burst, requestsPerMinute |-> rpm,
   concurrent |-> [http |-> http, tunnel |-> tunnel], bytesPerDay |-> day]

\* HTTP slots run out for the token, tunnel slots for the instance; rate and
\* bytes are ample.
SlotQuota ==
  [q \in Keys |-> IF q = Instance THEN QuotaOf(9, 0, 2, 1, 9)
                                  ELSE QuotaOf(9, 0, 1, 2, 9)]

\* A token's own bucket outlives the instance's for a while.
TightQuota ==
  [q \in Keys |-> IF q = Instance THEN QuotaOf(1, 1, 3, 3, 2)
                                  ELSE QuotaOf(2, 1, 3, 3, 3)]

Symmetry == Permutations(Requests) \cup Permutations(Tokens)

\* The lease of a request as the abstract coordinator sees it.
AbstractLease ==
  [r \in Requests |->
     CASE pc[r] \in {"idle", "acquiring"} -> "new"
       [] pc[r] = "leased" -> "held"
       [] OTHER -> "over"]

Abstract == INSTANCE ExecutionQuota WITH lease <- AbstractLease

\* The coordinator implements ExecutionQuota: every transaction it commits
\* and every lease it hands out is one the abstract quota allows.
ImplementsExecutionQuota == Abstract!Spec
=============================================================================
