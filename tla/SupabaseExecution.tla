------------------------- MODULE SupabaseExecution -------------------------
(***************************************************************************)
(* An HTTP execution in the gateway function of the Supabase adapter       *)
(* (supabase/functions/one-fetch-gateway) and the database functions it    *)
(* calls (migrations 0004 and 0007): the lease taken from the quota, the   *)
(* reconciliation of the request bytes, and the finalization that returns  *)
(* the lease, charges the response, appends the audit event and stores the *)
(* report in one transaction.                                              *)
(*                                                                         *)
(* Every database call can fail in four ways: it never arrives, it is      *)
(* applied and its answer is lost or cannot be read, or the database       *)
(* refuses it.  Time is counted in ticks of fifteen seconds, the limit of  *)
(* one database call.                                                      *)
(* One execution token: the tables of two tokens do not meet.              *)
(***************************************************************************)
EXTENDS Naturals, FiniteSets

CONSTANTS
  Requests,           \* the requests of a behaviour, each made once
  ConcurrentHttp,     \* concurrentHttp of the token
  RequestsPerMinute,  \* requestsPerMinute of the token
  BytesPerDay,        \* bytesPerDay of the token
  ResponseLimit,      \* responseBodyBytes, in chunks
  TicksPerDay,        \* length of a day
  MaxFaults,          \* bound: database calls that fail
  MaxClock            \* bound: ticks

VARIABLES
  clock,
  lease,          \* execution_leases, by request: when acquired, request bytes
  minute,         \* quota_windows of kind minute: request_count
  day,            \* quota_windows of kind day: request_bytes, response_bytes
  report,         \* execution_reports, by request
  terminal,       \* terminal[r]: execution events of the end of r in the ledger
  charges,        \* charges[r]: times the response of r was charged
  auditDegraded,  \* instance_state.audit_degraded
  req,            \* req[r]: the handler of r
  faults

tables == <<lease, minute, day, report, terminal, charges, auditDegraded>>
vars == <<clock, tables, req, faults>>

\* fetchOptions.timeoutMs is at most 60 s, p_lease_seconds is 120 s
TimeoutTicks == 4
LeaseTicks == 8
TicksPerMinute == 4

NoLease == [at |-> 0, bytes |-> 0, held |-> FALSE]
NoReport == [outcome |-> "none", bytes |-> 0, audit |-> "none"]

\* due: the tick by which the database call in progress has ended;
\* deadline: the tick at which the timer of the request fires;
\* said: the audit state signed into the answer; unreadable: history, it was
\* answered unfinalized because a finalization's answer was no result of it
NewRequest ==
  [pc |-> "idle", audit |-> "recorded", due |-> 0, deadline |-> 0,
   abort |-> "none", outcome |-> "none", sent |-> 0, hits |-> 0,
   answer |-> "none", said |-> "unknown", unreadable |-> FALSE]

Init ==
  /\ clock = 0
  /\ lease = [r \in Requests |-> NoLease]
  /\ minute = [m \in 0..(MaxClock \div TicksPerMinute) |-> 0]
  /\ day = [d \in 0..(MaxClock \div TicksPerDay) |->
              [request |-> 0, response |-> 0]]
  /\ report = [r \in Requests |-> NoReport]
  /\ terminal = [r \in Requests |-> 0]
  /\ charges = [r \in Requests |-> 0]
  /\ auditDegraded = FALSE
  /\ req = [r \in Requests |-> NewRequest]
  /\ faults = 0

At(r, label) == req[r].pc = label

\* An await of the handler; a database call lasts at most the given ticks
Goto(r, label, ticks) ==
  [req[r] EXCEPT !.pc = label,
     !.due = IF ticks = 0 THEN 0 ELSE clock + ticks]

\* The handler has returned, and nothing of it runs in the background
Done(r, answer, said) ==
  [NewRequest EXCEPT !.pc = "done", !.answer = answer, !.said = said,
     !.hits = req[r].hits]
Becomes(r, record) == req' = [req EXCEPT ![r] = record]
Hit(n) == /\ faults + n <= MaxFaults
          /\ faults' = faults + n

Live(r) == lease[r].held /\ lease[r].at + LeaseTicks > clock
Reap == [r \in Requests |-> IF Live(r) THEN lease[r] ELSE NoLease]

\* The request ends before a response was signed: finalizeRelayError follows
EndWith(r, outcome) ==
  [Goto(r, "finalize", 1) EXCEPT !.outcome = outcome, !.deadline = 0,
     !.abort = "none"]

(* auditStateAfter: append an event; failing that, mark the instance        *)
(* degraded, which may fail as well.                                        *)
AuditStateAfter(audit, flag, n) ==
  \/ audit = "same" /\ flag = auditDegraded /\ n = 0
  \/ audit = "degraded" /\ flag = TRUE /\ n = 1
  \/ audit = "degraded" /\ flag = auditDegraded /\ n = 2

\* The next record of r after an audit attempt with the given result
AfterAudit(r, record, audit, flag, n) ==
  /\ AuditStateAfter(audit, flag, n)
  /\ Hit(n)
  /\ auditDegraded' = flag
  /\ Becomes(r, [record EXCEPT
       !.audit = IF audit = "same" THEN @ ELSE audit, !.hits = @ + n])

-----------------------------------------------------------------------------
\* A request that createGatewayHandler refuses for its metadata, the schema or
\* its token is answered at once, with an audit state of unknown
RefusedEarly(r) == Becomes(r, Done(r, "relay", "unknown"))

(* createGatewayHandler: the configuration gives the first audit state; if  *)
(* it cannot be read, the answer is as early.                               *)
Handle(r) ==
  /\ At(r, "idle")
  /\ \/ RefusedEarly(r)
     \/ Becomes(r, [Goto(r, "received", 2) EXCEPT
                      !.audit = IF auditDegraded THEN "degraded"
                                                 ELSE "recorded"])
  /\ UNCHANGED <<clock, tables, faults>>

(* prepareExecution: the received event, then the checks made without a     *)
(* lease (transport, pause, options, recursion, scope).                     *)
Received(r) ==
  /\ At(r, "received")
  /\ \E audit \in {"same", "degraded"}, flag \in BOOLEAN, n \in 0..2 :
       \E label \in {"reject", "acquire"} :
         AfterAudit(r, Goto(r, label, 2), audit, flag, n)
  /\ UNCHANGED <<clock, lease, minute, day, report, terminal, charges>>

(* rejected without a lease: the denial is recorded and answered.           *)
Reject(r) ==
  /\ At(r, "reject")
  /\ \E audit \in {"same", "degraded"}, flag \in BOOLEAN, n \in 0..2 :
       AfterAudit(r,
         Done(r, "relay", IF audit = "same" THEN req[r].audit ELSE audit),
         audit, flag, n)
  /\ UNCHANGED <<clock, lease, minute, day, report, terminal, charges>>

(* of_acquire_execution: expired leases are deleted, the minute and day     *)
(* windows are charged even when the request is then refused.               *)
AcquireSql(r) ==
  LET m == clock \div TicksPerMinute
      d == clock \div TicksPerDay
      live == Cardinality({q \in Requests : Reap[q].held})
      count == minute[m] + 1
  IN [allowed |-> /\ count <= RequestsPerMinute
                  /\ day[d].request + day[d].response <= BytesPerDay
                  /\ live < ConcurrentHttp,
      minute |-> [minute EXCEPT ![m] = count]]

\* The effects of the function in the tables, when it is applied
AcquireApplied(r) ==
  /\ minute' = AcquireSql(r).minute
  /\ lease' = IF AcquireSql(r).allowed
                THEN [Reap EXCEPT ![r] = [at |-> clock, bytes |-> 0,
                                          held |-> TRUE]]
                ELSE Reap

StorageFailed(r) ==
  [Goto(r, "reject", 2) EXCEPT !.audit = "degraded", !.hits = @ + 1]

(* The acquisition of a lease in prepareExecution, and the timer that is    *)
(* set once it is held.  A lost answer leaves a lease nobody will return.   *)
AcquireExecution(r) ==
  /\ At(r, "acquire")
  /\ \/ /\ AcquireApplied(r)
        /\ IF AcquireSql(r).allowed
             THEN Becomes(r, [Goto(r, "body", 0) EXCEPT
                                !.deadline = clock + TimeoutTicks])
             ELSE Becomes(r, Goto(r, "reject", 2))
        /\ UNCHANGED faults
     \/ /\ Becomes(r, Goto(r, "reject", 2))  \* the token was revoked meanwhile
        /\ UNCHANGED <<lease, minute, faults>>
     \/ /\ AcquireApplied(r)
        /\ Hit(1) /\ Becomes(r, StorageFailed(r))
     \/ /\ Hit(1) /\ Becomes(r, StorageFailed(r))
        /\ UNCHANGED <<lease, minute>>
  /\ UNCHANGED <<clock, day, report, terminal, charges, auditDegraded>>

ReadRequestBody_NoLease(r) ==
  /\ At(r, "body")
  /\ Becomes(r, Goto(r, "reconcile", 1)) \/ Becomes(r, Goto(r, "reject", 2))
  /\ UNCHANGED <<clock, tables, faults>>

\* The catch of prepareExecution around the body
BodyRefused(r) == Becomes(r, EndWith(r, "relay-error"))

(* readRequestBody: the body is read, or it is too large or does not match  *)
(* its metadata.                                                            *)
ReadRequestBody(r) ==
  /\ At(r, "body")
  /\ Becomes(r, Goto(r, "reconcile", 1)) \/ BodyRefused(r)
  /\ UNCHANGED <<clock, tables, faults>>

(* of_reconcile_execution_request: the request bytes go to the windows of   *)
(* the acquisition, whether the day's limit is then exceeded or not.        *)
ReconcileApplied(r, bytes) ==
  LET d == lease[r].at \div TicksPerDay
      delta == bytes - lease[r].bytes
  IN IF lease[r].held /\ lease[r].bytes \in {0, bytes}
       THEN /\ day' = [day EXCEPT ![d].request = @ + delta]
            /\ lease' = [lease EXCEPT ![r].bytes = bytes]
       ELSE UNCHANGED <<day, lease>>

ReconcileAllows(r, bytes) ==
  LET d == lease[r].at \div TicksPerDay
  IN /\ lease[r].held
     /\ lease[r].bytes \in {0, bytes}
     /\ day[d].request + day[d].response + bytes - lease[r].bytes <= BytesPerDay

ReconcileFailed(r) ==
  [EndWith(r, "relay-error") EXCEPT !.audit = "degraded", !.hits = @ + 1]

(* The reconciliation in prepareExecution; the timer does not interrupt it. *)
Reconcile(r) ==
  /\ At(r, "reconcile")
  /\ \E bytes \in 0..1 :
       \/ /\ ReconcileApplied(r, bytes)
          /\ Becomes(r, IF ReconcileAllows(r, bytes)
                          THEN Goto(r, "accepted", 2)
                          ELSE EndWith(r, "relay-error"))
          /\ UNCHANGED faults
       \/ /\ ReconcileApplied(r, bytes)
          /\ Hit(1) /\ Becomes(r, ReconcileFailed(r))
       \/ /\ Hit(1) /\ Becomes(r, ReconcileFailed(r))
          /\ UNCHANGED <<day, lease>>
  /\ UNCHANGED <<clock, minute, report, terminal, charges, auditDegraded>>

(* The headers are refused, or the accepted event is appended.              *)
Accepted(r) ==
  /\ At(r, "accepted")
  /\ \/ Becomes(r, EndWith(r, "relay-error")) /\ UNCHANGED <<auditDegraded, faults>>
     \/ \E audit \in {"same", "degraded"}, flag \in BOOLEAN, n \in 0..2 :
          AfterAudit(r, Goto(r, "upstream", 0), audit, flag, n)
  /\ UNCHANGED <<clock, lease, minute, day, report, terminal, charges>>

\* createTargetResponse signs the audit state known at that moment
TargetAnswer(r, record) ==
  [record EXCEPT !.answer = "target", !.said = req[r].audit]

(* executeBoundHttp and createTargetResponse: a denial, a failure of the    *)
(* target or an unusable response ends the request; otherwise the target's  *)
(* response is signed with the audit state of that moment and sent.         *)
Upstream(r) ==
  /\ At(r, "upstream")
  /\ \/ Becomes(r, EndWith(r, "relay-error"))
     \/ /\ req[r].abort # "none"
        /\ Becomes(r, EndWith(r, req[r].abort))
     \/ /\ req[r].abort = "none"
        /\ \/ Becomes(r, TargetAnswer(r, EndWith(r, "completed")))
           \/ Becomes(r, TargetAnswer(r, Goto(r, "stream", 0)))
  /\ UNCHANGED <<clock, tables, faults>>

\* The callback of monitoredBody: streamTerminalRecord, then finalize
StreamEnds(r, outcome) == EndWith(r, outcome)

(* monitoredBody: a chunk, the end, or an error of the target's body.       *)
Stream(r) ==
  /\ At(r, "stream")
  /\ \/ /\ req[r].sent <= ResponseLimit
        /\ Becomes(r, [(IF req[r].sent = ResponseLimit
                          THEN StreamEnds(r, "partial") ELSE req[r])
                       EXCEPT !.sent = @ + 1])
     \/ Becomes(r, StreamEnds(r, "completed"))
     \/ Becomes(r, StreamEnds(r, "partial"))
  /\ UNCHANGED <<clock, tables, faults>>

(* The timer of the request fires, or the client goes away.  While the body *)
(* or the response is awaited the abort ends it at once; during a database  *)
(* call it is only remembered.                                              *)
Abort(r) ==
  /\ req[r].pc \in {"body", "reconcile", "accepted", "upstream", "stream"}
  /\ \E reason \in {"timeout", "cancelled"} :
       /\ \/ reason = "timeout" /\ req[r].abort # "timeout"
             /\ clock >= req[r].deadline
          \/ reason = "cancelled" /\ req[r].abort = "none"
       /\ Becomes(r, IF req[r].pc \in {"reconcile", "accepted"}
                       THEN [req[r] EXCEPT !.abort = reason]
                       ELSE EndWith(r, reason))
  /\ UNCHANGED <<clock, tables, faults>>

-----------------------------------------------------------------------------
(* of_finalize_execution and of_release_execution, when they are applied: a *)
(* report that exists is answered from; a lease that is gone is an error;   *)
(* otherwise event, release, charge and report are one transaction.         *)
FinalizeRaises(r) == report[r] = NoReport /\ ~lease[r].held

FinalizeSkips_Never(r) == FALSE
FinalizeSkips(r) == report[r] # NoReport \/ ~lease[r].held

ReportAudit(r, appended) ==
  IF appended /\ req[r].audit = "recorded" THEN "recorded" ELSE "degraded"

FinalizeApplied(r, appended) ==
  LET audit == ReportAudit(r, appended)
      d == clock \div TicksPerDay
  IN IF FinalizeSkips(r)
       THEN UNCHANGED <<lease, day, report, terminal, charges, auditDegraded>>
       ELSE /\ lease' = [lease EXCEPT ![r] = NoLease]
            /\ day' = [day EXCEPT ![d].response = @ + req[r].sent]
            /\ charges' = [charges EXCEPT ![r] = @ + 1]
            /\ terminal' = [terminal EXCEPT ![r] = @ + IF appended THEN 1 ELSE 0]
            /\ auditDegraded' = (auditDegraded \/ audit = "degraded")
            /\ report' = [report EXCEPT ![r] =
                 [outcome |-> req[r].outcome, bytes |-> req[r].sent,
                  audit |-> audit]]

\* finalize threw: a request not answered yet gets a storage error
Thrown(r, n) ==
  [Done(r, IF req[r].answer = "none" THEN "unfinalized" ELSE req[r].answer,
        req[r].said) EXCEPT !.hits = @ + n]

(* finalize, when the database applied it: a lost answer (a transport       *)
(* failure or a timeout) is retried once with the same parameters; an       *)
(* answer that is an error of the platform, no JSON or no result is thrown. *)
Finalize(r) ==
  /\ req[r].pc \in {"finalize", "retry"}
  /\ \E appended \in BOOLEAN, answer \in {"read", "lost", "unreadable"} :
       LET n == (IF appended THEN 0 ELSE 1) + (IF answer = "read" THEN 0 ELSE 1)
           told == IF req[r].answer = "none"
                     THEN Done(r, "reported", report'[r].audit)
                     ELSE Done(r, req[r].answer, req[r].said)
       IN
       /\ FinalizeApplied(r, appended)
       /\ Hit(n)
       /\ \/ /\ answer = "lost" /\ At(r, "finalize")
             /\ Becomes(r, [Goto(r, "retry", 1) EXCEPT !.hits = @ + n])
          \/ /\ \/ answer = "lost" /\ At(r, "retry")
                \/ answer = "read" /\ FinalizeRaises(r)
             /\ Becomes(r, Thrown(r, n))
          \/ /\ answer = "unreadable"
             /\ Becomes(r, [Thrown(r, n) EXCEPT
                  !.unreadable = (req[r].answer = "none")])
          \/ /\ answer = "read" /\ ~FinalizeRaises(r)
             /\ Becomes(r, [told EXCEPT !.hits = @ + n])
  /\ UNCHANGED <<clock, minute>>

(* The call does not arrive (retried once) or the database refuses it.      *)
FinalizeFails(r) ==
  /\ req[r].pc \in {"finalize", "retry"}
  /\ Hit(1)
  /\ Becomes(r, Thrown(r, 1))
       \/ /\ At(r, "finalize")
          /\ Becomes(r, [Goto(r, "retry", 1) EXCEPT !.hits = @ + 1])
  /\ UNCHANGED <<clock, tables>>

(* of_cleanup_expired deletes leases that have run out (reports are kept    *)
(* for ten minutes, longer than the clock runs).                            *)
CleanupExpired ==
  /\ lease # Reap
  /\ lease' = Reap
  /\ UNCHANGED <<clock, minute, day, report, terminal, charges, auditDegraded,
                 req, faults>>

-----------------------------------------------------------------------------
Calls == {"received", "reject", "acquire", "reconcile", "accepted", "finalize",
          "retry"}
Waits == {"body", "upstream", "stream"}

(* Time passes while no database call exceeds its limit and no timer that   *)
(* would interrupt a wait is overdue.                                       *)
Tick ==
  /\ clock < MaxClock
  /\ \A r \in Requests : /\ req[r].pc \in Calls => clock < req[r].due
                         /\ req[r].pc \in Waits => clock < req[r].deadline
  /\ clock' = clock + 1
  /\ UNCHANGED <<tables, req, faults>>

Step(r) == \/ Handle(r) \/ Received(r) \/ Reject(r) \/ AcquireExecution(r)
           \/ ReadRequestBody(r) \/ Reconcile(r) \/ Accepted(r) \/ Upstream(r)
           \/ Stream(r) \/ Abort(r) \/ Finalize(r) \/ FinalizeFails(r)

Next == (\E r \in Requests : Step(r)) \/ CleanupExpired \/ Tick

Spec == Init /\ [][Next]_vars

-----------------------------------------------------------------------------
(* The limit on concurrent executions binds what runs, not only what is     *)
(* booked: while a request reads its body, waits for its target or streams, *)
(* its lease is still counted, although leases run out by the clock and     *)
(* nothing renews them; and no more leases count than the limit allows.     *)
WorkIsLeased ==
  /\ \A r \in Requests : req[r].pc \in Waits => Live(r)
  /\ Cardinality({r \in Requests : Live(r)}) <= ConcurrentHttp

(* Whatever answers of of_finalize_execution are lost and retried, the      *)
(* response is charged once, the end of the request is in the ledger at     *)
(* most once, and a report that says recorded has its event.                *)
FinalizedOnce ==
  \A r \in Requests :
    /\ charges[r] = IF report[r] = NoReport THEN 0 ELSE 1
    /\ terminal[r] <= 1
    /\ report[r].audit = "recorded" => terminal[r] = 1
    /\ report[r] # NoReport => ~lease[r].held

(* A client that is told the execution could not be recorded, when it was,  *)
(* has lost two database calls: one lost answer is repaired by the retry,   *)
(* which finds the report of the first attempt.  Only an answer that came   *)
(* and could not be read does it alone.                                     *)
UnfinalizedIsRare ==
  \A r \in Requests :
    req[r].answer = "unfinalized" =>
      req[r].hits >= 2 \/ report[r] = NoReport \/ req[r].unreadable

(* An audit state that was signed as degraded is never corrected to         *)
(* recorded by the report that the client reads later.                      *)
DegradedStays ==
  \A r \in Requests :
    req[r].said = "degraded" => report[r].audit \in {"none", "degraded"}

(* A request that met no fault leaves no lease behind, however it ended.    *)
LeakOnlyByFault ==
  \A r \in Requests :
    At(r, "done") /\ req[r].hits = 0 => ~lease[r].held
=============================================================================
