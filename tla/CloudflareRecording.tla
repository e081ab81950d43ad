------------------------ MODULE CloudflareRecording ------------------------
(***************************************************************************)
(* The end of an execution in the Cloudflare adapter, shared by HTTP       *)
(* requests and tunnels: the quota object releases the lease, then one D1  *)
(* batch stores the terminal audit event and the report                    *)
(* (execution-recording.ts, audit.ts), called through the Control Worker   *)
(* (control-service.ts, gateway/control-client.ts).                        *)
(*                                                                         *)
(* A call of the Control Worker has no time limit.  It can be refused      *)
(* because the schema is not the build's, never arrive, or be applied and  *)
(* its answer lost.  The gateway Worker can be evicted at any await.       *)
(***************************************************************************)
EXTENDS CloudflareQuota

CONSTANT MaxFaults  \* bound: calls that fail and evictions

VARIABLES
  report,     \* execution_reports, by request: the audit state, or "none"
  terminal,   \* terminal[r]: audit events of the end of r
  degraded,   \* instance_state.audit_degraded
  req,        \* req[r]: the handler of r
  faults

tables == <<report, terminal, degraded>>
vars == <<clock, quota, tables, req, faults>>

RecordingInit ==
  /\ QuotaInit
  /\ report = [r \in Requests |-> "none"]
  /\ terminal = [r \in Requests |-> 0]
  /\ degraded = FALSE
  /\ faults = 0

At(r, label) == req[r].pc = label
Becomes(r, record) == req' = [req EXCEPT ![r] = record]
Goto(r, label) == [req[r] EXCEPT !.pc = label]
\* The record of a handler that met n more faults.
AfterFaults(record, n) == [record EXCEPT !.hits = @ + n]
Hit(n) == faults + n <= MaxFaults /\ faults' = faults + n

\* The record of r once the quota object has released it: late and excess are
\* history, whether the lease was gone by then, and the bytes charged for r in
\* all beyond those announced or reported, and returned
Released(record, r) ==
  [record EXCEPT !.late = ~Holds(r),
     !.excess = req[r].est + ReleaseCharge(r, req[r].sent, req[r].up)
                  - Max({req[r].est, req[r].up}) - req[r].sent]

(* recordDecision and recordDenied: an audit event; failing that, the       *)
(* degraded marker, which may fail as well.                                 *)
AuditDecision(n) ==
  \/ n = 0 /\ UNCHANGED degraded
  \/ n = 1 /\ degraded' = TRUE
  \/ n = 2 /\ UNCHANGED degraded

(* releaseExecutionJson: the lease is released before anything is recorded. *)
(* The handler of r is thrown when the call fails, finished when it returns. *)
ReleaseExecution(r, thrown) ==
  /\ At(r, "complete")
  /\ \/ /\ Release(r, req[r].sent, req[r].up)
        /\ \/ Becomes(r, Released(Goto(r, "record"), r)) /\ UNCHANGED faults
           \/ Becomes(r, Released(AfterFaults(thrown, 1), r)) /\ Hit(1)
     \/ /\ Hit(1) /\ Becomes(r, AfterFaults(thrown, 1))
        /\ UNCHANGED quota
  /\ UNCHANGED <<clock, tables>>

(* auditInsertWhenExecutionIsUnfinished and the report in one batch: the    *)
(* event needs the absence of a report, the report the presence of the      *)
(* event.                                                                   *)
Batch(r) ==
  IF report[r] = "none"
    THEN /\ terminal' = [terminal EXCEPT ![r] = @ + 1]
         /\ report' = [report EXCEPT ![r] =
                         IF degraded THEN "degraded" ELSE "recorded"]
    ELSE UNCHANGED <<terminal, report>>

(* releaseExecution after the release: the instance is read and the batch   *)
(* is run; a batch that fails, or seems to, is followed by the fallback.    *)
RecordExecution(r, finished, thrown) ==
  /\ At(r, "record")
  /\ \/ Batch(r) /\ Becomes(r, finished) /\ UNCHANGED faults
     \/ /\ Batch(r) /\ Hit(1)
        /\ Becomes(r, AfterFaults(Goto(r, "degrade"), 1))
     \/ /\ Hit(1) /\ Becomes(r, AfterFaults(Goto(r, "degrade"), 1))
        /\ UNCHANGED <<terminal, report>>
     \/ /\ Hit(1) /\ Becomes(r, AfterFaults(thrown, 1))  \* no instance, or its
        /\ Batch(r) \/ UNCHANGED <<terminal, report>>     \* answer is lost
  /\ UNCHANGED <<clock, quota, degraded>>

(* markAuditDegraded and saveDegradedReport: an existing report is kept.    *)
SaveDegradedReport(r, finished, thrown) ==
  /\ At(r, "degrade")
  /\ \E marked, saved \in BOOLEAN :
       LET n == Cardinality({i \in {1, 2} : ~(<<marked, saved>>[i])}) IN
       /\ degraded' = (degraded \/ marked)
       /\ report' = IF saved /\ report[r] = "none"
                      THEN [report EXCEPT ![r] = "degraded"] ELSE report
       /\ \/ Hit(n) /\ Becomes(r, AfterFaults(finished, n))
          \/ Hit(n + 1) /\ Becomes(r, AfterFaults(thrown, n + 1))
  /\ UNCHANGED <<clock, quota, terminal>>

(* Completion leaves one event at most, and one report that says recorded   *)
(* only when that event is there; a request with a report holds no lease.   *)
TerminalOnce ==
  \A r \in Requests :
    /\ terminal[r] <= 1
    /\ report[r] = "recorded" => terminal[r] = 1
    /\ report[r] # "none" => ~Holds(r)
=============================================================================
