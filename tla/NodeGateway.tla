---------------------------- MODULE NodeGateway ----------------------------
(***************************************************************************)
(* The life of an HTTP request in the gateway of the Node adapter          *)
(* (adapters/node/src/gateway.ts, gateway-stream.ts, body-spool.ts), with  *)
(* the execution reports, alerts and audit events it leaves behind         *)
(* (execution-reports.ts, audit.ts).                                       *)
(*                                                                         *)
(* One record per request holds its progress and its resources.  A step is *)
(* what the handler does between two awaits.  The upstream server, the     *)
(* client and the timer act at any time.  The quota (NodeQuota) is seen    *)
(* through its answers: a lease or a refusal.  Chunks stand for bytes.     *)
(***************************************************************************)
EXTENDS Naturals, FiniteSets

CONSTANTS
  Requests,    \* the requests of a behaviour, each made once
  Tokens,      \* execution tokens
  Ids,         \* request ids, chosen by the clients
  TokenOf,     \* TokenOf[r]: the token r presents
  IdOf,        \* IdOf[r]: the request id r carries
  BodyLimit,   \* responseBodyLimitBytes
  MaxFaults,   \* bound: database operations that fail, per request
  MaxCrashes   \* bound: crashes of the process

VARIABLES
  st,        \* st[r]: the handler of r
  paused,    \* gatewayPaused of the stored configuration
  revoked,   \* execution tokens that are revoked or have expired
  ledger,    \* request events in the audit ledger: <<action, r>>
  reports,   \* execution_reports, by request_id
  alerts,    \* operational_alerts that are open, by report_id
  crashes

tables == <<ledger, reports, alerts>>
vars == <<st, paused, revoked, tables, crashes>>

NoReport == [token |-> "none", by |-> "none", outcome |-> "none",
             audit |-> "none", live |-> FALSE]

NewHandler ==
  [pc |-> "new", paused |-> FALSE, abort |-> "none", timer |-> FALSE,
   down |-> "open", up |-> "none", chunks |-> 0, outcome |-> "none",
   audit |-> "unknown", lease |-> FALSE, spool |-> FALSE, faults |-> 0]

Init ==
  /\ st = [r \in Requests |-> NewHandler]
  /\ paused = FALSE
  /\ revoked = {}
  /\ ledger = {}
  /\ reports = [i \in Ids |-> NoReport]
  /\ alerts = {}
  /\ crashes = 0

At(r, label) == st[r].pc = label

\* Steps that leave the tables and the control plane alone
Private == UNCHANGED <<paused, revoked, tables, crashes>>

\* The connection to the client of r after a write, and when its answer ends:
\* one that is gone stays so.
Written(r) == IF st[r].down = "open" THEN "started" ELSE st[r].down
EndedAs(r, how) == IF st[r].down = "destroyed" THEN "destroyed" ELSE how

\* A database operation of r fails.
Fault(r) == st[r].faults < MaxFaults

-----------------------------------------------------------------------------
(* Before the target is contacted.  "error" is the catch of the handler;   *)
(* "plain" is the same when no configuration was read.                     *)

ReadConfiguration(r) ==
  /\ At(r, "new")
  /\ st' = [st EXCEPT ![r] = [@ EXCEPT !.pc = "authenticate",
                                       !.paused = paused]]
  /\ Private

\* Bad metadata, no token, or the configuration cannot be read
RefuseUnread(r) ==
  /\ At(r, "new")
  /\ st' = [st EXCEPT ![r].pc = "plain"]
  /\ Private

Authenticate(r) ==
  /\ At(r, "authenticate")
  /\ st' = [st EXCEPT ![r].pc =
              IF TokenOf[r] \in revoked \/ st[r].paused THEN "error"
                                                        ELSE "upload"]
  /\ Private

SpoolBody(r) ==
  /\ At(r, "upload")
  /\ st[r].abort = "none"
  /\ st' = [st EXCEPT ![r] = [@ EXCEPT !.pc = "validate", !.spool = TRUE]]
  /\ Private

\* Cut short or too large: spoolBody removes its file itself.
SpoolFails(r) ==
  /\ At(r, "upload")
  /\ st' = [st EXCEPT ![r].pc = "error"]
  /\ Private

\* validateRequest refuses, or the quota does.
Refuse(r) ==
  /\ At(r, "validate")
  /\ st' = [st EXCEPT ![r].pc = "error"]
  /\ Private

\* The timeout is set as soon as the lease is there.
Acquire(r) ==
  /\ At(r, "validate")
  /\ st' = [st EXCEPT ![r] = [@ EXCEPT !.pc = "resolve", !.lease = TRUE,
                                       !.timer = TRUE]]
  /\ Private

\* resolveApprovedTarget, which does not look at the abort signal
Resolve(r) ==
  /\ At(r, "resolve")
  /\ \E verdict \in {"accept", "error"} :
       st' = [st EXCEPT ![r].pc = verdict]
  /\ Private

AuditAccepted(r) ==
  /\ At(r, "accept")
  /\ st' = [st EXCEPT ![r] = [@ EXCEPT !.pc = "contact", !.audit = "recorded"]]
  /\ ledger' = ledger \cup {<<"accepted", r>>}
  /\ UNCHANGED <<paused, revoked, reports, alerts, crashes>>

AuditDegraded(r) ==
  /\ At(r, "accept")
  /\ Fault(r)
  /\ st' = [st EXCEPT ![r] = [@ EXCEPT !.pc = "contact", !.audit = "degraded",
                                       !.faults = st[r].faults + 1]]
  /\ Private

-----------------------------------------------------------------------------
(* executeUpstream and streamTarget *)

\* The target answers with a head that may be passed on.
UpstreamAnswers(r) ==
  /\ At(r, "contact")
  /\ st[r].abort = "none"
  /\ st' = [st EXCEPT ![r] = [@ EXCEPT !.pc = "stream", !.up = "flowing"]]
  /\ Private

\* It cannot be reached, redirects to a target that is not approved,
\* declares too long a body, or the request was aborted.
UpstreamFails(r) ==
  /\ At(r, "contact")
  /\ st' = [st EXCEPT ![r].pc = "error"]
  /\ Private

\* The next chunk, if the body limit admits it
UpstreamChunk(r) ==
  /\ At(r, "stream")
  /\ st[r].up = "flowing"
  /\ st' = [st EXCEPT ![r].pc = IF st[r].chunks + 1 > BodyLimit
                                THEN "interrupted" ELSE "charge"]
  /\ Private

\* The body ends, as its message said or before.
UpstreamEnds(r) ==
  /\ At(r, "stream")
  /\ st[r].up = "flowing"
  /\ \E end \in {"complete", "truncated"} : st' = [st EXCEPT ![r].up = end]
  /\ Private

\* chargeBytes, then the write; when the client does not read, the handler
\* waits for "drain".
Forward(r) ==
  /\ At(r, "charge")
  /\ \E next \in {"stream", "drain"} :
       st' = [st EXCEPT ![r] =
                [@ EXCEPT !.pc = next, !.chunks = st[r].chunks + 1,
                          !.down = Written(r)]]
  /\ Private

ChargeFails(r) ==
  /\ At(r, "charge")
  /\ st' = [st EXCEPT ![r].pc = "interrupted"]
  /\ Private

\* The client has read.
Drain(r) ==
  /\ At(r, "drain")
  /\ st[r].down = "started"
  /\ st' = [st EXCEPT ![r].pc = "stream"]
  /\ Private

\* Where the abort signal ends a wait: on the target and on the client.
Abortable_Upstream(r) == st[r].pc \in {"contact", "stream"}
Abortable(r) == st[r].pc \in {"contact", "stream", "drain"}

ObserveAbort(r) ==
  /\ Abortable(r)
  /\ st[r].abort # "none"
  /\ st' = [st EXCEPT ![r].pc = IF @ = "contact" THEN "error"
                                                 ELSE "interrupted"]
  /\ Private

\* responseBodyCompleted decides between the end and a failure.
BodyCompleted_AtEnd(r) == st[r].up \in {"complete", "truncated"}
BodyCompleted(r) == st[r].up = "complete"

Finish(r) ==
  /\ At(r, "stream")
  /\ BodyCompleted(r)
  /\ st' = [st EXCEPT ![r] =
              [@ EXCEPT !.pc = "report", !.outcome = "completed",
                        !.down = EndedAs(r, "ended")]]
  /\ Private

EndsEarly(r) ==
  /\ At(r, "stream")
  /\ st[r].up = "truncated"
  /\ ~BodyCompleted(r)
  /\ st' = [st EXCEPT ![r].pc = "interrupted"]
  /\ Private

\* interruptedResponseOutcome
InterruptedOutcome(r) ==
  IF st[r].abort # "none" THEN st[r].abort
  ELSE IF st[r].down = "destroyed" THEN "cancelled" ELSE "partial"

Interrupt(r) ==
  /\ At(r, "interrupted")
  /\ st' = [st EXCEPT ![r] = [@ EXCEPT !.pc = "report", !.down = "destroyed",
                                       !.outcome = InterruptedOutcome(r)]]
  /\ Private

-----------------------------------------------------------------------------
(* The final records *)

\* #saveOperation: ON CONFLICT(request_id) leaves the token as it was.
Saved(r, audit) ==
  LET old == reports[IdOf[r]]
  IN [reports EXCEPT ![IdOf[r]] =
        [token |-> IF old = NoReport THEN TokenOf[r] ELSE old.token,
         by |-> r, outcome |-> st[r].outcome, audit |-> audit, live |-> TRUE]]

\* ExecutionReportStore.get, for the token the reports route authenticated
Readable(t, i) == reports[i].live /\ reports[i].token = t /\ t \notin revoked

SaveReport(r) ==
  /\ At(r, "report")
  /\ reports' = Saved(r, st[r].audit)
  /\ st' = [st EXCEPT ![r].pc = "event"]
  /\ UNCHANGED <<paused, revoked, ledger, alerts, crashes>>

SaveReportFails(r) ==
  /\ At(r, "report")
  /\ Fault(r)
  /\ st' = [st EXCEPT ![r] = [@ EXCEPT !.pc = "release",
                                       !.faults = st[r].faults + 1]]
  /\ Private

AuditOutcome(r) ==
  /\ At(r, "event")
  /\ ledger' = ledger \cup {<<st[r].outcome, r>>}
  /\ st' = [st EXCEPT ![r].pc = "release"]
  /\ UNCHANGED <<paused, revoked, reports, alerts, crashes>>

AuditOutcomeFails_Logged(r) ==
  /\ At(r, "event")
  /\ Fault(r)
  /\ st' = [st EXCEPT ![r] = [@ EXCEPT !.pc = "release",
                                       !.faults = st[r].faults + 1]]
  /\ Private

AuditOutcomeFails(r) ==
  /\ At(r, "event")
  /\ Fault(r)
  /\ st' = [st EXCEPT ![r] = [@ EXCEPT !.pc = "degrade",
                                       !.faults = st[r].faults + 1]]
  /\ Private

RecordAuditDegradation(r) ==
  /\ At(r, "degrade")
  /\ reports' = Saved(r, "degraded")
  /\ alerts' = alerts \cup {IdOf[r]}
  /\ st' = [st EXCEPT ![r].pc = "release"]
  /\ UNCHANGED <<paused, revoked, ledger, crashes>>

DegradationFails(r) ==
  /\ At(r, "degrade")
  /\ Fault(r)
  /\ st' = [st EXCEPT ![r] = [@ EXCEPT !.pc = "release",
                                       !.faults = st[r].faults + 1]]
  /\ Private

-----------------------------------------------------------------------------
(* The catch and the finally of handleGatewayRequest *)

\* A signed relay error, or an unsigned one when nothing was read; a client
\* that is gone gets neither.
AnswerError(r) ==
  /\ st[r].pc \in {"error", "plain"}
  /\ st' = [st EXCEPT ![r] =
              [@ EXCEPT !.pc = "release",
                        !.down = EndedAs(r, IF At(r, "plain") THEN "plain"
                                                              ELSE "relay")]]
  /\ Private

Release(r) ==
  /\ At(r, "release")
  /\ st' = [st EXCEPT ![r] = [@ EXCEPT !.pc = "done", !.timer = FALSE,
                                       !.lease = FALSE, !.spool = FALSE]]
  /\ Private

-----------------------------------------------------------------------------
(* Around the handler *)

\* The first reason to abort is the one that counts.
Abort(r, reason) == IF st[r].abort = "none" THEN reason ELSE st[r].abort

Timeout(r) ==
  /\ st[r].timer
  /\ st' = [st EXCEPT ![r] = [@ EXCEPT !.abort = Abort(r, "timeout"),
                                       !.timer = FALSE]]
  /\ Private

ClientCloses(r) ==
  /\ ~At(r, "done") /\ ~At(r, "lost")
  /\ st[r].down \in {"open", "started"}
  /\ st' = [st EXCEPT ![r] = [@ EXCEPT !.abort = Abort(r, "cancelled"),
                                       !.down = "destroyed"]]
  /\ Private

\* REPORT_RETENTION_MS has passed: get no longer finds the row, which stays.
ReportExpires(i) ==
  /\ reports[i].live
  /\ reports' = [reports EXCEPT ![i].live = FALSE]
  /\ UNCHANGED <<st, paused, revoked, ledger, alerts, crashes>>

SetPaused ==
  /\ paused' = ~paused
  /\ UNCHANGED <<st, revoked, tables, crashes>>

RevokeToken(t) ==
  /\ t \notin revoked
  /\ revoked' = revoked \cup {t}
  /\ UNCHANGED <<st, paused, tables, crashes>>

Crash ==
  /\ crashes < MaxCrashes
  /\ crashes' = crashes + 1
  /\ st' = [r \in Requests |->
              IF st[r].pc \in {"new", "done"} THEN st[r]
              ELSE [st[r] EXCEPT !.pc = "lost", !.timer = FALSE,
                                 !.lease = FALSE, !.down = "destroyed"]]
  /\ UNCHANGED <<paused, revoked, tables>>

\* What the handler of r does by itself, with the database, the resolver
\* and the client's upload, which all settle
Handle(r) ==
  \/ Authenticate(r) \/ SpoolBody(r) \/ SpoolFails(r) \/ Refuse(r)
  \/ Acquire(r) \/ Resolve(r) \/ AuditAccepted(r) \/ AuditDegraded(r)
  \/ Forward(r) \/ ChargeFails(r) \/ ObserveAbort(r)
  \/ Finish(r) \/ EndsEarly(r) \/ Interrupt(r)
  \/ SaveReport(r) \/ SaveReportFails(r)
  \/ AuditOutcome(r) \/ AuditOutcomeFails(r)
  \/ RecordAuditDegradation(r) \/ DegradationFails(r)
  \/ AnswerError(r) \/ Release(r)

\* What the target and the client may do or leave undone for ever
Outside(r) ==
  \/ ReadConfiguration(r) \/ RefuseUnread(r)
  \/ UpstreamAnswers(r) \/ UpstreamFails(r) \/ UpstreamChunk(r)
  \/ UpstreamEnds(r) \/ Drain(r) \/ ClientCloses(r)

Next ==
  \/ \E r \in Requests : Handle(r) \/ Outside(r) \/ Timeout(r)
  \/ \E i \in Ids : ReportExpires(i)
  \/ SetPaused
  \/ \E t \in Tokens : RevokeToken(t)
  \/ Crash

Spec == Init /\ [][Next]_vars

(* Timers fire, and no more is asked of targets and clients than that.     *)
FairSpec ==
  Spec /\ \A r \in Requests : WF_vars(Handle(r)) /\ WF_vars(Timeout(r))

-----------------------------------------------------------------------------
(* Properties *)

Outcomes == {"completed", "partial", "timeout", "cancelled"}

Ended(r) == At(r, "done")

\* The outcome on record is what happened: "completed" only for a body that
\* the target finished and that was passed on whole, any other only for a
\* response that was cut off, and for the reason given.  A client that goes
\* away after the last chunk was taken does not change the outcome.
OutcomeHonest ==
  \A r \in Requests :
    CASE st[r].outcome = "completed" ->
           st[r].up = "complete" /\ st[r].down \in {"ended", "destroyed"}
      [] st[r].outcome = "partial" ->
           st[r].down = "destroyed"
      [] st[r].outcome \in {"timeout", "cancelled"} ->
           st[r].down = "destroyed" /\ st[r].abort = st[r].outcome
      [] OTHER -> <<st[r].outcome, r>> \notin ledger

\* One failed write never hides how a request ended: when its report was
\* saved, the ledger has the outcome, or the report says degraded and an
\* alert is open for it.
OneFaultIsVisible ==
  \A r \in Requests :
    LET report == reports[IdOf[r]] IN
    Ended(r) /\ report.by = r /\ st[r].faults <= 1 =>
      \/ <<st[r].outcome, r>> \in ledger
      \/ report.audit = "degraded" /\ IdOf[r] \in alerts

\* A request that took a lease gives it back with its temporary file, even
\* if target and client never do anything again: the timeout ends the wait.
\* Only the death of the process ends it otherwise.
LeaseIsReturned ==
  \A r \in Requests :
    st[r].lease ~> ~st[r].lease /\ (At(r, "done") \/ At(r, "lost"))

\* The token that may read a report is the one whose request it describes.
ReadByItsOwnToken ==
  \A i \in Ids, t \in Tokens : Readable(t, i) => TokenOf[reports[i].by] = t
=============================================================================
