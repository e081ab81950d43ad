------------------------ MODULE CloudflareExecution ------------------------
(***************************************************************************)
(* An HTTP execution in the Cloudflare adapter: the gateway Worker         *)
(* (gateway-handler.ts, gateway/body.ts, gateway/response.ts) and the      *)
(* calls it makes of the Control Worker (control-service.ts), the quota    *)
(* object (CloudflareQuota) and the recording of its end                   *)
(* (CloudflareRecording).                                                  *)
(***************************************************************************)
EXTENDS CloudflareRecording

CONSTANTS
  ClientTimeouts,  \* fetchOptions.timeoutMs of the clients, in ticks
  ResponseLimit    \* maxResponseBytes, in chunks

\* est: request bytes announced, up: request bytes the completion will report
\* (accountedRequestBytes, then requestBytes), sent: bytes returned; left: body
\* the target has not taken yet, relayed: what it has
NewRequest ==
  [pc |-> "idle", start |-> 0, timeout |-> 0, abort |-> "none", est |-> 0,
   up |-> 0, sent |-> 0, left |-> 0, relayed |-> 0, hits |-> 0,
   late |-> FALSE, excess |-> 0]

Init ==
  /\ RecordingInit
  /\ req = [r \in Requests |-> NewRequest]

Done(r, n) ==
  [NewRequest EXCEPT !.pc = "done", !.hits = req[r].hits + n,
     !.late = req[r].late, !.excess = req[r].excess]

\* completeExecution follows: after the response, or from the catch block
Ended(r, up, sent) ==
  [req[r] EXCEPT !.pc = "complete", !.abort = "none", !.start = 0,
     !.timeout = 0, !.up = up, !.sent = sent]
Fail(r) == Ended(r, req[r].up, 0)

-----------------------------------------------------------------------------
(* handleGatewayRequest up to the authorization: metadata and target are    *)
(* checked and the client's timeout is armed.                               *)
HandleGatewayRequest(r) ==
  /\ At(r, "idle")
  /\ \/ \E timeout \in ClientTimeouts, est \in 0..1 :
          Becomes(r, [Goto(r, "authorize") EXCEPT
            !.start = clock, !.timeout = timeout, !.est = est, !.up = est])
     \/ Becomes(r, Done(r, 0))
  /\ UNCHANGED <<clock, quota, tables, faults>>

(* authorizeExecution: pause, token and scope, then the quota.  A denial is *)
(* recorded and answered; a lost answer leaves a lease nobody releases.     *)
AuthorizeExecution(r) ==
  /\ At(r, "authorize")
  /\ \/ /\ Admits(r, "http", req[r].est)
        /\ Acquire(r, "http", req[r].est)
        /\ Becomes(r, Goto(r, "body"))
        /\ UNCHANGED <<degraded, faults>>
     \/ /\ ~Admits(r, "http", req[r].est)
        /\ Acquire(r, "http", req[r].est)
        /\ \E n \in 0..2 : AuditDecision(n) /\ Hit(n) /\ Becomes(r, Done(r, n))
     \/ /\ \E n \in 0..2 : AuditDecision(n) /\ Hit(n) /\ Becomes(r, Done(r, n))
        /\ UNCHANGED quota
     \/ /\ Acquire(r, "http", req[r].est)
        /\ Hit(1) /\ Becomes(r, Done(r, 1))
        /\ UNCHANGED degraded
     \/ /\ Hit(1) /\ Becomes(r, Done(r, 1))
        /\ UNCHANGED <<quota, degraded>>
  /\ UNCHANGED <<clock, report, terminal>>

(* validateFetchOptions and prepareRequestBody: a body that is too large or *)
(* differs from its metadata, or an abort, ends the request.  A body whose   *)
(* length or digest was announced is read whole and accounted; any other is *)
(* passed on unread, accounted with the zero bytes announced.               *)
PrepareRequestBody(r) ==
  /\ At(r, "body")
  /\ \/ \E size \in IF req[r].est = 0 THEN 0..1 ELSE {req[r].est} :
          Becomes(r, [Goto(r, "decide") EXCEPT !.up = size, !.left = size])
     \/ /\ req[r].est = 0
        /\ Becomes(r, [Goto(r, "decide") EXCEPT !.left = 1])
     \/ Becomes(r, Fail(r))
  /\ UNCHANGED <<clock, quota, tables, faults>>

\* armTimeout with the configured limit: no time left aborts at once
Armed_FromNow(r) ==
  [Goto(r, "upstream") EXCEPT !.start = clock,
                              !.timeout = Min({@, RequestTimeout})]
Armed(r) ==
  [Goto(r, "upstream") EXCEPT
     !.timeout = Min({@, RequestTimeout}),
     !.abort = IF @ = "none"
                   /\ clock >= req[r].start + Min({req[r].timeout, RequestTimeout})
                 THEN "timeout" ELSE @]

(* recordExecutionDecisionJson for a denial: the lease is released and the  *)
(* event recorded; the handler takes the lease for finalized unless the     *)
(* schema was refused.                                                      *)
PolicyDenies(r) ==
  /\ At(r, "decide")
  /\ \/ /\ Release(r, 0, req[r].up)
        /\ \E n \in 0..3 :
             /\ \/ n = 3 /\ UNCHANGED degraded /\ Hit(1)   \* the answer is lost
                \/ AuditDecision(n) /\ Hit(n)
             /\ Becomes(r, Released(Done(r, IF n = 3 THEN 1 ELSE n), r))
     \/ /\ Hit(1)
        /\ Becomes(r, Done(r, 1)) \/ Becomes(r, [Fail(r) EXCEPT !.hits = @ + 1])
        /\ UNCHANGED <<quota, degraded>>
  /\ UNCHANGED <<clock, report, terminal>>

(* The decision to accept is recorded and the request goes on, even when    *)
(* the call fails; headers that cannot be forwarded end it.                 *)
PolicyAllows(r) ==
  /\ At(r, "decide")
  /\ \/ \E n \in 0..2 :
          /\ AuditDecision(n) /\ Hit(n)
          /\ Becomes(r, [Armed(r) EXCEPT !.hits = @ + n])
     \/ /\ Hit(1)
        /\ \/ Becomes(r, [Armed(r) EXCEPT !.hits = @ + 1])
           \/ Becomes(r, [Fail(r) EXCEPT !.hits = @ + 1])
        /\ UNCHANGED degraded
     \/ Becomes(r, Fail(r)) /\ UNCHANGED <<degraded, faults>>
  /\ UNCHANGED <<clock, quota, report, terminal>>

(* The target takes the next of the request body, also after it began or    *)
(* ended its answer.  (What it takes after the release is nowhere counted.) *)
Upload(r) ==
  /\ req[r].pc \in {"upstream", "stream", "complete"}
  /\ req[r].left > 0
  /\ Becomes(r, [req[r] EXCEPT !.left = @ - 1, !.relayed = @ + 1])
  /\ UNCHANGED <<clock, quota, tables, faults>>

(* fetchUpstream and targetResponse: the target fails or cannot be answered *)
(* with, or its response is signed and sent, with a body or without; the    *)
(* request is then reported with what was uploaded by now.                  *)
Upstream(r) ==
  /\ At(r, "upstream")
  /\ \/ Becomes(r, Fail(r))
     \/ /\ req[r].abort = "none"
        /\ \/ Becomes(r, Ended(r, req[r].relayed, 0))
           \/ Becomes(r, [Goto(r, "stream") EXCEPT !.up = req[r].relayed])
  /\ UNCHANGED <<clock, quota, tables, faults>>

(* The limiter and the pipeline of targetResponse: a chunk, too many, the   *)
(* end or an error of the target's body.                                    *)
Stream(r) ==
  /\ At(r, "stream")
  /\ \/ Becomes(r, IF req[r].sent = ResponseLimit
                      THEN Ended(r, req[r].up, ResponseLimit + 1)
                      ELSE [req[r] EXCEPT !.sent = @ + 1])
     \/ Becomes(r, Ended(r, req[r].up, req[r].sent))
  /\ UNCHANGED <<clock, quota, tables, faults>>

(* The timer fires or the client goes away: remembered during a call of the *)
(* Control Worker, effective at once elsewhere.                             *)
Abort(r) ==
  /\ req[r].pc \in {"authorize", "body", "decide", "upstream", "stream"}
  /\ req[r].abort = "none"
  /\ \E reason \in {"timeout", "cancelled"} :
       /\ reason = "timeout" => clock >= req[r].start + req[r].timeout
       /\ Becomes(r, CASE At(r, "stream") -> Ended(r, req[r].up, req[r].sent)
                       [] At(r, "body") \/ At(r, "upstream") -> Fail(r)
                       [] OTHER -> [req[r] EXCEPT !.abort = reason])
  /\ UNCHANGED <<clock, quota, tables, faults>>

-----------------------------------------------------------------------------
(* The Worker is evicted, in the foreground or in waitUntil.                *)
Evict(r) ==
  /\ req[r].pc \notin {"idle", "done"}
  /\ Hit(1)
  /\ Becomes(r, Done(r, 1))
  /\ UNCHANGED <<clock, quota, tables>>

-----------------------------------------------------------------------------
Overdue(r) ==
  /\ req[r].pc \in {"body", "upstream", "stream"}
  /\ req[r].abort # "none" \/ clock >= req[r].start + req[r].timeout

Tick ==
  /\ clock < MaxClock
  /\ \A r \in Requests : ~Overdue(r)
  /\ clock' = clock + 1
  /\ UNCHANGED <<quota, tables, req, faults>>

Step(r) ==
  \/ HandleGatewayRequest(r) \/ AuthorizeExecution(r) \/ PrepareRequestBody(r)
  \/ PolicyDenies(r) \/ PolicyAllows(r) \/ Upload(r) \/ Upstream(r) \/ Stream(r)
  \/ Abort(r)
  \/ ReleaseExecution(r, Done(r, 0))
  \/ RecordExecution(r, Done(r, 0), Done(r, 0))
  \/ SaveDegradedReport(r, Done(r, 0), Done(r, 0))
  \/ Evict(r)

Next == \/ \E r \in Requests : Step(r)
        \/ Alarm /\ UNCHANGED <<tables, req, faults>>
        \/ Tick

Spec == Init /\ [][Next]_vars

-----------------------------------------------------------------------------
(* A request that waits for its target or streams the response still holds  *)
(* the lease that counts it, although an upload may have outlived any       *)
(* lease: the second armTimeout must stop what comes too late.              *)
RelayIsLeased ==
  \A r \in Requests :
    (At(r, "upstream") /\ req[r].abort = "none") \/ At(r, "stream") => Live(r)

(* What a request announced or was seen to upload, and what it returned, is *)
(* charged once the quota object heard of its end, also when the lease had  *)
(* run out and was deleted before; unless it had, none of it is charged     *)
(* twice.  Bytes are relayed that neither covers only when the request had  *)
(* announced no length: it failed, or uploaded after the head came.         *)
ChargedInFull ==
  \A r \in Requests :
    /\ req[r].excess >= 0 /\ (req[r].excess > 0 => req[r].late)
    /\ req[r].relayed > Max({req[r].est, req[r].up}) => req[r].est = 0

(* A request that met no fault leaves no lease, however it ended.           *)
LeakOnlyByFault ==
  \A r \in Requests :
    At(r, "done") /\ req[r].hits = 0 => ~Holds(r)
=============================================================================
