-------------------------- MODULE CloudflareTunnel --------------------------
(***************************************************************************)
(* A WebSocket tunnel of the Cloudflare adapter (gateway/tunnel.ts,        *)
(* tunnel-support.ts, tunnel-response.ts, websocket.ts): the first frame,  *)
(* the authorization, the target's handshake, the bridge between the two   *)
(* sockets and the renewal of the lease every thirty seconds, one tick.    *)
(* The preview build of the gateway refuses upgrades before this code.     *)
(***************************************************************************)
EXTENDS CloudflareRecording

CONSTANT MaxFrames  \* bound: frames from the target that are counted

\* socket: the state of installFirstFrameHandler; client, target: the two
\* sockets; renewal: the interval has elapsed and renew has not been called;
\* confirmed, missed: history, whether a renewal was ever confirmed and how
\* many went unanswered since the last answer
NewTunnel ==
  [pc |-> "idle", socket |-> "none", client |-> "open", target |-> "none",
   abort |-> FALSE, renewal |-> FALSE, confirmed |-> FALSE, missed |-> 0,
   retry |-> FALSE, est |-> 0, up |-> 0, sent |-> 0, hits |-> 0,
   late |-> FALSE, excess |-> 0]

Init ==
  /\ RecordingInit
  /\ req = [r \in Requests |-> NewTunnel]

\* The peer of a socket that was closed learns of it later
Shut(state) == IF state = "open" THEN "closing" ELSE state

Done(r, n) ==
  [NewTunnel EXCEPT !.pc = "done", !.socket = "closed",
     !.client = Shut(req[r].client), !.target = req[r].target,
     !.hits = req[r].hits + n, !.late = req[r].late, !.excess = req[r].excess]

\* The catch block of initializeWebSocketTunnel, with a lease to complete
Fail(r, n) ==
  [Goto(r, "complete") EXCEPT !.abort = FALSE, !.retry = FALSE, !.sent = 0,
     !.hits = @ + n]

\* complete failed: after a rejected handshake the catch block calls it again
Threw(r, n) == IF req[r].retry THEN Fail(r, n) ELSE Done(r, n)

-----------------------------------------------------------------------------
(* handleGatewayTunnel: the upgrade is refused, or the client's first frame *)
(* is awaited.                                                              *)
HandleGatewayTunnel(r) ==
  /\ At(r, "idle")
  /\ \/ Becomes(r, [Goto(r, "hello") EXCEPT !.socket = "awaiting"])
     \/ Becomes(r, Done(r, 0))
  /\ UNCHANGED <<clock, quota, tables, faults>>

(* installFirstFrameHandler: a first frame that is text starts the tunnel;  *)
(* any other first frame, the hello timeout, and a frame that comes before  *)
(* the server's hello close the socket.                                     *)
ClientFrame(r) ==
  /\ req[r].client = "open"
  /\ \/ /\ req[r].socket = "awaiting"
        /\ \/ Becomes(r, [Goto(r, "authorize") EXCEPT !.socket = "connecting"])
           \/ Becomes(r, Done(r, 0))
     \/ /\ req[r].socket = "connecting"
        /\ Becomes(r, [req[r] EXCEPT !.socket = "closed", !.client = "closing"])
  /\ UNCHANGED <<clock, quota, tables, faults>>

(* authorizeExecution for a tunnel; nothing is charged in advance.          *)
AuthorizeTunnel(r) ==
  /\ At(r, "authorize")
  /\ \/ /\ Acquire(r, "websocket", 0)
        /\ \/ /\ Becomes(r, IF Admits(r, "websocket", 0) THEN Goto(r, "decide")
                                                        ELSE Done(r, 0))
              /\ UNCHANGED faults
           \/ Hit(1) /\ Becomes(r, Done(r, 1))
     \/ /\ Hit(1) /\ Becomes(r, Done(r, 1))
        /\ UNCHANGED quota
  /\ UNCHANGED <<clock, tables>>

(* recordTunnelDecisionSafely: a denial releases the lease; an acceptance   *)
(* goes on even when the call fails.                                        *)
TunnelDecision(r) ==
  /\ At(r, "decide")
  /\ \/ /\ Release(r, 0, 0)
        /\ \E n \in 0..1 : Hit(n) /\ Becomes(r, Released(Done(r, n), r))
     \/ /\ \/ Hit(1) /\ (Becomes(r, Done(r, 1)) \/ Becomes(r, Fail(r, 1)))
           \/ \E n \in 0..1 :
                /\ Hit(n)
                /\ Becomes(r, [Goto(r, "open") EXCEPT !.hits = @ + n,
                                 !.abort = (req[r].client # "open")])
        /\ UNCHANGED quota
  /\ UNCHANGED <<clock, tables>>

(* openTargetWebSocket answers: an abort or an error ends the tunnel; a     *)
(* target that rejects the upgrade is reported and completed; otherwise the *)
(* sockets are bridged.  A server hello cannot be sent on a closed socket.  *)
OpenTarget(r) ==
  /\ At(r, "open")
  /\ \/ Becomes(r, Fail(r, 0))                    \* error, timeout or abort
     \/ /\ ~req[r].abort /\ req[r].client = "open"
        /\ \/ Becomes(r, [Goto(r, "complete") EXCEPT !.retry = TRUE])
           \/ Becomes(r, [Goto(r, "bridge") EXCEPT !.socket = "connected",
                                                   !.target = "open"])
     \/ /\ req[r].client # "open"                 \* the hello cannot be sent
        /\ Becomes(r, [Fail(r, 0) EXCEPT !.target = "open"])
  /\ UNCHANGED <<clock, quota, tables, faults>>

(* bridgeWebSockets: frames of the target are counted.                      *)
TargetFrame(r) ==
  /\ At(r, "bridge")
  /\ req[r].sent < MaxFrames
  /\ Becomes(r, [req[r] EXCEPT !.sent = @ + 1])
  /\ UNCHANGED <<clock, quota, tables, faults>>

\* finish of the bridge: renewals stop, both sockets close, completion follows
Finish(r) ==
  [Goto(r, "complete") EXCEPT !.socket = "closed", !.renewal = FALSE,
     !.confirmed = FALSE, !.missed = 0,
     !.client = Shut(@), !.target = "closed"]

(* A close or an error of either socket finishes the bridge, once.          *)
SocketCloses(r) ==
  /\ \/ /\ req[r].client # "closed"
        /\ \/ At(r, "bridge")
              /\ Becomes(r, [Finish(r) EXCEPT !.client = "closed"])
           \/ req[r].pc \notin {"idle", "bridge", "hello"}
              /\ Becomes(r, [req[r] EXCEPT !.client = "closed",
                   !.socket = "closed", !.abort = @ \/ At(r, "open")])
           \/ At(r, "hello") /\ Becomes(r, [Done(r, 0) EXCEPT !.client = "closed"])
     \/ At(r, "bridge") /\ Becomes(r, Finish(r))  \* the target, or an error
  /\ UNCHANGED <<clock, quota, tables, faults>>

Unanswered(r) ==
  [req[r] EXCEPT !.renewal = FALSE, !.missed = @ + 1, !.hits = @ + 1]

\* The answer of the renewal: a lease that is gone closes the client's socket
AfterRenewal(r) ==
  [req[r] EXCEPT !.renewal = FALSE, !.missed = 0, !.confirmed = @ \/ Renews(r),
     !.client = IF Renews(r) THEN @ ELSE Shut(@)]

(* The renewal timer: a lease that is gone closes the client's socket; a    *)
(* call that fails changes nothing here, and the next interval tries again. *)
RenewExecution(r) ==
  /\ At(r, "bridge") /\ req[r].renewal
  /\ \/ /\ Renew(r)
        /\ \/ /\ Becomes(r, AfterRenewal(r))
              /\ UNCHANGED faults
           \/ Hit(1) /\ Becomes(r, Unanswered(r))
     \/ /\ Hit(1) /\ Becomes(r, Unanswered(r))
        /\ UNCHANGED quota
  /\ UNCHANGED <<clock, tables>>

-----------------------------------------------------------------------------
(* The interval of thirty seconds elapses for every bridge.                 *)
Tick ==
  /\ clock < MaxClock
  /\ \A r \in Requests : ~req[r].renewal
  /\ clock' = clock + 1
  /\ req' = [r \in Requests |->
               [req[r] EXCEPT !.renewal = At(r, "bridge")]]
  /\ UNCHANGED <<quota, tables, faults>>

Step(r) ==
  \/ HandleGatewayTunnel(r) \/ ClientFrame(r) \/ AuthorizeTunnel(r)
  \/ TunnelDecision(r) \/ OpenTarget(r) \/ TargetFrame(r) \/ SocketCloses(r)
  \/ RenewExecution(r) \/ ReleaseExecution(r, Threw(r, 0))
  \/ RecordExecution(r, Done(r, 0), Threw(r, 0))
  \/ SaveDegradedReport(r, Done(r, 0), Threw(r, 0))

Next == \/ \E r \in Requests : Step(r)
        \/ Alarm /\ UNCHANGED <<tables, req, faults>>
        \/ Tick

Spec == Init /\ [][Next]_vars

-----------------------------------------------------------------------------
(* Once a renewal was confirmed, an open bridge without a lease has missed  *)
(* as many renewals as fit into a lease: a lease is never lost silently     *)
(* between two renewals, and the first answer that finds it lost closes the *)
(* client's socket.                                                         *)
BridgeIsLeased ==
  \A r \in Requests :
    At(r, "bridge") /\ req[r].client = "open" /\ req[r].confirmed /\ ~Live(r)
      => req[r].missed >= LeaseTtl - 1

(* A tunnel that met no fault leaves no lease, whoever closed it and when.  *)
LeakOnlyByFault ==
  \A r \in Requests :
    At(r, "done") /\ req[r].hits = 0 => ~Holds(r)
=============================================================================
