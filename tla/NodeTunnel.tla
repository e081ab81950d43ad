----------------------------- MODULE NodeTunnel -----------------------------
(***************************************************************************)
(* A tunnel of the Node adapter (adapters/node/src/tunnel-server.ts,       *)
(* tunnel-socket.ts, tunnel-websocket.ts): the first frame, admission, the *)
(* connection to the target, the bridge that pays for every frame before   *)
(* it passes it on, and the end that is recorded.                          *)
(*                                                                         *)
(* A step of the handler is what it does between two awaits; the client,   *)
(* the target, the set-up timer and the answers of the quota come at any   *)
(* time.  A frame costs one unit of what the token may still move.  Nobody *)
(* attaches this listener in the present build of the server.              *)
(***************************************************************************)
EXTENDS Naturals

CONSTANTS
  Tunnels,    \* upgraded connections
  Allowance,  \* what the token may still move today
  MaxFrames   \* bound: frames from either side of a tunnel

VARIABLES
  tunnel,  \* tunnel[t]: the handler of t with its two sockets
  left     \* the allowance that is left

vars == <<tunnel, left>>

Sides == {"up", "down"}  \* from the client, from the target
Nothing == [came |-> 0, due |-> 0, passed |-> 0, told |-> 0]

\* heard: the connection attempt listens to the abort signal; due: charges
\* without an answer; told: what the bridge resolved with; reason: why it was
\* settled; recorded: what the event tunnel.closed says
NewTunnel(kind) ==
  [kind |-> kind, pc |-> "hello", client |-> "open", target |-> "none",
   context |-> FALSE, lease |-> FALSE, timer |-> FALSE, abort |-> FALSE,
   heard |-> FALSE, hello |-> "none", flow |-> [d \in Sides |-> Nothing],
   reason |-> "none", recorded |-> "none"]

Init ==
  /\ tunnel \in [Tunnels -> {NewTunnel("websocket"), NewTunnel("socket")}]
  /\ left = Allowance

At(t, pc) == tunnel[t].pc = pc
Becomes(t, z) == tunnel' = [tunnel EXCEPT ![t] = z]
Closing(side) == IF side = "open" THEN "closing" ELSE side

\* closeWithMessage, for a client that may be gone
Refused(z) == [z EXCEPT !.pc = "catch"]

-----------------------------------------------------------------------------
(* Set-up: handleTunnel up to the bridge                                    *)

\* firstHello: a text frame that decodes; anything else, or thirty seconds
\* of silence, ends the tunnel before there is a context to sign with.
FirstHello(t) ==
  /\ At(t, "hello")
  /\ \/ Becomes(t, [tunnel[t] EXCEPT !.pc = "admit"])
     \/ Becomes(t, Refused(tunnel[t]))
  /\ UNCHANGED left

\* validateTunnelRequest, the configuration, the token, the pause, a lease.
\* Only now do the timer and the closing of the client abort the set-up.
Admit(t) ==
  /\ At(t, "admit")
  /\ \/ \E signed \in BOOLEAN :
          Becomes(t, [Refused(tunnel[t]) EXCEPT !.context = signed])
     \/ Becomes(t, [tunnel[t] EXCEPT !.pc = "approve", !.context = TRUE,
                                     !.lease = TRUE, !.timer = TRUE])
  /\ UNCHANGED left

\* The token, the recursion checks and the policy of each resolved address
ApproveTunnelTarget(t) ==
  /\ At(t, "approve")
  /\ \/ Becomes(t, [tunnel[t] EXCEPT !.pc = "accept"])
     \/ Becomes(t, Refused(tunnel[t]))
  /\ UNCHANGED left

\* Recorded or degraded, the set-up goes on.  A listener added to a signal
\* that has already aborted is never called.
Heard(t) == ~tunnel[t].abort
AuditTunnelAccepted(t) ==
  /\ At(t, "accept")
  /\ Becomes(t, [tunnel[t] EXCEPT !.pc = "connect", !.heard = Heard(t)])
  /\ UNCHANGED left

\* connectSocketTarget, connectWebSocketTarget; a WebSocket target may answer
\* with something else than an upgrade, which is signed and sent.
TargetAnswers(t) ==
  /\ At(t, "connect")
  /\ \/ Becomes(t, [tunnel[t] EXCEPT !.pc = "announce", !.target = "open"])
     \/ Becomes(t, Refused(tunnel[t]))
     \/ /\ tunnel[t].kind = "websocket"
        /\ Becomes(t, [tunnel[t] EXCEPT !.pc = "finally",
             !.hello = IF tunnel[t].client = "open" THEN "rejected" ELSE @,
             !.client = Closing(@)])
  /\ UNCHANGED left

\* What an abort does to the set-up: a connection attempt that listens fails.
Abort(z) ==
  LET connecting == z.pc = "connect" /\ z.heard
  IN  [z EXCEPT !.abort = TRUE, !.pc = IF connecting THEN "catch" ELSE @]
SetupTimesOut(t) ==
  /\ tunnel[t].timer
  /\ Becomes(t, [Abort(tunnel[t]) EXCEPT !.timer = FALSE])
  /\ UNCHANGED left

\* What a listener throws, or an error nobody listens to, ends the process.
Lost(z) == [z EXCEPT !.pc = "lost", !.lease = FALSE, !.timer = FALSE]
ProcessEnds == tunnel' = [u \in Tunnels |-> Lost(tunnel[u])]

\* Between the connection and the bridge nobody listens to the target: a
\* WebSocket may close unnoticed, an error of either is not handled.
TargetUnheard(t) ==
  /\ At(t, "announce") /\ tunnel[t].target = "open"
  /\ \/ /\ tunnel[t].kind = "websocket"
        /\ Becomes(t, [tunnel[t] EXCEPT !.target = "closed"])
     \/ ProcessEnds
  /\ UNCHANGED left

\* The signed hello reaches the client, or the set-up fails; the socket of
\* the target is left as it is.
Announce(t) ==
  /\ At(t, "announce")
  /\ IF tunnel[t].client = "open"
       THEN Becomes(t, [tunnel[t] EXCEPT !.pc = "bridge", !.timer = FALSE,
                                         !.hello = "established"])
       ELSE Becomes(t, Refused(tunnel[t]))
  /\ UNCHANGED left

-----------------------------------------------------------------------------
(* bridgeSocketTunnel and bridgeWebSockets                                  *)

\* finish: the first reason is the one that counts, with the totals so far
Totals(flow) == [d \in Sides |-> [flow[d] EXCEPT !.told = flow[d].came]]
Finish(z, why) ==
  IF z.reason = "none"
    THEN [z EXCEPT !.reason = why, !.pc = "closing", !.flow = Totals(@)]
    ELSE z

\* target.destroy() or terminate() against target.close()
LeaveTarget(z) == IF z.kind = "socket" THEN "closed" ELSE Closing(z.target)

\* Once settled, a TCP or TLS bridge has taken its listeners off.
Listens(z) == z.reason = "none" \/ z.kind = "websocket"

Flows(z, d, f) == [z EXCEPT !.flow = [@ EXCEPT ![d] = f]]

\* A WebSocket may hand over frames it had read before it was paused, a
\* paused TCP or TLS socket none.
Frame(t, d) ==
  LET z == tunnel[t]
  IN  /\ z.hello = "established" /\ z.pc # "lost" /\ Listens(z)
      /\ (IF d = "up" THEN z.client ELSE z.target) \in {"open", "closing"}
      /\ z.kind = "socket" /\ d = "down" => z.flow[d].due = 0
      /\ z.flow[d].came < MaxFrames
      /\ Becomes(t, Flows(z, d, [z.flow[d] EXCEPT !.came = @ + 1, !.due = @ + 1]))
      /\ UNCHANGED left

TextFrame(t) ==
  /\ At(t, "bridge") /\ tunnel[t].kind = "socket" /\ tunnel[t].client = "open"
  /\ Becomes(t, [Finish(tunnel[t], "non-binary-frame") EXCEPT
                   !.client = "closing", !.target = "closed"])
  /\ UNCHANGED left

Pass(z, d) == Flows(z, d, [z.flow[d] EXCEPT !.due = @ - 1, !.passed = @ + 1])
Drop(z, d) == Flows(z, d, [z.flow[d] EXCEPT !.due = @ - 1])

\* What becomes of a frame that has been paid for.  send reports a socket
\* that is not open, write on a destroyed one reports nothing.
Settled(z, d) == z.reason # "none"

Delivered(z, d) ==
  IF Settled(z, d) THEN Drop(z, d)
  ELSE IF d = "up"
    THEN IF z.target = "open" THEN Pass(z, d)
         ELSE IF z.kind = "socket" THEN Drop(z, d)
         ELSE Finish(Drop(z, d), "target-error")
    ELSE IF z.client = "open" THEN Pass(z, d)
         ELSE [Finish(Drop(z, d), "client-error") EXCEPT
                 !.target = IF z.kind = "socket" THEN "closed" ELSE @]

\* chargeBytes answers: it throws when the allowance does not suffice, when
\* the database fails and when the lease has been released.
Charge(t, d) ==
  LET z == tunnel[t]
  IN  /\ z.flow[d].due > 0 /\ z.pc # "lost"
      /\ \/ /\ z.lease /\ left > 0
            /\ left' = left - 1
            /\ Becomes(t, Delivered(z, d))
         \/ /\ Becomes(t, [Finish(Drop(z, d), "quota-exceeded") EXCEPT
                             !.client = Closing(@), !.target = "closed"])
            /\ UNCHANGED left

\* The client's socket closes, or fails, at any time.
ClientCloses(t) ==
  LET z == tunnel[t]
      closed == [z EXCEPT !.client = "closed"]
  IN  /\ z.client # "closed" /\ z.pc # "lost"
      /\ CASE z.pc = "hello" -> Becomes(t, Refused(closed))
           [] z.pc \in {"approve", "accept", "connect", "announce"} ->
                Becomes(t, Abort(closed))
           [] z.hello = "established" ->
                \E why \in {"client-closed", "client-error"} :
                  Becomes(t, [Finish(closed, why) EXCEPT !.target = LeaveTarget(z)])
           [] OTHER -> Becomes(t, closed)
      /\ UNCHANGED left

\* The target ends the tunnel.  A paused TCP or TLS socket whose buffer is
\* empty ends too, with the charge of its last chunk still to be answered.
TargetEnds(t) ==
  LET z == tunnel[t]
  IN  /\ z.hello = "established" /\ z.pc # "lost"
      /\ z.target \in {"open", "closing"}
      /\ \E why \in {"completed", "target-closed", "target-error"} :
           /\ z.kind = "socket" => why # "target-closed"
           /\ Becomes(t, [Finish(z, why) EXCEPT !.client = Closing(@),
                                                !.target = "closed"])
      /\ UNCHANGED left

\* A WebSocket that closed without a code, or without a close frame, reports
\* 1005 or 1006; ws refuses to send either on, and the listener throws.
CodeNotSent(t) ==
  LET z == tunnel[t]
  IN  /\ z.kind = "websocket" /\ z.hello = "established" /\ z.pc # "lost"
      /\ z.client # "closed" /\ z.target # "closed"
      /\ "open" \in {z.client, z.target}
      /\ ProcessEnds /\ UNCHANGED left

-----------------------------------------------------------------------------
(* The end of handleTunnel                                                  *)

AuditTunnelClosed(t) ==
  /\ At(t, "closing")
  /\ \E r \in {tunnel[t].reason, "degraded"} :
       Becomes(t, [tunnel[t] EXCEPT !.pc = "finally", !.recorded = r])
  /\ UNCHANGED left

\* The catch block tells the client why, when there is a context to sign with.
Catch(t) ==
  /\ At(t, "catch")
  /\ Becomes(t, [tunnel[t] EXCEPT !.pc = "finally", !.client = Closing(@),
       !.hello = IF tunnel[t].context /\ tunnel[t].client = "open" THEN "error"
                 ELSE @])
  /\ UNCHANGED left

Release(t) ==
  /\ At(t, "finally")
  /\ Becomes(t, [tunnel[t] EXCEPT !.pc = "done", !.lease = FALSE, !.timer = FALSE])
  /\ UNCHANGED left

-----------------------------------------------------------------------------
Handle(t) ==
  \/ Admit(t) \/ ApproveTunnelTarget(t) \/ AuditTunnelAccepted(t)
  \/ Announce(t) \/ AuditTunnelClosed(t) \/ Catch(t) \/ Release(t)

Next ==
  \E t \in Tunnels :
    \/ FirstHello(t) \/ Handle(t) \/ TargetAnswers(t) \/ SetupTimesOut(t)
    \/ TargetUnheard(t) \/ TextFrame(t) \/ ClientCloses(t) \/ TargetEnds(t)
    \/ CodeNotSent(t)
    \/ \E d \in Sides : Frame(t, d) \/ Charge(t, d)

Spec == Init /\ [][Next]_vars

-----------------------------------------------------------------------------
(* The totals of a settled bridge, which its event records, leave out      *)
(* nothing that passed, whatever frames and answers come late; and nothing *)
(* passes a tunnel whose client was not told that it is established.       *)
TrafficIsCounted ==
  \A t \in Tunnels, d \in Sides :
    LET flow == tunnel[t].flow[d]
    IN  /\ tunnel[t].reason # "none" => flow.passed <= flow.told
        /\ tunnel[t].hello # "established" => flow.passed = 0

(* A lease is given back once the bridge is settled or the client is gone, *)
(* and a connection attempt that hears the abort signal comes to an end,   *)
(* though the target never answers.                                        *)
Ending(t) ==
  /\ tunnel[t].lease
  /\ \/ tunnel[t].reason # "none"
     \/ /\ tunnel[t].client = "closed"
        /\ tunnel[t].pc \notin {"approve", "accept", "connect"}
Connecting(t) == At(t, "connect") /\ tunnel[t].heard
=============================================================================
