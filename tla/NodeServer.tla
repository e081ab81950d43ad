----------------------------- MODULE NodeServer -----------------------------
(***************************************************************************)
(* startOneFetchNode (adapters/node/src/server.ts): the process opens the  *)
(* database, initialises the configuration, starts both listeners and      *)
(* prepares the bootstrap token; a signal, a failed start or a fatal error *)
(* of the database shuts it down.  cli.ts starts it and forwards signals.  *)
(* A listener that closes waits for connections, not for the handlers that *)
(* run behind them: a handler goes on after its response was ended         *)
(* (gateway-stream.ts) or its client left.                                 *)
(***************************************************************************)
EXTENDS NodeDatabase

CONSTANT Later   \* bound: the requests that may also come after a restart

VARIABLES
  server,    \* down, ready, initialize, listen, bootstrap, up or failed
  shutdown,  \* no, requested, closing, database or done
  starts,
  conn       \* conn[c]: the connection of the request whose handler issues
             \* c: none, open, ended, or gone with its process

vars == <<file, build, thread, client, faults, server, shutdown, starts, conn>>

\* The start has settled, one way or the other: shutdown awaits it.
Settled   == server \in {"up", "failed"}
Listening == server \in {"bootstrap", "up"} /\ shutdown \in {"no", "requested"}
InFlight(c) == call[c] \in {"waiting", "sent"}
ProcessEnds == conn' = [c \in Requests |-> IF conn[c] = "none" THEN "none" ELSE "gone"]

Init ==
  /\ DatabaseInit
  /\ server = "down"
  /\ shutdown = "done"
  /\ starts = 0
  /\ conn = [c \in Requests |-> "none"]

\* Of the callers of a former process only those that were told their
\* statement succeeded matter from here on.
Remembered(c) ==
  IF conn[c] = "gone" /\ call[c] # "resolved" THEN "lost" ELSE call[c]

\* new DatabaseClient starts the worker.
Start(b) ==
  /\ server = "down"
  /\ starts < MaxStarts
  /\ starts' = starts + 1
  /\ build' = b
  /\ worker' = "opening"
  /\ answer' = None
  /\ inbox' = <<>>
  /\ outbox' = <<>>
  /\ startup' = "pending"
  /\ closed' = FALSE
  /\ terminal' = FALSE
  /\ terminating' = FALSE
  /\ pending' = {}
  /\ call' = [c \in Calls |-> IF c \in Startup THEN "none" ELSE Remembered(c)]
  /\ server' = "ready"
  /\ shutdown' = "no"
  /\ UNCHANGED <<file, faults, conn>>

Fails ==
  /\ server' = "failed"
  /\ shutdown' = "requested"
  /\ UNCHANGED <<file, build, thread, client, faults, starts, conn>>

\* A start-up statement c has ended, well or badly.
Continues(c, stage) ==
  \/ /\ call[c] = "resolved"
     /\ server' = stage
     /\ UNCHANGED <<file, build, thread, client, faults, shutdown, starts, conn>>
  \/ call[c] \in {"failed", "fatal", "closed"} /\ Fails

DatabaseReady ==
  /\ server = "ready"
  /\ \/ /\ startup = "ready"
        /\ ~terminal
        /\ server' = "initialize"
        /\ Request("initialize")
        /\ UNCHANGED <<shutdown, starts, conn>>
     \/ (startup = "rejected" \/ terminal) /\ Fails

Initialized == server = "initialize" /\ Continues("initialize", "listen")

\* Both listeners; the port may be taken.
Listen ==
  /\ server = "listen"
  /\ \/ /\ server' = "bootstrap"
        /\ Request("ensureBootstrap")
        /\ UNCHANGED <<shutdown, starts, conn>>
     \/ Fails

Bootstrapped == server = "bootstrap" /\ Continues("ensureBootstrap", "up")

\* A request arrives; once the listeners are closing, only on a connection
\* that was kept alive.
Open == {c \in Requests : conn[c] = "open"}
Accept(c) ==
  /\ Listening \/ (shutdown = "closing" /\ Open # {})
  /\ conn[c] = "none" /\ (starts = 1 \/ c \in Later)
  /\ conn' = [conn EXCEPT ![c] = "open"]
  /\ UNCHANGED <<file, build, thread, client, faults, server, shutdown, starts>>

\* Its handler uses the database: while the client waits for the response,
\* or after it (the report, the outcome event and the release of the quota).
Serve(c) ==
  /\ conn[c] \in {"open", "ended"}
  /\ Request(c)
  /\ UNCHANGED <<server, shutdown, starts, conn>>

\* response.end(), or the client has gone.  Neither has to happen: an upload
\* may stall and a client may stop reading.
Disconnect(c) ==
  /\ conn[c] = "open"
  /\ conn' = [conn EXCEPT ![c] = "ended"]
  /\ UNCHANGED <<file, build, thread, client, faults, server, shutdown, starts>>

\* close(), or database.fatal.
RequestShutdown ==
  /\ shutdown = "no"
  /\ server = "up" \/ terminal
  /\ server # "down"
  /\ shutdown' = "requested"
  /\ UNCHANGED <<file, build, thread, client, faults, server, starts, conn>>

\* closeListener: no new connections, and then it waits for those there are.
CloseListeners ==
  /\ shutdown = "requested"
  /\ Settled
  /\ shutdown' = "closing"
  /\ UNCHANGED <<file, build, thread, client, faults, server, starts, conn>>

ListenersClosed_AtOnce == TRUE
ListenersClosed == Open = {}

CloseDatabase ==
  /\ shutdown = "closing"
  /\ ListenersClosed
  /\ shutdown' = "database"
  /\ CloseBegins
  /\ UNCHANGED <<server, starts, conn>>

\* The worker has exited.  A call that only waits for #startup has gone on
\* before that is heard.
Terminated ==
  /\ shutdown = "database"
  /\ terminating
  /\ worker = "dead"
  /\ \A c \in Calls : call[c] # "waiting"
  /\ shutdown' = "done"
  /\ server' = "down"
  /\ ProcessEnds
  /\ UNCHANGED <<file, build, thread, client, faults, starts>>

\* The process is killed: the file keeps what was committed.
ProcessCrash ==
  /\ server # "down"
  /\ faults < MaxFaults
  /\ faults' = faults + 1
  /\ call' = [c \in Calls |-> IF InFlight(c) THEN "lost" ELSE call[c]]
  /\ pending' = {}
  /\ worker' = "dead"
  /\ server' = "down"
  /\ shutdown' = "done"
  /\ ProcessEnds
  /\ UNCHANGED <<file, build, answer, inbox, outbox, startup, closed, terminal,
                 terminating, starts>>

-----------------------------------------------------------------------------
Alive == server # "down"

WorkerStep ==
  /\ Alive
  /\ OpenDatabase \/ Migrate \/ (\E ok \in BOOLEAN : Execute(ok)) \/ Post
  /\ UNCHANGED <<server, shutdown, starts, conn>>

Termination ==
  /\ Alive /\ terminating
  /\ WorkerEnds
  /\ UNCHANGED <<server, shutdown, starts, conn>>

WorkerCrash ==
  /\ Alive /\ ~terminating
  /\ WorkerEnds
  /\ UNCHANGED <<server, shutdown, starts, conn>>

ClientStep ==
  /\ Alive
  /\ Deliver \/ (\E c \in Calls : Send(c)) \/ CloseAnswered
  /\ UNCHANGED <<server, shutdown, starts, conn>>

ServerStep ==
  \/ DatabaseReady \/ Initialized \/ Listen \/ Bootstrapped
  \/ CloseListeners \/ CloseDatabase \/ Terminated
  \/ terminal /\ RequestShutdown

Next ==
  \/ \E b \in Builds : Start(b)
  \/ WorkerStep \/ Termination \/ WorkerCrash \/ ClientStep \/ ServerStep
  \/ RequestShutdown
  \/ \E c \in Requests : Accept(c) \/ Serve(c) \/ Disconnect(c)
  \/ ProcessCrash

\* Both threads run: a queue that is not empty is read, and a step of the
\* server that can be taken is taken.  No signal and no request has to come,
\* and no connection has to end.
Fairness ==
  /\ WF_vars(WorkerStep)
  /\ WF_vars(Termination)
  /\ WF_vars(ClientStep)
  /\ WF_vars(ServerStep)

Spec == Init /\ [][Next]_vars /\ Fairness

-----------------------------------------------------------------------------
\* A statement whose caller was told it succeeded is in the file, and stays
\* there through every later crash and restart.
ResolvedIsCommitted ==
  \A c \in Requests : call[c] = "resolved" => c \in committed

\* Requests are served only over a schema of exactly the running build's
\* migrations: an older or a forked build never serves a newer file.
ServedSchemaExact == Listening /\ ~terminal => ledger = Migrations[build]

\* Shutting down refuses no statement of a request whose connection is still
\* open: only what a handler does after its response can be told that the
\* database is closed.
GracefulShutdown ==
  \A c \in Requests :
    call[c] # "closed" /\ call'[c] = "closed" => conn[c] = "ended"

\* What the worker was sent before it was asked to close gets its own answer:
\* only a crash takes that away.
SentIsAnswered ==
  \A c \in Requests :
    call[c] = "sent" /\ call'[c] # "sent" =>
      call'[c] \in {"resolved", "failed"} \/ faults' > 0

\* Every statement is answered or rejected, unless the process is killed.
EveryCallSettles == \A c \in Calls : InFlight(c) ~> ~InFlight(c)

\* A shutdown that was requested ends, whatever is in flight, unless a
\* connection stays open after the listeners are closed.
HeldUp == shutdown = "closing" /\ Open # {}
ShutdownEnds == (shutdown \in {"requested", "closing"}) ~> (server = "down" \/ HeldUp)
=============================================================================
