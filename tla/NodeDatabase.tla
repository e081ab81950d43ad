---------------------------- MODULE NodeDatabase ----------------------------
(***************************************************************************)
(* The database of the Node adapter: DatabaseClient on the main thread     *)
(* (adapters/node/src/database.ts) and the worker thread that owns the     *)
(* SQLite file (database-worker.ts).  Two message queues join them; the    *)
(* exit of the worker is the last message it sends.  NodeServer starts and *)
(* stops the pair.                                                         *)
(***************************************************************************)
EXTENDS Integers, Sequences, FiniteSets

CONSTANTS
  Requests,    \* statements issued by HTTP requests
  Builds,      \* builds of the adapter that may be started
  Migrations,  \* Migrations[b]: the migrations build b was released with
  MaxStarts,   \* bound: starts of the process
  MaxFaults    \* bound: crashes of the worker or of the process

Startup == {"initialize", "ensureBootstrap"}  \* statements of the server itself
Calls == Requests \cup Startup

VARIABLES
  ledger,      \* schema_migrations, in the file
  committed,   \* statements committed to the file
  build,       \* the build that runs
  worker,      \* off, opening, migrating, listening or dead
  answer,      \* the statement executed and not yet answered
  inbox,       \* messages to the worker
  outbox,      \* messages to the client
  startup,     \* #startup: pending, ready or rejected
  closed,      \* #closed and #expectedExit
  terminal,    \* #terminalError is set
  terminating, \* worker.terminate() was called
  pending,     \* #pending
  call,        \* call[c]: none, waiting or sent, then how it ended
  faults

file   == <<ledger, committed>>
thread == <<worker, answer, inbox, outbox>>
client == <<startup, closed, terminal, terminating, pending, call>>

Message(kind, c, ok) == [kind |-> kind, call |-> c, ok |-> ok]
Notice(kind) == Message(kind, "none", TRUE)
None == Notice("none")

DatabaseInit ==
  /\ ledger = <<>>
  /\ committed = {}
  /\ build \in Builds
  /\ worker = "off"
  /\ answer = None
  /\ inbox = <<>>
  /\ outbox = <<>>
  /\ startup = "pending"
  /\ closed = FALSE
  /\ terminal = FALSE
  /\ terminating = FALSE
  /\ pending = {}
  /\ call = [c \in Calls |-> "none"]
  /\ faults = 0

-----------------------------------------------------------------------------
(* The worker *)

IsPrefixOf(s, t) == Len(s) <= Len(t) /\ s = SubSeq(t, 1, Len(s))

\* migrate compares the ledger with the build's migrations: a version the
\* build does not know, a gap or another checksum is refused.
Compatible(rows, known) == IsPrefixOf(rows, known)

Exit(messages) == Append(messages, Notice("exit"))

OpenDatabase ==
  /\ worker = "opening"
  /\ IF Compatible(ledger, Migrations[build])
     THEN worker' = "migrating" /\ UNCHANGED outbox
     ELSE worker' = "dead" /\ outbox' = Exit(Append(outbox, Notice("startup-fatal")))
  /\ UNCHANGED <<file, build, answer, inbox, client, faults>>

\* One transaction for each migration that is missing, then startup-ready.
Migrate ==
  LET missing == Len(Migrations[build]) - Len(ledger) IN
  /\ worker = "migrating"
  /\ IF missing > 0
     THEN /\ ledger' = Append(ledger, Migrations[build][Len(ledger) + 1])
          /\ UNCHANGED <<worker, outbox>>
     ELSE /\ worker' = "listening"
          /\ outbox' = Append(outbox, Notice("startup-ready"))
          /\ UNCHANGED ledger
  /\ UNCHANGED <<committed, build, answer, inbox, client, faults>>

\* What a request leaves in the file: execute and runTransaction commit
\* before the answer is posted, or roll back and answer an error.
Commits_OnAnswer(c) == committed
Commits(c) == committed \cup {c}

\* A message handler runs to its end; ok says whether the statement did.
Execute(ok) ==
  LET c == Head(inbox) IN
  /\ worker = "listening"
  /\ inbox # <<>>
  /\ answer = None
  /\ inbox' = Tail(inbox)
  /\ answer' = Message("answer", c, ok)
  /\ c = "close" => ok
  /\ committed' = IF c # "close" /\ ok THEN Commits(c) ELSE committed
  /\ UNCHANGED <<ledger, build, worker, outbox, client, faults>>

Post ==
  LET posted == Append(outbox, answer) IN
  /\ worker = "listening"
  /\ answer # None
  /\ answer' = None
  /\ IF answer.call = "close"
     THEN worker' = "dead" /\ outbox' = Exit(posted)
     ELSE outbox' = posted /\ UNCHANGED worker
  /\ UNCHANGED <<file, build, inbox, client, faults>>

\* terminate(), or a crash of the thread: messages it had posted may be lost.
WorkerEnds ==
  /\ worker \notin {"off", "dead"}
  /\ \/ terminating /\ UNCHANGED faults
     \/ ~terminating /\ faults < MaxFaults /\ faults' = faults + 1
  /\ worker' = "dead"
  /\ answer' = None
  /\ \E n \in 0 .. Len(outbox) : outbox' = Exit(SubSeq(outbox, 1, n))
  /\ UNCHANGED <<file, build, inbox, client>>

-----------------------------------------------------------------------------
(* The client *)

\* #request awaits #startup and looks again before it sends.
Request(c) ==
  /\ call[c] = "none"
  /\ call' = [call EXCEPT ![c] = "waiting"]
  /\ UNCHANGED <<file, build, thread, startup, closed, terminal, terminating,
                 pending, faults>>

Available == startup = "ready" /\ ~terminal /\ ~closed

Send(c) ==
  /\ call[c] = "waiting"
  /\ startup # "pending" \/ terminal \/ closed
  /\ IF Available
     THEN /\ call' = [call EXCEPT ![c] = "sent"]
          /\ pending' = pending \cup {c}
          /\ inbox' = Append(inbox, c)
     ELSE /\ call' = [call EXCEPT ![c] = IF terminal THEN "fatal" ELSE "closed"]
          /\ UNCHANGED <<pending, inbox>>
  /\ UNCHANGED <<file, build, worker, answer, outbox, startup, closed, terminal,
                 terminating, faults>>

\* #rejectAll: the calls as they are when everything pending was rejected.
AllRejected(error) ==
  [c \in Calls |-> IF c \in pending THEN error ELSE call[c]]

StartupAfterEnd == IF startup = "pending" THEN "rejected" ELSE startup

MarkFatal ==
  /\ terminal' = TRUE
  /\ startup' = StartupAfterEnd
  /\ call' = AllRejected("fatal")
  /\ pending' = {}
  /\ terminating' = TRUE
  /\ UNCHANGED closed

\* The exit of the worker: expected once close has begun.
OnExit ==
  IF closed
  THEN /\ call' = AllRejected("closed")
       /\ pending' = {}
       /\ UNCHANGED <<startup, closed, terminal, terminating>>
  ELSE MarkFatal

OnStartupReady ==
  /\ startup' = IF startup = "pending" THEN "ready" ELSE startup
  /\ UNCHANGED <<closed, terminal, terminating, pending, call>>

\* #resolve; an answer nobody waits for is dropped.
OnAnswer(message) ==
  LET c == message.call IN
  /\ pending' = pending \ {c}
  /\ call' = IF c \in Calls /\ c \in pending
             THEN [call EXCEPT ![c] = IF message.ok THEN "resolved"
                                                    ELSE "failed"]
             ELSE call
  /\ UNCHANGED <<startup, closed, terminal, terminating>>

\* #handleMessage and the worker's error and exit events, in order.
Deliver ==
  LET message == Head(outbox) IN
  /\ outbox # <<>>
  /\ outbox' = Tail(outbox)
  /\ CASE message.kind = "exit"          -> OnExit
       [] message.kind = "startup-fatal" -> MarkFatal
       [] message.kind = "startup-ready" -> OnStartupReady
       [] message.kind = "answer"        -> OnAnswer(message)
  /\ UNCHANGED <<file, build, worker, answer, inbox, faults>>

AsksWorker == startup = "ready" /\ ~terminal

\* #closeOnce up to its first await: a worker that is ready is asked to
\* close and answers what was sent before; any other is terminated.
CloseBegins ==
  /\ ~closed
  /\ closed' = TRUE
  /\ startup' = StartupAfterEnd
  /\ IF AsksWorker
     THEN /\ pending' = pending \cup {"close"}
          /\ inbox' = Append(inbox, "close")
          /\ UNCHANGED <<call, terminating>>
     ELSE /\ call' = AllRejected("closed")
          /\ pending' = {}
          /\ terminating' = TRUE
          /\ UNCHANGED inbox
  /\ UNCHANGED <<file, build, worker, answer, outbox, terminal, faults>>

CloseAnswered ==
  /\ closed
  /\ ~terminating
  /\ "close" \notin pending
  /\ call' = AllRejected("closed")
  /\ pending' = {}
  /\ terminating' = TRUE
  /\ UNCHANGED <<file, build, thread, startup, closed, terminal, faults>>
=============================================================================
