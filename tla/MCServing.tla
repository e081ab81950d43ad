----------------------------- MODULE MCServing -----------------------------
(***************************************************************************)
(* A request on its way: the redirect loops of the three adapters          *)
(* (MCUpstreams), the gateway of the Node adapter around one request and   *)
(* its tunnels, the Node server with its database worker, the client       *)
(* package's call, the life of execution tokens, and the audit ledger.     *)
(* The variable subject says which of them a behaviour is about; the       *)
(* others stay as they began.  Init and Next are those of ExecutionTokens. *)
(***************************************************************************)
EXTENDS MCUpstreams, ExecutionTokens

CONSTANTS
  Exchanges, Bearers, Ids, TokenOf, IdOf,     \* of NodeGateway
  BodyLimit, GatewayFaults, MaxCrashes,
  Tunnels, Allowance, MaxFrames,              \* of NodeTunnel
  Statements, Later, Builds, Migrations,      \* of NodeServer
  MaxStarts, ServerFaults,
  MaxAttempts,                                \* of GatewayClient
  Writers, Limit, MaxClock, MaxAltered        \* of AuditLedger

\* The names the modules use for what is no request, no statement; the
\* migrations of a build are a list of versions; events order by their ids.
ASSUME ServingAssumption ==
  /\ "none" \notin Exchanges
  /\ TokenOf \in [Exchanges -> Bearers] /\ IdOf \in [Exchanges -> Ids]
  /\ "close" \notin Statements
  /\ Migrations \in [Builds -> Seq(STRING)]
  /\ Allowance \in Nat
  /\ Writers \subseteq Nat \ {0} /\ Limit \in Nat \ {0}

VARIABLES
  st, paused, withdrawn, ledger, reports, alerts, crashes,
  schema, committed, build, worker, answer, inbox, outbox, ready, closed,
  terminal, terminating, unanswered, call, faults, server, shutdown, starts,
  conn,
  phase, aborted, armed, kind, reading, outcome, watch, attempts, polled,
  recorded,
  platform, clock, writer, rows, issued, walk, degraded, altered,
  tunnel, left

Gateway ==
  INSTANCE NodeGateway WITH
    Requests <- Exchanges, Tokens <- Bearers, MaxFaults <- GatewayFaults,
    revoked <- withdrawn
Server ==
  INSTANCE NodeServer WITH
    Requests <- Statements, MaxFaults <- ServerFaults,
    ledger <- schema, startup <- ready, pending <- unanswered
Client == INSTANCE GatewayClient
Audit == INSTANCE AuditLedger
Tunnel == INSTANCE NodeTunnel

gatewayVars == <<st, paused, withdrawn, ledger, reports, alerts, crashes>>
serverVars ==
  <<schema, committed, build, worker, answer, inbox, outbox, ready, closed,
    terminal, terminating, unanswered, call, faults, server, shutdown, starts,
    conn>>

clientVars ==
  <<phase, aborted, armed, kind, reading, outcome, watch, attempts, polled,
    recorded>>
auditVars ==
  <<platform, clock, writer, rows, issued, walk, degraded, altered>>
tunnelVars == <<tunnel, left>>

GatewayStill ==
  /\ st = 0 /\ paused = 0 /\ withdrawn = 0 /\ ledger = 0
  /\ reports = 0 /\ alerts = 0 /\ crashes = 0
ServerStill ==
  /\ schema = 0 /\ committed = 0 /\ build = 0 /\ worker = 0
  /\ answer = 0 /\ inbox = 0 /\ outbox = 0 /\ ready = 0
  /\ closed = 0 /\ terminal = 0 /\ terminating = 0 /\ unanswered = 0
  /\ call = 0 /\ faults = 0 /\ server = 0 /\ shutdown = 0 /\ starts = 0
  /\ conn = 0

ClientStill ==
  /\ phase = 0 /\ aborted = 0 /\ armed = 0 /\ kind = 0 /\ reading = 0
  /\ outcome = 0 /\ watch = 0 /\ attempts = 0 /\ polled = 0 /\ recorded = 0
TokensStill == Init /\ adapter = "node"
AuditStill ==
  /\ platform = 0 /\ clock = 0 /\ writer = 0 /\ rows = 0 /\ issued = 0
  /\ walk = 0 /\ degraded = 0 /\ altered = 0
TunnelStill == tunnel = 0 /\ left = 0

UpstreamsStill ==
  /\ pc = 0 /\ current = 0 /\ method = 0 /\ sensitive = 0
  /\ sendBody = 0 /\ redirects = 0 /\ resolution = 0 /\ redirect = 0
  /\ sent = 0 /\ pending = 0 /\ revoked = 0 /\ policySensitive = 0
  /\ judged = 0

ServingInit ==
  \/ /\ UpstreamsInit
     /\ GatewayStill /\ ServerStill /\ ClientStill
     /\ TokensStill /\ AuditStill /\ TunnelStill
  \/ /\ UpstreamsStill
     /\ \/ /\ subject = "gateway" /\ Gateway!Init
           /\ ServerStill /\ ClientStill /\ TokensStill /\ AuditStill /\ TunnelStill
        \/ /\ subject = "server" /\ Server!Init
           /\ GatewayStill /\ ClientStill /\ TokensStill /\ AuditStill /\ TunnelStill
        \/ /\ subject = "client" /\ Client!Init
           /\ GatewayStill /\ ServerStill /\ TokensStill /\ AuditStill /\ TunnelStill
        \/ /\ subject = "tokens" /\ Init
           /\ GatewayStill /\ ServerStill /\ ClientStill /\ AuditStill /\ TunnelStill
        \/ /\ subject = "audit" /\ Audit!Init
           /\ GatewayStill /\ ServerStill /\ ClientStill /\ TokensStill /\ TunnelStill
        \/ /\ subject = "tunnel" /\ Tunnel!Init
           /\ GatewayStill /\ ServerStill /\ ClientStill /\ TokensStill /\ AuditStill

\* What a step of one subject leaves alone
BesideGateway ==
  <<upstreamsVars, serverVars, clientVars, tokenVars, auditVars, tunnelVars>>
BesideServer ==
  <<upstreamsVars, gatewayVars, clientVars, tokenVars, auditVars, tunnelVars>>
BesideClient ==
  <<upstreamsVars, gatewayVars, serverVars, tokenVars, auditVars, tunnelVars>>
BesideTunnel ==
  <<upstreamsVars, gatewayVars, serverVars, clientVars, tokenVars, auditVars>>

ServingNext ==
  \/ /\ UpstreamsNext
     /\ UNCHANGED <<gatewayVars, serverVars, clientVars, tokenVars, auditVars, tunnelVars>>
  \/ /\ subject = "gateway" /\ Gateway!Next /\ UNCHANGED BesideGateway
  \/ /\ subject = "server" /\ Server!Next /\ UNCHANGED BesideServer
  \/ /\ subject = "client" /\ Client!Next /\ UNCHANGED BesideClient
  \/ /\ subject = "tokens" /\ Next
     /\ UNCHANGED <<upstreamsVars, gatewayVars, serverVars, clientVars, auditVars, tunnelVars>>
  \/ /\ subject = "audit" /\ Audit!Next
     /\ UNCHANGED <<upstreamsVars, gatewayVars, serverVars, clientVars, tokenVars, tunnelVars>>
  \/ /\ subject = "tunnel" /\ Tunnel!Next /\ UNCHANGED BesideTunnel

servingVars ==
  <<upstreamsVars, gatewayVars, serverVars, clientVars, tokenVars, auditVars, tunnelVars>>

\* The fairness of NodeGateway, NodeServer, GatewayClient and NodeTunnel
GatewayGoesOn(Step) == subject = "gateway" /\ Step /\ UNCHANGED BesideGateway
ServerGoesOn(Step) == subject = "server" /\ Step /\ UNCHANGED BesideServer
ClientGoesOn(Step) == subject = "client" /\ Step /\ UNCHANGED BesideClient
TunnelGoesOn(Step) == subject = "tunnel" /\ Step /\ UNCHANGED BesideTunnel

ServingSpec ==
  /\ ServingInit /\ [][ServingNext]_servingVars
  /\ \A r \in Exchanges : /\ WF_servingVars(GatewayGoesOn(Gateway!Handle(r)))
                          /\ WF_servingVars(GatewayGoesOn(Gateway!Timeout(r)))
  /\ WF_servingVars(ServerGoesOn(Server!WorkerStep))
  /\ WF_servingVars(ServerGoesOn(Server!Termination))
  /\ WF_servingVars(ServerGoesOn(Server!ClientStep))
  /\ WF_servingVars(ServerGoesOn(Server!ServerStep))
  /\ WF_servingVars(ClientGoesOn(Client!TimesOut))
  /\ WF_servingVars(ClientGoesOn(Client!ClientStep))
  /\ WF_servingVars(ClientGoesOn(Client!PollStep))
  /\ \A t \in Tunnels : /\ WF_servingVars(TunnelGoesOn(Tunnel!Handle(t)))
                         /\ WF_servingVars(TunnelGoesOn(Tunnel!SetupTimesOut(t)))

-----------------------------------------------------------------------------
(* The instance that TLC checks *)

CONSTANTS q1, t1, i1, inner, outer

\* Upstreams of Node: every origin may be reached at the outer address only,
\* and the origin c not at all.
OuterOnly == {o \in Origins : o # "c"} \X {outer}

\* Other tokens may reach a at the inner address, and c.
OfOthers == {<<"a", inner>>, <<"c", outer>>}

\* Of the cloud adapters: d is outside the token's scope, and b may only be
\* posted to.  The origin c is insecure, or one of the installation's own.
DeniedAtB == {<<"b", "PUT">>, <<"b", "GET">>}

\* The gateway handles one request.
OneToken == [r \in {q1} |-> t1]
OneId == [r \in {q1} |-> i1]

\* new extends the schema of old, fork has another second migration.
Released == [old |-> <<"a">>, new |-> <<"a", "b">>, fork |-> <<"a", "x">>]

-----------------------------------------------------------------------------
(* Gateway: the outcome on record is what happened to the response, and    *)
(* the totals that are recorded of a tunnel leave out nothing that passed. *)
OutcomeHonest ==
  /\ subject = "gateway" => Gateway!OutcomeHonest
  /\ subject = "tunnel" => Tunnel!TrafficIsCounted

(* Gateway: one failed write never hides how a request ended.              *)
OneFaultIsVisible == subject = "gateway" => Gateway!OneFaultIsVisible

(* Gateway: a request that took a lease gives it back, with its temporary  *)
(* file, even if target and client never do anything again; so does a      *)
(* tunnel that was settled or lost its client, and a connection attempt    *)
(* that hears the abort signal comes to an end.                            *)
LeaseIsReturned ==
  /\ \A r \in Exchanges :
       (subject = "gateway" /\ st[r].lease) ~>
         (subject = "gateway" /\ ~st[r].lease /\ st[r].pc \in {"done", "lost"})
  /\ \A t \in Tunnels :
       /\ (subject = "tunnel" /\ Tunnel!Ending(t)) ~>
            (subject = "tunnel" /\ ~tunnel[t].lease)
       /\ (subject = "tunnel" /\ Tunnel!Connecting(t)) ~>
            (subject = "tunnel" /\ ~Tunnel!Connecting(t))

ResolvedIsCommitted == subject = "server" => Server!ResolvedIsCommitted

ServedSchemaExact == subject = "server" => Server!ServedSchemaExact

(* Database: a statement whose caller was told it succeeded is in the file *)
(* and stays there through every later crash and restart, and requests are *)
(* served only over a schema of exactly the running build's migrations.    *)
FileIsTrusted == ResolvedIsCommitted /\ ServedSchemaExact

GracefulShutdown == [][subject = "server" => Server!GracefulShutdown]_servingVars

SentIsAnswered == [][subject = "server" => Server!SentIsAnswered]_servingVars

\* The server itself issues one call at a time; a statement that may come
\* after a restart may come whenever another may.
Outstanding(calls) == \E c \in calls : Server!InFlight(c)
EveryCallSettles ==
  \A calls \in {Server!Startup} \cup {{c} : c \in Later} :
    (subject = "server" /\ Outstanding(calls)) ~>
      (subject = "server" /\ ~Outstanding(calls))

ShutdownEnds ==
  (subject = "server" /\ shutdown \in {"requested", "closing"}) ~>
    (subject = "server" /\ (server = "down" \/ Server!HeldUp))

(* Server: every statement is answered or rejected unless the process is   *)
(* killed, and a shutdown that was requested ends unless a connection stays *)
(* open, although worker and close may end at any moment.  What the worker *)
(* was sent is answered before it closes, and only what a handler does     *)
(* after the end of its connection may be refused.                         *)
StopsGracefully ==
  GracefulShutdown /\ SentIsAnswered /\ EveryCallSettles /\ ShutdownEnds

IncompleteIsOwn == subject = "client" => Client!IncompleteIsOwn

StreamEndsOnce ==
  [][(subject = "client" /\ outcome # "none") => outcome' = outcome]_servingVars

(* Client: an execution is called incomplete only on its own report, a     *)
(* stream that was delivered as complete stays so, and one that was ended  *)
(* with an error is never completed, whatever comes late.                  *)
StreamEndIsFinal == []IncompleteIsOwn /\ StreamEndsOnce

SettledIsQuiet == subject = "client" => Client!SettledIsQuiet

CallEnds ==
  (subject = "client" /\ phase = "fetching") ~>
    (subject = "client" /\ phase \in {"done", "thrown"})

(* Client: every call ends, although no one it waits for may ever answer,  *)
(* and leaves no timer, listener or watch behind.                          *)
CallEndsQuietly == []SettledIsQuiet /\ CallEnds

WalkIsWhole == subject = "audit" => Audit!WalkIsWhole

ShownIsGenuine == subject = "audit" => Audit!ShownIsGenuine

(* Audit: a walk through the pages shows every event that was there when   *)
(* it began and still is, once, whatever is written between two pages, and *)
(* on Supabase none that does not verify.                                  *)
WalkIsFaithful == WalkIsWhole /\ ShownIsGenuine

(* Audit: on Node every event names the one before it, in whatever order   *)
(* the events were built.                                                  *)
ChainUnbroken == subject = "audit" => Audit!ChainUnbroken
=============================================================================
