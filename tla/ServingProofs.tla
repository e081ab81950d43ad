--------------------------- MODULE ServingProofs ---------------------------
(***************************************************************************)
(* The Node gateway around its requests and its tunnels, the Node server   *)
(* with its database, the client's call and the audit ledger: what         *)
(* MCServing checks on one instance, for every set of requests, tunnels,   *)
(* statements, builds and writers and for every bound; and, last, the      *)
(* redirect loops of the three adapters, which MCServing extends.          *)
(***************************************************************************)
EXTENDS MCServing, FiniteSetTheorems, FunctionTheorems, TLAPS

-----------------------------------------------------------------------------
(* Of what a behaviour is about: it is chosen at the beginning, and only   *)
(* steps of that component are taken.                                      *)

LEMMA GatewayTakesStep ==
  ASSUME subject = "gateway", [ServingNext]_servingVars
  PROVE  [Gateway!Next]_gatewayVars /\ subject' = subject
  BY DEF ServingNext, UpstreamsNext, servingVars, upstreamsVars,
         BesideGateway, BesideServer, BesideClient, BesideTunnel

LEMMA ServerTakesStep ==
  ASSUME subject = "server", [ServingNext]_servingVars
  PROVE  [Server!Next]_serverVars /\ subject' = subject
  BY DEF ServingNext, UpstreamsNext, servingVars, upstreamsVars,
         BesideGateway, BesideServer, BesideClient, BesideTunnel

LEMMA ClientTakesStep ==
  ASSUME subject = "client", [ServingNext]_servingVars
  PROVE  [Client!Next]_clientVars /\ subject' = subject
  BY DEF ServingNext, UpstreamsNext, servingVars, upstreamsVars,
         BesideGateway, BesideServer, BesideClient, BesideTunnel

LEMMA AuditTakesStep ==
  ASSUME subject = "audit", [ServingNext]_servingVars
  PROVE  [Audit!Next]_auditVars /\ subject' = subject
  BY DEF ServingNext, UpstreamsNext, servingVars, upstreamsVars,
         BesideGateway, BesideServer, BesideClient, BesideTunnel

LEMMA TunnelTakesStep ==
  ASSUME subject = "tunnel", [ServingNext]_servingVars
  PROVE  [Tunnel!Next]_tunnelVars /\ subject' = subject
  BY DEF ServingNext, UpstreamsNext, servingVars, upstreamsVars,
         BesideGateway, BesideServer, BesideClient, BesideTunnel

LEMMA SubjectStays ==
  ASSUME [ServingNext]_servingVars PROVE subject' = subject
  BY DEF ServingNext, UpstreamsNext, servingVars, upstreamsVars,
         BesideGateway, BesideServer, BesideClient, BesideTunnel

-----------------------------------------------------------------------------
(* The gateway.  A request has no outcome until its response is decided,   *)
(* and then the one its connection shows.  What the ledger and the report  *)
(* say of it is compared at every place where the handler may be.          *)

\* Before the response is decided, and when an outcome is being recorded.
Undecided ==
  {"new", "authenticate", "plain", "error", "upload", "validate", "resolve",
   "accept", "contact", "stream", "charge", "drain", "interrupted"}
Recording == {"report", "event", "degrade"}
Labels == Undecided \cup Recording \cup {"release", "done", "lost"}

Handler ==
  [pc : Labels, paused : BOOLEAN, abort : {"none", "timeout", "cancelled"},
   timer : BOOLEAN,
   down : {"open", "started", "ended", "destroyed", "plain", "relay"},
   up : {"none", "flowing", "complete", "truncated"}, chunks : Nat,
   outcome : Gateway!Outcomes \cup {"none"},
   audit : {"unknown", "recorded", "degraded"},
   lease : BOOLEAN, spool : BOOLEAN, faults : Nat]

Report ==
  [token : Bearers \cup {"none"}, by : Exchanges \cup {"none"},
   outcome : Gateway!Outcomes \cup {"none"},
   audit : {"none", "unknown", "recorded", "degraded"}, live : BOOLEAN]

GatewayTypes ==
  /\ st \in [Exchanges -> Handler]
  /\ reports \in [Ids -> Report]
  /\ paused \in BOOLEAN

HonestRequest(r) ==
  /\ st[r].pc \in Undecided => st[r].outcome = "none"
  /\ st[r].pc \in Recording => st[r].outcome # "none"
  /\ <<"none", r>> \notin ledger
  /\ st[r].pc \in Undecided /\ st[r].down = "destroyed" =>
       st[r].abort # "none"
  /\ st[r].outcome = "completed" =>
       st[r].up = "complete" /\ st[r].down \in {"ended", "destroyed"}
  /\ st[r].outcome \in {"partial", "timeout", "cancelled"} =>
       st[r].down = "destroyed"
  /\ st[r].outcome \in {"timeout", "cancelled"} =>
       st[r].abort = st[r].outcome

\* The report of a request is its own only after it was saved; a request that
\* saved one and met one fault at most is on record when it is released.
VisibleRequest(r) ==
  /\ st[r].pc \in Undecided \cup {"report"} => reports[IdOf[r]].by # r
  /\ st[r].pc = "degrade" => st[r].faults >= 1
  /\ /\ st[r].pc \in {"release", "done"}
     /\ reports[IdOf[r]].by = r
     /\ st[r].faults <= 1
     => \/ <<st[r].outcome, r>> \in ledger
        \/ reports[IdOf[r]].audit = "degraded" /\ IdOf[r] \in alerts

GatewayInv ==
  /\ GatewayTypes
  /\ \A r \in Exchanges : HonestRequest(r) /\ VisibleRequest(r)

LEMMA GatewayBegins == Gateway!Init => GatewayInv
  <1> SUFFICES ASSUME Gateway!Init PROVE GatewayInv OBVIOUS
  <1>1. GatewayTypes
    BY DEF Gateway!Init, Gateway!NewHandler, Gateway!NoReport, GatewayTypes,
           Handler, Report, Labels, Undecided
  <1>2. ASSUME NEW r \in Exchanges PROVE HonestRequest(r) /\ VisibleRequest(r)
    <2>1. /\ st[r].pc = "new" /\ st[r].outcome = "none" /\ ledger = {}
          /\ st[r].down = "open"
          /\ reports[IdOf[r]].by = "none" /\ r # "none"
      BY ServingAssumption
      DEF Gateway!Init, Gateway!NewHandler, Gateway!NoReport
    <2> QED
      BY <2>1 DEF HonestRequest, VisibleRequest, Undecided, Recording
  <1> QED BY <1>1, <1>2 DEF GatewayInv

\* The handler of r is replaced by h.
Becomes(r, h) == st' = [st EXCEPT ![r] = h]

LEMMA Replaced ==
  ASSUME GatewayTypes, NEW r \in Exchanges, NEW h \in Handler, Becomes(r, h)
  PROVE  /\ st' \in [Exchanges -> Handler]
         /\ st'[r] = h
         /\ \A q \in Exchanges \ {r} : st'[q] = st[q]
  BY DEF GatewayTypes, Becomes

LEMMA LabelMoves ==
  ASSUME GatewayTypes, NEW r \in Exchanges, NEW p \in Labels
  PROVE  LET h == [st[r] EXCEPT !.pc = p] IN
         /\ h \in Handler /\ h.pc = p /\ h.outcome = st[r].outcome
         /\ h.up = st[r].up /\ h.down = st[r].down /\ h.abort = st[r].abort
         /\ h.faults = st[r].faults /\ h.audit = st[r].audit
  BY DEF GatewayTypes, Handler

\* What a step of one request may do to the record of another: nothing, but
\* save a report under the id they share.
LEMMA RequestKept ==
  ASSUME NEW q \in Exchanges, HonestRequest(q), VisibleRequest(q),
         st'[q] = st[q],
         ledger \subseteq ledger', <<"none", q>> \notin ledger',
         alerts \subseteq alerts',
         \/ reports'[IdOf[q]].by # q
         \/ /\ reports'[IdOf[q]].by = reports[IdOf[q]].by
            /\ reports'[IdOf[q]].audit = reports[IdOf[q]].audit
  PROVE  HonestRequest(q)' /\ VisibleRequest(q)'
  BY DEF HonestRequest, VisibleRequest

\* A step of r that leaves the tables alone
LEMMA PrivateStep ==
  ASSUME GatewayInv, NEW r \in Exchanges, NEW h \in Handler, Becomes(r, h),
         Gateway!Private, HonestRequest(r)', VisibleRequest(r)'
  PROVE  GatewayInv'
  <1>1. UNCHANGED <<ledger, reports, alerts, paused>>
    BY DEF Gateway!Private, Gateway!tables
  <1>2. GatewayTypes' BY <1>1, Replaced DEF GatewayInv, GatewayTypes
  <1>3. ASSUME NEW q \in Exchanges, q # r
        PROVE  HonestRequest(q)' /\ VisibleRequest(q)'
    <2>1. st'[q] = st[q] BY <1>3, Replaced DEF GatewayInv
    <2>2. HonestRequest(q) /\ VisibleRequest(q) BY DEF GatewayInv
    <2> QED BY <1>1, <2>1, <2>2, RequestKept DEF HonestRequest
  <1> QED BY <1>2, <1>3 DEF GatewayInv

\* A step before the response is decided
NothingDecided(h, r) ==
  /\ h.outcome = st[r].outcome
  /\ h.abort = st[r].abort
  /\ h.down = "destroyed" => st[r].down = "destroyed"

LEMMA UndecidedStep ==
  ASSUME GatewayInv, NEW r \in Exchanges, NEW h \in Handler, Becomes(r, h),
         Gateway!Private, st[r].pc \in Undecided, h.pc \in Undecided,
         NothingDecided(h, r)
  PROVE  GatewayInv'
  <1>1. st'[r] = h BY Replaced DEF GatewayInv
  <1>2. HonestRequest(r) /\ VisibleRequest(r) BY DEF GatewayInv
  <1>3. UNCHANGED <<ledger, reports>> BY DEF Gateway!Private, Gateway!tables
  <1>4. HonestRequest(r)'
    BY <1>1, <1>2, <1>3
    DEF HonestRequest, NothingDecided, Undecided, Recording
  <1>5. VisibleRequest(r)'
    BY <1>1, <1>2, <1>3 DEF VisibleRequest, Undecided
  <1> QED BY <1>4, <1>5, PrivateStep

LEMMA LabelOnly ==
  ASSUME GatewayInv, NEW r \in Exchanges, NEW p \in Undecided,
         st' = [st EXCEPT ![r].pc = p], Gateway!Private,
         st[r].pc \in Undecided
  PROVE  GatewayInv'
  <1> DEFINE h == [st[r] EXCEPT !.pc = p]
  <1>1. p \in Labels BY DEF Labels
  <1>2. h \in Handler /\ h.pc = p /\ NothingDecided(h, r)
    BY <1>1, LabelMoves DEF GatewayInv, NothingDecided
  <1>3. Becomes(r, h) BY DEF Becomes
  <1> HIDE DEF h
  <1> QED BY <1>2, <1>3, UndecidedStep

LEMMA MovesUndecided ==
  ASSUME GatewayInv, NEW r \in Exchanges,
         \/ Gateway!ReadConfiguration(r) \/ Gateway!RefuseUnread(r)
         \/ Gateway!Authenticate(r) \/ Gateway!SpoolBody(r)
         \/ Gateway!SpoolFails(r) \/ Gateway!Refuse(r) \/ Gateway!Acquire(r)
         \/ Gateway!Resolve(r) \/ Gateway!AuditDegraded(r)
         \/ Gateway!UpstreamAnswers(r) \/ Gateway!UpstreamFails(r)
         \/ Gateway!UpstreamChunk(r) \/ Gateway!UpstreamEnds(r)
         \/ Gateway!Forward(r) \/ Gateway!ChargeFails(r) \/ Gateway!Drain(r)
         \/ Gateway!ObserveAbort(r) \/ Gateway!EndsEarly(r)
  PROVE  GatewayInv'
  <1> USE DEF Gateway!At
  <1>1. st[r] \in Handler BY DEF GatewayInv, GatewayTypes
  <1>2. CASE \/ Gateway!RefuseUnread(r) \/ Gateway!Authenticate(r)
             \/ Gateway!SpoolFails(r) \/ Gateway!Refuse(r) \/ Gateway!Resolve(r)
             \/ Gateway!UpstreamFails(r) \/ Gateway!UpstreamChunk(r)
             \/ Gateway!ChargeFails(r) \/ Gateway!Drain(r)
             \/ Gateway!ObserveAbort(r) \/ Gateway!EndsEarly(r)
    <2>1. /\ st[r].pc \in Undecided /\ Gateway!Private
          /\ \E p \in Undecided : st' = [st EXCEPT ![r].pc = p]
      <3>1. CASE Gateway!RefuseUnread(r) \/ Gateway!SpoolFails(r)
                 \/ Gateway!Refuse(r)
        BY <3>1
        DEF Gateway!RefuseUnread, Gateway!SpoolFails, Gateway!Refuse, Undecided
      <3>2. CASE Gateway!Authenticate(r)
        BY <3>2 DEF Gateway!Authenticate, Undecided
      <3>3. CASE Gateway!Resolve(r)
        BY <3>3 DEF Gateway!Resolve, Undecided
      <3>4. CASE Gateway!UpstreamFails(r) \/ Gateway!ChargeFails(r)
                 \/ Gateway!Drain(r) \/ Gateway!EndsEarly(r)
        BY <3>4
        DEF Gateway!UpstreamFails, Gateway!ChargeFails, Gateway!Drain,
            Gateway!EndsEarly, Undecided
      <3>5. CASE Gateway!UpstreamChunk(r)
        BY <3>5 DEF Gateway!UpstreamChunk, Undecided
      <3>6. CASE Gateway!ObserveAbort(r)
        <4>1. /\ st[r].pc \in {"contact", "stream", "drain"}
              /\ Gateway!Private
          BY <3>6 DEF Gateway!ObserveAbort, Gateway!Abortable
        <4>2. st' = [st EXCEPT ![r].pc = IF st[r].pc = "contact" THEN "error"
                                                             ELSE "interrupted"]
          BY <3>6 DEF Gateway!ObserveAbort
        <4> QED BY <4>1, <4>2 DEF Undecided
      <3> QED BY <1>2, <3>1, <3>2, <3>3, <3>4, <3>5, <3>6
    <2> QED BY <2>1, LabelOnly
  <1>3. CASE Gateway!ReadConfiguration(r)
    <2> DEFINE h == [st[r] EXCEPT !.pc = "authenticate", !.paused = paused]
    <2>1. paused \in BOOLEAN BY DEF GatewayInv, GatewayTypes
    <2>2. h \in Handler BY <1>1, <2>1 DEF Handler, Labels, Undecided
    <2>3. h.pc = "authenticate" /\ NothingDecided(h, r)
      BY <1>1 DEF Handler, NothingDecided
    <2>4. Becomes(r, h) /\ Gateway!Private /\ st[r].pc = "new"
      BY <1>3 DEF Gateway!ReadConfiguration, Becomes
    <2> HIDE DEF h
    <2> QED BY <2>2, <2>3, <2>4, UndecidedStep DEF Undecided
  <1>4. CASE Gateway!SpoolBody(r)
    <2> DEFINE h == [st[r] EXCEPT !.pc = "validate", !.spool = TRUE]
    <2>1. h \in Handler BY <1>1 DEF Handler, Labels, Undecided
    <2>2. h.pc = "validate" /\ NothingDecided(h, r)
      BY <1>1 DEF Handler, NothingDecided
    <2>3. Becomes(r, h) /\ Gateway!Private /\ st[r].pc = "upload"
      BY <1>4 DEF Gateway!SpoolBody, Becomes
    <2> HIDE DEF h
    <2> QED BY <2>1, <2>2, <2>3, UndecidedStep DEF Undecided
  <1>5. CASE Gateway!Acquire(r)
    <2> DEFINE h == [st[r] EXCEPT !.pc = "resolve", !.lease = TRUE,
                                  !.timer = TRUE]
    <2>1. h \in Handler BY <1>1 DEF Handler, Labels, Undecided
    <2>2. h.pc = "resolve" /\ NothingDecided(h, r)
      BY <1>1 DEF Handler, NothingDecided
    <2>3. Becomes(r, h) /\ Gateway!Private /\ st[r].pc = "validate"
      BY <1>5 DEF Gateway!Acquire, Becomes
    <2> HIDE DEF h
    <2> QED BY <2>1, <2>2, <2>3, UndecidedStep DEF Undecided
  <1>6. CASE Gateway!AuditDegraded(r)
    <2> DEFINE n == st[r].faults + 1
               h == [st[r] EXCEPT !.pc = "contact", !.audit = "degraded",
                                  !.faults = n]
    <2>1. Becomes(r, h) /\ Gateway!Private /\ st[r].pc = "accept"
      BY <1>6 DEF Gateway!AuditDegraded, Becomes
    <2>2. n \in Nat /\ "contact" \in Labels
      BY <1>1 DEF Handler, Labels, Undecided
    <2> HIDE DEF n
    <2>3. h \in Handler BY <1>1, <2>2 DEF Handler
    <2>4. h.pc = "contact" /\ NothingDecided(h, r)
      BY <1>1 DEF Handler, NothingDecided
    <2> HIDE DEF h
    <2> QED BY <2>1, <2>3, <2>4, UndecidedStep DEF Undecided
  <1>7. CASE Gateway!UpstreamAnswers(r)
    <2> DEFINE h == [st[r] EXCEPT !.pc = "stream", !.up = "flowing"]
    <2>1. h \in Handler BY <1>1 DEF Handler, Labels, Undecided
    <2>2. h.pc = "stream" /\ NothingDecided(h, r)
      BY <1>1 DEF Handler, NothingDecided
    <2>3. Becomes(r, h) /\ Gateway!Private /\ st[r].pc = "contact"
      BY <1>7 DEF Gateway!UpstreamAnswers, Becomes
    <2> HIDE DEF h
    <2> QED BY <2>1, <2>2, <2>3, UndecidedStep DEF Undecided
  <1>8. CASE Gateway!UpstreamEnds(r)
    <2>1. PICK end \in {"complete", "truncated"} :
            st' = [st EXCEPT ![r].up = end]
      BY <1>8 DEF Gateway!UpstreamEnds
    <2> DEFINE h == [st[r] EXCEPT !.up = end]
    <2>2. h \in Handler /\ h.pc = st[r].pc /\ NothingDecided(h, r)
      BY <1>1 DEF Handler, NothingDecided
    <2>3. Becomes(r, h) /\ Gateway!Private /\ st[r].pc = "stream"
      BY <1>8, <2>1 DEF Gateway!UpstreamEnds, Becomes
    <2> HIDE DEF h
    <2> QED BY <2>2, <2>3, UndecidedStep DEF Undecided
  <1>9. CASE Gateway!Forward(r)
    <2>1. PICK next \in {"stream", "drain"} :
            st' = [st EXCEPT ![r] =
                     [@ EXCEPT !.pc = next, !.chunks = st[r].chunks + 1,
                               !.down = Gateway!Written(r)]]
      BY <1>9 DEF Gateway!Forward
    <2> DEFINE n == st[r].chunks + 1
               d == Gateway!Written(r)
               h == [st[r] EXCEPT !.pc = next, !.chunks = n, !.down = d]
    <2>a. d = "destroyed" => st[r].down = "destroyed"
      BY DEF Gateway!Written
    <2>2. d \in
            {"open", "started", "ended", "destroyed", "plain", "relay"}
      BY <1>1 DEF Handler, Gateway!Written
    <2>3. n \in Nat /\ next \in Labels
      BY <1>1 DEF Handler, Labels, Undecided
    <2>4. Becomes(r, h) /\ Gateway!Private /\ st[r].pc = "charge"
      BY <1>9, <2>1 DEF Gateway!Forward, Becomes
    <2> HIDE DEF n, d
    <2>5. h \in Handler BY <1>1, <2>2, <2>3 DEF Handler
    <2>6. h.pc = next /\ NothingDecided(h, r)
      BY <1>1, <2>a DEF Handler, NothingDecided
    <2> HIDE DEF h
    <2> QED BY <2>4, <2>5, <2>6, UndecidedStep DEF Undecided
  <1> QED BY <1>2, <1>3, <1>4, <1>5, <1>6, <1>7, <1>8, <1>9

\* The response is decided: the outcome is the one its connection shows.
LEMMA Decides ==
  ASSUME GatewayInv, NEW r \in Exchanges,
         Gateway!Finish(r) \/ Gateway!Interrupt(r)
  PROVE  GatewayInv'
  <1> USE DEF Gateway!At
  <1>1. /\ st[r] \in Handler /\ GatewayTypes
        /\ HonestRequest(r) /\ VisibleRequest(r)
    BY DEF GatewayInv, GatewayTypes
  <1>2. /\ Gateway!Private /\ UNCHANGED <<ledger, reports>>
        /\ st[r].pc \in Undecided
    BY DEF Gateway!Finish, Gateway!Interrupt, Gateway!Private, Gateway!tables,
           Undecided
  <1>3. "report" \in Labels BY DEF Labels, Recording
  <1>4. reports[IdOf[r]].by # r BY <1>1, <1>2 DEF VisibleRequest
  <1>5. CASE Gateway!Finish(r)
    <2> DEFINE d == Gateway!EndedAs(r, "ended")
               h == [st[r] EXCEPT !.pc = "report", !.outcome = "completed",
                                  !.down = d]
    <2>1. Becomes(r, h) /\ st[r].up = "complete"
      BY <1>5 DEF Gateway!Finish, Gateway!BodyCompleted, Becomes
    <2>2. d \in {"ended", "destroyed"} BY DEF Gateway!EndedAs
    <2>3. "completed" \in Gateway!Outcomes BY DEF Gateway!Outcomes
    <2> HIDE DEF d
    <2>4. h \in Handler BY <1>1, <1>3, <2>2, <2>3 DEF Handler
    <2>5. /\ h.pc = "report" /\ h.outcome = "completed" /\ h.up = st[r].up
          /\ h.down = d
      BY <1>1 DEF Handler
    <2> HIDE DEF h
    <2>6. st'[r] = h BY <1>1, <2>1, <2>4, Replaced
    <2>7. HonestRequest(r)'
      BY <1>1, <1>2, <2>1, <2>2, <2>5, <2>6
      DEF HonestRequest, Undecided, Recording
    <2>8. VisibleRequest(r)'
      BY <1>2, <1>4, <2>5, <2>6 DEF VisibleRequest
    <2> QED BY <1>2, <2>1, <2>4, <2>7, <2>8, PrivateStep
  <1>6. CASE Gateway!Interrupt(r)
    <2> DEFINE o == Gateway!InterruptedOutcome(r)
               h == [st[r] EXCEPT !.pc = "report", !.down = "destroyed",
                                  !.outcome = o]
    <2>1. Becomes(r, h) BY <1>6 DEF Gateway!Interrupt, Becomes
    <2>2. st[r].down = "destroyed" => st[r].abort # "none"
      BY <1>1, <1>2 DEF HonestRequest
    <2>3. /\ o \in {"timeout", "cancelled", "partial"}
          /\ o \in {"timeout", "cancelled"} => st[r].abort = o
      BY <1>1, <2>2 DEF Gateway!InterruptedOutcome, Handler
    <2>4. o \in Gateway!Outcomes BY <2>3 DEF Gateway!Outcomes
    <2> HIDE DEF o
    <2>5. h \in Handler BY <1>1, <1>3, <2>4 DEF Handler
    <2>6. /\ h.pc = "report" /\ h.outcome = o /\ h.abort = st[r].abort
          /\ h.down = "destroyed"
      BY <1>1 DEF Handler
    <2> HIDE DEF h
    <2>7. st'[r] = h BY <1>1, <2>1, <2>5, Replaced
    <2>8. HonestRequest(r)'
      BY <1>1, <1>2, <2>3, <2>6, <2>7
      DEF HonestRequest, Undecided, Recording
    <2>9. VisibleRequest(r)'
      BY <1>2, <1>4, <2>6, <2>7 DEF VisibleRequest
    <2> QED BY <1>2, <2>1, <2>5, <2>8, <2>9, PrivateStep
  <1> QED BY <1>5, <1>6

\* A step of r that writes into the ledger, the reports or the alerts
LEMMA RecordStep ==
  ASSUME GatewayInv, NEW r \in Exchanges, NEW h \in Handler, Becomes(r, h),
         ledger \subseteq ledger', alerts \subseteq alerts', paused' = paused,
         \A q \in Exchanges \ {r} :
           <<"none", q>> \in ledger' => <<"none", q>> \in ledger,
         reports' \in [Ids -> Report],
         \A q \in Exchanges \ {r} :
           \/ reports'[IdOf[q]] = reports[IdOf[q]]
           \/ reports'[IdOf[q]].by # q,
         HonestRequest(r)', VisibleRequest(r)'
  PROVE  GatewayInv'
  <1>1. GatewayTypes' BY Replaced DEF GatewayInv, GatewayTypes
  <1>2. ASSUME NEW q \in Exchanges, q # r
        PROVE  HonestRequest(q)' /\ VisibleRequest(q)'
    <2>1. st'[q] = st[q] BY <1>2, Replaced DEF GatewayInv
    <2>2. HonestRequest(q) /\ VisibleRequest(q) BY DEF GatewayInv
    <2>3. <<"none", q>> \notin ledger' BY <1>2, <2>2 DEF HonestRequest
    <2>4. \/ reports'[IdOf[q]].by # q
          \/ /\ reports'[IdOf[q]].by = reports[IdOf[q]].by
             /\ reports'[IdOf[q]].audit = reports[IdOf[q]].audit
      BY <1>2
    <2> QED BY <2>1, <2>2, <2>3, <2>4, RequestKept
  <1> QED BY <1>1, <1>2 DEF GatewayInv

\* What #saveOperation leaves under the id of r
LEMMA SaveFacts ==
  ASSUME GatewayInv, NEW r \in Exchanges,
         NEW a \in {"unknown", "recorded", "degraded"},
         reports' = Gateway!Saved(r, a)
  PROVE  /\ reports' \in [Ids -> Report]
         /\ reports'[IdOf[r]].by = r /\ reports'[IdOf[r]].audit = a
         /\ \A q \in Exchanges \ {r} :
              \/ reports'[IdOf[q]] = reports[IdOf[q]]
              \/ reports'[IdOf[q]].by # q
  <1> DEFINE t == IF reports[IdOf[r]] = Gateway!NoReport THEN TokenOf[r]
                  ELSE reports[IdOf[r]].token
             row == [token |-> t, by |-> r, outcome |-> st[r].outcome,
                     audit |-> a, live |-> TRUE]
  <1>1. IdOf[r] \in Ids /\ TokenOf[r] \in Bearers BY ServingAssumption
  <1>2. t \in Bearers \cup {"none"}
    BY <1>1 DEF GatewayInv, GatewayTypes, Report
  <1>3. st[r].outcome \in Gateway!Outcomes \cup {"none"}
    BY DEF GatewayInv, GatewayTypes, Handler
  <1>4. reports' = [reports EXCEPT ![IdOf[r]] = row] BY DEF Gateway!Saved
  <1> HIDE DEF t
  <1>5. row \in Report /\ row.by = r /\ row.audit = a
    BY <1>2, <1>3 DEF Report
  <1> HIDE DEF row
  <1>6. reports \in [Ids -> Report] BY DEF GatewayInv, GatewayTypes
  <1>7. /\ reports' \in [Ids -> Report] /\ reports'[IdOf[r]] = row
        /\ \A i \in Ids : i # IdOf[r] => reports'[i] = reports[i]
    BY <1>1, <1>4, <1>5, <1>6
  <1>8. \A q \in Exchanges : IdOf[q] \in Ids BY ServingAssumption
  <1> QED BY <1>5, <1>7, <1>8

\* The outcome is recorded, in the ledger and the report, or it is not.
LEMMA Records ==
  ASSUME GatewayInv, NEW r \in Exchanges,
         \/ Gateway!AuditAccepted(r)
         \/ Gateway!SaveReport(r) \/ Gateway!SaveReportFails(r)
         \/ Gateway!AuditOutcome(r) \/ Gateway!AuditOutcomeFails(r)
         \/ Gateway!RecordAuditDegradation(r) \/ Gateway!DegradationFails(r)
  PROVE  GatewayInv'
  <1> USE DEF Gateway!At
  <1> DEFINE Moved(p) == [st[r] EXCEPT !.pc = p]
             Failed(p) == [st[r] EXCEPT !.pc = p, !.faults = st[r].faults + 1]
             Same(h) == /\ h.outcome = st[r].outcome /\ h.up = st[r].up
                        /\ h.down = st[r].down /\ h.abort = st[r].abort
  <1>1. /\ st[r] \in Handler /\ GatewayTypes
        /\ HonestRequest(r) /\ VisibleRequest(r)
    BY DEF GatewayInv, GatewayTypes
  <1>2. /\ {"contact", "event", "release", "degrade"} \subseteq Labels
        /\ \A p \in {"event", "release", "degrade"} : p \notin Undecided
        /\ "contact" \in Undecided \ Recording
        /\ \A p \in {"event", "degrade"} : p \in Recording
        /\ "report" \notin Undecided
    BY DEF Labels, Undecided, Recording
  <1>3. ASSUME NEW p \in Labels
        PROVE  /\ Moved(p) \in Handler /\ Moved(p).pc = p /\ Same(Moved(p))
               /\ Moved(p).faults = st[r].faults
    BY <1>1, LabelMoves
  <1>4. ASSUME NEW p \in Labels
        PROVE  /\ Failed(p) \in Handler /\ Failed(p).pc = p /\ Same(Failed(p))
               /\ Failed(p).faults = st[r].faults + 1
               /\ st[r].faults \in Nat
    <2> DEFINE n == st[r].faults + 1
    <2>1. n \in Nat /\ st[r].faults \in Nat BY <1>1 DEF Handler
    <2> HIDE DEF n
    <2>2. [st[r] EXCEPT !.pc = p, !.faults = n] \in Handler
      BY <1>1, <2>1 DEF Handler
    <2>3. [st[r] EXCEPT !.pc = p, !.faults = n].pc = p
      BY <1>1 DEF Handler
    <2>4. [st[r] EXCEPT !.pc = p, !.faults = n].faults = n
      BY <1>1 DEF Handler
    <2>5. Same([st[r] EXCEPT !.pc = p, !.faults = n])
      BY <1>1 DEF Handler
    <2> QED BY <2>1, <2>2, <2>3, <2>4, <2>5 DEF n
  \* A write that fails: the handler goes on, the tables stay.
  <1>5. ASSUME NEW p \in {"release", "degrade"}, st[r].pc \in Recording,
               Becomes(r, Failed(p)), Gateway!Private,
               st[r].pc = "event" \/ p = "release",
               p = "release" => \/ reports[IdOf[r]].by # r
                                \/ st[r].faults >= 1
        PROVE  GatewayInv'
    <2> DEFINE h == Failed(p)
    <2>1. p \in Labels BY <1>2
    <2>2. /\ h \in Handler /\ h.pc = p /\ Same(h)
          /\ h.faults = st[r].faults + 1 /\ st[r].faults \in Nat
      BY <1>4, <2>1
    <2>3. Becomes(r, h) BY <1>5
    <2> HIDE DEF h
    <2>4. st'[r] = h BY <1>1, <2>2, <2>3, Replaced
    <2>5. UNCHANGED <<ledger, reports, alerts>>
      BY <1>5 DEF Gateway!Private, Gateway!tables
    <2>6. HonestRequest(r)'
      BY <1>1, <1>2, <1>5, <2>2, <2>4, <2>5 DEF HonestRequest
    <2>7. VisibleRequest(r)'
      <3>1. h.pc \notin Undecided \cup {"report"} BY <1>2, <2>2
      <3>2. h.faults >= 1 BY <2>2
      <3>3. p = "release" => reports[IdOf[r]].by # r \/ ~(h.faults <= 1)
        BY <1>5, <2>2
      <3> QED BY <2>2, <2>4, <2>5, <3>1, <3>2, <3>3 DEF VisibleRequest
    <2> QED BY <1>5, <2>2, <2>3, <2>6, <2>7, PrivateStep
  <1>6. CASE Gateway!SaveReportFails(r)
    <2>1. /\ st[r].pc = "report" /\ Becomes(r, Failed("release"))
          /\ Gateway!Private
      BY <1>6 DEF Gateway!SaveReportFails, Becomes
    <2>2. reports[IdOf[r]].by # r BY <1>1, <2>1 DEF VisibleRequest
    <2> HIDE DEF Failed
    <2> QED BY <1>5, <2>1, <2>2 DEF Recording
  <1>7. CASE Gateway!AuditOutcomeFails(r)
    <2>1. /\ st[r].pc = "event" /\ Becomes(r, Failed("degrade"))
          /\ Gateway!Private
      BY <1>7 DEF Gateway!AuditOutcomeFails, Becomes
    <2> HIDE DEF Failed
    <2> QED BY <1>5, <2>1 DEF Recording
  <1>8. CASE Gateway!DegradationFails(r)
    <2>1. /\ st[r].pc = "degrade" /\ Becomes(r, Failed("release"))
          /\ Gateway!Private
      BY <1>8 DEF Gateway!DegradationFails, Becomes
    <2>2. st[r].faults >= 1 BY <1>1, <2>1 DEF VisibleRequest
    <2> HIDE DEF Failed
    <2> QED BY <1>5, <2>1, <2>2 DEF Recording
  <1>9. CASE Gateway!AuditAccepted(r)
    <2> DEFINE h == [st[r] EXCEPT !.pc = "contact", !.audit = "recorded"]
    <2>1. /\ st[r].pc = "accept" /\ Becomes(r, h)
          /\ ledger' = ledger \cup {<<"accepted", r>>}
          /\ UNCHANGED <<paused, reports, alerts>>
      BY <1>9 DEF Gateway!AuditAccepted, Becomes
    <2>2. h \in Handler BY <1>1, <1>2 DEF Handler
    <2>3. h.pc = "contact" /\ Same(h) BY <1>1 DEF Handler
    <2> HIDE DEF h
    <2>4. st'[r] = h BY <1>1, <2>1, <2>2, Replaced
    <2>5. \A q \in Exchanges : <<"none", q>> \in ledger' => <<"none", q>> \in ledger
      BY <2>1
    <2>6. st[r].pc \in Undecided BY <2>1 DEF Undecided
    <2>7. HonestRequest(r)'
      BY <1>1, <1>2, <2>3, <2>4, <2>5, <2>6 DEF HonestRequest
    <2>8. VisibleRequest(r)'
      BY <1>1, <2>1, <2>3, <2>4, <2>6 DEF VisibleRequest
    <2>9. reports' \in [Ids -> Report] BY <1>1, <2>1 DEF GatewayTypes
    <2> QED BY <2>1, <2>2, <2>5, <2>7, <2>8, <2>9, RecordStep
  <1>10. CASE Gateway!SaveReport(r)
    <2> DEFINE h == Moved("event")
    <2>1. /\ st[r].pc = "report" /\ Becomes(r, h)
          /\ reports' = Gateway!Saved(r, st[r].audit)
          /\ UNCHANGED <<paused, ledger, alerts>>
      BY <1>10 DEF Gateway!SaveReport, Becomes
    <2>2. h \in Handler /\ h.pc = "event" /\ Same(h)
      BY <1>2, <1>3
    <2> HIDE DEF h
    <2>3. st'[r] = h BY <1>1, <2>1, <2>2, Replaced
    <2>4. st[r].audit \in {"unknown", "recorded", "degraded"}
      BY <1>1 DEF Handler
    <2>5. /\ reports' \in [Ids -> Report]
          /\ \A q \in Exchanges \ {r} :
               \/ reports'[IdOf[q]] = reports[IdOf[q]]
               \/ reports'[IdOf[q]].by # q
      BY <2>1, <2>4, SaveFacts
    <2>6. HonestRequest(r)'
      BY <1>1, <1>2, <2>1, <2>2, <2>3 DEF HonestRequest, Recording
    <2>7. VisibleRequest(r)' BY <1>2, <2>2, <2>3 DEF VisibleRequest
    <2> QED BY <2>1, <2>2, <2>5, <2>6, <2>7, RecordStep
  <1>11. CASE Gateway!AuditOutcome(r)
    <2> DEFINE h == Moved("release")
    <2>1. /\ st[r].pc = "event" /\ Becomes(r, h)
          /\ ledger' = ledger \cup {<<st[r].outcome, r>>}
          /\ UNCHANGED <<paused, reports, alerts>>
      BY <1>11 DEF Gateway!AuditOutcome, Becomes
    <2>2. h \in Handler /\ h.pc = "release" /\ Same(h)
      BY <1>2, <1>3
    <2> HIDE DEF h
    <2>3. st'[r] = h BY <1>1, <2>1, <2>2, Replaced
    <2>4. st[r].outcome # "none" BY <1>1, <2>1 DEF HonestRequest, Recording
    <2>5. \A q \in Exchanges : <<"none", q>> \in ledger' => <<"none", q>> \in ledger
      BY <2>1, <2>4
    <2>6. h.pc \notin Undecided /\ h.pc \notin Recording
      BY <2>2 DEF Undecided, Recording
    <2>7. HonestRequest(r)'
      BY <1>1, <2>2, <2>3, <2>5, <2>6 DEF HonestRequest
    <2>8. <<h.outcome, r>> \in ledger' BY <2>1, <2>2
    <2>9. VisibleRequest(r)' BY <2>2, <2>3, <2>6, <2>8 DEF VisibleRequest
    <2>10. reports' \in [Ids -> Report] BY <1>1, <2>1 DEF GatewayTypes
    <2> QED BY <2>1, <2>2, <2>5, <2>7, <2>9, <2>10, RecordStep
  <1>12. CASE Gateway!RecordAuditDegradation(r)
    <2> DEFINE h == Moved("release")
    <2>1. /\ st[r].pc = "degrade" /\ Becomes(r, h)
          /\ reports' = Gateway!Saved(r, "degraded")
          /\ alerts' = alerts \cup {IdOf[r]}
          /\ UNCHANGED <<paused, ledger>>
      BY <1>12 DEF Gateway!RecordAuditDegradation, Becomes
    <2>2. h \in Handler /\ h.pc = "release" /\ Same(h)
      BY <1>2, <1>3
    <2> HIDE DEF h
    <2>3. st'[r] = h BY <1>1, <2>1, <2>2, Replaced
    <2>4. /\ reports' \in [Ids -> Report]
          /\ reports'[IdOf[r]].audit = "degraded"
          /\ \A q \in Exchanges \ {r} :
               \/ reports'[IdOf[q]] = reports[IdOf[q]]
               \/ reports'[IdOf[q]].by # q
      BY <2>1, SaveFacts
    <2>5. h.pc \notin Undecided /\ h.pc \notin Recording
      BY <2>2 DEF Undecided, Recording
    <2>6. HonestRequest(r)'
      BY <1>1, <2>1, <2>2, <2>3, <2>5 DEF HonestRequest
    <2>7. VisibleRequest(r)'
      BY <2>1, <2>2, <2>3, <2>4, <2>5 DEF VisibleRequest
    <2> QED BY <2>1, <2>2, <2>4, <2>6, <2>7, RecordStep
  <1> QED BY <1>6, <1>7, <1>8, <1>9, <1>10, <1>11, <1>12

LEMMA AnswersError ==
  ASSUME GatewayInv, NEW r \in Exchanges, Gateway!AnswerError(r)
  PROVE  GatewayInv'
  <1> DEFINE d == Gateway!EndedAs(r, IF Gateway!At(r, "plain") THEN "plain"
                                                             ELSE "relay")
             h == [st[r] EXCEPT !.pc = "release", !.down = d]
  <1>1. /\ st[r] \in Handler /\ GatewayTypes
        /\ HonestRequest(r) /\ VisibleRequest(r)
    BY DEF GatewayInv, GatewayTypes
  <1>2. /\ st[r].pc \in {"error", "plain"} /\ Gateway!Private
        /\ Becomes(r, h)
    BY DEF Gateway!AnswerError, Becomes
  <1>3. d \in {"destroyed", "plain", "relay"} BY DEF Gateway!EndedAs
  <1> HIDE DEF d
  <1>4. "release" \in Labels BY DEF Labels
  <1>5. h \in Handler BY <1>1, <1>3, <1>4 DEF Handler
  <1>6. h.pc = "release" /\ h.outcome = st[r].outcome BY <1>1 DEF Handler
  <1> HIDE DEF h
  <1>7. st'[r] = h BY <1>1, <1>2, <1>5, Replaced
  <1>8. UNCHANGED <<ledger, reports>>
    BY <1>2 DEF Gateway!Private, Gateway!tables
  <1>9. st[r].outcome = "none" /\ reports[IdOf[r]].by # r
    BY <1>1, <1>2 DEF HonestRequest, VisibleRequest, Undecided
  <1>10. HonestRequest(r)'
    BY <1>1, <1>6, <1>7, <1>8, <1>9 DEF HonestRequest, Undecided, Recording
  <1>11. VisibleRequest(r)'
    BY <1>6, <1>7, <1>8, <1>9 DEF VisibleRequest, Undecided
  <1> QED BY <1>2, <1>5, <1>10, <1>11, PrivateStep

LEMMA Releases ==
  ASSUME GatewayInv, NEW r \in Exchanges, Gateway!Release(r)
  PROVE  GatewayInv'
  <1> DEFINE h == [st[r] EXCEPT !.pc = "done", !.timer = FALSE,
                                !.lease = FALSE, !.spool = FALSE]
  <1>1. /\ st[r] \in Handler /\ GatewayTypes
        /\ HonestRequest(r) /\ VisibleRequest(r)
    BY DEF GatewayInv, GatewayTypes
  <1>2. st[r].pc = "release" /\ Gateway!Private /\ Becomes(r, h)
    BY DEF Gateway!Release, Gateway!At, Becomes
  <1>3. "done" \in Labels BY DEF Labels
  <1>4. h \in Handler BY <1>1, <1>3 DEF Handler
  <1>5. /\ h.pc = "done" /\ h.outcome = st[r].outcome /\ h.up = st[r].up
        /\ h.down = st[r].down /\ h.abort = st[r].abort
        /\ h.faults = st[r].faults
    BY <1>1 DEF Handler
  <1> HIDE DEF h
  <1>6. st'[r] = h BY <1>1, <1>2, <1>4, Replaced
  <1>7. UNCHANGED <<ledger, reports, alerts>>
    BY <1>2 DEF Gateway!Private, Gateway!tables
  <1>8. HonestRequest(r)'
    BY <1>1, <1>2, <1>5, <1>6, <1>7 DEF HonestRequest, Undecided, Recording
  <1>9. VisibleRequest(r)'
    BY <1>1, <1>2, <1>5, <1>6, <1>7 DEF VisibleRequest, Undecided
  <1> QED BY <1>2, <1>4, <1>8, <1>9, PrivateStep

\* The first reason to abort stays, so that one that was recorded is still
\* the reason; a client can only leave before its response has ended.
LEMMA Aborts ==
  ASSUME GatewayInv, NEW r \in Exchanges,
         Gateway!Timeout(r) \/ Gateway!ClientCloses(r)
  PROVE  GatewayInv'
  <1> DEFINE a(reason) == Gateway!Abort(r, reason)
  <1>1. /\ st[r] \in Handler /\ GatewayTypes
        /\ HonestRequest(r) /\ VisibleRequest(r)
    BY DEF GatewayInv, GatewayTypes
  <1>2. ASSUME NEW reason \in {"timeout", "cancelled"}
        PROVE  /\ a(reason) \in {"timeout", "cancelled"}
               /\ st[r].abort # "none" => a(reason) = st[r].abort
    BY <1>1 DEF Gateway!Abort, Handler
  <1>3. CASE Gateway!Timeout(r)
    <2> DEFINE v == a("timeout")
               h == [st[r] EXCEPT !.abort = v, !.timer = FALSE]
    <2>1. Gateway!Private /\ Becomes(r, h)
      BY <1>3 DEF Gateway!Timeout, Becomes
    <2>2. /\ v \in {"timeout", "cancelled"}
          /\ st[r].abort # "none" => v = st[r].abort
      BY <1>2
    <2> HIDE DEF v
    <2>3. h \in Handler BY <1>1, <2>2 DEF Handler
    <2>4. /\ h.pc = st[r].pc /\ h.outcome = st[r].outcome /\ h.up = st[r].up
          /\ h.down = st[r].down /\ h.abort = v /\ h.faults = st[r].faults
      BY <1>1 DEF Handler
    <2> HIDE DEF h
    <2>5. st'[r] = h BY <1>1, <2>1, <2>3, Replaced
    <2>6. UNCHANGED <<ledger, reports, alerts>>
      BY <2>1 DEF Gateway!Private, Gateway!tables
    <2>7. HonestRequest(r)'
      BY <1>1, <2>2, <2>4, <2>5, <2>6 DEF HonestRequest
    <2>8. VisibleRequest(r)'
      BY <1>1, <2>4, <2>5, <2>6 DEF VisibleRequest
    <2> QED BY <2>1, <2>3, <2>7, <2>8, PrivateStep
  <1>4. CASE Gateway!ClientCloses(r)
    <2> DEFINE v == a("cancelled")
               h == [st[r] EXCEPT !.abort = v, !.down = "destroyed"]
    <2>1. /\ Gateway!Private /\ Becomes(r, h)
          /\ st[r].down \in {"open", "started"}
      BY <1>4 DEF Gateway!ClientCloses, Becomes
    <2>2. v \in {"timeout", "cancelled"} BY <1>2
    <2> HIDE DEF v
    <2>3. h \in Handler BY <1>1, <2>2 DEF Handler
    <2>4. /\ h.pc = st[r].pc /\ h.outcome = st[r].outcome /\ h.up = st[r].up
          /\ h.down = "destroyed" /\ h.abort = v /\ h.faults = st[r].faults
      BY <1>1 DEF Handler
    <2> HIDE DEF h
    <2>5. st'[r] = h BY <1>1, <2>1, <2>3, Replaced
    <2>6. UNCHANGED <<ledger, reports, alerts>>
      BY <2>1 DEF Gateway!Private, Gateway!tables
    <2>7. HonestRequest(r)'
      BY <1>1, <2>1, <2>2, <2>4, <2>5, <2>6 DEF HonestRequest
    <2>8. VisibleRequest(r)'
      BY <1>1, <2>4, <2>5, <2>6 DEF VisibleRequest
    <2> QED BY <2>1, <2>3, <2>7, <2>8, PrivateStep
  <1> QED BY <1>3, <1>4

\* The process dies: what was recorded stays as it was.
LEMMA Crashes == ASSUME GatewayInv, Gateway!Crash PROVE GatewayInv'
  <1>1. UNCHANGED <<ledger, reports, alerts, paused>>
    BY DEF Gateway!Crash, Gateway!tables
  <1>2. /\ st' = [r \in Exchanges |->
                    IF st[r].pc \in {"new", "done"} THEN st[r]
                    ELSE [st[r] EXCEPT !.pc = "lost", !.timer = FALSE,
                                       !.lease = FALSE, !.down = "destroyed"]]
    BY DEF Gateway!Crash
  <1>3. ASSUME NEW r \in Exchanges
        PROVE  st'[r] \in Handler /\ HonestRequest(r)' /\ VisibleRequest(r)'
    <2> DEFINE h == [st[r] EXCEPT !.pc = "lost", !.timer = FALSE,
                                  !.lease = FALSE, !.down = "destroyed"]
    <2>1. /\ st[r] \in Handler
          /\ HonestRequest(r) /\ VisibleRequest(r)
      BY DEF GatewayInv, GatewayTypes
    <2>2. CASE st[r].pc \in {"new", "done"}
      <3>1. st'[r] = st[r] BY <1>2, <2>2
      <3> QED BY <1>1, <2>1, <3>1 DEF HonestRequest, VisibleRequest
    <2>3. CASE st[r].pc \notin {"new", "done"}
      <3>1. st'[r] = h BY <1>2, <2>3
      <3>2. "lost" \in Labels BY DEF Labels
      <3>3. h \in Handler BY <2>1, <3>2 DEF Handler
      <3>4. /\ h.pc = "lost" /\ h.outcome = st[r].outcome /\ h.up = st[r].up
            /\ h.down = "destroyed" /\ h.abort = st[r].abort
        BY <2>1 DEF Handler
      <3> HIDE DEF h
      <3>5. HonestRequest(r)'
        BY <1>1, <2>1, <3>1, <3>4 DEF HonestRequest, Undecided, Recording
      <3>6. VisibleRequest(r)'
        BY <3>1, <3>4 DEF VisibleRequest, Undecided
      <3> QED BY <3>1, <3>3, <3>5, <3>6
    <2> QED BY <2>2, <2>3
  <1>4. st' \in [Exchanges -> Handler] BY <1>2, <1>3
  <1>5. GatewayTypes' BY <1>1, <1>4 DEF GatewayInv, GatewayTypes
  <1> QED BY <1>3, <1>5 DEF GatewayInv

LEMMA GatewayStep == GatewayInv /\ [Gateway!Next]_gatewayVars => GatewayInv'
  <1> SUFFICES ASSUME GatewayInv, [Gateway!Next]_gatewayVars PROVE GatewayInv'
    OBVIOUS
  <1>1. ASSUME NEW r \in Exchanges, Gateway!Handle(r) PROVE GatewayInv'
    BY <1>1, MovesUndecided, Decides, Records, AnswersError, Releases
    DEF Gateway!Handle
  <1>2. ASSUME NEW r \in Exchanges, Gateway!Outside(r) PROVE GatewayInv'
    BY <1>2, MovesUndecided, Aborts DEF Gateway!Outside
  <1>3. ASSUME NEW r \in Exchanges, Gateway!Timeout(r) PROVE GatewayInv'
    BY <1>3, Aborts
  <1>4. ASSUME UNCHANGED <<st, ledger, alerts>>, paused' \in BOOLEAN,
               reports' \in [Ids -> Report],
               \A i \in Ids : /\ reports'[i].by = reports[i].by
                              /\ reports'[i].audit = reports[i].audit
        PROVE  GatewayInv'
    <2>1. GatewayTypes' BY <1>4 DEF GatewayInv, GatewayTypes
    <2>2. ASSUME NEW q \in Exchanges
          PROVE  HonestRequest(q)' /\ VisibleRequest(q)'
      <3>1. IdOf[q] \in Ids BY ServingAssumption
      <3>2. HonestRequest(q) /\ VisibleRequest(q) BY DEF GatewayInv
      <3> QED BY <1>4, <3>1, <3>2 DEF HonestRequest, VisibleRequest
    <2> QED BY <2>1, <2>2 DEF GatewayInv
  <1>5. ASSUME NEW i \in Ids, Gateway!ReportExpires(i) PROVE GatewayInv'
    <2>1. /\ reports \in [Ids -> Report] /\ paused \in BOOLEAN
      BY DEF GatewayInv, GatewayTypes
    <2> DEFINE row == [reports[i] EXCEPT !.live = FALSE]
    <2>2. row \in Report /\ row.by = reports[i].by /\ row.audit = reports[i].audit
      BY <2>1 DEF Report
    <2>3. reports' = [reports EXCEPT ![i] = row]
          /\ UNCHANGED <<st, ledger, alerts, paused>>
      BY <1>5 DEF Gateway!ReportExpires
    <2> HIDE DEF row
    <2> QED BY <1>4, <2>1, <2>2, <2>3
  <1>6. CASE Gateway!SetPaused \/ (\E t \in Bearers : Gateway!RevokeToken(t))
             \/ UNCHANGED gatewayVars
    <2>1. UNCHANGED <<st, ledger, alerts, reports>> /\ paused' \in BOOLEAN
      BY <1>6
      DEF Gateway!SetPaused, Gateway!RevokeToken, Gateway!tables, gatewayVars,
          GatewayInv, GatewayTypes
    <2> QED BY <1>4, <2>1 DEF GatewayInv, GatewayTypes
  <1> QED BY <1>1, <1>2, <1>3, <1>5, <1>6, Crashes DEF Gateway!Next

LEMMA GatewayAlways == ServingSpec => [](subject = "gateway" => GatewayInv)
  <1>1. ServingInit => (subject = "gateway" => GatewayInv)
    BY GatewayBegins DEF ServingInit, UpstreamsInit
  <1>2. /\ (subject = "gateway" => GatewayInv)
        /\ [ServingNext]_servingVars
        => (subject = "gateway" => GatewayInv)'
    BY GatewayTakesStep, GatewayStep, SubjectStays
  <1> QED BY <1>1, <1>2, PTL DEF ServingSpec

(* However many writes fail in other requests, one failed write never      *)
(* hides how a request ended: the ledger has it, or the report says        *)
(* degraded and an alert is open.                                          *)
THEOREM OneFaultIsVisibleHolds == ServingSpec => []OneFaultIsVisible
  <1>1. (subject = "gateway" => GatewayInv) => OneFaultIsVisible
    BY DEF GatewayInv, VisibleRequest, OneFaultIsVisible,
           Gateway!OneFaultIsVisible, Gateway!Ended, Gateway!At
  <1> QED BY <1>1, GatewayAlways, PTL

-----------------------------------------------------------------------------
(* The tunnels.  No more passes in a direction than came in it; when the   *)
(* bridge is settled the totals are those of what came, and a frame whose  *)
(* charge is answered later is dropped.  Before the client has been told   *)
(* that its tunnel is established nothing comes at all.                    *)

\* Where the handler of a tunnel may be before its bridge
Early == {"hello", "admit", "approve", "accept", "connect", "announce", "catch"}
Stages == Early \cup {"bridge", "closing", "finally", "done", "lost"}

Reasons ==
  {"none", "completed", "client-closed", "client-error", "target-closed",
   "target-error", "non-binary-frame", "quota-exceeded"}

Flow == [came : Nat, due : Nat, passed : Nat, told : Nat]

TunnelState ==
  [kind : {"websocket", "socket"}, pc : Stages,
   client : {"open", "closing", "closed"},
   target : {"none", "open", "closing", "closed"},
   context : BOOLEAN, lease : BOOLEAN, timer : BOOLEAN, abort : BOOLEAN,
   heard : BOOLEAN, hello : {"none", "rejected", "error", "established"},
   flow : [Tunnel!Sides -> Flow], reason : Reasons,
   recorded : Reasons \cup {"degraded"}]

Counted(z) ==
  \A d \in Tunnel!Sides :
    LET flow == z.flow[d]
    IN  /\ flow.passed + flow.due <= flow.came
        /\ z.reason # "none" => flow.passed <= flow.told
        /\ z.hello # "established" => flow.came = 0

GoodTunnel(z) ==
  /\ z \in TunnelState
  /\ Counted(z)
  /\ z.pc \in Early => z.hello # "established"
  /\ z.pc = "bridge" => z.hello = "established"

TunnelInv ==
  /\ tunnel \in [Tunnels -> TunnelState]
  /\ \A t \in Tunnels : GoodTunnel(tunnel[t])
  /\ left \in Nat

LEMMA TunnelBegins == Tunnel!Init => TunnelInv
  <1> SUFFICES ASSUME Tunnel!Init PROVE TunnelInv
    OBVIOUS
  <1>1. ASSUME NEW k \in {"websocket", "socket"}
        PROVE  GoodTunnel(Tunnel!NewTunnel(k))
    <2> DEFINE z == Tunnel!NewTunnel(k)
    <2>1. /\ Tunnel!Nothing \in Flow
          /\ Tunnel!Nothing.passed + Tunnel!Nothing.due <= Tunnel!Nothing.came
          /\ Tunnel!Nothing.came = 0
      BY DEF Flow, Tunnel!Nothing
    <2>2. /\ z.flow = [d \in Tunnel!Sides |-> Tunnel!Nothing]
          /\ z.reason = "none" /\ z.hello = "none" /\ z.pc = "hello"
      BY DEF Tunnel!NewTunnel
    <2>3. z.flow \in [Tunnel!Sides -> Flow] BY <2>1, <2>2
    <2>4. z \in TunnelState
      BY <2>1 DEF TunnelState, Tunnel!NewTunnel, Stages, Early, Reasons
    <2> HIDE DEF z
    <2>5. GoodTunnel(z) BY <2>1, <2>2, <2>4 DEF GoodTunnel, Counted
    <2> QED BY <2>5 DEF z
  <1>2. /\ tunnel \in [Tunnels -> {Tunnel!NewTunnel("websocket"),
                                   Tunnel!NewTunnel("socket")}]
        /\ left = Allowance
    BY DEF Tunnel!Init
  <1>3. \A t \in Tunnels : GoodTunnel(tunnel[t])
    BY <1>1, <1>2
  <1> QED BY <1>2, <1>3, ServingAssumption DEF TunnelInv, GoodTunnel

\* A step that leaves the flow as it is
LEMMA FlowStays ==
  ASSUME NEW z, NEW w, GoodTunnel(z), w \in TunnelState,
         w.flow = z.flow, w.reason = z.reason,
         w.hello # "established" => z.hello # "established",
         w.pc \in Early => w.hello # "established",
         w.pc = "bridge" => w.hello = "established"
  PROVE  GoodTunnel(w)
  BY DEF GoodTunnel, Counted

\* One frame comes, is passed on, or is dropped.
LEMMA FlowMoves ==
  ASSUME NEW z, GoodTunnel(z), NEW d \in Tunnel!Sides, NEW f \in Flow,
         z.hello = "established", f.told = z.flow[d].told,
         f.passed + f.due <= f.came,
         z.reason # "none" => f.passed = z.flow[d].passed
  PROVE  GoodTunnel([z EXCEPT !.flow = [@ EXCEPT ![d] = f]])
  <1> DEFINE w == [z EXCEPT !.flow = [@ EXCEPT ![d] = f]]
  <1>1. z \in TunnelState BY DEF GoodTunnel
  <1>2. /\ w \in TunnelState
        /\ w.pc = z.pc /\ w.hello = z.hello /\ w.reason = z.reason
        /\ w.flow = [z.flow EXCEPT ![d] = f]
    BY <1>1 DEF TunnelState
  <1>3. z.flow \in [Tunnel!Sides -> Flow] BY <1>1 DEF TunnelState
  <1>4. ASSUME NEW e \in Tunnel!Sides
        PROVE  /\ w.flow[e].passed + w.flow[e].due <= w.flow[e].came
               /\ w.reason # "none" => w.flow[e].passed <= w.flow[e].told
    <2>1. CASE e = d
      <3>1. w.flow[e] = f BY <1>2, <1>3, <2>1
      <3>2. z.reason # "none" => z.flow[d].passed <= z.flow[d].told
        BY DEF GoodTunnel, Counted
      <3> QED BY <1>2, <3>1, <3>2
    <2>2. CASE e # d
      <3>1. w.flow[e] = z.flow[e] BY <1>2, <1>3, <2>2
      <3> QED BY <1>2, <3>1 DEF GoodTunnel, Counted
    <2> QED BY <2>1, <2>2
  <1> QED BY <1>2, <1>4 DEF GoodTunnel, Counted

LEMMA FinishKeeps ==
  ASSUME NEW z, GoodTunnel(z), z.hello = "established", NEW why \in Reasons \ {"none"}
  PROVE  /\ GoodTunnel(Tunnel!Finish(z, why))
         /\ Tunnel!Finish(z, why).hello = "established"
  <1> DEFINE w == Tunnel!Finish(z, why)
             flows == Tunnel!Totals(z.flow)
  <1>1. z \in TunnelState /\ z.flow \in [Tunnel!Sides -> Flow]
    BY DEF GoodTunnel, TunnelState
  <1>2. CASE z.reason # "none"
    BY <1>2 DEF Tunnel!Finish
  <1>3. CASE z.reason = "none"
    <2>1. ASSUME NEW d \in Tunnel!Sides
          PROVE  /\ flows[d] \in Flow
                 /\ flows[d].told = z.flow[d].came
                 /\ flows[d].came = z.flow[d].came
                 /\ flows[d].due = z.flow[d].due
                 /\ flows[d].passed = z.flow[d].passed
      BY <1>1 DEF Tunnel!Totals, Flow
    <2>2. flows \in [Tunnel!Sides -> Flow]
      BY <2>1 DEF Tunnel!Totals
    <2> HIDE DEF flows
    <2>3. w = [z EXCEPT !.reason = why, !.pc = "closing", !.flow = flows]
      BY <1>3 DEF Tunnel!Finish, flows
    <2>4. /\ w \in TunnelState /\ w.flow = flows /\ w.pc = "closing"
          /\ w.hello = "established"
      BY <1>1, <2>2, <2>3 DEF TunnelState, Stages
    <2>5. ASSUME NEW d \in Tunnel!Sides
          PROVE  /\ flows[d].passed + flows[d].due <= flows[d].came
                 /\ flows[d].passed <= flows[d].told
      <3>1. z.flow[d].passed + z.flow[d].due <= z.flow[d].came
        BY DEF GoodTunnel, Counted
      <3>2. z.flow[d] \in Flow BY <1>1
      <3> QED BY <2>1, <3>1, <3>2 DEF Flow
    <2>6. w.pc \notin Early BY <2>4 DEF Early
    <2> HIDE DEF w
    <2>7. GoodTunnel(w) BY <2>4, <2>5, <2>6 DEF GoodTunnel, Counted
    <2> QED BY <2>4, <2>7 DEF w
  <1> QED BY <1>2, <1>3

\* Only the sockets, and nothing of the flow
LEMMA SocketsClose ==
  ASSUME NEW z, GoodTunnel(z),
         NEW c \in {"open", "closing", "closed"},
         NEW g \in {"none", "open", "closing", "closed"}
  PROVE  GoodTunnel([z EXCEPT !.client = c, !.target = g])
  <1> DEFINE w == [z EXCEPT !.client = c, !.target = g]
  <1>1. z \in TunnelState BY DEF GoodTunnel
  <1>2. /\ w \in TunnelState /\ w.flow = z.flow /\ w.reason = z.reason
        /\ w.hello = z.hello /\ w.pc = z.pc
    BY <1>1 DEF TunnelState
  <1>3. /\ w.pc \in Early => w.hello # "established"
        /\ w.pc = "bridge" => w.hello = "established"
    BY <1>2 DEF GoodTunnel
  <1> HIDE DEF w
  <1>4. GoodTunnel(w) BY <1>2, <1>3, FlowStays
  <1> QED BY <1>4 DEF w

LEMMA TargetCloses ==
  ASSUME NEW z, GoodTunnel(z), NEW g \in {"none", "open", "closing", "closed"}
  PROVE  GoodTunnel([z EXCEPT !.target = g])
  <1>1. z \in TunnelState /\ z.client \in {"open", "closing", "closed"}
    BY DEF GoodTunnel, TunnelState
  <1>2. GoodTunnel([z EXCEPT !.client = z.client, !.target = g])
    BY <1>1, SocketsClose
  <1>3. [z EXCEPT !.client = z.client, !.target = g] = [z EXCEPT !.target = g]
    BY <1>1 DEF TunnelState
  <1> QED BY <1>2, <1>3

LEMMA Dropped ==
  ASSUME NEW z, GoodTunnel(z), NEW d \in Tunnel!Sides, z.flow[d].due > 0
  PROVE  /\ z.hello = "established"
         /\ GoodTunnel(Tunnel!Drop(z, d))
         /\ Tunnel!Drop(z, d).hello = "established"
         /\ z.reason = "none" =>
              /\ GoodTunnel(Tunnel!Pass(z, d))
              /\ Tunnel!Pass(z, d).hello = "established"
  <1>1. z \in TunnelState /\ z.flow[d] \in Flow
    BY DEF GoodTunnel, TunnelState
  <1>2. /\ z.flow[d].passed + z.flow[d].due <= z.flow[d].came
        /\ z.hello # "established" => z.flow[d].came = 0
    BY DEF GoodTunnel, Counted
  <1>3. z.hello = "established" BY <1>1, <1>2 DEF Flow
  <1>4. PICK drop : drop = [z.flow[d] EXCEPT !.due = @ - 1]
    OBVIOUS
  <1>5. PICK pass : pass = [z.flow[d] EXCEPT !.due = @ - 1, !.passed = @ + 1]
    OBVIOUS
  <1>6. /\ drop \in Flow /\ drop.told = z.flow[d].told
        /\ drop.passed = z.flow[d].passed
        /\ drop.passed + drop.due <= drop.came
    <2>1. PICK due \in Nat : due = z.flow[d].due - 1 BY <1>1 DEF Flow
    <2>2. drop = [z.flow[d] EXCEPT !.due = due] BY <1>4, <2>1
    <2>3. /\ drop \in Flow /\ drop.told = z.flow[d].told
          /\ drop.passed = z.flow[d].passed /\ drop.due = due
          /\ drop.came = z.flow[d].came
      BY <1>1, <2>2 DEF Flow
    <2> QED BY <1>1, <1>2, <2>1, <2>3 DEF Flow
  <1>7. /\ pass \in Flow /\ pass.told = z.flow[d].told
        /\ pass.passed + pass.due <= pass.came
    <2>1. PICK due \in Nat, passed \in Nat :
            due = z.flow[d].due - 1 /\ passed = z.flow[d].passed + 1
      BY <1>1, SMTT(60) DEF Flow
    <2>2. pass = [z.flow[d] EXCEPT !.due = due, !.passed = passed]
      BY <1>5, <2>1
    <2>3. /\ pass \in Flow /\ pass.told = z.flow[d].told
          /\ pass.passed = passed /\ pass.due = due
          /\ pass.came = z.flow[d].came
      BY <1>1, <2>2 DEF Flow
    <2> QED BY <1>1, <1>2, <2>1, <2>3 DEF Flow
  <1>8. Tunnel!Drop(z, d) = [z EXCEPT !.flow = [@ EXCEPT ![d] = drop]]
    BY <1>4 DEF Tunnel!Drop, Tunnel!Flows
  <1>9. Tunnel!Pass(z, d) = [z EXCEPT !.flow = [@ EXCEPT ![d] = pass]]
    BY <1>5 DEF Tunnel!Pass, Tunnel!Flows
  <1>10. GoodTunnel(Tunnel!Drop(z, d))
    BY <1>3, <1>6, <1>8, FlowMoves
  <1>11. z.reason = "none" => GoodTunnel(Tunnel!Pass(z, d))
    BY <1>3, <1>7, <1>9, FlowMoves
  <1>12. Tunnel!Drop(z, d).hello = z.hello /\ Tunnel!Pass(z, d).hello = z.hello
    BY <1>1, <1>8, <1>9 DEF TunnelState
  <1> QED BY <1>3, <1>10, <1>11, <1>12

LEMMA BecomesGood ==
  ASSUME TunnelInv, NEW t \in Tunnels, NEW w, GoodTunnel(w),
         Tunnel!Becomes(t, w), left' \in Nat
  PROVE  TunnelInv'
  <1>1. tunnel' = [tunnel EXCEPT ![t] = w] BY DEF Tunnel!Becomes
  <1>2. w \in TunnelState BY DEF GoodTunnel
  <1>3. tunnel' \in [Tunnels -> TunnelState] BY <1>1, <1>2 DEF TunnelInv
  <1>4. ASSUME NEW u \in Tunnels PROVE GoodTunnel(tunnel'[u])
    BY <1>1 DEF TunnelInv
  <1> QED BY <1>3, <1>4 DEF TunnelInv

\* The steps of the handler and of the set-up, which move no frame
Quiet(z, w) ==
  /\ w \in TunnelState /\ w.flow = z.flow /\ w.reason = z.reason
  /\ w.hello # "established" => z.hello # "established"
  /\ w.pc \in Early => w.hello # "established"
  /\ w.pc = "bridge" => w.hello = "established"

LEMMA HandlerMoves ==
  ASSUME TunnelInv, NEW t \in Tunnels, UNCHANGED left,
         NEW w, Tunnel!Becomes(t, w), Quiet(tunnel[t], w)
  PROVE  TunnelInv'
  <1>1. GoodTunnel(tunnel[t]) BY DEF TunnelInv
  <1>2. GoodTunnel(w) BY <1>1, FlowStays DEF Quiet
  <1>3. left' \in Nat BY DEF TunnelInv
  <1> QED BY <1>2, <1>3, BecomesGood

LEMMA SetsUp ==
  ASSUME TunnelInv, NEW t \in Tunnels,
         \/ Tunnel!FirstHello(t) \/ Tunnel!Admit(t)
         \/ Tunnel!ApproveTunnelTarget(t) \/ Tunnel!AuditTunnelAccepted(t)
         \/ Tunnel!TargetAnswers(t) \/ Tunnel!SetupTimesOut(t)
  PROVE  TunnelInv'
  <1>1. /\ tunnel[t] \in TunnelState
        /\ tunnel[t].pc \in Early => tunnel[t].hello # "established"
        /\ tunnel[t].pc = "bridge" => tunnel[t].hello = "established"
    BY DEF TunnelInv, GoodTunnel
  <1>2. UNCHANGED left
    BY DEF Tunnel!FirstHello, Tunnel!Admit, Tunnel!ApproveTunnelTarget,
           Tunnel!AuditTunnelAccepted, Tunnel!TargetAnswers,
           Tunnel!SetupTimesOut
  <1>3. CASE Tunnel!FirstHello(t)
    <2>1. PICK w : Tunnel!Becomes(t, w)
                   /\ w \in {[tunnel[t] EXCEPT !.pc = "admit"],
                             [tunnel[t] EXCEPT !.pc = "catch"]}
      BY <1>3 DEF Tunnel!FirstHello, Tunnel!Refused
    <2>2. tunnel[t].pc = "hello" BY <1>3 DEF Tunnel!FirstHello, Tunnel!At
    <2>3. Quiet(tunnel[t], w)
      BY <1>1, <2>1, <2>2 DEF Quiet, TunnelState, Stages, Early
    <2> QED BY <1>2, <2>1, <2>3, HandlerMoves
  <1>4. CASE Tunnel!Admit(t)
    <2>1. tunnel[t].pc = "admit" BY <1>4 DEF Tunnel!Admit, Tunnel!At
    <2>2. ASSUME NEW signed \in BOOLEAN,
                 Tunnel!Becomes(t, [Tunnel!Refused(tunnel[t]) EXCEPT
                                      !.context = signed])
          PROVE  TunnelInv'
      <3> DEFINE w == [tunnel[t] EXCEPT !.pc = "catch", !.context = signed]
      <3>1. Tunnel!Becomes(t, w) BY <2>2 DEF Tunnel!Refused
      <3>2. Quiet(tunnel[t], w)
        BY <1>1, <2>1 DEF Quiet, TunnelState, Stages, Early
      <3> QED BY <1>2, <3>1, <3>2, HandlerMoves
    <2>3. ASSUME Tunnel!Becomes(t, [tunnel[t] EXCEPT !.pc = "approve",
                   !.context = TRUE, !.lease = TRUE, !.timer = TRUE])
          PROVE  TunnelInv'
      <3> DEFINE w == [tunnel[t] EXCEPT !.pc = "approve", !.context = TRUE,
                                        !.lease = TRUE, !.timer = TRUE]
      <3>1. Quiet(tunnel[t], w)
        BY <1>1, <2>1 DEF Quiet, TunnelState, Stages, Early
      <3> QED BY <1>2, <2>3, <3>1, HandlerMoves
    <2> QED BY <1>4, <2>2, <2>3 DEF Tunnel!Admit
  <1>5. CASE Tunnel!ApproveTunnelTarget(t)
    <2>1. PICK w : Tunnel!Becomes(t, w)
                   /\ w \in {[tunnel[t] EXCEPT !.pc = "accept"],
                             [tunnel[t] EXCEPT !.pc = "catch"]}
      BY <1>5 DEF Tunnel!ApproveTunnelTarget, Tunnel!Refused
    <2>2. tunnel[t].pc = "approve"
      BY <1>5 DEF Tunnel!ApproveTunnelTarget, Tunnel!At
    <2>3. Quiet(tunnel[t], w)
      BY <1>1, <2>1, <2>2 DEF Quiet, TunnelState, Stages, Early
    <2> QED BY <1>2, <2>1, <2>3, HandlerMoves
  <1>6. CASE Tunnel!AuditTunnelAccepted(t)
    <2> DEFINE w == [tunnel[t] EXCEPT !.pc = "connect",
                                      !.heard = Tunnel!Heard(t)]
    <2>1. tunnel[t].pc = "accept" /\ Tunnel!Becomes(t, w)
      BY <1>6 DEF Tunnel!AuditTunnelAccepted, Tunnel!At
    <2>2. Tunnel!Heard(t) \in BOOLEAN BY DEF Tunnel!Heard
    <2>3. Quiet(tunnel[t], w)
      BY <1>1, <2>1, <2>2 DEF Quiet, TunnelState, Stages, Early
    <2> QED BY <1>2, <2>1, <2>3, HandlerMoves
  <1>7. CASE Tunnel!TargetAnswers(t)
    <2>1. tunnel[t].pc = "connect" BY <1>7 DEF Tunnel!TargetAnswers, Tunnel!At
    <2>2. PICK w :
            /\ Tunnel!Becomes(t, w)
            /\ \/ w \in {[tunnel[t] EXCEPT !.pc = "announce", !.target = "open"],
                         [tunnel[t] EXCEPT !.pc = "catch"]}
               \/ \E m \in {"rejected", tunnel[t].hello} :
                    w = [tunnel[t] EXCEPT !.pc = "finally", !.hello = m,
                           !.client = Tunnel!Closing(tunnel[t].client)]
      BY <1>7 DEF Tunnel!TargetAnswers, Tunnel!Refused
    <2>3. Tunnel!Closing(tunnel[t].client) \in {"open", "closing", "closed"}
      BY <1>1 DEF Tunnel!Closing, TunnelState
    <2>4. CASE w \in {[tunnel[t] EXCEPT !.pc = "announce", !.target = "open"],
                      [tunnel[t] EXCEPT !.pc = "catch"]}
      <3>1. Quiet(tunnel[t], w)
        BY ZenonT(60), <1>1, <2>1, <2>4 DEF Quiet, TunnelState, Stages, Early
      <3> QED BY <1>2, <2>2, <3>1, HandlerMoves
    <2>5. ASSUME NEW m \in {"rejected", tunnel[t].hello},
                 w = [tunnel[t] EXCEPT !.pc = "finally", !.hello = m,
                        !.client = Tunnel!Closing(tunnel[t].client)]
          PROVE  TunnelInv'
      <3>1. m \in {"none", "rejected", "error", "established"}
            /\ (m # "established" => tunnel[t].hello # "established")
        BY <1>1, <2>1 DEF TunnelState, Early
      <3>2. Quiet(tunnel[t], w)
        BY ZenonT(60), <1>1, <2>3, <2>5, <3>1 DEF Quiet, TunnelState, Stages, Early
      <3> QED BY <1>2, <2>2, <3>2, HandlerMoves
    <2> QED BY <2>2, <2>4, <2>5
  <1>8. CASE Tunnel!SetupTimesOut(t)
    <2> DEFINE w == [Tunnel!Abort(tunnel[t]) EXCEPT !.timer = FALSE]
    <2>1. Tunnel!Becomes(t, w) BY <1>8 DEF Tunnel!SetupTimesOut
    <2>2. PICK p \in {tunnel[t].pc, "catch"} :
            /\ w = [tunnel[t] EXCEPT !.abort = TRUE, !.pc = p, !.timer = FALSE]
            /\ p \in Early => tunnel[t].pc \in Early
      BY DEF Tunnel!Abort, Early
    <2>3. Quiet(tunnel[t], w)
      BY ZenonT(60), <1>1, <2>2 DEF Quiet, TunnelState, Stages, Early
    <2> QED BY <1>2, <2>1, <2>3, HandlerMoves
  <1> QED BY <1>3, <1>4, <1>5, <1>6, <1>7, <1>8

LEMMA GoesOn ==
  ASSUME TunnelInv, NEW t \in Tunnels,
         \/ Tunnel!Announce(t) \/ Tunnel!AuditTunnelClosed(t)
         \/ Tunnel!Catch(t) \/ Tunnel!Release(t)
  PROVE  TunnelInv'
  <1>1. /\ tunnel[t] \in TunnelState
        /\ tunnel[t].pc \in Early => tunnel[t].hello # "established"
        /\ tunnel[t].pc = "bridge" => tunnel[t].hello = "established"
    BY DEF TunnelInv, GoodTunnel
  <1>2. UNCHANGED left
    BY DEF Tunnel!Announce, Tunnel!AuditTunnelClosed, Tunnel!Catch,
           Tunnel!Release
  <1>3. CASE Tunnel!Announce(t)
    <2>1. PICK w : Tunnel!Becomes(t, w)
                   /\ w \in {[tunnel[t] EXCEPT !.pc = "bridge", !.timer = FALSE,
                                               !.hello = "established"],
                             [tunnel[t] EXCEPT !.pc = "catch"]}
      BY <1>3 DEF Tunnel!Announce, Tunnel!Refused
    <2>2. tunnel[t].pc = "announce" BY <1>3 DEF Tunnel!Announce, Tunnel!At
    <2>3. Quiet(tunnel[t], w)
      BY ZenonT(60), <1>1, <2>1, <2>2 DEF Quiet, TunnelState, Stages, Early
    <2> QED BY <1>2, <2>1, <2>3, HandlerMoves
  <1>4. CASE Tunnel!AuditTunnelClosed(t)
    <2>1. PICK r \in {tunnel[t].reason, "degraded"} :
            Tunnel!Becomes(t, [tunnel[t] EXCEPT !.pc = "finally", !.recorded = r])
      BY <1>4 DEF Tunnel!AuditTunnelClosed
    <2> DEFINE w == [tunnel[t] EXCEPT !.pc = "finally", !.recorded = r]
    <2>2. Quiet(tunnel[t], w)
      BY ZenonT(60), <1>1, <2>1 DEF Quiet, TunnelState, Stages, Early
    <2> QED BY <1>2, <2>1, <2>2, HandlerMoves
  <1>5. CASE Tunnel!Catch(t)
    <2>1. tunnel[t].pc = "catch" BY <1>5 DEF Tunnel!Catch, Tunnel!At
    <2>2. PICK m \in {"error", tunnel[t].hello} :
            Tunnel!Becomes(t, [tunnel[t] EXCEPT !.pc = "finally",
              !.client = Tunnel!Closing(tunnel[t].client), !.hello = m])
      BY <1>5 DEF Tunnel!Catch
    <2>3. Tunnel!Closing(tunnel[t].client) \in {"open", "closing", "closed"}
      BY <1>1 DEF Tunnel!Closing, TunnelState
    <2> DEFINE w == [tunnel[t] EXCEPT !.pc = "finally",
                       !.client = Tunnel!Closing(tunnel[t].client), !.hello = m]
    <2>4. Quiet(tunnel[t], w)
      BY <1>1, <2>1, <2>3 DEF Quiet, TunnelState, Stages, Early
    <2> QED BY <1>2, <2>2, <2>4, HandlerMoves
  <1>6. CASE Tunnel!Release(t)
    <2> DEFINE w == [tunnel[t] EXCEPT !.pc = "done", !.lease = FALSE,
                                      !.timer = FALSE]
    <2>1. Tunnel!Becomes(t, w) BY <1>6 DEF Tunnel!Release
    <2>2. Quiet(tunnel[t], w)
      BY <1>1 DEF Quiet, TunnelState, Stages, Early
    <2> QED BY <1>2, <2>1, <2>2, HandlerMoves
  <1> QED BY <1>3, <1>4, <1>5, <1>6

LEMMA ProcessEndsKeeps ==
  ASSUME TunnelInv, Tunnel!ProcessEnds, UNCHANGED left
  PROVE  TunnelInv'
  <1>1. ASSUME NEW u \in Tunnels
        PROVE  /\ tunnel'[u] = Tunnel!Lost(tunnel[u])
               /\ GoodTunnel(Tunnel!Lost(tunnel[u]))
    <2>1. /\ GoodTunnel(tunnel[u]) /\ tunnel[u] \in TunnelState
      BY DEF TunnelInv, GoodTunnel
    <2> DEFINE w == Tunnel!Lost(tunnel[u])
    <2>2. Quiet(tunnel[u], w)
      BY <2>1 DEF Quiet, TunnelState, Stages, Early, Tunnel!Lost
    <2>3. GoodTunnel(w) BY <2>1, <2>2, FlowStays DEF Quiet
    <2> QED BY <2>3 DEF Tunnel!ProcessEnds
  <1>2. \A u \in Tunnels : Tunnel!Lost(tunnel[u]) \in TunnelState
    BY <1>1 DEF GoodTunnel
  <1>3. tunnel' \in [Tunnels -> TunnelState]
    BY <1>2 DEF Tunnel!ProcessEnds
  <1>4. left' \in Nat BY DEF TunnelInv
  <1> QED BY <1>1, <1>3, <1>4 DEF TunnelInv

LEMMA Ends ==
  ASSUME TunnelInv, NEW t \in Tunnels,
         \/ Tunnel!TargetUnheard(t) \/ Tunnel!TextFrame(t)
         \/ Tunnel!ClientCloses(t) \/ Tunnel!TargetEnds(t)
         \/ Tunnel!CodeNotSent(t)
  PROVE  TunnelInv'
  <1>1. /\ GoodTunnel(tunnel[t]) /\ tunnel[t] \in TunnelState
        /\ tunnel[t].pc \in Early => tunnel[t].hello # "established"
        /\ tunnel[t].pc = "bridge" => tunnel[t].hello = "established"
    BY DEF TunnelInv, GoodTunnel
  <1>2. UNCHANGED left /\ left' \in Nat
    BY DEF Tunnel!TargetUnheard, Tunnel!TextFrame, Tunnel!ClientCloses,
           Tunnel!TargetEnds, Tunnel!CodeNotSent, TunnelInv
  <1>3. ASSUME Tunnel!TargetUnheard(t) PROVE TunnelInv'
    <2>1. CASE Tunnel!ProcessEnds
      BY <1>2, <2>1, ProcessEndsKeeps
    <2>2. CASE Tunnel!Becomes(t, [tunnel[t] EXCEPT !.target = "closed"])
      <3> DEFINE w == [tunnel[t] EXCEPT !.target = "closed"]
      <3>1. Quiet(tunnel[t], w) BY <1>1 DEF Quiet, TunnelState
      <3> QED BY <1>2, <2>2, <3>1, HandlerMoves
    <2> QED BY <1>3, <2>1, <2>2 DEF Tunnel!TargetUnheard
  <1>4. ASSUME Tunnel!TextFrame(t) PROVE TunnelInv'
    <2>1. tunnel[t].hello = "established"
      BY <1>1, <1>4 DEF Tunnel!TextFrame, Tunnel!At
    <2>2. PICK f : f = Tunnel!Finish(tunnel[t], "non-binary-frame")
      OBVIOUS
    <2>3. GoodTunnel(f) BY <1>1, <2>1, <2>2, FinishKeeps DEF Reasons
    <2>4. GoodTunnel([f EXCEPT !.client = "closing", !.target = "closed"])
      BY <2>3, SocketsClose
    <2>5. Tunnel!Becomes(t, [f EXCEPT !.client = "closing", !.target = "closed"])
      BY <1>4, <2>2 DEF Tunnel!TextFrame
    <2> QED BY <1>2, <2>4, <2>5, BecomesGood
  <1>5. ASSUME Tunnel!TargetEnds(t) PROVE TunnelInv'
    <2>1. tunnel[t].hello = "established" BY <1>5 DEF Tunnel!TargetEnds
    <2>2. PICK why \in {"completed", "target-closed", "target-error"} :
            Tunnel!Becomes(t, [Tunnel!Finish(tunnel[t], why) EXCEPT
              !.client = Tunnel!Closing(@), !.target = "closed"])
      BY <1>5 DEF Tunnel!TargetEnds
    <2>3. PICK f : f = Tunnel!Finish(tunnel[t], why)
      OBVIOUS
    <2>4. GoodTunnel(f) BY <1>1, <2>1, <2>2, <2>3, FinishKeeps DEF Reasons
    <2>5. PICK c : c = Tunnel!Closing(f.client)
      OBVIOUS
    <2>6. c \in {"open", "closing", "closed"}
      BY <2>4, <2>5 DEF Tunnel!Closing, GoodTunnel, TunnelState
    <2>7. GoodTunnel([f EXCEPT !.client = c, !.target = "closed"])
      BY <2>4, <2>6, SocketsClose
    <2>8. Tunnel!Becomes(t, [f EXCEPT !.client = c, !.target = "closed"])
      BY <2>2, <2>3, <2>5
    <2> QED BY <1>2, <2>7, <2>8, BecomesGood
  <1>6. ASSUME Tunnel!CodeNotSent(t) PROVE TunnelInv'
    BY <1>2, <1>6, ProcessEndsKeeps DEF Tunnel!CodeNotSent
  <1>7. ASSUME Tunnel!ClientCloses(t) PROVE TunnelInv'
    <2> DEFINE z == [tunnel[t] EXCEPT !.client = "closed"]
    <2>1. /\ Quiet(tunnel[t], z) /\ GoodTunnel(z) /\ z \in TunnelState
          /\ z.hello = tunnel[t].hello /\ z.pc = tunnel[t].pc
      <3>1. Quiet(tunnel[t], z) /\ z.hello = tunnel[t].hello
            /\ z.pc = tunnel[t].pc
        BY <1>1 DEF Quiet, TunnelState
      <3> QED BY <1>1, <3>1, FlowStays DEF Quiet
    <2> HIDE DEF z
    <2>2. \/ tunnel[t].pc = "hello" /\ Tunnel!Becomes(t, Tunnel!Refused(z))
          \/ Tunnel!Becomes(t, Tunnel!Abort(z))
          \/ /\ tunnel[t].hello = "established"
             /\ \E why \in {"client-closed", "client-error"} :
                  Tunnel!Becomes(t, [Tunnel!Finish(z, why) EXCEPT
                    !.target = Tunnel!LeaveTarget(tunnel[t])])
          \/ Tunnel!Becomes(t, z)
      BY <1>7 DEF Tunnel!ClientCloses, z
    <2>3. CASE tunnel[t].pc = "hello" /\ Tunnel!Becomes(t, Tunnel!Refused(z))
      <3> DEFINE w == [z EXCEPT !.pc = "catch"]
      <3>1. Tunnel!Becomes(t, w) BY <2>3 DEF Tunnel!Refused
      <3>2. Quiet(z, w)
        BY <1>1, <2>1, <2>3 DEF Quiet, TunnelState, Stages, Early
      <3>3. GoodTunnel(w) BY <2>1, <3>2, FlowStays DEF Quiet
      <3> QED BY <1>2, <3>1, <3>3, BecomesGood
    <2>4. CASE Tunnel!Becomes(t, Tunnel!Abort(z))
      <3> DEFINE w == Tunnel!Abort(z)
      <3>1. PICK p \in {z.pc, "catch"} :
              /\ w = [z EXCEPT !.abort = TRUE, !.pc = p]
              /\ p \in Early => z.pc \in Early
        BY DEF Tunnel!Abort, Early
      <3>2. /\ z.pc \in Early => z.hello # "established"
            /\ z.pc = "bridge" => z.hello = "established"
        BY <2>1 DEF GoodTunnel
      <3>3. p \in Stages /\ (p = "bridge" => z.pc = "bridge")
        BY <2>1, <3>1 DEF TunnelState, Stages, Early
      <3>4. Quiet(z, w)
        BY <2>1, <3>1, <3>2, <3>3 DEF Quiet, TunnelState
      <3>5. GoodTunnel(w) BY <2>1, <3>4, FlowStays DEF Quiet
      <3> QED BY <1>2, <2>4, <3>5, BecomesGood
    <2>5. ASSUME tunnel[t].hello = "established",
                 NEW why \in {"client-closed", "client-error"},
                 Tunnel!Becomes(t, [Tunnel!Finish(z, why) EXCEPT
                   !.target = Tunnel!LeaveTarget(tunnel[t])])
          PROVE  TunnelInv'
      <3>1. Tunnel!LeaveTarget(tunnel[t]) \in {"none", "open", "closing", "closed"}
        BY <1>1 DEF Tunnel!LeaveTarget, Tunnel!Closing, TunnelState
      <3>2. PICK f, g : f = Tunnel!Finish(z, why)
                        /\ g = Tunnel!LeaveTarget(tunnel[t])
        OBVIOUS
      <3>3. GoodTunnel(f) BY <2>1, <2>5, <3>2, FinishKeeps DEF Reasons
      <3>4. GoodTunnel([f EXCEPT !.target = g])
        BY <3>1, <3>2, <3>3, TargetCloses
      <3>5. Tunnel!Becomes(t, [f EXCEPT !.target = g]) BY <2>5, <3>2
      <3> QED BY <1>2, <3>4, <3>5, BecomesGood
    <2>6. CASE Tunnel!Becomes(t, z)
      BY <1>2, <2>1, <2>6, BecomesGood
    <2> QED BY <2>2, <2>3, <2>4, <2>5, <2>6
  <1> QED BY <1>3, <1>4, <1>5, <1>6, <1>7

LEMMA FrameComes ==
  ASSUME TunnelInv, NEW t \in Tunnels, NEW d \in Tunnel!Sides,
         Tunnel!Frame(t, d)
  PROVE  TunnelInv'
  <1>1. PICK z : z = tunnel[t] OBVIOUS
  <1>2. GoodTunnel(z) /\ z.flow[d] \in Flow
    BY <1>1 DEF TunnelInv, GoodTunnel, TunnelState
  <1>3. z.flow[d].passed + z.flow[d].due <= z.flow[d].came
    BY <1>2 DEF GoodTunnel, Counted
  <1>4. PICK f : f = [z.flow[d] EXCEPT !.came = @ + 1, !.due = @ + 1] OBVIOUS
  <1>5. /\ f \in Flow /\ f.told = z.flow[d].told
        /\ f.passed = z.flow[d].passed
        /\ f.passed + f.due <= f.came
    <2>1. PICK came \in Nat, due \in Nat :
            came = z.flow[d].came + 1 /\ due = z.flow[d].due + 1
      BY <1>2 DEF Flow
    <2>2. f = [z.flow[d] EXCEPT !.came = came, !.due = due]
      BY <1>4, <2>1
    <2>3. /\ f \in Flow /\ f.told = z.flow[d].told
          /\ f.passed = z.flow[d].passed /\ f.due = due /\ f.came = came
      BY <1>2, <2>2 DEF Flow
    <2> QED BY <1>2, <1>3, <2>1, <2>3 DEF Flow
  <1>6. z.hello = "established" /\ left' \in Nat
    BY <1>1 DEF Tunnel!Frame, TunnelInv
  <1>7. Tunnel!Becomes(t, [z EXCEPT !.flow = [@ EXCEPT ![d] = f]])
    BY <1>1, <1>4 DEF Tunnel!Frame, Tunnel!Flows
  <1>8. GoodTunnel([z EXCEPT !.flow = [@ EXCEPT ![d] = f]])
    BY <1>2, <1>5, <1>6, FlowMoves
  <1> QED BY <1>6, <1>7, <1>8, BecomesGood

LEMMA FrameIsPaid ==
  ASSUME TunnelInv, NEW t \in Tunnels, NEW d \in Tunnel!Sides,
         Tunnel!Charge(t, d)
  PROVE  TunnelInv'
  <1>1. PICK z, drop, pass :
          /\ z = tunnel[t]
          /\ drop = Tunnel!Drop(z, d) /\ pass = Tunnel!Pass(z, d)
    OBVIOUS
  <1>2. GoodTunnel(z) /\ z.flow[d].due > 0
    BY <1>1 DEF TunnelInv, Tunnel!Charge
  <1>3. /\ GoodTunnel(drop) /\ drop.hello = "established"
        /\ z.reason = "none" => GoodTunnel(pass)
    BY <1>1, <1>2, Dropped
  <1>4. PICK client, target :
          /\ client = Tunnel!Finish(drop, "client-error")
          /\ target = Tunnel!Finish(drop, "target-error")
    OBVIOUS
  <1>5. GoodTunnel(client) /\ GoodTunnel(target)
    BY <1>3, <1>4, FinishKeeps DEF Reasons
  <1>6. CASE left > 0 /\ left' = left - 1
             /\ Tunnel!Becomes(t, Tunnel!Delivered(z, d))
    <2>1. left' \in Nat BY <1>6 DEF TunnelInv
    <2>2. \/ Tunnel!Delivered(z, d) \in {drop, target}
          \/ Tunnel!Delivered(z, d) = pass /\ z.reason = "none"
          \/ \E g \in {"closed", client.target} :
               Tunnel!Delivered(z, d) = [client EXCEPT !.target = g]
      BY <1>1, <1>4 DEF Tunnel!Delivered, Tunnel!Settled
    <2>3. client.target \in {"none", "open", "closing", "closed"}
      BY <1>5 DEF GoodTunnel, TunnelState
    <2>4. \A g \in {"closed", client.target} :
            GoodTunnel([client EXCEPT !.target = g])
      BY <1>5, <2>3, TargetCloses
    <2>5. GoodTunnel(Tunnel!Delivered(z, d))
      BY <1>3, <1>5, <2>2, <2>4
    <2> QED BY <1>6, <2>1, <2>5, BecomesGood
  <1>7. CASE /\ UNCHANGED left
             /\ Tunnel!Becomes(t, [Tunnel!Finish(drop, "quota-exceeded") EXCEPT
                                     !.client = Tunnel!Closing(@),
                                     !.target = "closed"])
    <2>1. PICK f : f = Tunnel!Finish(drop, "quota-exceeded")
      OBVIOUS
    <2>2. PICK c : c = Tunnel!Closing(f.client)
      OBVIOUS
    <2>3. GoodTunnel(f) BY <1>3, <2>1, FinishKeeps DEF Reasons
    <2>4. c \in {"open", "closing", "closed"}
      BY <2>2, <2>3 DEF Tunnel!Closing, GoodTunnel, TunnelState
    <2>5. GoodTunnel([f EXCEPT !.client = c, !.target = "closed"])
      BY <2>3, <2>4, SocketsClose
    <2>6. Tunnel!Becomes(t, [f EXCEPT !.client = c, !.target = "closed"])
      BY <1>7, <2>1, <2>2
    <2>7. left' \in Nat BY <1>7 DEF TunnelInv
    <2> QED BY <2>5, <2>6, <2>7, BecomesGood
  <1> QED BY <1>1, <1>6, <1>7 DEF Tunnel!Charge

LEMMA TunnelStep == TunnelInv /\ [Tunnel!Next]_tunnelVars => TunnelInv'
  <1> SUFFICES ASSUME TunnelInv, [Tunnel!Next]_tunnelVars PROVE TunnelInv'
    OBVIOUS
  <1>1. CASE UNCHANGED tunnelVars
    BY <1>1 DEF tunnelVars, TunnelInv
  <1>2. CASE Tunnel!Next
    BY <1>2, SetsUp, GoesOn, Ends, FrameComes, FrameIsPaid
    DEF Tunnel!Next, Tunnel!Handle
  <1> QED BY <1>1, <1>2

LEMMA TunnelAlways == ServingSpec => [](subject = "tunnel" => TunnelInv)
  <1>1. ServingInit => (subject = "tunnel" => TunnelInv)
    BY TunnelBegins DEF ServingInit, UpstreamsInit
  <1>2. /\ (subject = "tunnel" => TunnelInv)
        /\ [ServingNext]_servingVars
        => (subject = "tunnel" => TunnelInv)'
    BY TunnelTakesStep, TunnelStep, SubjectStays
  <1> QED BY <1>1, <1>2, PTL DEF ServingSpec

(* The outcome on record is what happened to the response, for any number  *)
(* of requests, faults, crashes and clients that leave; and the totals on  *)
(* record of a tunnel leave out nothing that passed it, for any number of  *)
(* tunnels, frames and answers that come late.                             *)
THEOREM OutcomeHonestHolds == ServingSpec => []OutcomeHonest
  <1>1. /\ (subject = "gateway" => GatewayInv)
        /\ (subject = "tunnel" => TunnelInv)
        => OutcomeHonest
    <2>1. ASSUME GatewayInv PROVE Gateway!OutcomeHonest
      <3> SUFFICES ASSUME NEW r \in Exchanges
                   PROVE  CASE st[r].outcome = "completed" ->
                                 /\ st[r].up = "complete"
                                 /\ st[r].down \in {"ended", "destroyed"}
                            [] st[r].outcome = "partial" ->
                                 st[r].down = "destroyed"
                            [] st[r].outcome \in {"timeout", "cancelled"} ->
                                 /\ st[r].down = "destroyed"
                                 /\ st[r].abort = st[r].outcome
                            [] OTHER -> <<st[r].outcome, r>> \notin ledger
        BY DEF Gateway!OutcomeHonest
      <3>1. /\ st[r].outcome \in Gateway!Outcomes \cup {"none"}
            /\ HonestRequest(r)
        BY <2>1 DEF GatewayInv, GatewayTypes, Handler
      <3> QED BY <3>1 DEF HonestRequest, Gateway!Outcomes
    <2>2. ASSUME TunnelInv PROVE Tunnel!TrafficIsCounted
      <3> SUFFICES ASSUME NEW t \in Tunnels, NEW d \in Tunnel!Sides
                   PROVE  LET flow == tunnel[t].flow[d]
                          IN  /\ tunnel[t].reason # "none" =>
                                   flow.passed <= flow.told
                              /\ tunnel[t].hello # "established" =>
                                   flow.passed = 0
        BY DEF Tunnel!TrafficIsCounted
      <3>1. GoodTunnel(tunnel[t]) /\ tunnel[t].flow[d] \in Flow
        BY <2>2 DEF TunnelInv, TunnelState
      <3> QED BY <3>1 DEF GoodTunnel, Counted, Flow
    <2> QED BY <2>1, <2>2 DEF OutcomeHonest
  <1> QED BY <1>1, GatewayAlways, TunnelAlways, PTL

-----------------------------------------------------------------------------
(* The server.  What the worker has posted is true: an answer that says a  *)
(* statement succeeded comes after its commit, and "startup-ready" after   *)
(* the last migration of the build that runs.  Both stay true while the    *)
(* message waits, whatever ends in the meantime, until a new process       *)
(* starts with empty queues.                                               *)

\* The migrations of this build have been run, and its worker runs no more.
SchemaExact ==
  worker \in {"listening", "dead"} /\ schema = Migrations[build]

Posted ==
  [kind : {"exit", "startup-fatal", "startup-ready", "answer"},
   call : Server!Calls \cup {"close", "none"}, ok : BOOLEAN]

SoundPost ==
  {m \in Posted :
     /\ m.kind = "startup-ready" => SchemaExact
     /\ m.kind = "answer" /\ m.ok /\ m.call \in Statements =>
          m.call \in committed}

CallStates ==
  {"none", "waiting", "sent", "resolved", "failed", "fatal", "closed", "lost"}

ServerTypes ==
  /\ schema \in Seq(STRING)
  /\ build \in Builds
  /\ worker \in {"off", "opening", "migrating", "listening", "dead"}
  /\ inbox \in Seq(Server!Calls \cup {"close"})
  /\ call \in [Server!Calls -> CallStates]

CommitsKept ==
  /\ outbox \in Seq(SoundPost)
  /\ answer # Server!None => answer \in SoundPost
  /\ \A c \in Statements : call[c] = "resolved" => c \in committed

SchemaKept ==
  /\ worker = "migrating" => Server!IsPrefixOf(schema, Migrations[build])
  /\ worker = "listening" => SchemaExact
  /\ ready = "ready" => SchemaExact
  /\ server \in {"initialize", "listen", "bootstrap", "up"} => ready = "ready"

ServerInv == ServerTypes /\ CommitsKept /\ SchemaKept

LEMMA SeqGrows ==
  ASSUME NEW S, NEW T, S \subseteq T, NEW s \in Seq(S) PROVE s \in Seq(T)
  OBVIOUS

LEMMA SeqTail ==
  ASSUME NEW S, NEW s \in Seq(S), s # <<>>
  PROVE  Head(s) \in S /\ Tail(s) \in Seq(S)
  OBVIOUS

LEMMA SeqFront ==
  ASSUME NEW S, NEW s \in Seq(S), NEW n \in 0 .. Len(s)
  PROVE  SubSeq(s, 1, n) \in Seq(S)
  OBVIOUS

\* A prefix as long as the whole is the whole; a shorter one may grow by the
\* next element.
LEMMA PrefixGrows ==
  ASSUME NEW S, NEW s \in Seq(S), NEW t \in Seq(S), Server!IsPrefixOf(s, t)
  PROVE  /\ ~(Len(t) - Len(s) > 0) => s = t
         /\ Len(t) - Len(s) > 0 =>
              /\ t[Len(s) + 1] \in S
              /\ Server!IsPrefixOf(Append(s, t[Len(s) + 1]), t)
  <1>1. Len(s) \in Nat /\ Len(t) \in Nat /\ Len(s) <= Len(t)
        /\ s = SubSeq(t, 1, Len(s))
    BY DEF Server!IsPrefixOf
  <1>2. ASSUME ~(Len(t) - Len(s) > 0) PROVE s = t
    <2>1. Len(s) = Len(t) BY <1>1, <1>2
    <2> QED BY <1>1, <2>1
  <1>3. ASSUME Len(t) - Len(s) > 0
        PROVE  /\ t[Len(s) + 1] \in S
               /\ Server!IsPrefixOf(Append(s, t[Len(s) + 1]), t)
    <2>1. Len(s) + 1 \in 1 .. Len(t) BY <1>1, <1>3
    <2>2. t[Len(s) + 1] \in S BY <2>1
    <2>3. /\ Append(s, t[Len(s) + 1]) \in Seq(S)
          /\ Len(Append(s, t[Len(s) + 1])) = Len(s) + 1
      BY <2>2
    <2>4. Append(s, t[Len(s) + 1]) = SubSeq(t, 1, Len(s) + 1)
      BY <1>1, <2>1
    <2> QED BY <2>1, <2>2, <2>3, <2>4 DEF Server!IsPrefixOf
  <1> QED BY <1>2, <1>3

\* What was sound stays so while commits are kept and the schema is not lost.
LEMMA PostsStaySound ==
  ASSUME SchemaExact => SchemaExact', committed \subseteq committed'
  PROVE  SoundPost \subseteq SoundPost'
  BY DEF SoundPost, Posted

LEMMA NoticeIsSound ==
  ASSUME NEW k \in {"exit", "startup-fatal", "startup-ready"},
         k = "startup-ready" => SchemaExact
  PROVE  Server!Notice(k) \in SoundPost
  BY DEF Server!Notice, Server!Message, SoundPost, Posted

\* A step that leaves the file and the worker alone: it moves calls, and may
\* read a message that is sound.
LEMMA ClientMoves ==
  ASSUME ServerInv,
         UNCHANGED <<schema, build, worker, committed, answer>>,
         outbox' \in Seq(SoundPost),
         inbox' \in Seq(Server!Calls \cup {"close"}),
         call' \in [Server!Calls -> CallStates],
         \A c \in Statements :
           call'[c] = "resolved" => call[c] = "resolved" \/ c \in committed,
         ready' = "ready" => SchemaExact,
         server' \in {"initialize", "listen", "bootstrap", "up"} =>
           ready' = "ready"
  PROVE  ServerInv'
  <1>1. SchemaExact' = SchemaExact BY DEF SchemaExact
  <1>2. SoundPost' = SoundPost BY <1>1 DEF SoundPost
  <1>3. ServerTypes' BY DEF ServerInv, ServerTypes
  <1>4. CommitsKept' BY <1>2 DEF ServerInv, CommitsKept
  <1>5. SchemaKept' BY <1>1 DEF ServerInv, SchemaKept, Server!IsPrefixOf
  <1> QED BY <1>3, <1>4, <1>5 DEF ServerInv

\* A step of the worker: it leaves the calls and the server alone.
LEMMA WorkerMoves ==
  ASSUME ServerInv, UNCHANGED <<build, call, ready, server>>,
         SchemaExact => SchemaExact', committed \subseteq committed',
         schema' \in Seq(STRING),
         worker' \in {"opening", "migrating", "listening", "dead"},
         inbox' \in Seq(Server!Calls \cup {"close"}),
         outbox' \in Seq(SoundPost'),
         answer' # Server!None => answer' \in SoundPost',
         worker' = "migrating" => Server!IsPrefixOf(schema', Migrations[build]),
         worker' = "listening" => SchemaExact'
  PROVE  ServerInv'
  <1>1. ServerTypes' BY DEF ServerInv, ServerTypes
  <1>2. CommitsKept' BY DEF ServerInv, CommitsKept
  <1>3. SchemaKept' BY DEF ServerInv, SchemaKept
  <1> QED BY <1>1, <1>2, <1>3 DEF ServerInv

LEMMA WorkerWorks ==
  ASSUME ServerInv,
         \/ Server!OpenDatabase \/ Server!Migrate \/ Server!Post
         \/ \E ok \in BOOLEAN : Server!Execute(ok),
         server' = server
  PROVE  ServerInv'
  <1> USE DEF Server!file, Server!thread, Server!client
  <1>1. /\ ServerTypes /\ CommitsKept /\ SchemaKept
        /\ Migrations[build] \in Seq(STRING)
    BY ServingAssumption DEF ServerInv, ServerTypes
  <1>2. CASE Server!OpenDatabase
    <2>1. /\ worker = "opening"
          /\ UNCHANGED <<schema, committed, build, answer, inbox, ready, call>>
      BY <1>2 DEF Server!OpenDatabase
    <2>2. ~SchemaExact BY <2>1 DEF SchemaExact
    <2>3. SoundPost \subseteq SoundPost' BY <2>1, <2>2, PostsStaySound
    <2>4. answer' # Server!None => answer' \in SoundPost'
      BY <1>1, <2>1, <2>3 DEF CommitsKept, Server!None, Server!Notice,
                              Server!Message
    <2>5. CASE Server!Compatible(schema, Migrations[build])
      <3>1. worker' = "migrating" /\ outbox' = outbox
        BY <1>2, <2>5 DEF Server!OpenDatabase
      <3>2. outbox' \in Seq(SoundPost')
        BY <1>1, <2>3, <3>1, SeqGrows DEF CommitsKept
      <3>3. Server!IsPrefixOf(schema', Migrations[build])
        BY <2>1, <2>5 DEF Server!Compatible
      <3> QED
        BY <1>1, <2>1, <2>2, <2>4, <3>1, <3>2, <3>3, WorkerMoves DEF ServerTypes
    <2>6. CASE ~Server!Compatible(schema, Migrations[build])
      <3>1. /\ worker' = "dead"
            /\ outbox' = Append(Append(outbox, Server!Notice("startup-fatal")),
                                Server!Notice("exit"))
        BY <1>2, <2>6 DEF Server!OpenDatabase, Server!Exit
      <3>2. outbox' \in Seq(SoundPost)
        BY <1>1, <3>1, NoticeIsSound DEF CommitsKept
      <3>3. outbox' \in Seq(SoundPost')
        BY <2>3, <3>2, SeqGrows
      <3> QED
        BY <1>1, <2>1, <2>2, <2>4, <3>1, <3>3, WorkerMoves DEF ServerTypes
    <2> QED BY <2>5, <2>6
  <1>3. CASE Server!Migrate
    <2> DEFINE known == Migrations[build]
               next == known[Len(schema) + 1]
    <2>1. /\ worker = "migrating"
          /\ UNCHANGED <<committed, build, answer, inbox, ready, call>>
      BY <1>3 DEF Server!Migrate
    <2>2. ~SchemaExact BY <2>1 DEF SchemaExact
    <2>3. SoundPost \subseteq SoundPost' BY <2>1, <2>2, PostsStaySound
    <2>4. answer' # Server!None => answer' \in SoundPost'
      BY <1>1, <2>1, <2>3 DEF CommitsKept, Server!None, Server!Notice,
                              Server!Message
    <2>5. /\ schema \in Seq(STRING) /\ known \in Seq(STRING)
          /\ Server!IsPrefixOf(schema, known)
      BY <1>1, <2>1 DEF ServerTypes, SchemaKept
    <2>6. CASE Len(known) - Len(schema) > 0
      <3>1. /\ schema' = Append(schema, next) /\ worker' = "migrating"
            /\ outbox' = outbox
        BY <1>3, <2>1, <2>6 DEF Server!Migrate
      <3>2. next \in STRING /\ Server!IsPrefixOf(schema', known)
        BY <2>5, <2>6, <3>1, PrefixGrows
      <3>3. schema' \in Seq(STRING) BY <2>5, <3>1, <3>2
      <3>4. outbox' \in Seq(SoundPost')
        BY <1>1, <2>3, <3>1, SeqGrows DEF CommitsKept
      <3> QED
        BY <1>1, <2>1, <2>2, <2>4, <3>1, <3>2, <3>3, <3>4, WorkerMoves
        DEF ServerTypes
    <2>7. CASE ~(Len(known) - Len(schema) > 0)
      <3>1. /\ worker' = "listening" /\ schema' = schema
            /\ outbox' = Append(outbox, Server!Notice("startup-ready"))
        BY <1>3, <2>7 DEF Server!Migrate
      <3>2. schema = known BY <2>5, <2>7, PrefixGrows
      <3>3. SchemaExact' BY <2>1, <3>1, <3>2 DEF SchemaExact
      <3>4. Server!Notice("startup-ready") \in SoundPost'
        BY <3>3 DEF Server!Notice, Server!Message, SoundPost, Posted
      <3>5. outbox \in Seq(SoundPost')
        BY <1>1, <2>3, SeqGrows DEF CommitsKept
      <3>6. outbox' \in Seq(SoundPost') BY <3>1, <3>4, <3>5
      <3> QED
        BY <1>1, <2>1, <2>4, <3>1, <3>3, <3>6, WorkerMoves DEF ServerTypes
    <2> QED BY <2>6, <2>7
  <1>4. ASSUME NEW ok \in BOOLEAN, Server!Execute(ok) PROVE ServerInv'
    <2> DEFINE c == Head(inbox)
    <2>1. /\ worker = "listening" /\ inbox # <<>>
          /\ inbox' = Tail(inbox)
          /\ answer' = Server!Message("answer", c, ok)
          /\ committed' = IF c # "close" /\ ok THEN committed \cup {c}
                                               ELSE committed
          /\ UNCHANGED <<schema, build, worker, outbox, ready, call>>
      BY <1>4 DEF Server!Execute, Server!Commits
    <2>2. /\ c \in Server!Calls \cup {"close"}
          /\ inbox' \in Seq(Server!Calls \cup {"close"})
      BY <1>1, <2>1, SeqTail DEF ServerTypes
    <2>3. committed \subseteq committed' BY <2>1
    <2>4. SchemaExact /\ SchemaExact' BY <1>1, <2>1 DEF SchemaKept, SchemaExact
    <2>5. SoundPost \subseteq SoundPost' BY <2>3, <2>4, PostsStaySound
    <2> HIDE DEF c
    <2>6. answer' \in SoundPost'
      BY <2>1, <2>2, ServingAssumption DEF Server!Message, SoundPost, Posted
    <2>7. outbox' \in Seq(SoundPost')
      BY <1>1, <2>1, <2>5, SeqGrows DEF CommitsKept
    <2> QED
      BY <1>1, <2>1, <2>2, <2>3, <2>4, <2>6, <2>7, WorkerMoves DEF ServerTypes
  <1>5. CASE Server!Post
    <2>1. /\ worker = "listening" /\ answer # Server!None
          /\ answer' = Server!None
          /\ UNCHANGED <<schema, committed, build, inbox, ready, call>>
          /\ \/ /\ worker' = "dead"
                /\ outbox' = Append(Append(outbox, answer), Server!Notice("exit"))
             \/ worker' = "listening" /\ outbox' = Append(outbox, answer)
      BY <1>5 DEF Server!Post, Server!Exit
    <2>2. SchemaExact /\ SchemaExact' BY <1>1, <2>1 DEF SchemaKept, SchemaExact
    <2>3. SoundPost \subseteq SoundPost' BY <2>1, <2>2, PostsStaySound
    <2>4. answer \in SoundPost /\ outbox \in Seq(SoundPost)
      BY <1>1, <2>1 DEF CommitsKept
    <2>5. outbox' \in Seq(SoundPost)
      <3>1. CASE outbox' = Append(outbox, answer) BY <2>4, <3>1
      <3>2. CASE outbox' = Append(Append(outbox, answer), Server!Notice("exit"))
        <4>1. Append(outbox, answer) \in Seq(SoundPost) BY <2>4
        <4>2. Server!Notice("exit") \in SoundPost BY NoticeIsSound
        <4> QED BY <3>2, <4>1, <4>2
      <3> QED BY <2>1, <3>1, <3>2
    <2>6. outbox' \in Seq(SoundPost') BY <2>3, <2>5, SeqGrows
    <2>7. answer' = Server!None'
      BY <2>1 DEF Server!None, Server!Notice, Server!Message
    <2> QED
      BY <1>1, <2>1, <2>2, <2>6, <2>7, WorkerMoves DEF ServerTypes
  <1> QED BY <1>2, <1>3, <1>4, <1>5

\* terminate() or a crash of the thread, after some of what it had posted
LEMMA WorkerStops ==
  ASSUME ServerInv, Server!WorkerEnds, server' = server
  PROVE  ServerInv'
  <1> USE DEF Server!file, Server!thread, Server!client
  <1>1. /\ worker' = "dead" /\ answer' = Server!None
        /\ UNCHANGED <<schema, committed, build, inbox, ready, call>>
    BY DEF Server!WorkerEnds
  <1>2. PICK n \in 0 .. Len(outbox) :
          outbox' = Append(SubSeq(outbox, 1, n), Server!Notice("exit"))
    BY DEF Server!WorkerEnds, Server!Exit
  <1>3. SchemaExact => SchemaExact' BY <1>1 DEF SchemaExact
  <1>4. SoundPost \subseteq SoundPost' BY <1>1, <1>3, PostsStaySound
  <1>5. outbox \in Seq(SoundPost) BY DEF ServerInv, CommitsKept
  <1>6. SubSeq(outbox, 1, n) \in Seq(SoundPost) BY <1>5, SeqFront
  <1>7. outbox' \in Seq(SoundPost) BY <1>2, <1>6, NoticeIsSound
  <1>8. outbox' \in Seq(SoundPost') BY <1>4, <1>7, SeqGrows
  <1>9. answer' = Server!None'
    BY <1>1 DEF Server!None, Server!Notice, Server!Message
  <1> QED
    BY <1>1, <1>3, <1>8, <1>9, WorkerMoves DEF ServerInv, ServerTypes

\* Every call that was pending is rejected: none is resolved by that.
LEMMA Rejects ==
  ASSUME ServerInv, NEW error \in {"fatal", "closed"},
         call' = Server!AllRejected(error)
  PROVE  /\ call' \in [Server!Calls -> CallStates]
         /\ \A c \in Statements :
              call'[c] = "resolved" => call[c] = "resolved"
  BY DEF ServerInv, ServerTypes, Server!AllRejected, Server!Calls, CallStates

LEMMA CallChanges ==
  ASSUME ServerInv, NEW c \in Server!Calls, NEW state \in CallStates,
         call' = [call EXCEPT ![c] = state]
  PROVE  /\ call' \in [Server!Calls -> CallStates]
         /\ state # "resolved" =>
              \A d \in Statements :
                call'[d] = "resolved" => call[d] = "resolved"
         /\ \A d \in Statements : d # c => call'[d] = call[d]
         /\ call'[c] = state
  BY DEF ServerInv, ServerTypes, Server!Calls

LEMMA Delivers ==
  ASSUME ServerInv, Server!Deliver, server' = server PROVE ServerInv'
  <1> USE DEF Server!file
  <1> DEFINE m == Head(outbox)
  <1>1. /\ outbox # <<>> /\ outbox' = Tail(outbox)
        /\ UNCHANGED <<schema, committed, build, worker, answer, inbox>>
    BY DEF Server!Deliver
  <1>2. m \in SoundPost /\ outbox' \in Seq(SoundPost)
    BY <1>1, SeqTail DEF ServerInv, CommitsKept
  <1>3. \/ m.kind = "exit" /\ Server!OnExit
        \/ m.kind = "startup-fatal" /\ Server!MarkFatal
        \/ m.kind = "startup-ready" /\ Server!OnStartupReady
        \/ m.kind = "answer" /\ Server!OnAnswer(m)
    BY <1>2 DEF Server!Deliver, SoundPost, Posted
  <1> HIDE DEF m
  <1>4. /\ inbox' \in Seq(Server!Calls \cup {"close"})
        /\ call \in [Server!Calls -> CallStates]
        /\ ready = "ready" => SchemaExact
        /\ server' \in {"initialize", "listen", "bootstrap", "up"} =>
             ready = "ready"
    BY <1>1 DEF ServerInv, ServerTypes, SchemaKept
  <1>5. ASSUME Server!MarkFatal PROVE ServerInv'
    <2>1. /\ call' = Server!AllRejected("fatal")
          /\ ready' = IF ready = "pending" THEN "rejected" ELSE ready
      BY <1>5 DEF Server!MarkFatal, Server!StartupAfterEnd
    <2>2. /\ ready = "ready" => ready' = "ready"
          /\ ready' = "ready" => ready = "ready"
      BY <2>1
    <2> QED BY <1>1, <1>2, <1>4, <2>1, <2>2, Rejects, ClientMoves
  <1>6. CASE m.kind = "exit"
    <2>1. Server!OnExit BY <1>3, <1>6
    <2>2. CASE closed
      <3>1. call' = Server!AllRejected("closed") /\ ready' = ready
        BY <2>1, <2>2 DEF Server!OnExit
      <3> QED BY <1>1, <1>2, <1>4, <3>1, Rejects, ClientMoves
    <2>3. CASE ~closed
      <3>1. Server!MarkFatal BY <2>1, <2>3 DEF Server!OnExit
      <3> QED BY <1>5, <3>1
    <2> QED BY <2>2, <2>3
  <1>7. CASE m.kind = "startup-fatal"
    BY <1>3, <1>5, <1>7
  <1>8. CASE m.kind = "startup-ready"
    <2>1. /\ ready' = IF ready = "pending" THEN "ready" ELSE ready
          /\ call' = call
      BY <1>3, <1>8 DEF Server!OnStartupReady
    <2>2. SchemaExact BY <1>2, <1>8 DEF SoundPost
    <2> QED BY <1>1, <1>2, <1>4, <2>1, <2>2, ClientMoves
  <1>9. CASE m.kind = "answer"
    <2> DEFINE c == m.call
               state == IF m.ok THEN "resolved" ELSE "failed"
    <2>1. /\ ready' = ready
          /\ \/ c \in Server!Calls /\ call' = [call EXCEPT ![c] = state]
             \/ call' = call
      BY <1>3, <1>9 DEF Server!OnAnswer
    <2>2. m.ok /\ c \in Statements => c \in committed
      BY <1>2, <1>9 DEF SoundPost
    <2>3. state \in CallStates /\ (state = "resolved" => m.ok)
      BY DEF CallStates
    <2> HIDE DEF c, state
    <2>4. call' \in [Server!Calls -> CallStates]
      BY <1>4, <2>1, <2>3, CallChanges
    <2>5. \A d \in Statements :
            call'[d] = "resolved" => call[d] = "resolved" \/ d \in committed
      <3>1. CASE call' = call BY <3>1
      <3>2. CASE c \in Server!Calls /\ call' = [call EXCEPT ![c] = state]
        <4>1. /\ \A d \in Statements : d # c => call'[d] = call[d]
              /\ call'[c] = state
          BY <3>2, <2>3, CallChanges
        <4> QED BY <2>2, <2>3, <4>1
      <3> QED BY <2>1, <3>1, <3>2
    <2> QED BY <1>1, <1>2, <1>4, <2>1, <2>4, <2>5, ClientMoves
  <1> QED BY <1>3, <1>6, <1>7, <1>8, <1>9

LEMMA ClientWorks ==
  ASSUME ServerInv, server' = server,
         (\E c \in Server!Calls : Server!Send(c)) \/ Server!CloseAnswered
  PROVE  ServerInv'
  <1> USE DEF Server!file, Server!thread
  <1>1. /\ outbox \in Seq(SoundPost)
        /\ inbox \in Seq(Server!Calls \cup {"close"})
        /\ ready = "ready" => SchemaExact
        /\ server' \in {"initialize", "listen", "bootstrap", "up"} =>
             ready = "ready"
    BY DEF ServerInv, ServerTypes, CommitsKept, SchemaKept
  <1>2. ASSUME NEW c \in Server!Calls, Server!Send(c) PROVE ServerInv'
    <2>1. UNCHANGED <<schema, committed, build, worker, answer, outbox, ready>>
      BY <1>2 DEF Server!Send
    <2>2. \/ inbox' = Append(inbox, c) \/ inbox' = inbox
      BY <1>2 DEF Server!Send
    <2>3. inbox' \in Seq(Server!Calls \cup {"close"})
      BY <1>1, <2>2
    <2>4. PICK state \in {"sent", "fatal", "closed"} :
            call' = [call EXCEPT ![c] = state]
      BY <1>2 DEF Server!Send
    <2>5. state \in CallStates /\ state # "resolved" BY DEF CallStates
    <2> QED BY <1>1, <2>1, <2>3, <2>4, <2>5, CallChanges, ClientMoves
  <1>3. CASE Server!CloseAnswered
    <2>1. /\ UNCHANGED <<schema, committed, build, worker, answer, inbox,
                         outbox, ready>>
          /\ call' = Server!AllRejected("closed")
      BY <1>3 DEF Server!CloseAnswered
    <2> QED BY <1>1, <2>1, Rejects, ClientMoves
  <1> QED BY <1>2, <1>3

\* A statement is requested, by a handler or by the server itself.
LEMMA Requested ==
  ASSUME ServerInv, NEW c \in Server!Calls, Server!Request(c),
         server' \in {"initialize", "listen", "bootstrap", "up"} =>
           ready = "ready"
  PROVE  ServerInv'
  <1> USE DEF Server!file, Server!thread
  <1>1. /\ UNCHANGED <<schema, committed, build, worker, answer, inbox, outbox,
                       ready>>
        /\ call' = [call EXCEPT ![c] = "waiting"]
    BY DEF Server!Request
  <1>2. "waiting" \in CallStates BY DEF CallStates
  <1>3. /\ outbox \in Seq(SoundPost)
        /\ inbox \in Seq(Server!Calls \cup {"close"})
        /\ ready = "ready" => SchemaExact
    BY DEF ServerInv, ServerTypes, CommitsKept, SchemaKept
  <1> QED BY <1>1, <1>2, <1>3, CallChanges, ClientMoves

\* Only the place of the server changes.
LEMMA ServerGoesOnly ==
  ASSUME ServerInv,
         UNCHANGED <<schema, committed, build, worker, answer, inbox, outbox,
                     ready, call>>,
         server' \in {"initialize", "listen", "bootstrap", "up"} =>
           ready = "ready"
  PROVE  ServerInv'
  <1>1. /\ outbox \in Seq(SoundPost)
        /\ inbox \in Seq(Server!Calls \cup {"close"})
        /\ ready = "ready" => SchemaExact
        /\ call \in [Server!Calls -> CallStates]
    BY DEF ServerInv, ServerTypes, CommitsKept, SchemaKept
  <1> QED BY <1>1, ClientMoves

LEMMA ServerWorks == ASSUME ServerInv, Server!ServerStep PROVE ServerInv'
  <1> USE DEF Server!file, Server!thread, Server!client
  <1>1. /\ outbox \in Seq(SoundPost)
        /\ inbox \in Seq(Server!Calls \cup {"close"})
        /\ ready = "ready" => SchemaExact
        /\ server \in {"initialize", "listen", "bootstrap", "up"} =>
             ready = "ready"
        /\ {"initialize", "ensureBootstrap"} \subseteq Server!Calls
        /\ call \in [Server!Calls -> CallStates]
    BY DEF ServerInv, ServerTypes, CommitsKept, SchemaKept, Server!Calls,
           Server!Startup
  <1>2. ASSUME Server!Fails PROVE ServerInv'
    <2>1. /\ server' = "failed"
          /\ UNCHANGED <<schema, committed, build, worker, answer, inbox, outbox,
                         ready, call>>
      BY <1>2 DEF Server!Fails
    <2> QED BY <2>1, ServerGoesOnly
  <1>3. CASE Server!DatabaseReady
    <2>1. \/ Server!Fails
          \/ ready = "ready" /\ Server!Request("initialize")
      BY <1>3 DEF Server!DatabaseReady
    <2> QED BY <1>1, <1>2, <2>1, Requested
  <1>4. ASSUME NEW c, NEW stage, Server!Continues(c, stage),
               server \in {"initialize", "bootstrap"}
        PROVE  ServerInv'
    <2>1. \/ Server!Fails
          \/ UNCHANGED <<schema, committed, build, worker, answer, inbox, outbox,
                         ready, call>>
      BY <1>4 DEF Server!Continues
    <2> QED BY <1>1, <1>2, <1>4, <2>1, ServerGoesOnly
  <1>5. CASE Server!Initialized \/ Server!Bootstrapped
    BY <1>4, <1>5 DEF Server!Initialized, Server!Bootstrapped
  <1>6. CASE Server!Listen
    <2>1. /\ server = "listen"
          /\ Server!Fails \/ Server!Request("ensureBootstrap")
      BY <1>6 DEF Server!Listen
    <2> QED BY <1>1, <1>2, <2>1, Requested
  <1>7. CASE Server!CloseDatabase
    <2>1. /\ UNCHANGED <<schema, committed, build, worker, answer, outbox,
                         server>>
          /\ ready' = IF ready = "pending" THEN "rejected" ELSE ready
          /\ \/ inbox' = Append(inbox, "close") /\ call' = call
             \/ inbox' = inbox /\ call' = Server!AllRejected("closed")
      BY <1>7
      DEF Server!CloseDatabase, Server!CloseBegins, Server!StartupAfterEnd
    <2>2. inbox' \in Seq(Server!Calls \cup {"close"}) BY <1>1, <2>1
    <2>3. /\ call' \in [Server!Calls -> CallStates]
          /\ \A c \in Statements :
               call'[c] = "resolved" => call[c] = "resolved"
      BY <1>1, <2>1, Rejects
    <2>4. /\ ready = "ready" => ready' = "ready"
          /\ ready' = "ready" => ready = "ready"
      BY <2>1
    <2> QED BY <1>1, <2>1, <2>2, <2>3, <2>4, ClientMoves
  <1>8. CASE \/ Server!Terminated \/ Server!RequestShutdown
             \/ Server!CloseListeners
    <2>1. /\ server' = "down" \/ server' = server
          /\ UNCHANGED <<schema, committed, build, worker, answer, inbox, outbox,
                         ready, call>>
      BY <1>8
      DEF Server!Terminated, Server!RequestShutdown, Server!CloseListeners
    <2> QED BY <1>1, <2>1, ServerGoesOnly
  <1> QED BY <1>3, <1>5, <1>6, <1>7, <1>8 DEF Server!ServerStep

\* A new process: empty queues, and the file as it is
LEMMA Starts ==
  ASSUME ServerInv, NEW b \in Builds, Server!Start(b) PROVE ServerInv'
  <1> USE DEF Server!file
  <1>1. /\ build' = b /\ worker' = "opening" /\ answer' = Server!None
        /\ inbox' = <<>> /\ outbox' = <<>> /\ ready' = "pending"
        /\ server' = "ready"
        /\ UNCHANGED <<schema, committed>>
    BY DEF Server!Start
  <1>2. call \in [Server!Calls -> CallStates] /\ schema \in Seq(STRING)
    BY DEF ServerInv, ServerTypes
  <1>3. /\ call' = [c \in Server!Calls |-> call'[c]]
        /\ \A c \in Server!Calls :
             call'[c] \in {"none", "lost"} \/ call'[c] = call[c]
    BY DEF Server!Start, Server!Remembered
  <1>4. ServerTypes'
    <2>1. call' \in [Server!Calls -> CallStates]
      BY <1>2, <1>3 DEF CallStates
    <2> QED BY <1>1, <1>2, <2>1 DEF ServerTypes
  <1>5. \A c \in Statements : call'[c] = "resolved" => call[c] = "resolved"
    BY <1>3 DEF Server!Calls
  <1>6. answer' = Server!None'
    BY <1>1 DEF Server!None, Server!Notice, Server!Message
  <1>7. CommitsKept'
    BY <1>1, <1>5, <1>6 DEF ServerInv, CommitsKept
  <1>8. SchemaKept' BY <1>1 DEF SchemaKept
  <1> QED BY <1>4, <1>7, <1>8 DEF ServerInv

\* The process is killed: the file keeps what was committed.
LEMMA ProcessDies ==
  ASSUME ServerInv, Server!ProcessCrash PROVE ServerInv'
  <1> USE DEF Server!file
  <1>1. /\ worker' = "dead" /\ server' = "down"
        /\ call' = [c \in Server!Calls |->
                      IF Server!InFlight(c) THEN "lost" ELSE call[c]]
        /\ UNCHANGED <<schema, committed, build, answer, inbox, outbox, ready>>
    BY DEF Server!ProcessCrash
  <1>2. SchemaExact => SchemaExact' BY <1>1 DEF SchemaExact
  <1>3. SoundPost \subseteq SoundPost' BY <1>1, <1>2, PostsStaySound
  <1>4. ServerTypes /\ CommitsKept /\ SchemaKept BY DEF ServerInv
  <1>5. call' \in [Server!Calls -> CallStates]
    BY <1>1, <1>4 DEF ServerTypes, CallStates
  <1>6. ServerTypes' BY <1>1, <1>4, <1>5 DEF ServerTypes
  <1>7. \A c \in Statements : call'[c] = "resolved" => call[c] = "resolved"
    BY <1>1 DEF Server!Calls
  <1>8. outbox' \in Seq(SoundPost')
    BY <1>1, <1>3, <1>4, SeqGrows DEF CommitsKept
  <1>9. answer' # Server!None => answer' \in SoundPost'
    BY <1>1, <1>3, <1>4 DEF CommitsKept
  <1>10. Server!None' = Server!None
    BY DEF Server!None, Server!Notice, Server!Message
  <1>11. CommitsKept'
    BY <1>1, <1>4, <1>7, <1>8, <1>9, <1>10 DEF CommitsKept
  <1>12. SchemaKept' BY <1>1, <1>2, <1>4 DEF SchemaKept
  <1> QED BY <1>6, <1>11, <1>12 DEF ServerInv

LEMMA ServerBegins == Server!Init => ServerInv
  <1> SUFFICES ASSUME Server!Init PROVE ServerInv OBVIOUS
  <1>1. /\ schema = <<>> /\ build \in Builds /\ worker = "off"
        /\ answer = Server!None /\ inbox = <<>> /\ outbox = <<>>
        /\ ready = "pending" /\ call = [c \in Server!Calls |-> "none"]
        /\ server = "down"
    BY DEF Server!Init, Server!DatabaseInit
  <1>2. ServerTypes BY <1>1 DEF ServerTypes, CallStates
  <1>3. \A c \in Statements : call[c] # "resolved" BY <1>1 DEF Server!Calls
  <1>4. CommitsKept BY <1>1, <1>3 DEF CommitsKept
  <1>5. SchemaKept BY <1>1 DEF SchemaKept
  <1> QED BY <1>2, <1>4, <1>5 DEF ServerInv

LEMMA ServerStep == ServerInv /\ [Server!Next]_serverVars => ServerInv'
  <1> SUFFICES ASSUME ServerInv, [Server!Next]_serverVars PROVE ServerInv'
    OBVIOUS
  <1>1. CASE UNCHANGED serverVars
    <2>1. /\ UNCHANGED <<schema, committed, build, worker, answer, inbox, outbox,
                         ready, call, server>>
      BY <1>1 DEF serverVars
    <2> QED BY <2>1, ServerGoesOnly DEF ServerInv, SchemaKept
  <1>2. ASSUME NEW b \in Builds, Server!Start(b) PROVE ServerInv'
    BY <1>2, Starts
  <1>3. CASE Server!WorkerStep
    BY <1>3, WorkerWorks DEF Server!WorkerStep
  <1>4. CASE Server!Termination \/ Server!WorkerCrash
    BY <1>4, WorkerStops DEF Server!Termination, Server!WorkerCrash
  <1>5. CASE Server!ClientStep
    BY <1>5, Delivers, ClientWorks DEF Server!ClientStep
  <1>6. CASE Server!ServerStep \/ Server!RequestShutdown
    <2>1. CASE Server!ServerStep BY <2>1, ServerWorks
    <2>2. CASE Server!RequestShutdown
      <3>1. /\ server' = server
            /\ UNCHANGED <<schema, committed, build, worker, answer, inbox,
                           outbox, ready, call>>
        BY <2>2
        DEF Server!RequestShutdown, Server!file, Server!thread, Server!client
      <3> QED BY <3>1, ServerGoesOnly DEF ServerInv, SchemaKept
    <2> QED BY <1>6, <2>1, <2>2
  <1>7. ASSUME NEW c \in Statements, Server!Serve(c) PROVE ServerInv'
    <2>1. Server!Request(c) /\ server' = server BY <1>7 DEF Server!Serve
    <2>2. c \in Server!Calls BY DEF Server!Calls
    <2> QED BY <2>1, <2>2, Requested DEF ServerInv, SchemaKept
  <1>8. ASSUME NEW c \in Statements, Server!Accept(c) \/ Server!Disconnect(c)
        PROVE  ServerInv'
    <2>1. /\ server' = server
          /\ UNCHANGED <<schema, committed, build, worker, answer, inbox,
                         outbox, ready, call>>
      BY <1>8
      DEF Server!Accept, Server!Disconnect, Server!file, Server!thread,
          Server!client
    <2> QED BY <2>1, ServerGoesOnly DEF ServerInv, SchemaKept
  <1> QED
    BY <1>1, <1>2, <1>3, <1>4, <1>5, <1>6, <1>7, <1>8, ProcessDies
    DEF Server!Next

LEMMA ServerAlways == ServingSpec => [](subject = "server" => ServerInv)
  <1>1. ServingInit => (subject = "server" => ServerInv)
    BY ServerBegins DEF ServingInit, UpstreamsInit
  <1>2. /\ (subject = "server" => ServerInv)
        /\ [ServingNext]_servingVars
        => (subject = "server" => ServerInv)'
    BY ServerTakesStep, ServerStep, SubjectStays
  <1> QED BY <1>1, <1>2, PTL DEF ServingSpec

(* A statement whose caller was told it succeeded is in the file and stays *)
(* there through every later crash and restart; requests are served only   *)
(* over a schema of exactly the running build's migrations, for any set of *)
(* builds, whatever prefixes their migrations share.                       *)
THEOREM FileIsTrustedHolds == ServingSpec => []FileIsTrusted
  <1>1. (subject = "server" => ServerInv) => FileIsTrusted
    BY DEF ServerInv, CommitsKept, SchemaKept, SchemaExact, FileIsTrusted,
           ResolvedIsCommitted, ServedSchemaExact,
           Server!ResolvedIsCommitted, Server!ServedSchemaExact,
           Server!Listening
  <1> QED BY <1>1, ServerAlways, PTL
-----------------------------------------------------------------------------
(* The audit ledger.  What the table and the numbers given out have to do  *)
(* with each other, and from that the chain of the Node adapter.           *)

Row ==
  [id : Writers \cup {0}, stamp : Nat, seq : Nat,
   previous : Writers \cup {0}, whole : BOOLEAN]

Places == {"idle", "reading", "mark", "stopped", "done"}

AuditTypes ==
  /\ platform \in {"node", "cloudflare", "supabase"}
  /\ clock \in Nat /\ issued \in Nat /\ degraded \in BOOLEAN
  /\ writer \in [Writers -> [pc : {"idle", "prepared", "inserted", "committed"},
                             stamp : Nat, seq : Nat]]
  /\ rows \subseteq Row /\ IsFiniteSet(rows)

\* An event is in the table only once its writer committed it, and no two
\* rows bear one id.  The row of a degraded instance has the id 0.
OneRowEach ==
  /\ \A row \in rows : row.id # 0 => writer[row.id].pc = "committed"
  /\ \A a, b \in rows : a.id = b.id => a = b

\* A number is one row's, or of one writer that has not committed its row.
NumbersDiffer ==
  platform # "cloudflare" =>
    /\ \A row \in rows : row.seq <= issued
    /\ \A a, b \in rows : a.seq = b.seq => a = b
    /\ \A w \in Writers : writer[w].pc = "inserted" =>
         /\ writer[w].seq <= issued
         /\ \A row \in rows : row.seq # writer[w].seq
         /\ \A v \in Writers \ {w} :
              writer[v].pc = "inserted" => writer[v].seq # writer[w].seq

\* Only Supabase draws a number before the row is committed.
InsertedThere ==
  platform # "supabase" => \A w \in Writers : writer[w].pc # "inserted"

\* On Node the numbers given out are exactly those of the rows.
Contiguous ==
  platform = "node" =>
    /\ \A row \in rows : row.seq >= 1
    /\ \A n \in 1 .. issued : \E row \in rows : row.seq = n

Table ==
  AuditTypes /\ OneRowEach /\ NumbersDiffer /\ InsertedThere /\ Contiguous

ChainKept == Table /\ Audit!ChainUnbroken

LEMMA TableBegins == Audit!Init => ChainKept
  <1> SUFFICES ASSUME Audit!Init PROVE ChainKept OBVIOUS
  <1>1. /\ platform \in {"node", "cloudflare", "supabase"}
        /\ clock = 0 /\ rows = {} /\ issued = 0 /\ degraded = FALSE
        /\ writer = [w \in Writers |-> [pc |-> "idle", stamp |-> 0, seq |-> 0]]
    BY DEF Audit!Init
  <1>2. AuditTypes BY <1>1, FS_EmptySet DEF AuditTypes
  <1> QED
    BY <1>1, <1>2
    DEF ChainKept, Table, OneRowEach, NumbersDiffer, InsertedThere, Contiguous,
        Audit!ChainUnbroken

(* What the INSERT reads as the last row: none, or the one numbered last.  *)
LEMMA PreviousIsLast ==
  ASSUME Table, platform = "node", NEW w
  PROVE  /\ Audit!Previous(w) \in Writers \cup {0}
         /\ issued = 0 => Audit!Previous(w) = 0
         /\ issued # 0 => \E row \in rows : row.seq = issued /\ row.id = Audit!Previous(w)
  <1>1. CASE issued = 0
    <2>1. Audit!Numbered(issued) = {}
      BY <1>1 DEF Table, Contiguous, Audit!Numbered
    <2> QED BY <1>1, <2>1 DEF Audit!Previous
  <1>2. CASE issued # 0
    <2>1. issued \in 1 .. issued BY <1>2 DEF Table, AuditTypes
    <2>2. PICK last \in rows : last.seq = issued
      BY <2>1 DEF Table, Contiguous
    <2>3. last \in Audit!Numbered(issued)
      BY <2>2 DEF Audit!Numbered
    <2>4. (CHOOSE row \in Audit!Numbered(issued) : TRUE) \in Audit!Numbered(issued)
      BY <2>3
    <2>5. Audit!Previous(w) = (CHOOSE row \in Audit!Numbered(issued) : TRUE).id
      BY <2>3 DEF Audit!Previous
    <2>6. \A row \in rows : row.id \in Writers \cup {0}
      BY DEF Table, AuditTypes, Row
    <2> QED BY <1>2, <2>4, <2>5, <2>6 DEF Audit!Numbered
  <1> QED BY <1>1, <1>2

\* A row that is new in the table, and whose it is.
Enters(new) ==
  /\ new \in Row /\ rows' = rows \cup {new}
  /\ \A row \in rows : row.id # new.id
  /\ new.id # 0 => writer'[new.id].pc = "committed"

LEMMA EntersOnce ==
  ASSUME AuditTypes, OneRowEach, NEW new, Enters(new),
         \A w \in Writers : writer[w].pc = "committed" => writer'[w].pc = "committed"
  PROVE  rows' \subseteq Row /\ IsFiniteSet(rows)' /\ OneRowEach'
  <1>1. rows' \subseteq Row BY DEF AuditTypes, Enters
  <1>2. IsFiniteSet(rows') BY FS_AddElement DEF AuditTypes, Enters
  <1>3. \A row \in rows : row.id \in Writers \cup {0} BY DEF AuditTypes, Row
  <1> QED BY <1>1, <1>2, <1>3 DEF OneRowEach, Enters

\* What a writer's step does to the writers: only w moves.
Moves(w, entry) ==
  /\ entry \in [pc : {"idle", "prepared", "inserted", "committed"},
                stamp : Nat, seq : Nat]
  /\ writer' = [writer EXCEPT ![w] = entry]

LEMMA MovesOne ==
  ASSUME AuditTypes, NEW w \in Writers, NEW entry, Moves(w, entry)
  PROVE  /\ writer'[w] = entry
         /\ \A v \in Writers \ {w} : writer'[v] = writer[v]
         /\ writer' \in [Writers -> [pc : {"idle", "prepared", "inserted", "committed"},
                                     stamp : Nat, seq : Nat]]
  BY DEF AuditTypes, Moves

LEMMA Prepares ==
  ASSUME ChainKept, NEW w \in Writers, Audit!Prepare(w) PROVE ChainKept'
  <1> DEFINE entry == [pc |-> "prepared", stamp |-> clock, seq |-> issued]
  <1>1. Table /\ AuditTypes BY DEF ChainKept, Table
  <1>2. /\ writer[w].pc = "idle"
        /\ UNCHANGED <<platform, clock, rows, issued, degraded>>
    BY DEF Audit!Prepare
  <1>3. entry \in [pc : {"idle", "prepared", "inserted", "committed"},
                   stamp : Nat, seq : Nat]
    BY <1>1 DEF AuditTypes
  <1>4. entry.pc = "prepared" OBVIOUS
  <1>5. writer' = [writer EXCEPT ![w] = entry] BY DEF Audit!Prepare
  <1> HIDE DEF entry
  <1>6. /\ writer'[w] = entry
        /\ \A v \in Writers \ {w} : writer'[v] = writer[v]
        /\ writer' \in [Writers -> [pc : {"idle", "prepared", "inserted", "committed"},
                                    stamp : Nat, seq : Nat]]
    BY <1>1, <1>3, <1>5, MovesOne DEF Moves
  <1>7. AuditTypes' BY <1>1, <1>2, <1>6 DEF AuditTypes
  <1>8. \A v \in Writers : /\ writer[v].pc = "committed" => writer'[v].pc = "committed"
                           /\ writer'[v].pc = "inserted" => writer'[v] = writer[v]
    BY <1>2, <1>4, <1>6
  <1>9. \A row \in rows : row.id \in Writers \cup {0} BY <1>1 DEF AuditTypes, Row
  <1>10. OneRowEach' BY <1>1, <1>2, <1>8, <1>9 DEF Table, OneRowEach
  <1>11. NumbersDiffer' BY <1>1, <1>2, <1>8 DEF Table, NumbersDiffer
  <1>12. InsertedThere' BY <1>1, <1>2, <1>8 DEF Table, InsertedThere
  <1>13. Contiguous' BY <1>1, <1>2 DEF Table, Contiguous
  <1> QED
    BY <1>2, <1>7, <1>10, <1>11, <1>12, <1>13
    DEF ChainKept, Table, Audit!ChainUnbroken

\* Appending takes the next number and names the row before.
LEMMA NodeAppendsKeeps ==
  ASSUME ChainKept, NEW w \in Writers, Audit!NodeAppends(w) PROVE ChainKept'
  <1> DEFINE new == [id |-> w, stamp |-> writer[w].stamp, seq |-> issued + 1,
                     previous |-> Audit!Previous(w), whole |-> TRUE]
             entry == [writer[w] EXCEPT !.pc = "committed"]
  <1>1. Table /\ AuditTypes BY DEF ChainKept, Table
  <1>2. /\ platform = "node" /\ writer[w].pc = "prepared"
        /\ rows' = rows \cup {new} /\ issued' = issued + 1
        /\ UNCHANGED <<platform, clock, degraded>>
    BY DEF Audit!NodeAppends, Audit!Written
  <1>3. writer' = [writer EXCEPT ![w] = entry]
    BY DEF Audit!NodeAppends
  <1>4. /\ entry \in [pc : {"idle", "prepared", "inserted", "committed"},
                      stamp : Nat, seq : Nat]
        /\ entry.pc = "committed"
    BY <1>1 DEF AuditTypes
  <1>5. Audit!Previous(w) \in Writers \cup {0} BY <1>1, <1>2, PreviousIsLast
  <1>6. /\ new \in Row /\ new.id = w
        /\ new.seq = issued + 1 /\ new.previous = Audit!Previous(w)
    BY <1>1, <1>5 DEF AuditTypes, Row
  <1> HIDE DEF new, entry
  <1>7. /\ writer'[w] = entry
        /\ \A v \in Writers \ {w} : writer'[v] = writer[v]
        /\ writer' \in [Writers -> [pc : {"idle", "prepared", "inserted", "committed"},
                                    stamp : Nat, seq : Nat]]
    BY <1>1, <1>3, <1>4, MovesOne DEF Moves
  <1>8. \A v \in Writers : /\ writer[v].pc = "committed" => writer'[v].pc = "committed"
                           /\ writer'[v].pc = "inserted" => writer'[v] = writer[v]
    BY <1>2, <1>4, <1>7
  <1>9. Enters(new)
    <2>1. \A row \in rows : row.id # w
      BY <1>1, <1>2, ServingAssumption DEF Table, OneRowEach
    <2> QED BY <1>2, <1>4, <1>6, <1>7, <2>1 DEF Enters
  <1>10. rows' \subseteq Row /\ IsFiniteSet(rows)' /\ OneRowEach'
    BY <1>1, <1>8, <1>9, EntersOnce DEF Table
  <1>11. AuditTypes' BY <1>1, <1>2, <1>7, <1>10 DEF AuditTypes
  <1>12. InsertedThere' BY <1>1, <1>2, <1>8 DEF Table, InsertedThere
  <1>13. NumbersDiffer'
    <2>1. /\ \A row \in rows : row.seq \in Nat /\ row.seq <= issued
          /\ \A a, b \in rows : a.seq = b.seq => a = b
          /\ issued \in Nat
      BY <1>1, <1>2 DEF Table, NumbersDiffer, AuditTypes, Row
    <2>2. \A row \in rows' : row.seq <= issued'
      BY <1>2, <1>6, <2>1
    <2>3. \A a, b \in rows' : a.seq = b.seq => a = b
      BY <1>2, <1>6, <2>1
    <2>4. \A v \in Writers : writer'[v].pc # "inserted"
      BY <1>2, <1>12 DEF InsertedThere
    <2> QED BY <2>2, <2>3, <2>4 DEF NumbersDiffer
  <1>14. Contiguous'
    <2>1. \A row \in rows' : row.seq >= 1
      BY <1>1, <1>2, <1>6 DEF Table, Contiguous, AuditTypes
    <2>2. ASSUME NEW n \in 1 .. issued' PROVE \E row \in rows' : row.seq = n
      <3>1. CASE n = issued + 1 BY <1>2, <1>6, <3>1
      <3>2. CASE n # issued + 1
        <4>1. n \in 1 .. issued BY <1>1, <1>2, <3>2 DEF AuditTypes
        <4> QED BY <1>1, <1>2, <4>1 DEF Table, Contiguous
      <3> QED BY <3>1, <3>2
    <2> QED BY <2>1, <2>2 DEF Contiguous
  <1>15. Audit!ChainUnbroken'
    <2>1. ASSUME NEW row \in rows
          PROVE  IF row.seq = 1 THEN row.previous = 0
                 ELSE \E before \in rows' : before.seq = row.seq - 1 /\ before.id = row.previous
      BY <1>2 DEF ChainKept, Audit!ChainUnbroken
    <2>2. CASE issued = 0
      <3>1. new.seq = 1 /\ new.previous = 0
        BY <1>1, <1>2, <1>6, <2>2, PreviousIsLast
      <3> QED BY <1>2, <2>1, <3>1 DEF Audit!ChainUnbroken
    <2>3. CASE issued # 0
      <3>1. PICK last \in rows : last.seq = issued /\ last.id = new.previous
        BY <1>1, <1>2, <1>6, <2>3, PreviousIsLast
      <3>2. last \in rows' /\ last.seq = new.seq - 1
        BY <1>1, <1>2, <1>6, <3>1 DEF AuditTypes
      <3>3. new.seq # 1
        BY <1>1, <1>6, <2>3 DEF AuditTypes
      <3> QED BY <1>2, <2>1, <3>1, <3>2, <3>3 DEF Audit!ChainUnbroken
    <2> QED BY <2>2, <2>3
  <1> QED BY <1>10, <1>11, <1>12, <1>13, <1>14, <1>15 DEF ChainKept, Table

\* On the cloud adapters there is no chain.
LEMMA CloudflareAppendsKeeps ==
  ASSUME ChainKept, NEW w \in Writers, Audit!CloudflareAppends(w)
  PROVE  ChainKept'
  <1> DEFINE new == [id |-> w, stamp |-> writer[w].stamp, seq |-> 0,
                     previous |-> 0, whole |-> TRUE]
             entry == [writer[w] EXCEPT !.pc = "committed"]
  <1>1. Table /\ AuditTypes BY DEF ChainKept, Table
  <1>2. /\ platform = "cloudflare" /\ writer[w].pc = "prepared"
        /\ rows' = rows \cup {new}
        /\ UNCHANGED <<platform, clock, issued, degraded>>
    BY DEF Audit!CloudflareAppends, Audit!Written
  <1>3. writer' = [writer EXCEPT ![w] = entry]
    BY DEF Audit!CloudflareAppends
  <1>4. /\ entry \in [pc : {"idle", "prepared", "inserted", "committed"},
                      stamp : Nat, seq : Nat]
        /\ entry.pc = "committed"
    BY <1>1 DEF AuditTypes
  <1>5. new \in Row /\ new.id = w
    BY <1>1 DEF AuditTypes, Row
  <1> HIDE DEF new, entry
  <1>6. /\ writer'[w] = entry
        /\ \A v \in Writers \ {w} : writer'[v] = writer[v]
        /\ writer' \in [Writers -> [pc : {"idle", "prepared", "inserted", "committed"},
                                    stamp : Nat, seq : Nat]]
    BY <1>1, <1>3, <1>4, MovesOne DEF Moves
  <1>7. \A v \in Writers : /\ writer[v].pc = "committed" => writer'[v].pc = "committed"
                           /\ writer'[v].pc = "inserted" => writer'[v] = writer[v]
    BY <1>2, <1>4, <1>6
  <1>8. Enters(new)
    <2>1. \A row \in rows : row.id # w
      BY <1>1, <1>2, ServingAssumption DEF Table, OneRowEach
    <2> QED BY <1>2, <1>4, <1>5, <1>6, <2>1 DEF Enters
  <1>9. rows' \subseteq Row /\ IsFiniteSet(rows)' /\ OneRowEach'
    BY <1>1, <1>7, <1>8, EntersOnce DEF Table
  <1>10. AuditTypes' BY <1>1, <1>2, <1>6, <1>9 DEF AuditTypes
  <1>11. InsertedThere' BY <1>1, <1>2, <1>7 DEF Table, InsertedThere
  <1> QED
    BY <1>2, <1>9, <1>10, <1>11
    DEF ChainKept, Table, NumbersDiffer, Contiguous, Audit!ChainUnbroken

LEMMA SupabaseInsertsKeeps ==
  ASSUME ChainKept, NEW w \in Writers, Audit!SupabaseInserts(w)
  PROVE  ChainKept'
  <1> DEFINE n == issued + 1
             entry == [writer[w] EXCEPT !.pc = "inserted", !.seq = n]
  <1>1. Table /\ AuditTypes BY DEF ChainKept, Table
  <1>n. n \in Nat /\ n = issued + 1 BY <1>1 DEF AuditTypes
  <1>2. /\ platform = "supabase" /\ writer[w].pc = "prepared"
        /\ issued' = n
        /\ UNCHANGED <<platform, clock, rows, degraded>>
    BY DEF Audit!SupabaseInserts
  <1>3. writer' = [writer EXCEPT ![w] = entry]
    BY DEF Audit!SupabaseInserts
  <1> HIDE DEF n
  <1>4. /\ entry \in [pc : {"idle", "prepared", "inserted", "committed"},
                      stamp : Nat, seq : Nat]
        /\ entry.pc = "inserted" /\ entry.seq = n
    BY <1>1, <1>n DEF AuditTypes
  <1> HIDE DEF entry
  <1>5. /\ writer'[w] = entry
        /\ \A v \in Writers \ {w} : writer'[v] = writer[v]
        /\ writer' \in [Writers -> [pc : {"idle", "prepared", "inserted", "committed"},
                                    stamp : Nat, seq : Nat]]
    BY <1>1, <1>3, <1>4, MovesOne DEF Moves
  <1>6. AuditTypes' BY <1>n, <1>1, <1>2, <1>5 DEF AuditTypes
  <1>7. \A row \in rows : row.id \in Writers \cup {0} /\ row.seq \in Nat
    BY <1>1 DEF AuditTypes, Row
  <1>8. OneRowEach' BY <1>1, <1>2, <1>5, <1>7 DEF Table, OneRowEach
  <1>9. NumbersDiffer'
    <2>1. /\ issued \in Nat
          /\ \A row \in rows : row.seq <= issued
          /\ \A a, b \in rows : a.seq = b.seq => a = b
          /\ \A v \in Writers : writer[v].seq \in Nat
      BY <1>1, <1>2 DEF Table, NumbersDiffer, AuditTypes
    <2>2. \A row \in rows' : row.seq <= issued' BY <1>n, <1>2, <1>7, <2>1
    <2>3. ASSUME NEW v \in Writers, writer'[v].pc = "inserted"
          PROVE  /\ writer'[v].seq <= issued'
                 /\ \A row \in rows' : row.seq # writer'[v].seq
                 /\ \A u \in Writers \ {v} :
                      writer'[u].pc = "inserted" => writer'[u].seq # writer'[v].seq
      <3>1. CASE v = w
        <4>1. \A u \in Writers \ {w} : writer[u].pc = "inserted" =>
                writer[u].seq <= issued
          BY <1>1, <1>2 DEF Table, NumbersDiffer
        <4> QED BY <1>n, <1>2, <1>4, <1>5, <1>7, <2>1, <3>1, <4>1
      <3>2. CASE v # w
        <4>1. /\ writer[v].seq <= issued
              /\ \A row \in rows : row.seq # writer[v].seq
              /\ \A u \in Writers \ {v} :
                   writer[u].pc = "inserted" => writer[u].seq # writer[v].seq
          BY <1>1, <1>2, <1>5, <2>3, <3>2 DEF Table, NumbersDiffer
        <4>2. writer'[v] = writer[v] BY <1>5, <3>2
        <4> QED BY <1>n, <1>2, <1>4, <1>5, <2>1, <4>1, <4>2
      <3> QED BY <3>1, <3>2
    <2> QED BY <1>2, <2>1, <2>2, <2>3 DEF NumbersDiffer
  <1> QED
    BY <1>2, <1>6, <1>8, <1>9
    DEF ChainKept, Table, InsertedThere, Contiguous, Audit!ChainUnbroken

LEMMA SupabaseCommitsKeeps ==
  ASSUME ChainKept, NEW w \in Writers, Audit!SupabaseCommits(w)
  PROVE  ChainKept'
  <1> DEFINE new == [id |-> w, stamp |-> writer[w].stamp, seq |-> writer[w].seq,
                     previous |-> 0, whole |-> TRUE]
             entry == [writer[w] EXCEPT !.pc = "committed"]
  <1>1. Table /\ AuditTypes BY DEF ChainKept, Table
  <1>2. /\ platform = "supabase" /\ writer[w].pc = "inserted"
        /\ rows' = rows \cup {new}
        /\ UNCHANGED <<platform, clock, issued, degraded>>
    BY DEF Audit!SupabaseCommits, Audit!Written
  <1>3. writer' = [writer EXCEPT ![w] = entry]
    BY DEF Audit!SupabaseCommits
  <1>4. /\ entry \in [pc : {"idle", "prepared", "inserted", "committed"},
                      stamp : Nat, seq : Nat]
        /\ entry.pc = "committed"
    BY <1>1 DEF AuditTypes
  <1>5. new \in Row /\ new.id = w /\ new.seq = writer[w].seq
    BY <1>1 DEF AuditTypes, Row
  <1> HIDE DEF new, entry
  <1>6. /\ writer'[w] = entry
        /\ \A v \in Writers \ {w} : writer'[v] = writer[v]
        /\ writer' \in [Writers -> [pc : {"idle", "prepared", "inserted", "committed"},
                                    stamp : Nat, seq : Nat]]
    BY <1>1, <1>3, <1>4, MovesOne DEF Moves
  <1>7. \A v \in Writers : /\ writer[v].pc = "committed" => writer'[v].pc = "committed"
                           /\ writer'[v].pc = "inserted" =>
                                v # w /\ writer[v].pc = "inserted" /\ writer'[v] = writer[v]
    BY <1>2, <1>4, <1>6
  <1>8. Enters(new)
    <2>1. \A row \in rows : row.id # w
      BY <1>1, <1>2, ServingAssumption DEF Table, OneRowEach
    <2> QED BY <1>2, <1>4, <1>5, <1>6, <2>1 DEF Enters
  <1>9. rows' \subseteq Row /\ IsFiniteSet(rows)' /\ OneRowEach'
    BY <1>1, <1>7, <1>8, EntersOnce DEF Table
  <1>10. AuditTypes' BY <1>1, <1>2, <1>6, <1>9 DEF AuditTypes
  <1>11. NumbersDiffer'
    <2>1. /\ \A row \in rows : row.seq <= issued
          /\ \A a, b \in rows : a.seq = b.seq => a = b
          /\ writer[w].seq <= issued
          /\ \A row \in rows : row.seq # writer[w].seq
      BY <1>1, <1>2 DEF Table, NumbersDiffer
    <2>2. \A row \in rows' : row.seq <= issued' BY <1>2, <1>5, <2>1
    <2>3. \A a, b \in rows' : a.seq = b.seq => a = b BY <1>2, <1>5, <2>1
    <2>4. ASSUME NEW v \in Writers, writer'[v].pc = "inserted"
          PROVE  /\ writer'[v].seq <= issued'
                 /\ \A row \in rows' : row.seq # writer'[v].seq
                 /\ \A u \in Writers \ {v} :
                      writer'[u].pc = "inserted" => writer'[u].seq # writer'[v].seq
      <3>1. v # w /\ writer[v].pc = "inserted" /\ writer'[v] = writer[v]
        BY <1>7, <2>4
      <3>2. /\ writer[v].seq <= issued
            /\ \A row \in rows : row.seq # writer[v].seq
            /\ \A u \in Writers \ {v} :
                 writer[u].pc = "inserted" => writer[u].seq # writer[v].seq
        BY <1>1, <1>2, <3>1 DEF Table, NumbersDiffer
      <3>3. new.seq # writer[v].seq BY <1>2, <1>5, <3>1, <3>2
      <3> QED BY <1>2, <1>7, <3>1, <3>2, <3>3
    <2> QED BY <2>2, <2>3, <2>4 DEF NumbersDiffer
  <1> QED
    BY <1>2, <1>9, <1>10, <1>11
    DEF ChainKept, Table, InsertedThere, Contiguous, Audit!ChainUnbroken

\* What was purged was of Cloudflare, what was altered of Supabase.
LEMMA PurgeKeeps ==
  ASSUME ChainKept, NEW cutoff, Audit!Purge(cutoff) PROVE ChainKept'
  <1>1. /\ platform = "cloudflare" /\ rows' \subseteq rows
        /\ UNCHANGED <<platform, clock, writer, issued, degraded>>
    BY DEF Audit!Purge
  <1>2. IsFiniteSet(rows') BY <1>1, FS_Subset DEF ChainKept, Table, AuditTypes
  <1> QED
    BY <1>1, <1>2
    DEF ChainKept, Table, AuditTypes, OneRowEach, NumbersDiffer, InsertedThere,
        Contiguous, Audit!ChainUnbroken

LEMMA AlterKeeps ==
  ASSUME ChainKept, NEW row \in rows, Audit!Alter(row) PROVE ChainKept'
  <1> DEFINE new == [row EXCEPT !.whole = FALSE]
  <1>1. Table /\ AuditTypes BY DEF ChainKept, Table
  <1>2. /\ platform = "supabase" /\ rows' = (rows \ {row}) \cup {new}
        /\ UNCHANGED <<platform, clock, writer, issued, degraded>>
    BY DEF Audit!Alter
  <1>3. new \in Row /\ new.id = row.id /\ new.seq = row.seq
    BY <1>1 DEF AuditTypes, Row
  <1> HIDE DEF new
  <1>4. IsFiniteSet(rows')
    BY <1>1, <1>2, FS_RemoveElement, FS_AddElement DEF AuditTypes
  <1>5. AuditTypes' BY <1>1, <1>2, <1>3, <1>4 DEF AuditTypes
  <1>6. OneRowEach' BY <1>1, <1>2, <1>3 DEF Table, OneRowEach
  <1>7. NumbersDiffer' BY <1>1, <1>2, <1>3 DEF Table, NumbersDiffer
  <1> QED
    BY <1>2, <1>5, <1>6, <1>7
    DEF ChainKept, Table, InsertedThere, Contiguous, Audit!ChainUnbroken

\* The event of a degraded instance: its id is 0, and it is written once.
LEMMA MarkKeeps ==
  ASSUME ChainKept, Audit!MarkDegraded, \A row \in rows : row.id # 0
  PROVE  ChainKept'
  <1> DEFINE n == issued + 1
             new == [Audit!NoRow EXCEPT !.stamp = clock, !.whole = TRUE,
                                        !.seq = n]
  <1>1. Table /\ AuditTypes BY DEF ChainKept, Table
  <1>n. n \in Nat /\ n = issued + 1 BY <1>1 DEF AuditTypes
  <1>2. /\ platform = "supabase" /\ UNCHANGED <<platform, clock, writer>>
        /\ degraded' \in BOOLEAN
        /\ \/ UNCHANGED <<rows, issued>>
           \/ issued' = n /\ rows' = rows \cup {new}
    BY <1>1 DEF Audit!MarkDegraded, AuditTypes
  <1> HIDE DEF n
  <1>3. new \in Row /\ new.id = 0 /\ new.seq = n
    BY <1>1, <1>n DEF AuditTypes, Row, Audit!NoRow
  <1> HIDE DEF new
  <1>4. CASE UNCHANGED <<rows, issued>>
    BY <1>1, <1>2, <1>4
    DEF ChainKept, Table, AuditTypes, OneRowEach, NumbersDiffer, InsertedThere,
        Contiguous, Audit!ChainUnbroken
  <1>5. CASE issued' = n /\ rows' = rows \cup {new}
    <2>1. IsFiniteSet(rows') BY <1>1, <1>5, FS_AddElement DEF AuditTypes
    <2>2. AuditTypes' BY <1>n, <1>1, <1>2, <1>3, <1>5, <2>1 DEF AuditTypes
    <2>3. OneRowEach' BY <1>1, <1>2, <1>3, <1>5 DEF Table, OneRowEach
    <2>4. NumbersDiffer'
      <3>1. /\ issued \in Nat
            /\ \A row \in rows : row.seq \in Nat /\ row.seq <= issued
            /\ \A a, b \in rows : a.seq = b.seq => a = b
            /\ \A w \in Writers : writer[w].seq \in Nat
        BY <1>1, <1>2 DEF Table, NumbersDiffer, AuditTypes, Row
      <3>2. /\ \A row \in rows' : row.seq <= issued'
            /\ \A a, b \in rows' : a.seq = b.seq => a = b
        BY <1>n, <1>3, <1>5, <3>1
      <3>3. ASSUME NEW w \in Writers, writer[w].pc = "inserted"
            PROVE  /\ writer[w].seq <= issued'
                   /\ \A row \in rows' : row.seq # writer[w].seq
        <4>1. /\ writer[w].seq <= issued
              /\ \A row \in rows : row.seq # writer[w].seq
          BY <1>1, <1>2, <3>3 DEF Table, NumbersDiffer
        <4> QED BY <1>n, <1>3, <1>5, <3>1, <4>1
      <3>4. \A w \in Writers : writer[w].pc = "inserted" =>
              \A v \in Writers \ {w} :
                writer[v].pc = "inserted" => writer[v].seq # writer[w].seq
        BY <1>1, <1>2 DEF Table, NumbersDiffer
      <3> QED BY <1>2, <3>2, <3>3, <3>4 DEF NumbersDiffer
    <2> QED
      BY <1>2, <2>2, <2>3, <2>4
      DEF ChainKept, Table, InsertedThere, Contiguous, Audit!ChainUnbroken
  <1> QED BY <1>2, <1>4, <1>5

-----------------------------------------------------------------------------
(* The walk.  The rows of a table can be counted off by how many are newer, *)
(* so that a page is the newest of what remains and the cursor, its last    *)
(* row, parts the shown from the rest.                                      *)

Ordered(S) ==
  /\ \A a \in S : ~Audit!Before(a, a)
  /\ \A a, b \in S : a # b => Audit!Before(a, b) \/ Audit!Before(b, a)
  /\ \A a, b, c \in S :
       Audit!Before(a, b) /\ Audit!Before(b, c) => Audit!Before(a, c)

Rank(row, S) == Cardinality(Audit!Newer(row, S))

\* AuditLedger counts with the same operator.
LEMMA OneCardinality == \A S : Audit!Cardinality(S) = Cardinality(S)
  BY DEF Audit!Cardinality, Cardinality

LEMMA RankFalls ==
  ASSUME NEW S, IsFiniteSet(S), Ordered(S)
  PROVE  /\ \A a \in S : Rank(a, S) \in Nat /\ Rank(a, S) < Cardinality(S)
         /\ \A a, b \in S : Audit!Before(a, b) => Rank(b, S) < Rank(a, S)
  <1>0. Cardinality(S) \in Nat BY FS_CardinalityType
  <1>1. ASSUME NEW a \in S
        PROVE  Rank(a, S) \in Nat /\ Rank(a, S) < Cardinality(S)
    <2>1. Audit!Newer(a, S) \in SUBSET S /\ a \notin Audit!Newer(a, S)
      BY DEF Audit!Newer, Ordered
    <2>2. /\ IsFiniteSet(Audit!Newer(a, S))
          /\ Cardinality(Audit!Newer(a, S)) <= Cardinality(S)
          /\ Cardinality(S) = Cardinality(Audit!Newer(a, S)) => S = Audit!Newer(a, S)
      BY <2>1, FS_Subset
    <2>3. Cardinality(Audit!Newer(a, S)) \in Nat BY <2>2, FS_CardinalityType
    <2> QED BY <1>0, <2>1, <2>2, <2>3 DEF Rank
  <1>2. ASSUME NEW a \in S, NEW b \in S, Audit!Before(a, b)
        PROVE  Rank(b, S) < Rank(a, S)
    <2> DEFINE A == Audit!Newer(a, S)
               B == Audit!Newer(b, S)
    <2>1. B \in SUBSET A BY <1>2 DEF Audit!Newer, Ordered
    <2>2. b \in A /\ b \notin B BY <1>2 DEF Audit!Newer, Ordered
    <2>3. A \in SUBSET S BY DEF Audit!Newer
    <2> HIDE DEF A, B
    <2>4. IsFiniteSet(A) BY <2>3, FS_Subset
    <2>5. /\ IsFiniteSet(B) /\ Cardinality(B) <= Cardinality(A)
          /\ Cardinality(A) = Cardinality(B) => A = B
      BY <2>1, <2>4, FS_Subset
    <2>6. Cardinality(A) \in Nat /\ Cardinality(B) \in Nat
      BY <2>4, <2>5, FS_CardinalityType
    <2>7. Cardinality(B) < Cardinality(A) BY <2>2, <2>5, <2>6
    <2> QED BY <2>7 DEF Rank, A, B
  <1> QED BY <1>1, <1>2

LEMMA RankParts ==
  ASSUME NEW S, IsFiniteSet(S), Ordered(S)
  PROVE  /\ \A a, b \in S : Rank(a, S) = Rank(b, S) => a = b
         /\ \A a, b \in S : Rank(b, S) < Rank(a, S) <=> Audit!Before(a, b)
  <1>1. /\ \A a \in S : Rank(a, S) \in Nat
        /\ \A a, b \in S : Audit!Before(a, b) => Rank(b, S) < Rank(a, S)
    BY RankFalls
  <1>2. \A a, b \in S : a # b => Audit!Before(a, b) \/ Audit!Before(b, a)
    BY DEF Ordered
  <1> QED BY <1>1, <1>2

\* As many ranks as rows, and no two rows of one rank
LEMMA RankTaken ==
  ASSUME NEW S, IsFiniteSet(S), Ordered(S),
         NEW k \in Nat, k < Cardinality(S)
  PROVE  \E a \in S : Rank(a, S) = k
  <1> DEFINE n == Cardinality(S)
             T == 0 .. (n - 1)
             f == [a \in S |-> Rank(a, S)]
  <1>1. n \in Nat BY FS_CardinalityType
  <1>2. IsFiniteSet(T) /\ Cardinality(T) = n
    <2>1. 0 \in Int /\ n - 1 \in Int BY <1>1
    <2>2. /\ IsFiniteSet(T)
          /\ Cardinality(T) = IF 0 > n - 1 THEN 0 ELSE (n - 1) - 0 + 1
      BY <2>1, FS_Interval
    <2> QED BY <1>1, <2>2
  <1>3. f \in [S -> T] BY <1>1, RankFalls
  <1>4. \A a, b \in S : f[a] = f[b] => a = b BY RankParts
  <1>5. f \in Injection(S, T) BY <1>3, <1>4, Fun_IsInj
  <1>6. f \in Surjection(S, T) BY <1>2, <1>5, FS_Injection
  <1>7. k \in T BY <1>1
  <1> HIDE DEF T
  <1>8. \E a \in S : f[a] = k BY <1>6, <1>7, Fun_SurjectionProperties
  <1> QED BY <1>8

LEMMA Smaller ==
  ASSUME NEW n \in Nat, NEW m \in Nat
  PROVE  Audit!Min({n, m}) = IF n <= m THEN n ELSE m
  <1> DEFINE least == IF n <= m THEN n ELSE m
  <1>1. least \in {n, m} /\ \A y \in {n, m} : least <= y OBVIOUS
  <1>2. \A x \in {n, m} : (\A y \in {n, m} : x <= y) => x = least OBVIOUS
  <1> HIDE DEF least
  <1>3. Audit!Min({n, m}) = CHOOSE x \in {n, m} : \A y \in {n, m} : x <= y
    BY DEF Audit!Min
  <1>4. Audit!Min({n, m}) = least BY <1>1, <1>2, <1>3
  <1> QED BY <1>4 DEF least

\* The newest rows that remain, each once; the last of a page that has a next
\* one parts them from the others; without a next one it is all that remains.
LEMMA PageParts ==
  ASSUME IsFiniteSet(Audit!Remaining), Ordered(Audit!Remaining)
  PROVE  /\ Audit!Page \in Seq(Audit!Remaining)
         /\ \A i, j \in 1 .. Len(Audit!Page) :
              Audit!Page[i] = Audit!Page[j] => i = j
         /\ Audit!HasNext =>
              /\ Len(Audit!Page) >= 1
              /\ \A row \in Audit!Remaining :
                   \/ Audit!Before(row, Audit!Page[Len(Audit!Page)])
                   \/ \E i \in 1 .. Len(Audit!Page) : row = Audit!Page[i]
              /\ \A i \in 1 .. Len(Audit!Page) :
                   ~Audit!Before(Audit!Page[i], Audit!Page[Len(Audit!Page)])
         /\ ~Audit!HasNext =>
              \A row \in Audit!Remaining :
                \E i \in 1 .. Len(Audit!Page) : row = Audit!Page[i]
  <1> DEFINE S == Audit!Remaining
             n == Cardinality(S)
             m == IF Limit <= n THEN Limit ELSE n
             P == Audit!Page
  <1>1. n \in Nat BY FS_CardinalityType
  <1>2. Limit \in Nat /\ Limit >= 1 BY ServingAssumption
  <1>3. m \in Nat BY <1>1, <1>2
  <1>4. P = [i \in 1 .. m |-> CHOOSE row \in S : Rank(row, S) = i - 1]
    <2>1. Audit!Min({Limit, n}) = m BY <1>1, <1>2, Smaller
    <2>2. P = [i \in 1 .. Audit!Min({Limit, n}) |->
                 CHOOSE row \in S : Cardinality(Audit!Newer(row, S)) = i - 1]
      BY SMTT(60), OneCardinality DEF Audit!Page
    <2> QED BY <2>1, <2>2 DEF Rank
  <1>5. m <= n /\ m <= Limit /\ (m = n \/ m = Limit) BY <1>1, <1>2
  <1>6. IsFiniteSet(S) /\ Ordered(S) OBVIOUS
  <1>7. /\ Audit!HasNext => m = Limit
        /\ ~Audit!HasNext => m = n
    <2>1. Len(P) = m BY <1>3, <1>4
    <2>2. Audit!HasNext <=> IF platform = "cloudflare" THEN n > Limit ELSE Len(P) = Limit
      BY OneCardinality DEF Audit!HasNext
    <2> QED BY <1>1, <1>2, <2>1, <2>2
  <1> HIDE DEF S, n, m, P
  <1>8. \A i \in 1 .. m : P[i] \in S /\ Rank(P[i], S) = i - 1
    <2> SUFFICES ASSUME NEW i \in 1 .. m PROVE P[i] \in S /\ Rank(P[i], S) = i - 1
      OBVIOUS
    <2>1. i - 1 \in Nat /\ i - 1 < n BY <1>1, <1>3, <1>5
    <2>2. \E row \in S : Rank(row, S) = i - 1
      BY <1>6, <2>1, RankTaken DEF n
    <2> QED BY <1>4, <2>2
  <1>9. P \in Seq(S) /\ Len(P) = m
    BY <1>3, <1>4, <1>8
  <1>10. \A i, j \in 1 .. m : P[i] = P[j] => i = j
    <2> SUFFICES ASSUME NEW i \in 1 .. m, NEW j \in 1 .. m, P[i] = P[j]
                 PROVE i = j
      OBVIOUS
    <2>1. i - 1 = j - 1 BY <1>8
    <2> QED BY <1>3, <2>1
  <1>11. \A row \in S : Rank(row, S) \in Nat /\ Rank(row, S) < n
    BY <1>6, RankFalls DEF n
  <1>12. /\ \A a, b \in S : Rank(a, S) = Rank(b, S) => a = b
         /\ \A a, b \in S : Rank(b, S) < Rank(a, S) <=> Audit!Before(a, b)
    BY <1>6, RankParts
  <1>13. ASSUME NEW row \in S, Rank(row, S) < m
         PROVE  \E i \in 1 .. m : row = P[i]
    <2> DEFINE i == Rank(row, S) + 1
    <2>1. i \in 1 .. m /\ i - 1 = Rank(row, S) BY <1>3, <1>11, <1>13
    <2> HIDE DEF i
    <2>2. P[i] \in S /\ Rank(P[i], S) = Rank(row, S) BY <1>8, <2>1
    <2> QED BY <1>12, <2>1, <2>2
  <1>14. ASSUME Audit!HasNext
         PROVE  /\ m >= 1
                /\ \A row \in S : \/ Audit!Before(row, P[m])
                                  \/ \E i \in 1 .. m : row = P[i]
                /\ \A i \in 1 .. m : ~Audit!Before(P[i], P[m])
    <2>1. m >= 1 BY <1>2, <1>7, <1>14
    <2>2. P[m] \in S /\ Rank(P[m], S) = m - 1 BY <1>3, <1>8, <2>1
    <2>3. ASSUME NEW row \in S, ~(\E i \in 1 .. m : row = P[i])
          PROVE  Audit!Before(row, P[m])
      <3>1. ~(Rank(row, S) < m) BY <1>13, <2>3
      <3>2. Rank(P[m], S) < Rank(row, S) BY <1>3, <1>11, <2>2, <3>1
      <3> QED BY <1>12, <2>2, <3>2
    <2>4. ASSUME NEW i \in 1 .. m PROVE ~Audit!Before(P[i], P[m])
      <3>1. P[i] \in S /\ ~(Rank(P[m], S) < Rank(P[i], S))
        BY <1>3, <1>8, <2>2
      <3> QED BY <1>12, <2>2, <3>1
    <2> QED BY <2>1, <2>3, <2>4
  <1>15. ASSUME ~Audit!HasNext
         PROVE  \A row \in S : \E i \in 1 .. m : row = P[i]
    BY <1>7, <1>11, <1>13, <1>15
  <1> QED BY <1>9, <1>10, <1>14, <1>15 DEF S, P

-----------------------------------------------------------------------------
(* What the walk has shown and what is left of it.                         *)

Of(list) == {list[i] : i \in 1 .. Len(list)}
Once(list) == \A i, j \in 1 .. Len(list) : list[i] = list[j] => i = j
Shown == Of(walk.shown)

WalkTypes ==
  walk \in [pc : Places, cursor : Row, shown : Seq(Writers),
            began : SUBSET Writers, altered : BOOLEAN]

\* Only events that are in the table are shown or were there at the
\* beginning, and they never enter it again.
InTable == \A w \in Shown \cup walk.began : writer[w].pc = "committed"

ShownOnce == Once(walk.shown)

\* What is not past the cursor has been shown, and nothing else has.
Parted ==
  /\ walk.pc = "idle" => walk.shown = <<>> /\ walk.cursor = Audit!NoRow
  /\ walk.pc = "reading" =>
       \A row \in rows :
         /\ row \in Audit!Remaining => row.id \notin Shown
         /\ row.id \in walk.began => row \in Audit!Remaining \/ row.id \in Shown
  /\ walk.pc = "done" =>
       \A row \in rows : row.id \in walk.began => row.id \in Shown

\* The event of a degraded instance is written when the walk has stopped.
NoMarkYet == walk.pc # "stopped" => \A row \in rows : row.id # 0

WalkKept ==
  /\ WalkTypes /\ InTable /\ ShownOnce /\ Parted /\ NoMarkYet
  /\ Audit!ShownIsGenuine

AuditInv == ChainKept /\ WalkKept

LEMMA AuditBegins == Audit!Init => AuditInv
  <1> SUFFICES ASSUME Audit!Init PROVE AuditInv OBVIOUS
  <1>1. /\ rows = {}
        /\ walk = [pc |-> "idle", cursor |-> Audit!NoRow, shown |-> <<>>,
                   began |-> {}, altered |-> FALSE]
    BY DEF Audit!Init
  <1>2. Audit!NoRow \in Row BY DEF Audit!NoRow, Row
  <1>3. walk.shown = <<>> /\ walk.began = {} /\ Shown = {}
    BY <1>1 DEF Shown, Of
  <1>4. WalkTypes BY <1>1, <1>2 DEF WalkTypes, Places
  <1> QED
    BY <1>1, <1>3, <1>4, TableBegins
    DEF AuditInv, WalkKept, InTable, ShownOnce, Once, Parted, NoMarkYet,
        Audit!ShownIsGenuine

\* A writer's step, a purge or a change from outside leaves the keys of the
\* rows that stay; a row that enters was never shown.
SameKey(a, b) == a.id = b.id /\ a.stamp = b.stamp /\ a.seq = b.seq

LEMMA WalkStays ==
  ASSUME WalkKept, AuditTypes, UNCHANGED <<platform, walk>>,
         \A w \in Writers : writer[w].pc = "committed" => writer'[w].pc = "committed",
         walk.pc # "stopped" => \A row \in rows' : row.id # 0,
         \A row \in rows' :
           \/ \E old \in rows : SameKey(old, row)
           \/ row.id = 0
           \/ row.id \in Writers /\ writer[row.id].pc # "committed"
  PROVE  WalkKept'
  <1>1. Shown' = Shown /\ Shown \subseteq Writers /\ walk.began \subseteq Writers
    BY DEF Shown, Of, WalkKept, WalkTypes
  <1>2. InTable' BY <1>1 DEF WalkKept, InTable
  <1>3. \A row \in rows' : \A old \in rows :
          SameKey(old, row) => (row \in Audit!Remaining' <=> old \in Audit!Remaining)
    BY DEF Audit!Remaining, Audit!PastCursor, Audit!Before, SameKey
  <1>4. ASSUME NEW row \in rows', row.id \in Shown \cup walk.began
        PROVE  \E old \in rows : SameKey(old, row)
    <2>1. row.id # 0 /\ row.id \in Writers
      BY <1>1, <1>4, ServingAssumption
    <2>2. writer[row.id].pc = "committed"
      BY <1>4 DEF WalkKept, InTable
    <2> QED BY <2>1, <2>2
  <1>5. Parted'
    <2>1. ASSUME walk.pc = "reading", NEW row \in rows'
          PROVE  /\ row \in Audit!Remaining' => row.id \notin Shown
                 /\ row.id \in walk.began => row \in Audit!Remaining' \/ row.id \in Shown
      <3>1. CASE row.id \in Shown \cup walk.began
        <4>1. PICK old \in rows : SameKey(old, row) BY <1>4, <3>1
        <4>2. old.id = row.id BY <4>1 DEF SameKey
        <4>3. row \in Audit!Remaining' <=> old \in Audit!Remaining BY <1>3, <4>1
        <4>4. /\ old \in Audit!Remaining => old.id \notin Shown
              /\ old.id \in walk.began => old \in Audit!Remaining \/ old.id \in Shown
          BY <2>1 DEF WalkKept, Parted
        <4> QED BY <4>2, <4>3, <4>4
      <3>2. CASE row.id \notin Shown \cup walk.began BY <3>2
      <3> QED BY <3>1, <3>2
    <2>2. ASSUME walk.pc = "done", NEW row \in rows', row.id \in walk.began
          PROVE  row.id \in Shown
      <3>1. PICK old \in rows : SameKey(old, row) BY <1>4, <2>2
      <3>2. old.id = row.id BY <3>1 DEF SameKey
      <3> QED BY <2>2, <3>2 DEF WalkKept, Parted
    <2> QED BY <1>1, <2>1, <2>2 DEF WalkKept, Parted, Audit!NoRow
  <1> QED
    BY <1>2, <1>5
    DEF WalkKept, WalkTypes, ShownOnce, NoMarkYet, Audit!ShownIsGenuine, Row

LEMMA WalkStarts ==
  ASSUME AuditInv, Audit!WalkBegins PROVE WalkKept'
  <1> DEFINE now == Audit!Stored \ {0}
             h == [walk EXCEPT !.pc = "reading", !.began = now]
  <1>1. /\ walk.pc = "idle" /\ walk' = h
        /\ UNCHANGED <<platform, clock, writer, rows, issued, degraded>>
    BY DEF Audit!WalkBegins
  <1>2. /\ Table /\ AuditTypes /\ WalkTypes
        /\ walk.shown = <<>> /\ walk.cursor = Audit!NoRow
        /\ \A row \in rows : row.id # 0
    BY <1>1 DEF AuditInv, ChainKept, Table, WalkKept, Parted, NoMarkYet
  <1>3. /\ now \in SUBSET Writers
        /\ \A w \in now : writer[w].pc = "committed"
    BY <1>2 DEF AuditTypes, Row, Audit!Stored, Table, OneRowEach
  <1> HIDE DEF now
  <1>4. /\ h \in [pc : Places, cursor : Row, shown : Seq(Writers),
                  began : SUBSET Writers, altered : BOOLEAN]
        /\ h.pc = "reading" /\ h.shown = <<>> /\ h.cursor = Audit!NoRow
        /\ h.began = now /\ h.altered = walk.altered
    BY <1>2, <1>3 DEF WalkTypes, Places
  <1> HIDE DEF h
  <1>5. WalkTypes' BY <1>1, <1>4 DEF WalkTypes, Row
  <1>6. Shown' = {} BY <1>1, <1>4 DEF Shown, Of
  <1>7. InTable' BY <1>1, <1>3, <1>4, <1>6 DEF InTable
  <1>8. ShownOnce' BY <1>1, <1>4 DEF ShownOnce, Once
  <1>9. Audit!Remaining' = rows'
    BY <1>1, <1>4 DEF Audit!Remaining, Audit!NoRow
  <1>10. Parted' BY <1>1, <1>4, <1>6, <1>9 DEF Parted
  <1>11. NoMarkYet' BY <1>1, <1>2 DEF NoMarkYet
  <1>12. Audit!ShownIsGenuine'
    BY <1>1, <1>4 DEF AuditInv, WalkKept, Audit!ShownIsGenuine
  <1> QED BY <1>5, <1>7, <1>8, <1>10, <1>11, <1>12 DEF WalkKept

LEMMA RowsOrdered ==
  ASSUME Table, NEW S \in SUBSET rows PROVE IsFiniteSet(S) /\ Ordered(S)
  <1>1. IsFiniteSet(S) BY FS_Subset DEF Table, AuditTypes
  <1>2. \A a \in S : a.id \in Nat /\ a.stamp \in Nat /\ a.seq \in Nat
    <2>1. \A a \in S : a \in Row BY DEF Table, AuditTypes
    <2>2. \A a \in Row : /\ a.id \in Writers \cup {0}
                         /\ a.stamp \in Nat /\ a.seq \in Nat
      BY DEF Row
    <2>3. Writers \cup {0} \subseteq Nat BY ServingAssumption
    <2> QED BY <2>1, <2>2, <2>3
  <1>3. \A a, b \in S : a # b =>
          a.id # b.id /\ (platform # "cloudflare" => a.seq # b.seq)
    BY DEF Table, OneRowEach, NumbersDiffer
  <1>4. CASE platform = "cloudflare"
    BY <1>1, <1>2, <1>3, <1>4 DEF Ordered, Audit!Before
  <1>5. CASE platform # "cloudflare"
    BY <1>1, <1>2, <1>3, <1>5 DEF Ordered, Audit!Before
  <1> QED BY <1>1, <1>4, <1>5

\* Two lists put together: what either holds, each once if no event is in both.
LEMMA Joined ==
  ASSUME NEW T, NEW s \in Seq(T), NEW t \in Seq(T)
  PROVE  /\ s \o t \in Seq(T)
         /\ Of(s \o t) = Of(s) \cup Of(t)
         /\ Once(s) /\ Once(t) /\ Of(s) \cap Of(t) = {} => Once(s \o t)
  <1> DEFINE both == s \o t
  <1>1. /\ both \in Seq(T) /\ Len(both) = Len(s) + Len(t)
        /\ \A i \in 1 .. Len(s) : both[i] = s[i]
        /\ \A i \in 1 .. Len(t) : both[Len(s) + i] = t[i]
        /\ Len(s) \in Nat /\ Len(t) \in Nat
    OBVIOUS
  <1>2. \A i \in 1 .. Len(both) :
          \/ i \in 1 .. Len(s) /\ both[i] = s[i]
          \/ i - Len(s) \in 1 .. Len(t) /\ both[i] = t[i - Len(s)]
    BY <1>1
  <1>3. \A i \in 1 .. Len(s) : i \in 1 .. Len(both) BY <1>1
  <1>4. \A i \in 1 .. Len(t) : Len(s) + i \in 1 .. Len(both) BY <1>1
  <1> HIDE DEF both
  <1>5. Of(both) \subseteq Of(s) \cup Of(t) BY <1>2 DEF Of
  <1>6. Of(s) \subseteq Of(both) BY <1>1, <1>3 DEF Of
  <1>7. Of(t) \subseteq Of(both)
    <2> SUFFICES ASSUME NEW i \in 1 .. Len(t) PROVE t[i] \in Of(both)
      BY DEF Of
    <2> QED BY <1>1, <1>4 DEF Of
  <1>8. ASSUME Once(s), Once(t), Of(s) \cap Of(t) = {} PROVE Once(both)
    <2> SUFFICES ASSUME NEW i \in 1 .. Len(both), NEW j \in 1 .. Len(both),
                        both[i] = both[j]
                 PROVE  i = j
      BY DEF Once
    <2>1. \A k \in 1 .. Len(s) : s[k] \in Of(s) BY DEF Of
    <2>2. \A k \in 1 .. Len(t) : t[k] \in Of(t) BY DEF Of
    <2>3. /\ \A k, l \in 1 .. Len(s) : s[k] = s[l] => k = l
          /\ \A k, l \in 1 .. Len(t) : t[k] = t[l] => k = l
          /\ \A x \in Of(s) : x \notin Of(t)
      BY <1>8 DEF Once
    <2>4. CASE i \in 1 .. Len(s) /\ both[i] = s[i]
      <3>1. j \in 1 .. Len(s) /\ both[j] = s[j] BY <1>2, <2>1, <2>2, <2>3, <2>4
      <3> QED BY <2>3, <2>4, <3>1
    <2>5. CASE i - Len(s) \in 1 .. Len(t) /\ both[i] = t[i - Len(s)]
      <3>1. j - Len(s) \in 1 .. Len(t) /\ both[j] = t[j - Len(s)]
        BY <1>2, <2>1, <2>2, <2>3, <2>5
      <3>2. i - Len(s) = j - Len(s) BY <2>3, <2>5, <3>1
      <3> QED BY <1>1, <3>2
    <2> QED BY <1>2, <2>4, <2>5
  <1> QED BY <1>1, <1>5, <1>6, <1>7, <1>8 DEF both

LEMMA WalkReads ==
  ASSUME AuditInv, Audit!ReadPage PROVE WalkKept'
  <1> DEFINE P == Audit!Page
             ids == Audit!IdsOf(P)
             shown == walk.shown \o ids
             bad == walk.altered \/ (\E i \in DOMAIN P : ~P[i].whole)
             last == P[Len(P)]
  <1>1. /\ walk.pc = "reading"
        /\ walk' = IF ~Audit!Verified(P) THEN [walk EXCEPT !.pc = "mark"]
                   ELSE [walk EXCEPT
                           !.shown = shown, !.altered = bad,
                           !.cursor = IF Audit!HasNext THEN last ELSE walk.cursor,
                           !.pc = IF Audit!HasNext THEN "reading" ELSE "done"]
        /\ UNCHANGED <<platform, clock, writer, rows, issued, degraded>>
    BY DEF Audit!ReadPage
  <1>2. /\ Table /\ AuditTypes /\ OneRowEach
        /\ WalkTypes /\ InTable /\ ShownOnce /\ Parted /\ NoMarkYet
        /\ Audit!ShownIsGenuine
    BY DEF AuditInv, ChainKept, Table, WalkKept
  <1>3. Audit!Remaining \in SUBSET rows BY DEF Audit!Remaining
  <1>4. IsFiniteSet(Audit!Remaining) /\ Ordered(Audit!Remaining)
    BY <1>2, <1>3, RowsOrdered
  <1>5. /\ P \in Seq(Audit!Remaining)
        /\ \A i, j \in 1 .. Len(P) : P[i] = P[j] => i = j
        /\ Audit!HasNext =>
             /\ Len(P) >= 1
             /\ \A row \in Audit!Remaining :
                  Audit!Before(row, last) \/ \E i \in 1 .. Len(P) : row = P[i]
             /\ \A i \in 1 .. Len(P) : ~Audit!Before(P[i], last)
        /\ ~Audit!HasNext =>
             \A row \in Audit!Remaining : \E i \in 1 .. Len(P) : row = P[i]
    BY <1>4, PageParts
  <1> HIDE DEF P
  <1>6. \A row \in rows : row \in Row /\ row.id \in Writers
    BY <1>1, <1>2 DEF NoMarkYet, AuditTypes, Row
  <1>7. /\ ids \in Seq(Writers) /\ Len(ids) = Len(P)
        /\ \A i \in 1 .. Len(P) : ids[i] = P[i].id /\ P[i] \in Audit!Remaining
    <2>1. DOMAIN P = 1 .. Len(P) /\ Len(P) \in Nat BY <1>5
    <2>2. \A i \in 1 .. Len(P) : P[i] \in Audit!Remaining BY <1>5
    <2>3. ids = [i \in 1 .. Len(P) |-> P[i].id] BY <2>1 DEF Audit!IdsOf
    <2>4. \A i \in 1 .. Len(P) : P[i].id \in Writers BY <1>3, <1>6, <2>2
    <2> QED BY <2>1, <2>2, <2>3, <2>4
  <1> HIDE DEF ids
  <1>8. CASE ~Audit!Verified(P)
    <2> DEFINE h == [walk EXCEPT !.pc = "mark"]
    <2>1. /\ walk' = h /\ h \in [pc : Places, cursor : Row, shown : Seq(Writers),
                                   began : SUBSET Writers, altered : BOOLEAN]
          /\ h.pc = "mark" /\ h.shown = walk.shown /\ h.began = walk.began
          /\ h.altered = walk.altered
      BY <1>1, <1>2, <1>8 DEF WalkTypes, Places
    <2> HIDE DEF h
    <2>2. WalkTypes' BY <2>1 DEF WalkTypes, Row
    <2>3. Shown' = Shown BY <2>1 DEF Shown
    <2>4. InTable' BY <1>1, <1>2, <2>1, <2>3 DEF InTable
    <2>5. ShownOnce' BY <1>2, <2>1 DEF ShownOnce
    <2>6. Parted' BY <2>1 DEF Parted
    <2>7. NoMarkYet' BY <1>1, <1>2 DEF NoMarkYet
    <2>8. Audit!ShownIsGenuine' BY <1>1, <1>2, <2>1 DEF Audit!ShownIsGenuine
    <2> QED BY <2>2, <2>4, <2>5, <2>6, <2>7, <2>8 DEF WalkKept
  <1>9. CASE Audit!Verified(P)
    <2> DEFINE cursor == IF Audit!HasNext THEN last ELSE walk.cursor
               pcc == IF Audit!HasNext THEN "reading" ELSE "done"
               h == [walk EXCEPT !.shown = shown, !.altered = bad,
                                 !.cursor = cursor, !.pc = pcc]
    <2>1. walk' = h BY <1>1, <1>9
    <2>2. Audit!HasNext => last \in Audit!Remaining /\ last \in rows /\ last \in Row
      BY <1>3, <1>5, <1>6
    <2>3. walk.shown \in Seq(Writers) /\ walk.cursor \in Row /\ walk.altered \in BOOLEAN
      BY <1>2 DEF WalkTypes
    <2>4. cursor \in Row /\ pcc \in Places /\ bad \in BOOLEAN
      BY <2>2, <2>3 DEF Places
    <2>5. /\ shown \in Seq(Writers) /\ Of(shown) = Shown \cup Of(ids)
      BY <1>7, <2>3, Joined DEF Shown
    <2>6. Of(ids) \cap Shown = {}
      BY <1>1, <1>2, <1>3, <1>7 DEF Parted, Of
    <2>7. Once(shown)
      <3>1. Once(ids) BY <1>2, <1>3, <1>5, <1>7 DEF OneRowEach, Once
      <3>2. Once(walk.shown) BY <1>2 DEF ShownOnce
      <3>3. Of(walk.shown) \cap Of(ids) = {} BY <2>6 DEF Shown
      <3> QED BY <1>7, <2>3, <3>1, <3>2, <3>3, Joined
    <2> HIDE DEF cursor, pcc, shown, bad
    <2>8. /\ h \in [pc : Places, cursor : Row, shown : Seq(Writers),
                     began : SUBSET Writers, altered : BOOLEAN]
          /\ h.pc = pcc /\ h.shown = shown /\ h.began = walk.began
          /\ h.altered = bad /\ h.cursor = cursor
      BY <1>2, <2>4, <2>5 DEF WalkTypes
    <2> HIDE DEF h
    <2>9. WalkTypes' BY <2>1, <2>8 DEF WalkTypes, Row
    <2>10. Shown' = Shown \cup Of(ids)
      BY <2>1, <2>5, <2>8 DEF Shown
    <2>11. \A x \in Of(ids) : \E row \in rows : x = row.id /\ row \in Audit!Remaining
      BY <1>3, <1>7 DEF Of
    <2>12. \A i \in 1 .. Len(P) : P[i].id \in Of(ids)
      BY <1>7 DEF Of
    <2>13. \A row \in rows : row.id \in Of(ids) =>
             \E i \in 1 .. Len(P) : row = P[i]
      BY <1>2, <1>3, <1>7 DEF OneRowEach, Of
    <2>14. InTable'
      <3>1. \A row \in rows : writer[row.id].pc = "committed"
        BY <1>2, <1>6, ServingAssumption DEF OneRowEach
      <3> QED BY <1>1, <1>2, <2>1, <2>8, <2>10, <2>11, <3>1 DEF InTable
    <2>15. ShownOnce' BY <2>1, <2>7, <2>8 DEF ShownOnce
    <2>16. ASSUME Audit!HasNext PROVE Parted'
      <3>1. cursor = last /\ pcc = "reading" BY <2>16 DEF cursor, pcc
      <3>2. last # Audit!NoRow
        BY <1>6, <2>2, <2>16, ServingAssumption DEF Audit!NoRow
      <3>3. \A row \in rows : row \in Audit!Remaining' <=> Audit!Before(row, last)
        BY <1>1, <2>1, <2>8, <3>1, <3>2
        DEF Audit!Remaining, Audit!PastCursor, Audit!Before
      <3>4. \A row \in rows : Audit!Before(row, last) => row \in Audit!Remaining
        <4>1. CASE walk.cursor = Audit!NoRow BY <4>1 DEF Audit!Remaining
        <4>2. CASE walk.cursor # Audit!NoRow
          <5>1. Audit!Before(last, walk.cursor)
            BY <2>2, <2>16, <4>2 DEF Audit!Remaining, Audit!PastCursor
          <5>2. \A row \in Row : row.id \in Nat /\ row.stamp \in Nat /\ row.seq \in Nat
            <6>1. Writers \cup {0} \subseteq Nat BY ServingAssumption
            <6> QED BY <6>1 DEF Row
          <5>3. \A row \in rows :
                  Audit!Before(row, last) => Audit!Before(row, walk.cursor)
            BY SMTT(60), <1>6, <2>2, <2>3, <2>16, <5>1, <5>2 DEF Audit!Before
          <5> QED BY <5>3 DEF Audit!Remaining, Audit!PastCursor
        <4> QED BY <4>1, <4>2
      <3>5. ASSUME NEW row \in rows, Audit!Before(row, last)
            PROVE  row.id \notin Shown \cup Of(ids)
        <4>1. row.id \notin Shown
          BY <1>1, <1>2, <3>4, <3>5 DEF Parted
        <4>2. row.id \notin Of(ids)
          BY <1>5, <2>13, <2>16, <3>5
        <4> QED BY <4>1, <4>2
      <3>6. ASSUME NEW row \in rows, row.id \in walk.began
            PROVE  Audit!Before(row, last) \/ row.id \in Shown \cup Of(ids)
        <4>1. CASE row \in Audit!Remaining
          BY <1>5, <2>12, <2>16, <4>1
        <4>2. CASE row.id \in Shown BY <4>2
        <4> QED BY <1>1, <1>2, <3>6, <4>1, <4>2 DEF Parted
      <3> QED BY <1>1, <2>1, <2>8, <2>10, <3>1, <3>3, <3>5, <3>6 DEF Parted
    <2>17. ASSUME ~Audit!HasNext PROVE Parted'
      <3>1. pcc = "done" BY <2>17 DEF pcc
      <3>2. ASSUME NEW row \in rows, row.id \in walk.began
            PROVE  row.id \in Shown \cup Of(ids)
        <4>1. CASE row \in Audit!Remaining
          BY <1>5, <2>12, <2>17, <4>1
        <4>2. CASE row.id \in Shown BY <4>2
        <4> QED BY <1>1, <1>2, <3>2, <4>1, <4>2 DEF Parted
      <3> QED BY <1>1, <2>1, <2>8, <2>10, <3>1, <3>2 DEF Parted
    <2>18. NoMarkYet'
      BY <1>1, <1>2 DEF NoMarkYet
    <2>19. Audit!ShownIsGenuine'
      <3>1. DOMAIN P = 1 .. Len(P) BY <1>5
      <3>2. platform = "supabase" => ~bad
        BY <1>2, <1>9 DEF bad, Audit!Verified, Audit!ShownIsGenuine
      <3> QED BY <1>1, <2>1, <2>8, <3>2 DEF Audit!ShownIsGenuine
    <2> QED BY <2>9, <2>14, <2>15, <2>16, <2>17, <2>18, <2>19 DEF WalkKept
  <1> QED BY <1>8, <1>9

\* A step that leaves the table alone.
LEMMA ChainStays ==
  ASSUME ChainKept, clock' \in Nat,
         UNCHANGED <<platform, writer, rows, issued, degraded>>
  PROVE  ChainKept'
  BY DEF ChainKept, Table, AuditTypes, OneRowEach, NumbersDiffer, InsertedThere,
         Contiguous, Audit!ChainUnbroken, Row

\* The walk while a writer moves, and perhaps its row enters the table.
LEMMA WalkBesideWriter ==
  ASSUME AuditInv, NEW w \in Writers, UNCHANGED <<platform, walk>>,
         writer[w].pc # "committed",
         \A v \in Writers \ {w} : writer'[v] = writer[v],
         \A row \in rows' : row \in rows \/ row.id = w
  PROVE  WalkKept'
  <1>1. WalkKept /\ AuditTypes BY DEF AuditInv, ChainKept, Table
  <1>2. w # 0 BY ServingAssumption
  <1>3. \A v \in Writers :
          writer[v].pc = "committed" => writer'[v].pc = "committed"
    OBVIOUS
  <1>4. walk.pc # "stopped" => \A row \in rows' : row.id # 0
    BY <1>1, <1>2 DEF WalkKept, NoMarkYet
  <1>5. \A row \in rows' :
          \/ \E old \in rows : SameKey(old, row)
          \/ row.id = 0
          \/ row.id \in Writers /\ writer[row.id].pc # "committed"
    BY DEF SameKey
  <1> QED BY <1>1, <1>3, <1>4, <1>5, WalkStays

LEMMA WalkBesideWriters ==
  ASSUME AuditInv, NEW w \in Writers,
         \/ Audit!Prepare(w) \/ Audit!NodeAppends(w) \/ Audit!CloudflareAppends(w)
         \/ Audit!SupabaseInserts(w) \/ Audit!SupabaseCommits(w)
  PROVE  WalkKept'
  <1>1. AuditTypes BY DEF AuditInv, ChainKept, Table
  <1>2. UNCHANGED <<platform, walk>> /\ writer[w].pc # "committed"
    BY DEF Audit!Prepare, Audit!NodeAppends, Audit!CloudflareAppends,
           Audit!SupabaseInserts, Audit!SupabaseCommits
  <1>3. \A v \in Writers \ {w} : writer'[v] = writer[v]
    BY <1>1
    DEF Audit!Prepare, Audit!NodeAppends, Audit!CloudflareAppends,
        Audit!SupabaseInserts, Audit!SupabaseCommits, AuditTypes
  <1>4. ASSUME NEW seq, NEW previous, Audit!Written(w, seq, previous)
        PROVE  \A row \in rows' : row \in rows \/ row.id = w
    BY <1>4 DEF Audit!Written
  <1>5. \A row \in rows' : row \in rows \/ row.id = w
    <2>1. CASE Audit!Prepare(w) \/ Audit!SupabaseInserts(w)
      BY <2>1 DEF Audit!Prepare, Audit!SupabaseInserts
    <2>2. CASE Audit!NodeAppends(w)
      BY <1>4, <2>2 DEF Audit!NodeAppends
    <2>3. CASE Audit!CloudflareAppends(w)
      BY <1>4, <2>3 DEF Audit!CloudflareAppends
    <2>4. CASE Audit!SupabaseCommits(w)
      BY <1>4, <2>4 DEF Audit!SupabaseCommits
    <2> QED BY <2>1, <2>2, <2>3, <2>4
  <1> QED BY <1>2, <1>3, <1>5, WalkBesideWriter

\* A purge removes rows, a change from outside keeps their keys.
LEMMA WalkBesideTable ==
  ASSUME AuditInv, UNCHANGED <<platform, walk, writer>>,
         \A row \in rows' : \E old \in rows : SameKey(old, row)
  PROVE  WalkKept'
  <1>1. WalkKept /\ AuditTypes BY DEF AuditInv, ChainKept, Table
  <1>2. walk.pc # "stopped" => \A row \in rows' : row.id # 0
    BY <1>1 DEF WalkKept, NoMarkYet, SameKey
  <1> QED BY <1>1, <1>2, WalkStays

LEMMA WalkStops ==
  ASSUME AuditInv, Audit!MarkDegraded PROVE WalkKept'
  <1> DEFINE h == [walk EXCEPT !.pc = "stopped"]
  <1>1. WalkTypes /\ InTable /\ ShownOnce /\ Audit!ShownIsGenuine
    BY DEF AuditInv, WalkKept
  <1>2. walk' = h /\ UNCHANGED <<platform, writer>>
    BY DEF Audit!MarkDegraded
  <1>3. /\ h \in [pc : Places, cursor : Row, shown : Seq(Writers),
                  began : SUBSET Writers, altered : BOOLEAN]
        /\ h.pc = "stopped" /\ h.shown = walk.shown /\ h.began = walk.began
        /\ h.altered = walk.altered
    BY <1>1 DEF WalkTypes, Places
  <1> HIDE DEF h
  <1>4. WalkTypes' BY <1>2, <1>3 DEF WalkTypes, Row
  <1>5. Shown' = Shown BY <1>2, <1>3 DEF Shown
  <1>6. InTable' BY <1>1, <1>2, <1>3, <1>5 DEF InTable
  <1>7. ShownOnce' BY <1>1, <1>2, <1>3 DEF ShownOnce
  <1>8. Parted' /\ NoMarkYet' BY <1>2, <1>3 DEF Parted, NoMarkYet
  <1>9. Audit!ShownIsGenuine' BY <1>1, <1>2, <1>3 DEF Audit!ShownIsGenuine
  <1> QED BY <1>4, <1>6, <1>7, <1>8, <1>9 DEF WalkKept

LEMMA AuditStep == AuditInv /\ [Audit!Next]_auditVars => AuditInv'
  <1> SUFFICES ASSUME AuditInv, [Audit!Next]_auditVars PROVE AuditInv'
    OBVIOUS
  <1>1. /\ ChainKept /\ clock \in Nat
        /\ walk.pc = "mark" => \A row \in rows : row.id # 0
    BY DEF AuditInv, ChainKept, Table, AuditTypes, WalkKept, NoMarkYet
  <1>2. ASSUME UNCHANGED <<platform, writer, rows, walk>> PROVE WalkKept'
    BY <1>2, WalkBesideTable DEF SameKey
  <1>3. CASE UNCHANGED auditVars
    BY <1>1, <1>2, <1>3, ChainStays DEF auditVars, AuditInv
  <1>4. CASE Audit!Tick
    <2>1. /\ clock' \in Nat
          /\ UNCHANGED <<platform, writer, rows, issued, degraded, walk>>
      BY <1>1, <1>4 DEF Audit!Tick
    <2> QED BY <1>1, <1>2, <2>1, ChainStays DEF AuditInv
  <1>5. CASE Audit!WalkBegins
    <2>1. UNCHANGED <<platform, clock, writer, rows, issued, degraded>>
      BY <1>5 DEF Audit!WalkBegins
    <2> QED BY <1>1, <1>5, <2>1, ChainStays, WalkStarts DEF AuditInv
  <1>6. CASE Audit!ReadPage
    <2>1. UNCHANGED <<platform, clock, writer, rows, issued, degraded>>
      BY <1>6 DEF Audit!ReadPage
    <2> QED BY <1>1, <1>6, <2>1, ChainStays, WalkReads DEF AuditInv
  <1>7. CASE Audit!MarkDegraded
    <2>1. walk.pc = "mark" BY <1>7 DEF Audit!MarkDegraded
    <2> QED BY <1>1, <1>7, <2>1, MarkKeeps, WalkStops DEF AuditInv
  <1>8. ASSUME NEW w \in Writers,
               \/ Audit!Prepare(w) \/ Audit!NodeAppends(w)
               \/ Audit!CloudflareAppends(w) \/ Audit!SupabaseInserts(w)
               \/ Audit!SupabaseCommits(w)
        PROVE  AuditInv'
    <2>1. ChainKept'
      BY <1>1, <1>8, Prepares, NodeAppendsKeeps, CloudflareAppendsKeeps,
         SupabaseInsertsKeeps, SupabaseCommitsKeeps
    <2> QED BY <1>8, <2>1, WalkBesideWriters DEF AuditInv
  <1>9. ASSUME NEW cutoff \in 1 .. MaxClock, Audit!Purge(cutoff) PROVE AuditInv'
    <2>1. rows' \subseteq rows /\ UNCHANGED <<platform, walk, writer>>
      BY <1>9 DEF Audit!Purge
    <2>2. WalkKept' BY <2>1, WalkBesideTable DEF SameKey
    <2> QED BY <1>1, <1>9, <2>2, PurgeKeeps DEF AuditInv
  <1>10. ASSUME NEW row \in rows, Audit!Alter(row) PROVE AuditInv'
    <2> DEFINE new == [row EXCEPT !.whole = FALSE]
    <2>1. /\ rows' = (rows \ {row}) \cup {new}
          /\ UNCHANGED <<platform, walk, writer>>
      BY <1>10 DEF Audit!Alter
    <2>2. SameKey(row, new)
      BY <1>1 DEF ChainKept, Table, AuditTypes, Row, SameKey
    <2> HIDE DEF new
    <2>3. \A r \in rows' : \E old \in rows : SameKey(old, r)
      BY <2>1, <2>2 DEF SameKey
    <2>4. WalkKept' BY <2>1, <2>3, WalkBesideTable
    <2> QED BY <1>1, <1>10, <2>4, AlterKeeps DEF AuditInv
  <1> QED
    BY <1>3, <1>4, <1>5, <1>6, <1>7, <1>8, <1>9, <1>10 DEF Audit!Next

LEMMA AuditAlways == ServingSpec => [](subject = "audit" => AuditInv)
  <1>1. ServingInit => (subject = "audit" => AuditInv)
    BY AuditBegins DEF ServingInit, UpstreamsInit
  <1>2. /\ (subject = "audit" => AuditInv)
        /\ [ServingNext]_servingVars
        => (subject = "audit" => AuditInv)'
    BY AuditTakesStep, AuditStep, SubjectStays
  <1> QED BY <1>1, <1>2, PTL DEF ServingSpec

(* Each event of the Node ledger names the hash of the one before it,      *)
(* however many were prepared before any of them was written: the subquery *)
(* of the INSERT reads the last row of the moment, not of the preparation. *)
THEOREM ChainUnbrokenHolds == ServingSpec => []ChainUnbroken
  <1>1. (subject = "audit" => AuditInv) => ChainUnbroken
    BY DEF AuditInv, ChainKept, ChainUnbroken
  <1> QED BY <1>1, AuditAlways, PTL

(* A walk that came to its end has shown every event that was there when   *)
(* it began and still is, each once, for every length of page and whatever *)
(* is written, purged or numbered late between two pages; and on Supabase  *)
(* none whose signature fails.                                             *)
THEOREM WalkIsFaithfulHolds == ServingSpec => []WalkIsFaithful
  <1>1. ASSUME AuditInv PROVE Audit!WalkIsWhole /\ Audit!ShownIsGenuine
    <2>1. walk.shown \in Seq(Writers) BY <1>1 DEF AuditInv, WalkKept, WalkTypes
    <2>2. DOMAIN walk.shown = 1 .. Len(walk.shown) BY <2>1
    <2>3. Audit!ToSet(walk.shown) = Shown BY <2>2 DEF Audit!ToSet, Shown, Of
    <2>4. Audit!IsInjective(walk.shown)
      BY <1>1, <2>2
      DEF AuditInv, WalkKept, ShownOnce, Once, Audit!IsInjective
    <2>5. walk.pc = "done" =>
            \A row \in rows : row.id \in walk.began => row.id \in Shown
      BY <1>1 DEF AuditInv, WalkKept, Parted
    <2> QED
      BY <1>1, <2>3, <2>4, <2>5
      DEF AuditInv, WalkKept, Audit!WalkIsWhole, Audit!Stored
  <1>2. (subject = "audit" => AuditInv) => WalkIsFaithful
    BY <1>1 DEF WalkIsFaithful, WalkIsWhole, ShownIsGenuine
  <1> QED BY <1>2, AuditAlways, PTL
-----------------------------------------------------------------------------
(* The client's call.  A stream has an outcome only when the call is done, *)
(* and nothing that comes later finds it open.                             *)

ClientInv ==
  /\ outcome # "none" => phase = "done"
  /\ aborted = "report" => recorded = "incomplete"
  /\ outcome = "report" => recorded = "incomplete"

\* An abort ends a stream that is open, and only then.
LEMMA CancelEnds ==
  ASSUME ClientInv, NEW reason, Client!Cancel(reason),
         recorded' = recorded, reason = "report" => recorded = "incomplete"
  PROVE  ClientInv' /\ (outcome # "none" => outcome' = outcome)
  BY DEF ClientInv, Client!Cancel, Client!Finish, Client!Ended

LEMMA ClientStep ==
  ASSUME ClientInv, [Client!Next]_clientVars
  PROVE  ClientInv' /\ (outcome # "none" => outcome' = outcome)
  <1> USE DEF ClientInv
  <1>1. CASE UNCHANGED clientVars BY <1>1 DEF clientVars
  <1>2. CASE Client!Refuses \/ Client!Begins \/ Client!GatewayAnswers \/ Client!Throws
    BY <1>2
    DEF Client!Refuses, Client!Begins, Client!GatewayAnswers, Client!Throws
  <1>3. CASE Client!Classifies
    <2>1. /\ phase = "classifying" /\ UNCHANGED <<aborted, recorded>>
          /\ \/ phase' = "done" /\ outcome' \in {"complete", aborted}
             \/ UNCHANGED outcome
      BY <1>3 DEF Client!Classifies
    <2>2. outcome' = "report" => outcome' = outcome \/ aborted = "report"
      BY <2>1
    <2> QED BY <2>1, <2>2
  <1>4. CASE Client!ParentAborts \/ Client!TimesOut
    <2>1. /\ Client!Cancel("parent") \/ Client!Cancel("timeout")
          /\ recorded' = recorded
      BY <1>4 DEF Client!ParentAborts, Client!TimesOut
    <2> QED BY <2>1, CancelEnds
  <1>5. CASE Client!Reads BY <1>5 DEF Client!Reads
  <1>6. CASE Client!ReadSettles
    <2>1. /\ UNCHANGED <<aborted, recorded>>
          /\ \/ UNCHANGED <<phase, outcome>>
             \/ /\ phase = "streaming" /\ phase' = "done"
                /\ outcome' \in {"complete", "broken"}
      BY <1>6
      DEF Client!ReadSettles, Client!ReadIsLate, Client!Ended, Client!Finish
    <2> QED BY <2>1
  <1>7. CASE Client!ConsumerCancels
    <2>1. /\ phase = "streaming" /\ phase' = "done" /\ outcome' = "consumer"
          /\ recorded' = recorded /\ aborted' \in {aborted, "consumer"}
      BY <1>7 DEF Client!ConsumerCancels, Client!Finish
    <2> QED BY <2>1
  <1>8. CASE Client!Polls \/ Client!PollAgain \/ Client!PollUnavailable
    BY <1>8 DEF Client!Polls, Client!PollAgain, Client!PollUnavailable
  <1>9. CASE Client!ReportComes
    <2>1. PICK report \in Client!Reports :
            IF watch # "asking"
            THEN UNCHANGED <<phase, aborted, armed, outcome, watch>>
            ELSE IF Client!Agrees(report) /\ report.says = "incomplete"
            THEN Client!Cancel("report") /\ watch' = "stopped"
            ELSE watch' = "stopped" /\ UNCHANGED <<phase, aborted, armed, outcome>>
      BY <1>9 DEF Client!ReportComes
    <2>2. recorded' = recorded BY <1>9 DEF Client!ReportComes
    <2>3. report.own => report.says = recorded
      BY DEF Client!Reports
    <2>4. CASE watch = "asking" /\ Client!Agrees(report) /\ report.says = "incomplete"
      <3>1. recorded = "incomplete" BY <2>3, <2>4 DEF Client!Agrees
      <3> QED BY <2>1, <2>2, <2>4, <3>1, CancelEnds
    <2>5. CASE ~(watch = "asking" /\ Client!Agrees(report) /\ report.says = "incomplete")
      BY <2>1, <2>2, <2>5
    <2> QED BY <2>4, <2>5
  <1>10. CASE Client!GatewayRecords BY <1>10 DEF Client!GatewayRecords
  <1> QED
    BY <1>1, <1>2, <1>3, <1>4, <1>5, <1>6, <1>7, <1>8, <1>9, <1>10
    DEF Client!Next

(* An execution is called incomplete only on its own report; a stream that *)
(* was delivered as complete stays so, and one that ended with an error is *)
(* never completed, whatever arrives late: a read, a poll, an abort.       *)
THEOREM StreamEndIsFinalHolds == ServingSpec => StreamEndIsFinal
  <1> DEFINE Inv == subject = "client" => ClientInv
  <1>1. ServingInit => Inv
    BY DEF ServingInit, UpstreamsInit, Client!Init, ClientInv
  <1>2. ASSUME Inv, [ServingNext]_servingVars
        PROVE  /\ Inv'
               /\ [(subject = "client" /\ outcome # "none") => outcome' = outcome]_servingVars
    BY <1>2, ClientTakesStep, ClientStep, SubjectStays
  <1>3. Inv => IncompleteIsOwn
    BY DEF ClientInv, IncompleteIsOwn, Client!IncompleteIsOwn
  <1> HIDE DEF Inv
  <1> QED
    BY <1>1, <1>2, <1>3, PTL DEF ServingSpec, StreamEndIsFinal, StreamEndsOnce

-----------------------------------------------------------------------------
(* The redirect loops of the three adapters, for every set of origins and  *)
(* addresses, every policy and every limit.                                *)
(*                                                                         *)
(* The loops differ in who judges a hop and when, and agree in how a chain *)
(* of redirects grows: a request is sent as current, method, sensitive and *)
(* sendBody say, or a redirect changes these, or neither.  Sends, Turns    *)
(* and Rests are the three, and every action of the three modules is one   *)
(* of them; what keeps credentials and bodies from coming back is proved   *)
(* once, of them.  What was judged is proved for each adapter.             *)

Methods == {"GET", "HEAD", "POST", "PUT"}

Hop ==
  [origin : Origins, address : Addresses, reused : BOOLEAN,
   method : Methods, sensitive : BOOLEAN, body : BOOLEAN]
  \cup
  [origin : Origins, method : Methods, sensitive : BOOLEAN, body : BOOLEAN,
   revoked : BOOLEAN]
  \cup
  [origin : Origins, method : Methods, sensitive : BOOLEAN, body : BOOLEAN,
   judged : [origin : Origins \cup {"none"}, method : Methods \cup {"none"},
             sensitive : BOOLEAN, body : BOOLEAN]]

Hops == 1 .. Len(sent)

\* The request of this turn of the loop has not left yet, or it has.
Before == {"resolve", "request", "denied", "judge", "fetch"}
After == {"wait", "check", "answered", "failed"}

ChainTypes ==
  /\ sent \in Seq(Hop)
  /\ redirects \in 0 .. MaxRedirects
  /\ current \in Origins
  /\ method \in Methods
  /\ sensitive \in BOOLEAN
  /\ sendBody \in BOOLEAN
  /\ pc \in Before \cup After

HopsCounted ==
  /\ pc \in Before => Len(sent) = redirects
  /\ pc \in After => Len(sent) = redirects + 1

\* What is sent next may be so only because of what was sent so far.
BodyDue ==
  /\ method = "GET" => ~sendBody
  /\ \A i \in Hops : sent[i].method = "GET" => method = "GET"
CredentialsDue ==
  sensitive => current = Home /\ \A i \in Hops : sent[i].origin = Home

StaysHome ==
  \A i \in Hops :
    sent[i].sensitive => \A j \in 1 .. i : sent[j].origin = Home
NoBodyAgain ==
  \A i, j \in Hops : i <= j /\ sent[i].method = "GET" => ~sent[j].body

ChainInv ==
  /\ ChainTypes /\ HopsCounted
  /\ BodyDue /\ CredentialsDue
  /\ StaysHome /\ NoBodyAgain

\* The three ways a chain may go on
Sends ==
  /\ \E hop \in Hop :
       /\ sent' = Append(sent, hop)
       /\ hop.origin = current /\ hop.method = method
       /\ hop.sensitive = sensitive /\ hop.body = sendBody
  /\ pc \in Before /\ pc' = "wait"
  /\ UNCHANGED <<current, method, sensitive, sendBody, redirects>>

Turns ==
  /\ pc \in After /\ pc' \in Before
  /\ redirects < MaxRedirects /\ redirects' = redirects + 1
  /\ current' \in Origins
  /\ sensitive' \in BOOLEAN /\ (sensitive' => sensitive /\ current' = current)
  /\ sendBody' \in BOOLEAN /\ (sendBody' => sendBody)
  /\ \/ method' = method
     \/ method' = "GET" /\ ~sendBody'
  /\ UNCHANGED sent

Rests ==
  /\ \/ pc \in Before /\ pc' \in Before
     \/ pc \in After /\ pc' \in After
  /\ UNCHANGED <<current, method, sensitive, sendBody, redirects, sent>>

-----------------------------------------------------------------------------
LEMMA Appended ==
  ASSUME NEW S, NEW s \in Seq(S), NEW e \in S
  PROVE  /\ Append(s, e) \in Seq(S)
         /\ Len(s) \in Nat
         /\ Len(Append(s, e)) = Len(s) + 1
         /\ \A i \in 1 .. Len(s) : Append(s, e)[i] = s[i]
         /\ Append(s, e)[Len(s) + 1] = e
  OBVIOUS

\* A request is sent with the credentials, the method and the body that are
\* due, and so the chain with it satisfies what the shorter one did.
LEMMA SendKeepsChain ==
  ASSUME ChainInv, Sends PROVE ChainInv'
  <1>1. PICK hop \in Hop :
          /\ sent' = Append(sent, hop)
          /\ hop.origin = current /\ hop.method = method
          /\ hop.sensitive = sensitive /\ hop.body = sendBody
    BY DEF Sends
  <1>2. sent \in Seq(Hop) BY DEF ChainInv, ChainTypes
  <1> DEFINE n == Len(sent)
  <1>3. /\ sent' \in Seq(Hop) /\ n \in Nat /\ Len(sent') = n + 1
        /\ \A i \in 1 .. n : sent'[i] = sent[i]
        /\ sent'[n + 1] = hop
    BY <1>1, <1>2, Appended
  <1>4. \A i \in 1 .. (n + 1) : i \in 1 .. n \/ i = n + 1
    BY <1>3
  <1>5. /\ UNCHANGED <<current, method, sensitive, sendBody, redirects>>
        /\ pc \in Before /\ pc' = "wait"
    BY DEF Sends
  <1>6. ChainTypes'
    BY <1>3, <1>5 DEF ChainInv, ChainTypes, After
  <1>7. HopsCounted'
    BY <1>3, <1>5 DEF ChainInv, HopsCounted, Before, After
  <1>8. BodyDue'
    <2>1. \A i \in 1 .. (n + 1) : sent'[i].method = "GET" => method = "GET"
      BY <1>1, <1>3, <1>4 DEF ChainInv, BodyDue, Hops
    <2> QED BY <2>1, <1>3, <1>5 DEF ChainInv, BodyDue, Hops
  <1>9. CredentialsDue'
    <2>1. ASSUME sensitive
          PROVE  current = Home /\ \A i \in 1 .. (n + 1) : sent'[i].origin = Home
      BY <2>1, <1>1, <1>3, <1>4 DEF ChainInv, CredentialsDue, Hops
    <2> QED BY <2>1, <1>3, <1>5 DEF CredentialsDue, Hops
  <1>10. StaysHome'
    <2> SUFFICES ASSUME NEW i \in 1 .. (n + 1), sent'[i].sensitive,
                        NEW j \in 1 .. i
                 PROVE  sent'[j].origin = Home
      BY <1>3 DEF StaysHome, Hops
    <2>1. CASE i \in 1 .. n
      BY <2>1, <1>3 DEF ChainInv, StaysHome, Hops
    <2>2. CASE i = n + 1
      <3>1. sensitive BY <2>2, <1>1, <1>3
      <3> QED BY <3>1, <2>2, <1>1, <1>3, <1>4 DEF ChainInv, CredentialsDue, Hops
    <2> QED BY <2>1, <2>2, <1>4
  <1>11. NoBodyAgain'
    <2> SUFFICES ASSUME NEW i \in 1 .. (n + 1), NEW j \in 1 .. (n + 1), i <= j,
                        sent'[i].method = "GET"
                 PROVE  ~sent'[j].body
      BY <1>3 DEF NoBodyAgain, Hops
    <2>1. CASE j \in 1 .. n
      <3>1. i \in 1 .. n BY <2>1, <1>3
      <3> QED BY <2>1, <3>1, <1>3 DEF ChainInv, NoBodyAgain, Hops
    <2>2. CASE j = n + 1
      <3>1. method = "GET"
        BY <1>1, <1>3, <1>4 DEF ChainInv, BodyDue, Hops
      <3> QED BY <3>1, <2>2, <1>1, <1>3 DEF ChainInv, BodyDue
    <2> QED BY <2>1, <2>2, <1>4
  <1> QED BY <1>6, <1>7, <1>8, <1>9, <1>10, <1>11 DEF ChainInv

LEMMA TurnKeepsChain ==
  ASSUME ChainInv, Turns PROVE ChainInv'
  <1>1. ChainTypes'
    BY UpstreamsAssumption
    DEF ChainInv, ChainTypes, Turns, Methods
  <1>2. HopsCounted'
    BY DEF ChainInv, HopsCounted, Turns, Before, After
  <1>3. Hops' = Hops /\ sent' = sent BY DEF Turns, Hops
  <1>4. BodyDue'
    <2>1. \/ method' = method /\ (sendBody' => sendBody)
          \/ method' = "GET" /\ ~sendBody'
      BY DEF Turns
    <2> QED BY <2>1, <1>3 DEF ChainInv, BodyDue
  <1>5. CredentialsDue'
    BY <1>3 DEF ChainInv, CredentialsDue, Turns
  <1>6. StaysHome' /\ NoBodyAgain'
    BY <1>3 DEF ChainInv, StaysHome, NoBodyAgain
  <1> QED BY <1>1, <1>2, <1>4, <1>5, <1>6 DEF ChainInv

LEMMA RestKeepsChain ==
  ASSUME ChainInv, Rests PROVE ChainInv'
  <1>1. Hops' = Hops BY DEF Rests, Hops
  <1> QED
    BY <1>1
    DEF ChainInv, ChainTypes, HopsCounted, BodyDue, CredentialsDue, StaysHome,
        NoBodyAgain, Rests, Before, After

LEMMA HopsKept ==
  ASSUME ChainInv, Sends \/ Turns \/ Rests PROVE ChainInv'
  BY SendKeepsChain, TurnKeepsChain, RestKeepsChain

-----------------------------------------------------------------------------
(* Node: an address is kept for a hop only once it was approved for the    *)
(* origin of that hop, and a new connection goes where it says.  One that  *)
(* is reused was opened by another request, or by an earlier hop of this   *)
(* one, of which the same is already known.                                *)
NodeInv ==
  /\ pc \in {"resolve", "request", "denied", "wait", "answered", "failed"}
  /\ pc = "request" =>
       resolution \in Addresses /\ Node!Approve(current, resolution)
  /\ Node!OnlyApprovedContacted

LEMMA NodeStep ==
  ASSUME ChainInv, NodeInv, Node!Next
  PROVE  (Sends \/ Turns \/ Rests) /\ NodeInv'
  <1>0. UNCHANGED sent => Node!OnlyApprovedContacted'
    BY DEF NodeInv, Node!OnlyApprovedContacted, Node!Hops, Node!Approve
  <1> USE DEF ChainInv, ChainTypes, NodeInv
  <1>1. ASSUME NEW asked \in SUBSET Addresses, Node!ResolveApprovedTarget(asked)
        PROVE  Rests /\ NodeInv'
    <2>1. sent' = sent /\ current' = current /\ pc = "resolve"
      BY <1>1 DEF Node!ResolveApprovedTarget
    <2>2. \/ pc' = "denied"
          \/ /\ pc' = "request"
             /\ \E a \in asked : Node!Approve(current, a) /\ resolution' = a
      BY <1>1 DEF Node!ResolveApprovedTarget
    <2>3. Rests
      BY <2>2, <1>1 DEF Node!ResolveApprovedTarget, Rests, Before
    <2> QED BY <1>0, <2>1, <2>2, <2>3 DEF Node!Approve
  <1>2. ASSUME Node!SingleRequest PROVE Sends /\ NodeInv'
    <2>1. PICK reused \in BOOLEAN, address \in Addresses :
            /\ address \in (IF reused THEN Node!Idle(current) ELSE {resolution})
            /\ sent' = Append(sent, [origin |-> current, address |-> address,
                                     reused |-> reused, method |-> method,
                                     sensitive |-> sensitive, body |-> sendBody])
            /\ pc = "request" /\ pc' = "wait"
            /\ UNCHANGED <<current, method, sensitive, sendBody, redirects>>
      BY <1>2 DEF Node!SingleRequest, Node!PinnedLookup
    <2> DEFINE hop == [origin |-> current, address |-> address,
                       reused |-> reused, method |-> method,
                       sensitive |-> sensitive, body |-> sendBody]
    <2>2. /\ hop \in Hop /\ hop.origin = current /\ hop.address = address
          /\ hop.reused = reused /\ hop.method = method
          /\ hop.sensitive = sensitive /\ hop.body = sendBody
          /\ sent' = Append(sent, hop)
      BY <2>1 DEF Hop
    <2> HIDE DEF hop
    <2>3. /\ \E a \in Addresses : Node!Approve(hop.origin, a)
          /\ \/ Node!Approve(hop.origin, hop.address)
             \/ hop.reused /\ <<hop.origin, hop.address>> \in Inherited
      <3>1. \E a \in Addresses : Node!Approve(hop.origin, a)
        BY <2>1, <2>2
      <3>2. CASE ~reused
        BY <2>1, <2>2, <3>1, <3>2
      <3>3. CASE reused
        <4>1. \/ <<current, address>> \in Inherited
              \/ \E i \in 1 .. Len(sent) :
                    sent[i].origin = current /\ sent[i].address = address
          BY <2>1, <3>3 DEF Node!Idle
        <4>2. ASSUME NEW i \in 1 .. Len(sent),
                     sent[i].origin = current, sent[i].address = address
              PROVE  \/ Node!Approve(current, address)
                     \/ <<current, address>> \in Inherited
          BY <4>2 DEF Node!OnlyApprovedContacted, Node!Hops
        <4> QED BY <2>2, <3>1, <3>3, <4>1, <4>2
      <3> QED BY <3>2, <3>3
    <2>4. Sends BY <2>1, <2>2 DEF Sends, Before
    <2>5. /\ Len(sent') = Len(sent) + 1 /\ Len(sent) \in Nat
          /\ \A i \in 1 .. Len(sent) : sent'[i] = sent[i]
          /\ sent'[Len(sent) + 1] = hop
      BY <2>1, <2>2, Appended
    <2>6. \A i \in 1 .. Len(sent') : i \in 1 .. Len(sent) \/ i = Len(sent) + 1
      BY <2>5
    <2>7. Node!OnlyApprovedContacted'
      BY <2>3, <2>5, <2>6
      DEF Node!OnlyApprovedContacted, Node!Hops, Node!Approve
    <2> QED BY <2>1, <2>4, <2>7
  <1>3. ASSUME Node!Answer \/ Node!RedirectRefused PROVE Rests /\ NodeInv'
    BY <1>0, <1>3 DEF Node!Answer, Node!RedirectRefused, Rests, After
  <1>4. ASSUME NEW status \in {301, 302, 303, 307, 308}, NEW next \in Origins,
               Node!FollowRedirect(status, next)
        PROVE  Turns /\ NodeInv'
    <2>1. /\ pc = "wait" /\ pc' = "resolve"
          /\ redirects < MaxRedirects /\ redirects' = redirects + 1
          /\ current' = next
          /\ sensitive' = (sensitive /\ next = current)
          /\ UNCHANGED sent
      BY <1>4, UpstreamsAssumption
      DEF Node!FollowRedirect, Node!LimitReached, Node!KeepsSensitive
    <2>2. sendBody' = (sendBody /\ ~Node!BecomesGet(status))
      BY <1>4 DEF Node!FollowRedirect, Node!KeepsBody
    <2>3. method' = IF Node!BecomesGet(status) THEN "GET" ELSE method
      BY <1>4 DEF Node!FollowRedirect
    <2>4. /\ sendBody' \in BOOLEAN /\ (sendBody' => sendBody)
          /\ method' = method \/ (method' = "GET" /\ ~sendBody')
      BY <2>2, <2>3
    <2>5. Turns BY <2>1, <2>4 DEF Turns, Before, After
    <2> QED BY <1>0, <2>1, <2>5
  <1> QED BY <1>1, <1>2, <1>3, <1>4 DEF Node!Next

-----------------------------------------------------------------------------
(* Cloudflare: the first request was checked by the caller.  A later one   *)
(* waits in "fetch" only after the check that read the revocation, and no  *)
(* request that left after it is in the chain yet.                         *)
CloudflareInv ==
  /\ pc \in {"fetch", "wait", "check", "answered", "failed"}
  /\ revoked \in BOOLEAN
  /\ pending \in [origin : Origins \cup {"none"}, toGet : BOOLEAN]
  /\ pc = "fetch" /\ redirects > 0 =>
       /\ current \in Scope \ Insecure
       /\ <<current, method>> \notin Denied
       /\ ~sendBody
  /\ pc = "fetch" => \A i \in Hops : ~sent[i].revoked
  /\ pc = "check" =>
       /\ redirects < MaxRedirects
       /\ pending.origin \in Origins \ Insecure
       /\ sendBody => pending.toGet
  /\ \A i \in Hops : sent[i].revoked => revoked
  /\ Cloudflare!OnlyPermittedFollowed
  /\ Cloudflare!RevocationStops
  /\ Cloudflare!BodySentOnce

LEMMA CloudflareStep ==
  ASSUME ChainInv, CloudflareInv, Cloudflare!Next
  PROVE  (Sends \/ Turns \/ Rests) /\ CloudflareInv'
  <1> USE DEF ChainInv, ChainTypes, CloudflareInv
  <1>a. ASSUME UNCHANGED <<sent, current, method, sendBody, redirects>>
        PROVE  /\ Hops' = Hops
               /\ Cloudflare!OnlyPermittedFollowed'
               /\ Cloudflare!RevocationStops'
               /\ Cloudflare!BodySentOnce'
    BY <1>a
    DEF Hops, Cloudflare!OnlyPermittedFollowed, Cloudflare!RevocationStops,
        Cloudflare!BodySentOnce, Cloudflare!Hops
  <1>1. ASSUME Cloudflare!Fetch PROVE Sends /\ CloudflareInv'
    <2> DEFINE hop == [origin |-> current, method |-> method,
                       sensitive |-> sensitive, body |-> sendBody,
                       revoked |-> revoked]
               n == Len(sent)
    <2>1. /\ pc = "fetch" /\ pc' = "wait" /\ sent' = Append(sent, hop)
          /\ UNCHANGED <<current, method, sensitive, sendBody, redirects,
                         pending, revoked>>
      BY <1>1 DEF Cloudflare!Fetch
    <2>2. /\ hop \in Hop /\ hop.origin = current /\ hop.method = method
          /\ hop.sensitive = sensitive /\ hop.body = sendBody
          /\ hop.revoked = revoked
      BY <2>1 DEF Hop
    <2> HIDE DEF hop
    <2>3. Sends BY <2>1, <2>2 DEF Sends, Before
    <2>4. /\ Len(sent') = n + 1 /\ n \in Nat
          /\ \A i \in 1 .. n : sent'[i] = sent[i]
          /\ sent'[n + 1] = hop
      BY <2>1, <2>2, Appended
    <2>5. \A i \in 1 .. (n + 1) : i \in 1 .. n \/ i = n + 1
      BY <2>4
    <2>6. n = redirects BY <2>1 DEF HopsCounted, Before
    <2>7. Cloudflare!OnlyPermittedFollowed'
      <3>0. Cloudflare!Hops' = 1 .. (n + 1) BY <2>4, Zenon DEF Cloudflare!Hops
      <3> SUFFICES ASSUME NEW i \in 1 .. (n + 1), i # 1
                   PROVE  /\ sent'[i].origin \in Scope \ Insecure
                          /\ <<sent'[i].origin, sent'[i].method>> \notin Denied
        BY <3>0, Zenon DEF Cloudflare!OnlyPermittedFollowed
      <3>1. CASE i \in 1 .. n
        BY <3>1, <2>4 DEF Cloudflare!OnlyPermittedFollowed, Cloudflare!Hops
      <3>2. CASE i = n + 1
        <4>1. redirects > 0 BY <3>2, <2>4, <2>6
        <4> QED BY <4>1, <3>2, <2>1, <2>2, <2>4
      <3> QED BY <3>1, <3>2, <2>5
    <2>8. Cloudflare!RevocationStops'
      <3>1. \A i \in 1 .. n : ~sent'[i].revoked
        BY <2>1, <2>4 DEF Hops
      <3> QED BY <3>1, <2>4, <2>5 DEF Cloudflare!RevocationStops, Cloudflare!Hops
    <2>9. Cloudflare!BodySentOnce'
      <3> SUFFICES ASSUME NEW i \in 1 .. (n + 1), sent'[i].body
                   PROVE  i = 1
        BY <2>4 DEF Cloudflare!BodySentOnce, Cloudflare!Hops
      <3>1. CASE i \in 1 .. n
        BY <3>1, <2>4 DEF Cloudflare!BodySentOnce, Cloudflare!Hops
      <3>2. CASE i = n + 1
        BY <3>2, <2>1, <2>2, <2>4, <2>6
      <3> QED BY <3>1, <3>2, <2>5
    <2>10. \A i \in 1 .. (n + 1) : sent'[i].revoked => revoked
      BY <2>2, <2>4, <2>5 DEF Hops
    <2> QED BY <2>1, <2>3, <2>4, <2>7, <2>8, <2>9, <2>10 DEF Hops
  <1>2. ASSUME \/ Cloudflare!Answer
               \/ \E next \in Origins :
                    \/ Cloudflare!RedirectRefused(next)
                    \/ \E status \in {301, 302, 303, 307, 308} :
                         Cloudflare!RedirectReturned(status, next)
        PROVE  Rests /\ CloudflareInv'
    <2>1. /\ pc = "wait" /\ pc' \in {"answered", "failed"}
          /\ UNCHANGED <<current, method, sensitive, sendBody, redirects,
                         pending, revoked, sent>>
      BY <1>2
      DEF Cloudflare!Answer, Cloudflare!RedirectRefused,
          Cloudflare!RedirectReturned
    <2>2. Rests BY <2>1 DEF Rests, After
    <2> QED BY <1>a, <2>1, <2>2
  <1>3. ASSUME NEW status \in {301, 302, 303, 307, 308}, NEW next \in Origins,
               Cloudflare!Redirected(status, next)
        PROVE  Rests /\ CloudflareInv'
    <2> DEFINE toGet == Cloudflare!SwitchesToGet(status)
    <2>1. /\ pc = "wait" /\ pc' = "check" /\ redirects < MaxRedirects
          /\ next \notin Insecure /\ (sendBody => toGet)
          /\ pending' = [origin |-> next, toGet |-> toGet]
          /\ UNCHANGED <<current, method, sensitive, sendBody, redirects,
                         revoked, sent>>
      BY <1>3, UpstreamsAssumption
      DEF Cloudflare!Redirected, Cloudflare!LimitReached
    <2>2. toGet \in BOOLEAN BY DEF Cloudflare!SwitchesToGet
    <2> HIDE DEF toGet
    <2>3. /\ pending' \in [origin : Origins \cup {"none"}, toGet : BOOLEAN]
          /\ pending'.origin = next /\ pending'.toGet = toGet
      BY <2>1, <2>2
    <2>4. Rests BY <2>1 DEF Rests, After
    <2> QED BY <1>a, <2>1, <2>3, <2>4
  <1>4. ASSUME Cloudflare!CheckTarget
        PROVE  (Turns \/ Rests) /\ CloudflareInv'
    <2>1. /\ pc = "check" /\ UNCHANGED <<revoked, sent>>
          /\ pending' = Cloudflare!NoRedirect
      BY <1>4 DEF Cloudflare!CheckTarget
    <2>2. pending' \in [origin : Origins \cup {"none"}, toGet : BOOLEAN]
      BY <2>1 DEF Cloudflare!NoRedirect
    <2>3. CASE /\ Cloudflare!TargetAllowed(pending.origin)
               /\ ~Cloudflare!PolicyDenies(pending.origin)
      <3>1. /\ current' = pending.origin
            /\ sensitive' = Cloudflare!KeepsCredentials(pending.origin)
            /\ method' = Cloudflare!NextMethod
            /\ sendBody' = (sendBody /\ ~pending.toGet)
            /\ redirects' = redirects + 1
            /\ pc' = "fetch"
        BY <1>4, <2>3 DEF Cloudflare!CheckTarget
      <3>2. /\ pending.origin \in Scope /\ ~revoked
            /\ <<pending.origin, Cloudflare!NextMethod>> \notin Denied
        BY <2>3 DEF Cloudflare!TargetAllowed, Cloudflare!PolicyDenies
      <3>3. /\ current' \in Scope \ Insecure
            /\ <<current', method'>> \notin Denied
            /\ ~sendBody' /\ sendBody' \in BOOLEAN
        BY <2>1, <3>1, <3>2
      <3>4. Turns
        <4>1. /\ sensitive' \in BOOLEAN
              /\ sensitive' => sensitive /\ current' = current
          BY <3>1 DEF Cloudflare!KeepsCredentials
        <4>2. method' = method \/ method' = "GET"
          BY <3>1 DEF Cloudflare!NextMethod
        <4> QED
          BY <2>1, <3>1, <3>3, <4>1, <4>2 DEF Turns, Before, After
      <3>5. \A i \in Hops : ~sent[i].revoked
        BY <3>2
      <3>6. Cloudflare!OnlyPermittedFollowed' /\ Cloudflare!RevocationStops'
            /\ Cloudflare!BodySentOnce' /\ Hops' = Hops
        BY <2>1
        DEF Cloudflare!OnlyPermittedFollowed, Cloudflare!RevocationStops,
            Cloudflare!BodySentOnce, Cloudflare!Hops, Hops
      <3> QED BY <2>1, <2>2, <3>1, <3>3, <3>4, <3>5, <3>6
    <2>4. CASE ~(/\ Cloudflare!TargetAllowed(pending.origin)
                 /\ ~Cloudflare!PolicyDenies(pending.origin))
      <3>1. /\ pc' = "failed"
            /\ UNCHANGED <<current, sensitive, method, sendBody, redirects>>
        BY <1>4, <2>4 DEF Cloudflare!CheckTarget
      <3>2. Rests BY <2>1, <3>1 DEF Rests, After
      <3> QED BY <1>a, <2>1, <2>2, <3>1, <3>2
    <2> QED BY <2>3, <2>4
  <1>5. ASSUME Cloudflare!Revoke PROVE Rests /\ CloudflareInv'
    <2>1. /\ revoked' = TRUE
          /\ UNCHANGED <<pc, current, method, sensitive, sendBody, redirects,
                         pending, sent>>
      BY <1>5 DEF Cloudflare!Revoke
    <2>2. Rests BY <2>1 DEF Rests, Before, After
    <2> QED BY <1>a, <2>1, <2>2
  <1> QED BY <1>1, <1>2, <1>3, <1>4, <1>5 DEF Cloudflare!Next

-----------------------------------------------------------------------------
(* Supabase: a request waits in "fetch" only as it was judged, and the     *)
(* entries the policy judges are in step with the headers that are sent.   *)
SupabaseInv ==
  /\ pc \in {"judge", "fetch", "denied", "wait", "answered", "failed"}
  /\ policySensitive = sensitive
  /\ judged \in [origin : Origins \cup {"none"}, method : Methods \cup {"none"},
                 sensitive : BOOLEAN, body : BOOLEAN]
  /\ pc = "fetch" =>
       /\ judged = [origin |-> current, method |-> method,
                    sensitive |-> sensitive, body |-> sendBody]
       /\ current \in Scope \ Services
       /\ <<current, method>> \notin Denied
  /\ Supabase!PolicySawRequest
  /\ Supabase!OnlyPermittedFollowed

LEMMA SupabaseStep ==
  ASSUME ChainInv, SupabaseInv, Supabase!Next
  PROVE  (Sends \/ Turns \/ Rests) /\ SupabaseInv'
  <1> USE DEF ChainInv, ChainTypes, SupabaseInv
  <1>a. ASSUME UNCHANGED sent
        PROVE  Supabase!PolicySawRequest' /\ Supabase!OnlyPermittedFollowed'
    BY <1>a
    DEF Supabase!PolicySawRequest, Supabase!OnlyPermittedFollowed,
        Supabase!Hops
  <1>1. ASSUME Supabase!Judge PROVE Rests /\ SupabaseInv'
    <2>1. /\ pc = "judge" /\ pc' \in {"denied", "fetch"}
          /\ UNCHANGED <<current, method, sensitive, sendBody, policySensitive,
                         redirects, sent>>
          /\ judged' = [origin |-> current, method |-> method,
                        sensitive |-> sensitive, body |-> sendBody]
      BY <1>1 DEF Supabase!Judge
    <2>2. pc' = "fetch" =>
            current \in Scope \ Services /\ <<current, method>> \notin Denied
      BY <1>1
      DEF Supabase!Judge, Supabase!IsRecursive, Supabase!PolicyDenies,
          Supabase!TokenAllows
    <2>3. Rests BY <2>1 DEF Rests, Before
    <2> QED BY <1>a, <2>1, <2>2, <2>3
  <1>2. ASSUME Supabase!Fetch PROVE Sends /\ SupabaseInv'
    <2> DEFINE hop == [origin |-> current, method |-> method,
                       sensitive |-> sensitive, body |-> sendBody,
                       judged |-> judged]
               n == Len(sent)
    <2>1. /\ pc = "fetch" /\ pc' = "wait" /\ sent' = Append(sent, hop)
          /\ UNCHANGED <<current, method, sensitive, sendBody, redirects,
                         policySensitive, judged>>
      BY <1>2 DEF Supabase!Fetch
    <2>2. /\ hop \in Hop /\ hop.origin = current /\ hop.method = method
          /\ hop.sensitive = sensitive /\ hop.body = sendBody
          /\ hop.judged = judged
      BY <2>1 DEF Hop
    <2> HIDE DEF hop
    <2>3. Sends BY <2>1, <2>2 DEF Sends, Before
    <2>4. /\ Len(sent') = n + 1 /\ n \in Nat
          /\ \A i \in 1 .. n : sent'[i] = sent[i]
          /\ sent'[n + 1] = hop
      BY <2>1, <2>2, Appended
    <2>5. \A i \in 1 .. (n + 1) : i \in 1 .. n \/ i = n + 1
      BY <2>4
    <2>6. Supabase!PolicySawRequest'
      BY <2>1, <2>2, <2>4, <2>5 DEF Supabase!PolicySawRequest, Supabase!Hops
    <2>7. Supabase!OnlyPermittedFollowed'
      BY <2>1, <2>2, <2>4, <2>5
      DEF Supabase!OnlyPermittedFollowed, Supabase!Hops
    <2> QED BY <2>1, <2>3, <2>6, <2>7
  <1>3. ASSUME Supabase!Answer \/ Supabase!RedirectRefused
        PROVE  Rests /\ SupabaseInv'
    <2>1. /\ pc = "wait" /\ pc' \in {"answered", "failed"}
          /\ UNCHANGED <<current, method, sensitive, sendBody, redirects,
                         policySensitive, judged, sent>>
      BY <1>3 DEF Supabase!Answer, Supabase!RedirectRefused
    <2>2. Rests BY <2>1 DEF Rests, After
    <2> QED BY <1>a, <2>1, <2>2
  <1>4. ASSUME NEW status \in {301, 302, 303, 307, 308}, NEW next \in Origins,
               Supabase!FollowRedirect(status, next)
        PROVE  Turns /\ SupabaseInv'
    <2>1. /\ pc = "wait" /\ pc' = "judge"
          /\ redirects < MaxRedirects /\ redirects' = redirects + 1
          /\ current' = next
          /\ sensitive' = (sensitive /\ next = current)
          /\ policySensitive' = (policySensitive /\ next = current)
          /\ UNCHANGED <<judged, sent>>
      BY <1>4, UpstreamsAssumption
      DEF Supabase!FollowRedirect, Supabase!LimitReached, Supabase!HeadersKeep,
          Supabase!PolicyKeeps
    <2>2. /\ sendBody' = (sendBody /\ ~Supabase!BecomesGet(status))
          /\ method' = IF Supabase!BecomesGet(status) THEN "GET" ELSE method
      BY <1>4 DEF Supabase!FollowRedirect
    <2>3. /\ sendBody' \in BOOLEAN /\ (sendBody' => sendBody)
          /\ method' = method \/ (method' = "GET" /\ ~sendBody')
      BY <2>2
    <2>4. Turns BY <2>1, <2>3 DEF Turns, Before, After
    <2> QED BY <1>a, <2>1, <2>4
  <1> QED BY <1>1, <1>2, <1>3, <1>4 DEF Supabase!Next

-----------------------------------------------------------------------------
UpstreamsInv ==
  subject \in Adapters =>
    /\ ChainInv
    /\ subject = "node" => NodeInv
    /\ subject = "cloudflare" => CloudflareInv
    /\ subject = "supabase" => SupabaseInv

LEMMA UpstreamsBegin == UpstreamsInit => UpstreamsInv
  <1> SUFFICES ASSUME UpstreamsInit PROVE UpstreamsInv OBVIOUS
  <1>1. ASSUME /\ sent = <<>> /\ redirects = 0 /\ current = Home
               /\ method \in Methods /\ sensitive \in BOOLEAN
               /\ sendBody \in BOOLEAN /\ (method = "GET" => ~sendBody)
               /\ pc \in Before
        PROVE  ChainInv /\ Hops = {}
    <2>1. sent \in Seq(Hop) /\ Len(sent) = 0 BY <1>1
    <2>2. Hops = {} BY <2>1 DEF Hops
    <2> QED
      BY <1>1, <2>1, <2>2, UpstreamsAssumption
      DEF ChainInv, ChainTypes, HopsCounted, BodyDue, CredentialsDue,
          StaysHome, NoBodyAgain, Before, After
  <1>2. CASE subject = "node"
    <2>1. ChainInv /\ Hops = {}
      BY <1>1, <1>2 DEF UpstreamsInit, Node!Init, Methods, Before
    <2>2. NodeInv
      BY <2>1, <1>2
      DEF UpstreamsInit, NodeInv, Node!Init, Node!OnlyApprovedContacted,
          Node!Hops, Hops
    <2> QED BY <1>2, <2>1, <2>2 DEF UpstreamsInv
  <1>3. CASE subject = "cloudflare"
    <2>1. Cloudflare!Init BY <1>3 DEF UpstreamsInit
    <2>2. ChainInv /\ Hops = {}
      BY <1>1, <2>1 DEF Cloudflare!Init, Methods, Before
    <2>3. CloudflareInv
      <3>1. /\ pc = "fetch" /\ redirects = 0 /\ revoked = FALSE
            /\ pending = [origin |-> "none", toGet |-> FALSE]
        BY <1>3, <2>1 DEF UpstreamsInit, Cloudflare!Init, Cloudflare!NoRedirect
      <3>2. /\ Cloudflare!OnlyPermittedFollowed
            /\ Cloudflare!RevocationStops
            /\ Cloudflare!BodySentOnce
        BY <2>2
        DEF Cloudflare!OnlyPermittedFollowed, Cloudflare!RevocationStops,
            Cloudflare!BodySentOnce, Cloudflare!Hops, Hops
      <3>3. /\ pending \in [origin : Origins \cup {"none"}, toGet : BOOLEAN]
            /\ ~(redirects > 0)
            /\ pc # "check"
        BY <3>1
      <3>4. \A i \in Hops : FALSE BY <2>2
      <3> QED BY <3>1, <3>2, <3>3, <3>4, Zenon DEF CloudflareInv
    <2> QED BY <1>3, <2>2, <2>3 DEF UpstreamsInv
  <1>4. CASE subject = "supabase"
    <2>1. Supabase!Init BY <1>4 DEF UpstreamsInit
    <2>2. ChainInv /\ Hops = {}
      BY <1>1, <2>1 DEF Supabase!Init, Methods, Before
    <2>3. SupabaseInv
      BY <2>1, <2>2
      DEF SupabaseInv, Supabase!Init, Supabase!NotJudged,
          Supabase!PolicySawRequest, Supabase!OnlyPermittedFollowed,
          Supabase!Hops, Hops
    <2> QED BY <1>4, <2>2, <2>3 DEF UpstreamsInv
  <1> QED BY <1>2, <1>3, <1>4 DEF UpstreamsInit

LEMMA UpstreamsStep ==
  UpstreamsInv /\ [UpstreamsNext]_upstreamsVars => UpstreamsInv'
  <1> SUFFICES ASSUME UpstreamsInv, [UpstreamsNext]_upstreamsVars
               PROVE  UpstreamsInv'
    OBVIOUS
  <1>1. CASE subject = "node" /\ Node!Next /\ UNCHANGED subject
    BY <1>1, NodeStep, HopsKept DEF UpstreamsInv, Adapters
  <1>2. CASE subject = "cloudflare" /\ Cloudflare!Next /\ UNCHANGED subject
    BY <1>2, CloudflareStep, HopsKept DEF UpstreamsInv, Adapters
  <1>3. CASE subject = "supabase" /\ Supabase!Next /\ UNCHANGED subject
    BY <1>3, SupabaseStep, HopsKept DEF UpstreamsInv, Adapters
  <1>4. CASE UNCHANGED upstreamsVars
    <2> USE <1>4 DEF upstreamsVars
    <2>1. ChainInv => ChainInv'
      BY DEF ChainInv, ChainTypes, HopsCounted, BodyDue, CredentialsDue,
             StaysHome, NoBodyAgain, Hops
    <2>2. NodeInv => NodeInv'
      BY DEF NodeInv, Node!Approve, Node!OnlyApprovedContacted, Node!Hops
    <2>3. CloudflareInv => CloudflareInv'
      BY DEF CloudflareInv, Cloudflare!OnlyPermittedFollowed,
             Cloudflare!RevocationStops, Cloudflare!BodySentOnce,
             Cloudflare!Hops, Hops
    <2>4. SupabaseInv => SupabaseInv'
      BY DEF SupabaseInv, Supabase!PolicySawRequest,
             Supabase!OnlyPermittedFollowed, Supabase!Hops
    <2> QED BY <2>1, <2>2, <2>3, <2>4 DEF UpstreamsInv
  <1> QED BY <1>1, <1>2, <1>3, <1>4 DEF UpstreamsNext

THEOREM UpstreamsInvariant == UpstreamsSpec => []UpstreamsInv
  BY UpstreamsBegin, UpstreamsStep, PTL DEF UpstreamsSpec

(* Every request of a chain of redirects was permitted as it was sent, on  *)
(* each adapter by its own rules; the limit ends the chain, and so, on     *)
(* Cloudflare, does a revocation, after at most one more request.          *)
THEOREM OnlyPermittedContactedHolds == UpstreamsSpec => []OnlyPermittedContacted
  <1>1. UpstreamsInv => OnlyPermittedContacted
    <2>1. subject \in Adapters /\ ChainInv => Node!RedirectsBounded
      BY UpstreamsAssumption
      DEF ChainInv, ChainTypes, HopsCounted, Node!RedirectsBounded
    <2> QED
      BY <2>1
      DEF UpstreamsInv, NodeInv, CloudflareInv, SupabaseInv,
          OnlyPermittedContacted, NodeApprovedOnly, OnlyPermittedFollowed,
          PolicySawRequest, RevocationStops, HopsBounded, Adapters
  <1> QED BY <1>1, UpstreamsInvariant, PTL

(* Neither credentials that were stripped at another origin nor a body     *)
(* that was dropped come back later in a chain.                            *)
THEOREM NothingComesBackHolds == UpstreamsSpec => []NothingComesBack
  <1>1. UpstreamsInv => NothingComesBack
    BY DEF UpstreamsInv, ChainInv, StaysHome, NoBodyAgain, Hops,
           CloudflareInv, NothingComesBack, CredentialsStayHome,
           BodyNotResent, Node!SensitiveStaysHome, Node!NoBodyAfterGet,
           Node!Hops, Adapters
  <1> QED BY <1>1, UpstreamsInvariant, PTL
=============================================================================
