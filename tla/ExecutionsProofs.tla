-------------------------- MODULE ExecutionsProofs --------------------------
(***************************************************************************)
(* Proofs about the executions of the two cloud adapters (MCExecutions),   *)
(* for any requests, limits, timeouts and bounds.  Each of the three kinds *)
(* has an invariant of its own that speaks of one execution at a time:     *)
(* what its place implies of its lease, its report and its clock.  A step  *)
(* of another execution may take away a lease that has run out, and        *)
(* nothing else.                                                           *)
(***************************************************************************)
EXTENDS MCExecutions, FiniteSetTheorems, TLAPS

-----------------------------------------------------------------------------
(* Supabase *)

GatewayPlaces ==
  {"idle", "received", "reject", "acquire", "body", "reconcile", "accepted",
   "upstream", "stream", "finalize", "retry", "done"}

GatewayRequests ==
  [pc : GatewayPlaces, audit : {"recorded", "degraded"}, due : Nat, deadline : Nat,
   abort : {"none", "timeout", "cancelled"},
   outcome : {"none", "relay-error", "completed", "partial", "timeout", "cancelled"},
   sent : Nat, hits : Nat, answer : {"none", "relay", "target", "reported", "unfinalized"},
   said : {"unknown", "none", "recorded", "degraded"}, unreadable : BOOLEAN]

GatewayReports ==
  [outcome : {"none", "relay-error", "completed", "partial", "timeout", "cancelled"},
   bytes : Nat, audit : {"none", "recorded", "degraded"}]

GatewayTypes ==
  /\ clock \in Nat
  /\ lease \in [Requests -> [at : Nat, bytes : Nat, held : BOOLEAN]]
  /\ report \in [Requests -> GatewayReports]
  /\ terminal \in [Requests -> Nat] /\ charges \in [Requests -> Nat]
  /\ req \in [Requests -> GatewayRequests]

\* A lease lasts eight ticks; with the timer, one call under way when it fires
\* and the audit of the acceptance, at most seven pass before the target is called.
Timely(now, q, row) ==
  /\ q.pc \in {"body", "reconcile", "accepted", "upstream", "stream"} =>
       row.held /\ q.deadline = row.at + 4
  /\ q.pc = "body" => now <= q.deadline
  /\ q.pc = "reconcile" => now <= q.due /\ q.due <= row.at + 5
  /\ q.pc = "accepted" => now <= q.due /\ q.due <= row.at + 7
  /\ q.pc \in {"upstream", "stream"} => now <= row.at + 7

NoRecord == [outcome |-> "none", bytes |-> 0, audit |-> "none"]

\* Report, event and charge come together, and the lease has gone by then.
Settled(q, row, record, events, charged) ==
  /\ charged = IF record = NoRecord THEN 0 ELSE 1
  /\ record = NoRecord => events = 0
  /\ events <= 1
  /\ record.audit = "recorded" => events = 1
  /\ record # NoRecord => ~row.held /\ q.pc \in {"retry", "done"}

\* What the caller was told agrees with the report.
Told(q, record) ==
  /\ q.pc \in {"idle", "received", "reject", "acquire", "body", "reconcile",
               "accepted", "upstream"} => q.said = "unknown" /\ q.answer = "none"
  /\ q.pc = "retry" => q.hits >= 1
  /\ q.pc # "done" => q.answer \in {"none", "target"}
  /\ q.answer = "unfinalized" => q.hits >= 2 \/ record = NoRecord \/ q.unreadable
  /\ q.said = "degraded" => record.audit \in {"none", "degraded"}
  /\ q.said = "degraded" /\ q.pc # "done" => q.audit = "degraded"

\* Without a fault nothing is leased before the acquisition, or at the end.
Returned(q, row) ==
  /\ q.pc \in {"idle", "received", "acquire"} => ~row.held
  /\ q.pc \in {"reject", "done"} /\ q.hits = 0 => ~row.held

GatewaySound(r) ==
  /\ Timely(clock, req[r], lease[r])
  /\ Settled(req[r], lease[r], report[r], terminal[r], charges[r])
  /\ Told(req[r], report[r])
  /\ Returned(req[r], lease[r])

GatewayInv == GatewayTypes /\ \A r \in Requests : GatewaySound(r)

-----------------------------------------------------------------------------
\* The lease of r stays, or it has run out and is deleted.
LeaseLapses(r) ==
  \/ lease'[r] = lease[r]
  \/ /\ lease'[r] = [at |-> 0, bytes |-> 0, held |-> FALSE]
     /\ lease[r].at + 8 <= clock

\* An execution that does not move stays sound.
LEMMA GatewayRests ==
  ASSUME GatewayInv, NEW r \in Requests, clock' = clock, req'[r] = req[r],
         report'[r] = report[r], terminal'[r] = terminal[r], charges'[r] = charges[r],
         lease[r].held => LeaseLapses(r), ~lease[r].held => ~lease'[r].held
  PROVE  GatewaySound(r)'
<1>1. /\ lease[r] \in [at : Nat, bytes : Nat, held : BOOLEAN] /\ clock \in Nat
      /\ req[r] \in GatewayRequests
  BY DEF GatewayInv, GatewayTypes
<1>2. Timely(clock', req'[r], lease'[r])
  BY <1>1 DEF GatewayInv, GatewaySound, Timely, LeaseLapses, GatewayRequests
<1>3. Settled(req'[r], lease'[r], report'[r], terminal'[r], charges'[r])
  BY <1>1 DEF GatewayInv, GatewaySound, Settled, LeaseLapses
<1>4. Told(req'[r], report'[r])
  BY DEF GatewayInv, GatewaySound, Told
<1>5. Returned(req'[r], lease'[r])
  BY <1>1 DEF GatewayInv, GatewaySound, Returned, LeaseLapses
<1> QED BY <1>2, <1>3, <1>4, <1>5 DEF GatewaySound

\* A step of r that leaves the others alone.
LEMMA GatewaySteps ==
  ASSUME GatewayInv, NEW r \in Requests, NEW q \in GatewayRequests, clock' = clock,
         req' = [req EXCEPT ![r] = q],
         NEW row \in [at : Nat, bytes : Nat, held : BOOLEAN],
         \/ lease' = [lease EXCEPT ![r] = row]
         \/ lease' = [Supabase!Reap EXCEPT ![r] = row],
         NEW record \in GatewayReports, report' = [report EXCEPT ![r] = record],
         NEW events \in Nat, terminal' = [terminal EXCEPT ![r] = events],
         NEW charged \in Nat, charges' = [charges EXCEPT ![r] = charged],
         Timely(clock, q, row), Settled(q, row, record, events, charged),
         Told(q, record), Returned(q, row)
  PROVE  GatewayInv'
<1>1. Supabase!Reap \in [Requests -> [at : Nat, bytes : Nat, held : BOOLEAN]]
  BY DEF GatewayInv, GatewayTypes, Supabase!Reap, Supabase!NoLease
<1>2. GatewayTypes'
  BY <1>1 DEF GatewayInv, GatewayTypes
<1>3. GatewaySound(r)'
  BY <1>1 DEF GatewaySound, GatewayInv, GatewayTypes
<1>4. ASSUME NEW p \in Requests \ {r}
      PROVE  GatewaySound(p)'
  <2>1. /\ req'[p] = req[p] /\ report'[p] = report[p] /\ terminal'[p] = terminal[p]
        /\ charges'[p] = charges[p]
    BY DEF GatewayInv, GatewayTypes
  <2>2. /\ lease[p] \in [at : Nat, bytes : Nat, held : BOOLEAN] /\ clock \in Nat
        /\ lease'[p] = lease[p] \/ lease'[p] = Supabase!Reap[p]
    BY <1>1 DEF GatewayInv, GatewayTypes
  <2>3. /\ lease[p].held => LeaseLapses(p)
        /\ ~lease[p].held => ~lease'[p].held
    BY <2>2 DEF LeaseLapses, Supabase!Reap, Supabase!NoLease, Supabase!Live,
       Supabase!LeaseTicks
  <2> QED BY <2>1, <2>3, GatewayRests
<1> QED BY <1>2, <1>3, <1>4 DEF GatewayInv

LEMMA GatewayMoves ==
  ASSUME GatewayInv, NEW r \in Requests, NEW q \in GatewayRequests, clock' = clock,
         req' = [req EXCEPT ![r] = q], UNCHANGED <<lease, report, terminal, charges>>,
         Timely(clock, q, lease[r]),
         Settled(q, lease[r], report[r], terminal[r], charges[r]),
         Told(q, report[r]), Returned(q, lease[r])
  PROVE  GatewayInv'
<1>1. /\ lease[r] \in [at : Nat, bytes : Nat, held : BOOLEAN]
      /\ report[r] \in GatewayReports /\ terminal[r] \in Nat /\ charges[r] \in Nat
  BY DEF GatewayInv, GatewayTypes
<1>2. /\ lease' = [lease EXCEPT ![r] = lease[r]] /\ report' = [report EXCEPT ![r] = report[r]]
      /\ terminal' = [terminal EXCEPT ![r] = terminal[r]]
      /\ charges' = [charges EXCEPT ![r] = charges[r]]
  BY DEF GatewayInv, GatewayTypes
<1> QED BY <1>1, <1>2, GatewaySteps

LEMMA GatewayOf ==
  ASSUME GatewayInv, NEW r \in Requests
  PROVE  /\ req[r] \in GatewayRequests /\ clock \in Nat
         /\ lease[r] \in [at : Nat, bytes : Nat, held : BOOLEAN]
         /\ report[r] \in GatewayReports /\ terminal[r] \in Nat /\ charges[r] \in Nat
         /\ Timely(clock, req[r], lease[r])
         /\ Settled(req[r], lease[r], report[r], terminal[r], charges[r])
         /\ Told(req[r], report[r]) /\ Returned(req[r], lease[r])
BY DEF GatewayInv, GatewayTypes, GatewaySound

\* What an attempt to audit makes of the record that goes on.
LEMMA AuditedRecord ==
  ASSUME GatewayInv, NEW r \in Requests, NEW next \in GatewayRequests,
         NEW audit, NEW flag, NEW n \in 0 .. 2,
         Supabase!AfterAudit(r, next, audit, flag, n)
  PROVE  \E q \in GatewayRequests :
           /\ req' = [req EXCEPT ![r] = q]
           /\ q.pc = next.pc /\ q.due = next.due /\ q.deadline = next.deadline
           /\ q.abort = next.abort /\ q.outcome = next.outcome /\ q.sent = next.sent
           /\ q.answer = next.answer /\ q.said = next.said
           /\ q.hits = next.hits + n
           /\ q.audit = (IF audit = "same" THEN next.audit ELSE audit)
<1>1. audit \in {"same", "degraded"}
  BY DEF Supabase!AfterAudit, Supabase!AuditStateAfter
<1>2. PICK a \in {"recorded", "degraded"} :
        a = (IF audit = "same" THEN next.audit ELSE audit)
  BY <1>1 DEF GatewayRequests
<1>3. next.hits + n \in Nat
  BY DEF GatewayRequests
<1>4. PICK q : q = [next EXCEPT !.audit = (IF audit = "same" THEN @ ELSE audit),
                                !.hits = @ + n]
  OBVIOUS
<1>5. q = [next EXCEPT !.audit = a, !.hits = next.hits + n]
  BY <1>2, <1>4 DEF GatewayRequests
<1>6. req' = [req EXCEPT ![r] = q]
  BY <1>4 DEF Supabase!AfterAudit, Supabase!Becomes
<1>7. q \in GatewayRequests
  BY <1>2, <1>5, <1>3 DEF GatewayRequests
<1>8. /\ q.pc = next.pc /\ q.due = next.due /\ q.deadline = next.deadline
      /\ q.abort = next.abort /\ q.outcome = next.outcome /\ q.sent = next.sent
      /\ q.answer = next.answer /\ q.said = next.said
      /\ q.hits = next.hits + n /\ q.audit = a
  BY <1>5 DEF GatewayRequests
<1> QED BY <1>2, <1>6, <1>7, <1>8

\* The handler reaches an await.
LEMMA GoesTo ==
  ASSUME GatewayInv, NEW r \in Requests, NEW label \in GatewayPlaces, NEW ticks \in Nat
  PROVE  \E q \in GatewayRequests :
           /\ q = Supabase!Goto(r, label, ticks)
           /\ q.pc = label /\ q.due = (IF ticks = 0 THEN 0 ELSE clock + ticks)
           /\ q.audit = req[r].audit /\ q.deadline = req[r].deadline
           /\ q.abort = req[r].abort /\ q.outcome = req[r].outcome
           /\ q.sent = req[r].sent /\ q.hits = req[r].hits
           /\ q.answer = req[r].answer /\ q.said = req[r].said
<1>1. req[r] \in GatewayRequests /\ clock \in Nat
  BY GatewayOf
<1>2. PICK due \in Nat : due = IF ticks = 0 THEN 0 ELSE clock + ticks
  BY <1>1
<1>3. PICK q : q = [req[r] EXCEPT !.pc = label, !.due = due]
  OBVIOUS
<1>4. q = Supabase!Goto(r, label, ticks)
  BY <1>2, <1>3 DEF Supabase!Goto
<1>5. q \in GatewayRequests
  BY <1>1, <1>3 DEF GatewayRequests
<1> WITNESS q \in GatewayRequests
<1> QED BY <1>1, <1>2, <1>3, <1>4 DEF GatewayRequests

LEMMA HitsSet ==
  ASSUME NEW g \in GatewayRequests, NEW h \in Nat
  PROVE  [g EXCEPT !.hits = h] \in GatewayRequests
BY DEF GatewayRequests

LEMMA PlaceSet ==
  ASSUME NEW g \in GatewayRequests, NEW place \in GatewayPlaces
  PROVE  [g EXCEPT !.pc = place] \in GatewayRequests
BY DEF GatewayRequests

LEMMA ReplySet ==
  ASSUME NEW g \in GatewayRequests,
         NEW answer \in {"relay", "target", "reported", "unfinalized"}
  PROVE  [g EXCEPT !.answer = answer] \in GatewayRequests
BY DEF GatewayRequests

LEMMA SaidSet ==
  ASSUME NEW g \in GatewayRequests,
         NEW said \in {"unknown", "none", "recorded", "degraded"}
  PROVE  [g EXCEPT !.said = said] \in GatewayRequests
BY DEF GatewayRequests

LEMMA DegradedSet ==
  ASSUME NEW g \in GatewayRequests
  PROVE  [g EXCEPT !.audit = "degraded"] \in GatewayRequests
BY DEF GatewayRequests

\* The handler has returned.
LEMMA Returns ==
  ASSUME GatewayInv, NEW r \in Requests,
         NEW answer \in {"relay", "target", "reported", "unfinalized"},
         NEW said \in {"unknown", "none", "recorded", "degraded"}
  PROVE  \E q \in GatewayRequests :
           /\ q = Supabase!Done(r, answer, said) /\ q.pc = "done"
           /\ q.audit = "recorded" /\ q.hits = req[r].hits
           /\ q.answer = answer /\ q.said = said
<1>1. PICK hits \in Nat : hits = req[r].hits
  BY GatewayOf DEF GatewayRequests
<1>2. PICK n \in GatewayRequests : n = Supabase!NewRequest
  BY DEF Supabase!NewRequest, GatewayRequests, GatewayPlaces
<1>3. PICK d \in GatewayRequests : d = [n EXCEPT !.pc = "done"]
  BY <1>2, PlaceSet DEF GatewayPlaces
<1>4. PICK a \in GatewayRequests : a = [d EXCEPT !.answer = answer]
  BY <1>3, ReplySet
<1>5. PICK t \in GatewayRequests : t = [a EXCEPT !.said = said]
  BY <1>4, SaidSet
<1>6. PICK q \in GatewayRequests : q = [t EXCEPT !.hits = hits]
  BY <1>1, <1>5, HitsSet
<1>7. q = Supabase!Done(r, answer, said)
  BY <1>1, <1>2, <1>3, <1>4, <1>5, <1>6 DEF Supabase!Done
<1>8. n.audit = "recorded"
  BY <1>2 DEF Supabase!NewRequest
<1>9. /\ q.pc = "done" /\ q.audit = "recorded" /\ q.hits = req[r].hits
      /\ q.answer = answer /\ q.said = said
  BY <1>1, <1>3, <1>4, <1>5, <1>6, <1>8 DEF GatewayRequests
<1> QED BY <1>6, <1>7, <1>9

LEMMA HandleKeeps ==
  ASSUME GatewayInv, NEW r \in Requests, Supabase!Handle(r)
  PROVE  GatewayInv'
<1>0. req[r] \in GatewayRequests /\ clock \in Nat
  BY GatewayOf
<1>1. /\ clock' = clock /\ UNCHANGED <<lease, report, terminal, charges>>
      /\ req[r].pc = "idle"
  BY DEF Supabase!Handle, Supabase!tables, Supabase!At
<1>2. CASE Supabase!RefusedEarly(r)
  <2>1. PICK q \in GatewayRequests :
          /\ q = Supabase!Done(r, "relay", "unknown")
          /\ q.pc = "done" /\ q.hits = req[r].hits
          /\ q.answer = "relay" /\ q.said = "unknown"
    BY Returns
  <2>2. req' = [req EXCEPT ![r] = q]
    BY <1>2, <2>1 DEF Supabase!RefusedEarly, Supabase!Becomes
  <2> QED BY <1>1, <2>1, <2>2, GatewayOf, GatewayMoves
          DEF Timely, Settled, Told, Returned
<1>3. CASE ~Supabase!RefusedEarly(r)
  <2>1. PICK a \in {"recorded", "degraded"} :
          req' = [req EXCEPT ![r] = [Supabase!Goto(r, "received", 2) EXCEPT !.audit = a]]
    BY <1>3 DEF Supabase!Handle, Supabase!Becomes
  <2>2. PICK g \in GatewayRequests :
          /\ g = Supabase!Goto(r, "received", 2) /\ g.pc = "received"
          /\ g.hits = req[r].hits /\ g.answer = req[r].answer /\ g.said = req[r].said
    BY GoesTo DEF GatewayPlaces
  <2>3. PICK q : q = [g EXCEPT !.audit = a]
    OBVIOUS
  <2>4. /\ q \in GatewayRequests /\ q.pc = "received" /\ q.hits = req[r].hits
        /\ q.answer = req[r].answer /\ q.said = req[r].said
    BY <2>2, <2>3 DEF GatewayRequests
  <2>5. req' = [req EXCEPT ![r] = q]
    BY <2>1, <2>2, <2>3
  <2>6. /\ Timely(clock, q, lease[r]) /\ Told(q, report[r])
        /\ Settled(q, lease[r], report[r], terminal[r], charges[r])
    BY <1>1, <2>4, GatewayOf DEF Timely, Settled, Told
  <2>7. Returned(q, lease[r])
    BY <1>1, <2>4, GatewayOf DEF Returned
  <2> QED BY <1>1, <2>4, <2>5, <2>6, <2>7, GatewayMoves
<1> QED BY <1>2, <1>3

LEMMA OutcomeSet ==
  ASSUME NEW g \in GatewayRequests,
         NEW outcome \in {"none", "relay-error", "completed", "partial", "timeout",
                          "cancelled"}
  PROVE  [g EXCEPT !.outcome = outcome] \in GatewayRequests
BY DEF GatewayRequests

\* The handler gives up before a response was signed, or its stream ended.
LEMMA EndsWith ==
  ASSUME GatewayInv, NEW r \in Requests,
         NEW outcome \in {"none", "relay-error", "completed", "partial", "timeout",
                          "cancelled"}
  PROVE  \E q \in GatewayRequests :
           /\ q = Supabase!EndWith(r, outcome) /\ q.pc = "finalize"
           /\ q.audit = req[r].audit /\ q.outcome = outcome
           /\ q.sent = req[r].sent /\ q.hits = req[r].hits
           /\ q.answer = req[r].answer /\ q.said = req[r].said
<1>1. PICK g \in GatewayRequests :
        /\ g = Supabase!Goto(r, "finalize", 1) /\ g.pc = "finalize"
        /\ g.audit = req[r].audit /\ g.sent = req[r].sent /\ g.hits = req[r].hits
        /\ g.answer = req[r].answer /\ g.said = req[r].said
  BY GoesTo DEF GatewayPlaces
<1>2. PICK f \in GatewayRequests : f = [g EXCEPT !.outcome = outcome]
  BY <1>1, OutcomeSet
<1>3. PICK e \in GatewayRequests : e = [f EXCEPT !.deadline = 0]
  BY ZenonT(60), <1>2 DEF GatewayRequests
<1>4. PICK q \in GatewayRequests : q = [e EXCEPT !.abort = "none"]
  BY ZenonT(60), <1>3 DEF GatewayRequests
<1>5. /\ q.pc = "finalize" /\ q.audit = req[r].audit /\ q.outcome = outcome
      /\ q.sent = req[r].sent /\ q.hits = req[r].hits
      /\ q.answer = req[r].answer /\ q.said = req[r].said
  BY <1>1, <1>2, <1>3, <1>4 DEF GatewayRequests
<1>6. q = Supabase!EndWith(r, outcome)
  BY <1>1, <1>2, <1>3, <1>4 DEF Supabase!EndWith
<1> QED BY <1>4, <1>5, <1>6

LEMMA ReceivedKeeps ==
  ASSUME GatewayInv, NEW r \in Requests, Supabase!Received(r)
  PROVE  GatewayInv'
<1>1. /\ clock' = clock /\ UNCHANGED <<lease, report, terminal, charges>>
      /\ req[r].pc = "received"
  BY DEF Supabase!Received, Supabase!At
<1>2. PICK audit \in {"same", "degraded"}, flag \in BOOLEAN, n \in 0 .. 2,
           label \in {"reject", "acquire"} :
        Supabase!AfterAudit(r, Supabase!Goto(r, label, 2), audit, flag, n)
  BY DEF Supabase!Received
<1>3. PICK g \in GatewayRequests :
        /\ g = Supabase!Goto(r, label, 2) /\ g.pc = label /\ g.hits = req[r].hits
        /\ g.answer = req[r].answer /\ g.said = req[r].said
  BY <1>2, GoesTo DEF GatewayPlaces
<1>4. PICK q \in GatewayRequests :
        /\ req' = [req EXCEPT ![r] = q] /\ q.pc = label /\ q.hits = req[r].hits + n
        /\ q.answer = req[r].answer /\ q.said = req[r].said
  BY <1>2, <1>3, AuditedRecord
<1>5. /\ Timely(clock, req[r], lease[r]) /\ Told(req[r], report[r])
      /\ Settled(req[r], lease[r], report[r], terminal[r], charges[r])
      /\ Returned(req[r], lease[r])
  BY GatewayOf
<1>6. /\ Timely(clock, q, lease[r]) /\ Told(q, report[r]) /\ Returned(q, lease[r])
      /\ Settled(q, lease[r], report[r], terminal[r], charges[r])
  BY <1>1, <1>2, <1>4, <1>5 DEF Timely, Told, Returned, Settled
<1> QED BY <1>1, <1>4, <1>6, GatewayMoves

LEMMA RejectKeeps ==
  ASSUME GatewayInv, NEW r \in Requests, Supabase!Reject(r)
  PROVE  GatewayInv'
<1>1. /\ clock' = clock /\ UNCHANGED <<lease, report, terminal, charges>>
      /\ req[r].pc = "reject"
  BY DEF Supabase!Reject, Supabase!At
<1>2. PICK audit \in {"same", "degraded"}, flag \in BOOLEAN, n \in 0 .. 2 :
        Supabase!AfterAudit(r,
          Supabase!Done(r, "relay", IF audit = "same" THEN req[r].audit ELSE audit),
          audit, flag, n)
  BY DEF Supabase!Reject
<1>3. PICK said \in {"recorded", "degraded"} :
        said = IF audit = "same" THEN req[r].audit ELSE audit
  BY <1>2, GatewayOf DEF GatewayRequests
<1>4. PICK g \in GatewayRequests :
        /\ g = Supabase!Done(r, "relay", said) /\ g.pc = "done"
        /\ g.hits = req[r].hits /\ g.answer = "relay"
  BY <1>3, Returns
<1>5. PICK q \in GatewayRequests :
        /\ req' = [req EXCEPT ![r] = q] /\ q.pc = "done" /\ q.hits = req[r].hits + n
        /\ q.answer = "relay"
  BY <1>2, <1>3, <1>4, AuditedRecord
<1>6. /\ Timely(clock, req[r], lease[r]) /\ Told(req[r], report[r])
      /\ Settled(req[r], lease[r], report[r], terminal[r], charges[r])
      /\ Returned(req[r], lease[r]) /\ req[r] \in GatewayRequests
  BY GatewayOf
<1>7. /\ Timely(clock, q, lease[r]) /\ Told(q, report[r])
      /\ Settled(q, lease[r], report[r], terminal[r], charges[r])
  BY <1>1, <1>5, <1>6 DEF Timely, Told, Settled, NoRecord
<1>8. Returned(q, lease[r])
  BY <1>1, <1>2, <1>5, <1>6 DEF Returned, GatewayRequests
<1> QED BY <1>1, <1>5, <1>7, <1>8, GatewayMoves

LEMMA StorageFails ==
  ASSUME GatewayInv, NEW r \in Requests
  PROVE  \E q \in GatewayRequests :
           /\ q = Supabase!StorageFailed(r) /\ q.pc = "reject"
           /\ q.hits = req[r].hits + 1
           /\ q.answer = req[r].answer /\ q.said = req[r].said
<1>1. PICK g \in GatewayRequests :
        /\ g = Supabase!Goto(r, "reject", 2) /\ g.pc = "reject" /\ g.hits = req[r].hits
        /\ g.answer = req[r].answer /\ g.said = req[r].said
  BY GoesTo DEF GatewayPlaces
<1>2. PICK f \in GatewayRequests : f = [g EXCEPT !.audit = "degraded"]
  BY <1>1, DegradedSet
<1>3. PICK h \in Nat : h = f.hits + 1
  BY <1>2 DEF GatewayRequests
<1>4. PICK q \in GatewayRequests : q = [f EXCEPT !.hits = h]
  BY <1>2, <1>3, HitsSet
<1>5. q = [f EXCEPT !.hits = @ + 1]
  BY <1>3, <1>4
<1>6. q = Supabase!StorageFailed(r)
  BY <1>1, <1>2, <1>5 DEF Supabase!StorageFailed
<1>7. /\ q.pc = "reject" /\ q.hits = req[r].hits + 1
      /\ q.answer = req[r].answer /\ q.said = req[r].said
  BY <1>1, <1>2, <1>3, <1>4 DEF GatewayRequests
<1> QED BY <1>4, <1>6, <1>7

\* of_acquire_execution deletes what has run out, and may book a lease of now.
LEMMA Acquires ==
  ASSUME GatewayInv, NEW r \in Requests, ~lease[r].held, Supabase!AcquireApplied(r)
  PROVE  \E row \in [at : Nat, bytes : Nat, held : BOOLEAN] :
           /\ lease' = [Supabase!Reap EXCEPT ![r] = row]
           /\ IF Supabase!AcquireSql(r).allowed THEN row.held /\ row.at = clock
                                                ELSE ~row.held
<1>1. /\ Supabase!Reap[r] = [at |-> 0, bytes |-> 0, held |-> FALSE]
      /\ Supabase!Reap = [Supabase!Reap EXCEPT ![r] = Supabase!Reap[r]]
      /\ clock \in Nat
  <2>1. Supabase!Reap[r] = [at |-> 0, bytes |-> 0, held |-> FALSE]
    BY DEF Supabase!Reap, Supabase!Live, Supabase!NoLease
  <2>2. Supabase!Reap = [Supabase!Reap EXCEPT ![r] = Supabase!Reap[r]]
    <3>1. PICK F \in [Requests -> [at : Nat, bytes : Nat, held : BOOLEAN]] : F = Supabase!Reap
      BY DEF GatewayInv, GatewayTypes, Supabase!Reap, Supabase!NoLease
    <3>2. F = [F EXCEPT ![r] = F[r]]
      BY <3>1
    <3> QED BY <3>1, <3>2
  <2> QED BY <2>1, <2>2, GatewayOf
<1>2. CASE Supabase!AcquireSql(r).allowed
  <2>1. PICK row \in [at : Nat, bytes : Nat, held : BOOLEAN] :
          row = [at |-> clock, bytes |-> 0, held |-> TRUE]
    BY <1>1
  <2>2. lease' = [Supabase!Reap EXCEPT ![r] = row]
    BY <1>2, <2>1 DEF Supabase!AcquireApplied
  <2> QED BY <1>2, <2>1, <2>2
<1>3. CASE ~Supabase!AcquireSql(r).allowed
  <2>1. PICK row \in [at : Nat, bytes : Nat, held : BOOLEAN] :
          row = [at |-> 0, bytes |-> 0, held |-> FALSE]
    OBVIOUS
  <2>2. lease' = [Supabase!Reap EXCEPT ![r] = row]
    BY <1>1, <1>3, <2>1 DEF Supabase!AcquireApplied
  <2> QED BY <1>3, <2>1, <2>2
<1> QED BY <1>2, <1>3

LEMMA AcquireKeeps ==
  ASSUME GatewayInv, NEW r \in Requests, Supabase!AcquireExecution(r)
  PROVE  GatewayInv'
<1>1. /\ clock' = clock /\ UNCHANGED <<report, terminal, charges>>
      /\ req[r].pc = "acquire"
  BY DEF Supabase!AcquireExecution, Supabase!At
<1>2. /\ req[r] \in GatewayRequests /\ clock \in Nat
      /\ report[r] \in GatewayReports /\ terminal[r] \in Nat /\ charges[r] \in Nat
      /\ report' = [report EXCEPT ![r] = report[r]]
      /\ terminal' = [terminal EXCEPT ![r] = terminal[r]]
      /\ charges' = [charges EXCEPT ![r] = charges[r]]
      /\ lease[r] \in [at : Nat, bytes : Nat, held : BOOLEAN]
  BY <1>1, GatewayOf DEF GatewayInv, GatewayTypes
<1>3. /\ ~lease[r].held /\ report[r] = NoRecord
      /\ req[r].said = "unknown" /\ req[r].answer = "none"
      /\ Settled(req[r], lease[r], report[r], terminal[r], charges[r])
  BY <1>1, GatewayOf DEF Returned, Settled, Told
<1>4. ASSUME NEW q \in GatewayRequests, NEW row \in [at : Nat, bytes : Nat, held : BOOLEAN],
             req' = [req EXCEPT ![r] = q],
             lease' = [lease EXCEPT ![r] = row] \/ lease' = [Supabase!Reap EXCEPT ![r] = row],
             \/ q.pc = "reject" /\ ~row.held
             \/ q.pc = "reject" /\ q.hits = req[r].hits + 1
             \/ q.pc = "body" /\ row.held /\ row.at = clock /\ q.deadline = clock + 4,
             q.said = "unknown", q.answer = "none"
      PROVE  GatewayInv'
  <2>1. Timely(clock, q, row) /\ Returned(q, row)
    BY <1>2, <1>4 DEF Timely, Returned, GatewayRequests
  <2>2. Settled(q, row, report[r], terminal[r], charges[r]) /\ Told(q, report[r])
    BY <1>3, <1>4 DEF Settled, Told
  <2> QED BY ZenonT(60), <1>1, <1>2, <1>4, <2>1, <2>2, GatewaySteps
<1>5. PICK g \in GatewayRequests :
        /\ g = Supabase!Goto(r, "reject", 2) /\ g.pc = "reject"
        /\ g.said = "unknown" /\ g.answer = "none"
  BY <1>3, GoesTo DEF GatewayPlaces
<1>6. PICK f \in GatewayRequests :
        /\ f = Supabase!StorageFailed(r) /\ f.pc = "reject" /\ f.hits = req[r].hits + 1
        /\ f.said = "unknown" /\ f.answer = "none"
  BY <1>3, StorageFails
<1>7. lease = [lease EXCEPT ![r] = lease[r]]
  BY DEF GatewayInv, GatewayTypes
<1>8. CASE Supabase!AcquireApplied(r)
  <2>1. PICK row \in [at : Nat, bytes : Nat, held : BOOLEAN] :
          /\ lease' = [Supabase!Reap EXCEPT ![r] = row]
          /\ IF Supabase!AcquireSql(r).allowed THEN row.held /\ row.at = clock
                                               ELSE ~row.held
    BY <1>3, <1>8, Acquires
  <2>2. CASE req' = [req EXCEPT ![r] = f]
    BY <1>4, <1>6, <2>1, <2>2
  <2>3. CASE Supabase!AcquireSql(r).allowed /\ req' = [req EXCEPT ![r] =
               [Supabase!Goto(r, "body", 0) EXCEPT !.deadline = clock + 4]]
    <3>1. PICK e \in GatewayRequests :
            /\ e = Supabase!Goto(r, "body", 0) /\ e.pc = "body"
            /\ e.said = "unknown" /\ e.answer = "none"
      BY <1>3, GoesTo DEF GatewayPlaces
    <3>2. clock + 4 \in Nat
      BY <1>2
    <3>3. PICK q \in GatewayRequests : q = [e EXCEPT !.deadline = clock + 4]
      BY <3>1, <3>2 DEF GatewayRequests
    <3>4. q.pc = "body" /\ q.said = "unknown" /\ q.answer = "none" /\ q.deadline = clock + 4
      BY <3>1, <3>3 DEF GatewayRequests
    <3>5. req' = [req EXCEPT ![r] = q]
      BY <2>3, <3>1, <3>3
    <3> QED BY <1>4, <2>1, <2>3, <3>4, <3>5
  <2>4. CASE ~Supabase!AcquireSql(r).allowed /\ req' = [req EXCEPT ![r] = g]
    BY <1>4, <1>5, <2>1, <2>4
  <2>5. CASE lease' = lease /\ req' = [req EXCEPT ![r] = g]
    BY <1>2, <1>3, <1>4, <1>5, <1>7, <2>5
  <2>6. CASE lease' = lease /\ req' = [req EXCEPT ![r] = f]
    BY <1>2, <1>3, <1>4, <1>6, <1>7, <2>6
  <2> QED BY <1>5, <1>6, <1>8, <2>2, <2>3, <2>4, <2>5, <2>6
          DEF Supabase!AcquireExecution, Supabase!Becomes, Supabase!TimeoutTicks
<1>9. CASE ~Supabase!AcquireApplied(r)
  <2>1. lease' = lease
    BY <1>9 DEF Supabase!AcquireExecution
  <2>2. req' = [req EXCEPT ![r] = g] \/ req' = [req EXCEPT ![r] = f]
    BY <1>5, <1>6, <1>9 DEF Supabase!AcquireExecution, Supabase!Becomes
  <2> QED BY <1>2, <1>3, <1>4, <1>5, <1>6, <1>7, <2>1, <2>2
<1> QED BY <1>8, <1>9

\* A handler that goes to finalize keeps what it has, and reports the end later.
LEMMA FinalizeComes ==
  ASSUME GatewayInv, NEW r \in Requests, NEW q \in GatewayRequests,
         NEW row \in [at : Nat, bytes : Nat, held : BOOLEAN],
         req[r].pc \in {"body", "reconcile", "accepted", "upstream", "stream"},
         q.pc = "finalize", q.answer \in {"none", "target"},
         q.said = "degraded" => q.audit = "degraded"
  PROVE  /\ Timely(clock, q, row) /\ Told(q, report[r]) /\ Returned(q, row)
         /\ Settled(q, row, report[r], terminal[r], charges[r])
         /\ report[r] = NoRecord
<1>1. report[r] = NoRecord /\ Settled(req[r], lease[r], report[r], terminal[r], charges[r])
  BY GatewayOf DEF Settled
<1> QED BY <1>1 DEF Timely, Told, Returned, Settled, NoRecord

LEMMA BodyKeeps ==
  ASSUME GatewayInv, NEW r \in Requests, Supabase!ReadRequestBody(r)
  PROVE  GatewayInv'
<1>1. /\ clock' = clock /\ UNCHANGED <<lease, report, terminal, charges>>
      /\ req[r].pc = "body"
  BY DEF Supabase!ReadRequestBody, Supabase!tables, Supabase!At
<1>2. /\ req[r] \in GatewayRequests /\ clock \in Nat
      /\ lease[r] \in [at : Nat, bytes : Nat, held : BOOLEAN]
      /\ Timely(clock, req[r], lease[r]) /\ Told(req[r], report[r])
      /\ Settled(req[r], lease[r], report[r], terminal[r], charges[r])
  BY GatewayOf
<1>3. CASE req' = [req EXCEPT ![r] = Supabase!Goto(r, "reconcile", 1)]
  <2>1. PICK q \in GatewayRequests :
          /\ q = Supabase!Goto(r, "reconcile", 1) /\ q.pc = "reconcile"
          /\ q.due = clock + 1 /\ q.deadline = req[r].deadline
          /\ q.answer = req[r].answer /\ q.said = req[r].said
    BY GoesTo DEF GatewayPlaces
  <2>2. Timely(clock, q, lease[r]) /\ Returned(q, lease[r])
    BY <1>1, <1>2, <2>1 DEF Timely, Returned, GatewayRequests
  <2>3. Told(q, report[r]) /\ Settled(q, lease[r], report[r], terminal[r], charges[r])
    BY <1>1, <1>2, <2>1 DEF Told, Settled
  <2> QED BY <1>1, <1>3, <2>1, <2>2, <2>3, GatewayMoves
<1>4. CASE Supabase!BodyRefused(r)
  <2>1. PICK q \in GatewayRequests :
          /\ q = Supabase!EndWith(r, "relay-error") /\ q.pc = "finalize"
          /\ q.answer = req[r].answer /\ q.said = req[r].said
    BY EndsWith
  <2>2. q.answer = "none" /\ q.said = "unknown"
    BY <1>1, <1>2, <2>1 DEF Told
  <2>3. req' = [req EXCEPT ![r] = q]
    BY <1>4, <2>1 DEF Supabase!BodyRefused, Supabase!Becomes
  <2>4. /\ Timely(clock, q, lease[r]) /\ Told(q, report[r]) /\ Returned(q, lease[r])
        /\ Settled(q, lease[r], report[r], terminal[r], charges[r])
    BY <1>1, <1>2, <2>1, <2>2, FinalizeComes
  <2> QED BY <1>1, <2>3, <2>4, GatewayMoves
<1> QED BY <1>3, <1>4 DEF Supabase!ReadRequestBody, Supabase!Becomes

LEMMA ReconcileKeeps ==
  ASSUME GatewayInv, NEW r \in Requests, Supabase!Reconcile(r)
  PROVE  GatewayInv'
<1>1. /\ clock' = clock /\ UNCHANGED <<report, terminal, charges>>
      /\ req[r].pc = "reconcile"
  BY DEF Supabase!Reconcile, Supabase!At
<1>2. /\ req[r] \in GatewayRequests /\ clock \in Nat
      /\ report[r] \in GatewayReports /\ terminal[r] \in Nat /\ charges[r] \in Nat
      /\ report' = [report EXCEPT ![r] = report[r]]
      /\ terminal' = [terminal EXCEPT ![r] = terminal[r]]
      /\ charges' = [charges EXCEPT ![r] = charges[r]]
      /\ lease[r] \in [at : Nat, bytes : Nat, held : BOOLEAN]
      /\ lease = [lease EXCEPT ![r] = lease[r]]
  BY <1>1, GatewayOf DEF GatewayInv, GatewayTypes
<1>3. /\ Timely(clock, req[r], lease[r]) /\ Told(req[r], report[r])
      /\ Settled(req[r], lease[r], report[r], terminal[r], charges[r])
  BY GatewayOf
<1>4. req[r].answer = "none" /\ req[r].said = "unknown"
  BY <1>1, <1>3 DEF Told
<1>5. PICK bytes \in 0 .. 1 :
        /\ Supabase!ReconcileApplied(r, bytes) \/ lease' = lease
        /\ \/ req' = [req EXCEPT ![r] = Supabase!Goto(r, "accepted", 2)]
           \/ req' = [req EXCEPT ![r] = Supabase!EndWith(r, "relay-error")]
           \/ req' = [req EXCEPT ![r] = Supabase!ReconcileFailed(r)]
  BY DEF Supabase!Reconcile, Supabase!Becomes
<1>6. PICK row \in [at : Nat, bytes : Nat, held : BOOLEAN] :
        /\ lease' = [lease EXCEPT ![r] = row]
        /\ row.at = lease[r].at /\ row.held = lease[r].held
  <2>1. CASE lease' = lease
    BY <1>2, <2>1
  <2>2. CASE lease' = [lease EXCEPT ![r].bytes = bytes]
    <3>1. PICK row \in [at : Nat, bytes : Nat, held : BOOLEAN] :
            row = [lease[r] EXCEPT !.bytes = bytes]
      <4>1. bytes \in Nat /\ lease[r] \in [at : Nat, bytes : Nat, held : BOOLEAN]
        BY <1>2, <1>5
      <4>2. [lease[r] EXCEPT !.bytes = bytes] \in [at : Nat, bytes : Nat, held : BOOLEAN]
        BY <4>1
      <4> QED BY <4>2
    <3>2. row.at = lease[r].at /\ row.held = lease[r].held
      BY <1>2, <3>1
    <3>3. lease' = [lease EXCEPT ![r] = row]
      BY <2>2, <3>1
    <3> QED BY <3>2, <3>3
  <2> QED BY <1>5, <2>1, <2>2 DEF Supabase!ReconcileApplied
<1>7. CASE req' = [req EXCEPT ![r] = Supabase!Goto(r, "accepted", 2)]
  <2>1. PICK q \in GatewayRequests :
          /\ q = Supabase!Goto(r, "accepted", 2) /\ q.pc = "accepted"
          /\ q.due = clock + 2 /\ q.deadline = req[r].deadline
          /\ q.answer = req[r].answer /\ q.said = req[r].said
    BY GoesTo DEF GatewayPlaces
  <2>2. Timely(clock, q, row) /\ Returned(q, row)
    BY <1>1, <1>2, <1>3, <1>6, <2>1 DEF Timely, Returned, GatewayRequests
  <2>3. Told(q, report[r]) /\ Settled(q, row, report[r], terminal[r], charges[r])
    BY <1>1, <1>3, <1>6, <2>1 DEF Told, Settled
  <2> QED BY <1>1, <1>2, <1>6, <1>7, <2>1, <2>2, <2>3, GatewaySteps
<1>8. ASSUME NEW q \in GatewayRequests, req' = [req EXCEPT ![r] = q], q.pc = "finalize",
             q.answer = req[r].answer, q.said = req[r].said
      PROVE  GatewayInv'
  <2>1. /\ Timely(clock, q, row) /\ Told(q, report[r]) /\ Returned(q, row)
        /\ Settled(q, row, report[r], terminal[r], charges[r])
    BY <1>1, <1>4, <1>6, <1>8, FinalizeComes
  <2> QED BY <1>1, <1>2, <1>6, <1>8, <2>1, GatewaySteps
<1>9. CASE req' = [req EXCEPT ![r] = Supabase!EndWith(r, "relay-error")]
  <2>1. PICK q \in GatewayRequests :
          /\ q = Supabase!EndWith(r, "relay-error") /\ q.pc = "finalize"
          /\ q.answer = req[r].answer /\ q.said = req[r].said
    BY EndsWith
  <2> QED BY <1>8, <1>9, <2>1
<1>10. CASE req' = [req EXCEPT ![r] = Supabase!ReconcileFailed(r)]
  <2>1. PICK g \in GatewayRequests :
          /\ g = Supabase!EndWith(r, "relay-error") /\ g.pc = "finalize"
          /\ g.answer = req[r].answer /\ g.said = req[r].said
    BY EndsWith
  <2>2. PICK f \in GatewayRequests : f = [g EXCEPT !.audit = "degraded"]
    BY <2>1 DEF GatewayRequests
  <2>3. PICK h \in Nat : h = f.hits + 1
    BY <2>2 DEF GatewayRequests
  <2>4. PICK q \in GatewayRequests : q = [f EXCEPT !.hits = h]
    BY <2>2, <2>3, HitsSet
  <2>5. q = Supabase!ReconcileFailed(r)
    BY <2>1, <2>2, <2>3, <2>4 DEF Supabase!ReconcileFailed
  <2>6. q.pc = "finalize" /\ q.answer = req[r].answer /\ q.said = req[r].said
    BY <2>1, <2>2, <2>4 DEF GatewayRequests
  <2> QED BY <1>8, <1>10, <2>4, <2>5, <2>6
<1> QED BY <1>5, <1>7, <1>9, <1>10

Answered(g, said) == [g EXCEPT !.answer = "target", !.said = said]

LEMMA AnswerSet ==
  ASSUME NEW g \in GatewayRequests, NEW said \in {"unknown", "none", "recorded", "degraded"}
  PROVE  /\ Answered(g, said) \in GatewayRequests
         /\ Answered(g, said).pc = g.pc /\ Answered(g, said).audit = g.audit
         /\ Answered(g, said).deadline = g.deadline
         /\ Answered(g, said).answer = "target" /\ Answered(g, said).said = said
BY DEF GatewayRequests, Answered

LEMMA AcceptedKeeps ==
  ASSUME GatewayInv, NEW r \in Requests, Supabase!Accepted(r)
  PROVE  GatewayInv'
<1>1. /\ clock' = clock /\ UNCHANGED <<lease, report, terminal, charges>>
      /\ req[r].pc = "accepted"
  BY DEF Supabase!Accepted, Supabase!At
<1>2. /\ req[r] \in GatewayRequests /\ clock \in Nat
      /\ lease[r] \in [at : Nat, bytes : Nat, held : BOOLEAN]
      /\ Timely(clock, req[r], lease[r]) /\ Told(req[r], report[r])
      /\ Settled(req[r], lease[r], report[r], terminal[r], charges[r])
  BY GatewayOf
<1>3. req[r].answer = "none" /\ req[r].said = "unknown"
  BY <1>1, <1>2 DEF Told
<1>4. CASE req' = [req EXCEPT ![r] = Supabase!EndWith(r, "relay-error")]
  <2>1. PICK q \in GatewayRequests :
          /\ q = Supabase!EndWith(r, "relay-error") /\ q.pc = "finalize"
          /\ q.answer = req[r].answer /\ q.said = req[r].said
    BY EndsWith
  <2>2. /\ Timely(clock, q, lease[r]) /\ Told(q, report[r]) /\ Returned(q, lease[r])
        /\ Settled(q, lease[r], report[r], terminal[r], charges[r])
    BY <1>1, <1>2, <1>3, <2>1, FinalizeComes
  <2> QED BY <1>1, <1>4, <2>1, <2>2, GatewayMoves
<1>5. CASE \E audit \in {"same", "degraded"}, flag \in BOOLEAN, n \in 0 .. 2 :
             Supabase!AfterAudit(r, Supabase!Goto(r, "upstream", 0), audit, flag, n)
  <2>1. PICK audit \in {"same", "degraded"}, flag \in BOOLEAN, n \in 0 .. 2 :
          Supabase!AfterAudit(r, Supabase!Goto(r, "upstream", 0), audit, flag, n)
    BY <1>5
  <2>2. PICK g \in GatewayRequests :
          /\ g = Supabase!Goto(r, "upstream", 0) /\ g.pc = "upstream"
          /\ g.deadline = req[r].deadline
          /\ g.answer = req[r].answer /\ g.said = req[r].said
    BY GoesTo DEF GatewayPlaces
  <2>3. PICK q \in GatewayRequests :
          /\ req' = [req EXCEPT ![r] = q] /\ q.pc = "upstream"
          /\ q.deadline = req[r].deadline
          /\ q.answer = req[r].answer /\ q.said = req[r].said
    BY <2>1, <2>2, AuditedRecord
  <2>4. Timely(clock, q, lease[r]) /\ Returned(q, lease[r])
    BY <1>1, <1>2, <2>3 DEF Timely, Returned, GatewayRequests
  <2>5. Told(q, report[r]) /\ Settled(q, lease[r], report[r], terminal[r], charges[r])
    BY <1>1, <1>2, <1>3, <2>3 DEF Told, Settled
  <2> QED BY <1>1, <2>3, <2>4, <2>5, GatewayMoves
<1> QED BY <1>4, <1>5 DEF Supabase!Accepted, Supabase!Becomes

\* The execution ends with an outcome, its answer sent or not.
LEMMA EndsKeeps ==
  ASSUME GatewayInv, NEW r \in Requests, clock' = clock,
         UNCHANGED <<lease, report, terminal, charges>>,
         req[r].pc \in {"body", "upstream", "stream"},
         NEW outcome \in {"none", "relay-error", "completed", "partial", "timeout",
                          "cancelled"},
         req' = [req EXCEPT ![r] = Supabase!EndWith(r, outcome)]
  PROVE  GatewayInv'
<1>1. PICK q \in GatewayRequests :
        /\ q = Supabase!EndWith(r, outcome) /\ q.pc = "finalize"
        /\ q.audit = req[r].audit /\ q.answer = req[r].answer /\ q.said = req[r].said
  BY EndsWith
<1>2. req[r] \in GatewayRequests /\ Told(req[r], report[r]) 
      /\ lease[r] \in [at : Nat, bytes : Nat, held : BOOLEAN]
      /\ Settled(req[r], lease[r], report[r], terminal[r], charges[r])
  BY GatewayOf
<1>3. q.answer \in {"none", "target"} /\ (q.said = "degraded" => q.audit = "degraded")
  BY <1>1, <1>2 DEF Told, GatewayRequests
<1>4. /\ Timely(clock, q, lease[r]) /\ Told(q, report[r]) /\ Returned(q, lease[r])
      /\ Settled(q, lease[r], report[r], terminal[r], charges[r])
  BY <1>1, <1>2, <1>3, FinalizeComes
<1> QED BY <1>1, <1>4, GatewayMoves

LEMMA UpstreamKeeps ==
  ASSUME GatewayInv, NEW r \in Requests, Supabase!Upstream(r)
  PROVE  GatewayInv'
<1>1. /\ clock' = clock /\ UNCHANGED <<lease, report, terminal, charges>>
      /\ req[r].pc = "upstream"
  BY DEF Supabase!Upstream, Supabase!tables, Supabase!At
<1>2. /\ req[r] \in GatewayRequests /\ clock \in Nat
      /\ lease[r] \in [at : Nat, bytes : Nat, held : BOOLEAN]
      /\ Timely(clock, req[r], lease[r]) /\ Told(req[r], report[r])
      /\ Settled(req[r], lease[r], report[r], terminal[r], charges[r])
  BY GatewayOf
<1>3. \A outcome \in {"none", "relay-error", "completed", "partial", "timeout", "cancelled"} :
        req' = [req EXCEPT ![r] = Supabase!EndWith(r, outcome)] => GatewayInv'
  BY <1>1, EndsKeeps
<1>4. req[r].abort \in {"none", "relay-error", "completed", "partial", "timeout", "cancelled"}
  BY <1>2 DEF GatewayRequests
<1>5. PICK said \in {"unknown", "none", "recorded", "degraded"} : said = req[r].audit
  BY <1>2 DEF GatewayRequests
<1>6. CASE req' = [req EXCEPT ![r] =
                     Supabase!TargetAnswer(r, Supabase!EndWith(r, "completed"))]
  <2>1. PICK g \in GatewayRequests :
          /\ g = Supabase!EndWith(r, "completed") /\ g.pc = "finalize"
          /\ g.audit = req[r].audit
    BY EndsWith
  <2>2. PICK q \in GatewayRequests :
          /\ q = Answered(g, said)
          /\ q.pc = g.pc /\ q.audit = g.audit /\ q.deadline = g.deadline
          /\ q.answer = "target" /\ q.said = said
    BY <1>5, <2>1, AnswerSet
  <2>3. /\ q \in GatewayRequests /\ q.pc = "finalize" /\ q.audit = req[r].audit
        /\ q.answer = "target" /\ q.said = req[r].audit
    BY <1>5, <2>1, <2>2
  <2>4. req' = [req EXCEPT ![r] = q]
    BY <1>5, <1>6, <2>1, <2>2 DEF Supabase!TargetAnswer, Answered
  <2>5. /\ Timely(clock, q, lease[r]) /\ Told(q, report[r]) /\ Returned(q, lease[r])
        /\ Settled(q, lease[r], report[r], terminal[r], charges[r])
    BY <1>1, <1>2, <2>3, FinalizeComes
  <2>6. clock' = clock /\ UNCHANGED <<lease, report, terminal, charges>> /\ q \in GatewayRequests
    BY <1>1, <2>3
  <2> QED BY <2>4, <2>5, <2>6, GatewayMoves
<1>7. CASE req' = [req EXCEPT ![r] =
                     Supabase!TargetAnswer(r, Supabase!Goto(r, "stream", 0))]
  <2>1. PICK g \in GatewayRequests :
          /\ g = Supabase!Goto(r, "stream", 0) /\ g.pc = "stream"
          /\ g.audit = req[r].audit /\ g.deadline = req[r].deadline
    BY GoesTo DEF GatewayPlaces
  <2>2. PICK q \in GatewayRequests :
          /\ q = Answered(g, said)
          /\ q.pc = g.pc /\ q.audit = g.audit /\ q.deadline = g.deadline
          /\ q.answer = "target" /\ q.said = said
    BY <1>5, <2>1, AnswerSet
  <2>3. /\ q \in GatewayRequests /\ q.pc = "stream" /\ q.audit = req[r].audit
        /\ q.deadline = req[r].deadline /\ q.answer = "target" /\ q.said = req[r].audit
    BY <1>5, <2>1, <2>2
  <2>4. req' = [req EXCEPT ![r] = q]
    BY <1>5, <1>7, <2>1, <2>2 DEF Supabase!TargetAnswer, Answered
  <2>5. Timely(clock, q, lease[r]) /\ Returned(q, lease[r])
    BY <1>1, <1>2, <2>3 DEF Timely, Returned
  <2>6. Told(q, report[r]) /\ Settled(q, lease[r], report[r], terminal[r], charges[r])
    BY <1>1, <1>2, <2>3 DEF Told, Settled, NoRecord
  <2> QED BY <1>1, <2>3, <2>4, <2>5, <2>6, GatewayMoves
<1> QED BY <1>3, <1>4, <1>6, <1>7 DEF Supabase!Upstream, Supabase!Becomes

Counted(g, n) == [g EXCEPT !.sent = n]

LEMMA CountedSet ==
  ASSUME NEW g \in GatewayRequests, NEW n \in Nat
  PROVE  /\ Counted(g, n) \in GatewayRequests
         /\ Counted(g, n).pc = g.pc /\ Counted(g, n).audit = g.audit
         /\ Counted(g, n).deadline = g.deadline
         /\ Counted(g, n).answer = g.answer /\ Counted(g, n).said = g.said
BY DEF GatewayRequests, Counted

LEMMA StreamKeeps ==
  ASSUME GatewayInv, ResponseLimit \in Nat, NEW r \in Requests, Supabase!Stream(r)
  PROVE  GatewayInv'
<1>1. /\ clock' = clock /\ UNCHANGED <<lease, report, terminal, charges>>
      /\ req[r].pc = "stream"
  BY DEF Supabase!Stream, Supabase!tables, Supabase!At
<1>2. /\ req[r] \in GatewayRequests /\ clock \in Nat
      /\ lease[r] \in [at : Nat, bytes : Nat, held : BOOLEAN]
      /\ Timely(clock, req[r], lease[r]) /\ Told(req[r], report[r])
      /\ Returned(req[r], lease[r])
      /\ Settled(req[r], lease[r], report[r], terminal[r], charges[r])
  BY GatewayOf
<1>3. \A outcome \in {"none", "relay-error", "completed", "partial", "timeout", "cancelled"} :
        req' = [req EXCEPT ![r] = Supabase!EndWith(r, outcome)] => GatewayInv'
  BY <1>1, EndsKeeps
<1>4. CASE req' = [req EXCEPT ![r] = [req[r] EXCEPT !.sent = @ + 1]]
  <2>1. PICK n \in Nat : n = req[r].sent + 1
    BY <1>2 DEF GatewayRequests
  <2>2. PICK q \in GatewayRequests : q = Counted(req[r], n)
    BY <1>2, CountedSet
  <2>3. /\ q.pc = "stream" /\ q.deadline = req[r].deadline /\ q.audit = req[r].audit
        /\ q.answer = req[r].answer /\ q.said = req[r].said
    BY <1>1, <1>2, <2>2, CountedSet
  <2>4. req' = [req EXCEPT ![r] = q]
    BY <1>4, <2>1, <2>2 DEF Counted
  <2>5. Timely(clock, q, lease[r]) /\ Returned(q, lease[r])
    BY <1>1, <1>2, <2>3 DEF Timely, Returned
  <2>6. Told(q, report[r]) /\ Settled(q, lease[r], report[r], terminal[r], charges[r])
    BY <1>1, <1>2, <2>3 DEF Told, Settled
  <2> QED BY <1>1, <2>4, <2>5, <2>6, GatewayMoves
<1>5. CASE req' = [req EXCEPT ![r] = [Supabase!EndWith(r, "partial") EXCEPT !.sent = @ + 1]]
  <2>1. PICK g \in GatewayRequests :
          /\ g = Supabase!EndWith(r, "partial") /\ g.pc = "finalize"
          /\ g.audit = req[r].audit /\ g.answer = req[r].answer /\ g.said = req[r].said
    BY EndsWith
  <2>2. PICK n \in Nat : n = g.sent + 1
    BY <2>1 DEF GatewayRequests
  <2>3. PICK q \in GatewayRequests : q = Counted(g, n)
    BY <2>1, <2>2, CountedSet
  <2>4. /\ q.pc = "finalize" /\ q.audit = req[r].audit
        /\ q.answer = req[r].answer /\ q.said = req[r].said
    BY <2>1, <2>2, <2>3, CountedSet
  <2>5. req' = [req EXCEPT ![r] = q]
    BY <1>5, <2>1, <2>2, <2>3 DEF Counted
  <2>6. q.answer \in {"none", "target"} /\ (q.said = "degraded" => q.audit = "degraded")
    BY <1>1, <1>2, <2>4 DEF Told
  <2>7. /\ Timely(clock, q, lease[r]) /\ Told(q, report[r]) /\ Returned(q, lease[r])
        /\ Settled(q, lease[r], report[r], terminal[r], charges[r])
    BY <1>1, <1>2, <2>4, <2>6, FinalizeComes
  <2> QED BY <1>1, <2>5, <2>7, GatewayMoves
<1> QED BY <1>3, <1>4, <1>5
        DEF Supabase!Stream, Supabase!Becomes, Supabase!StreamEnds

LEMMA AbortKeeps ==
  ASSUME GatewayInv, NEW r \in Requests, Supabase!Abort(r)
  PROVE  GatewayInv'
<1>1. /\ clock' = clock /\ UNCHANGED <<lease, report, terminal, charges>>
      /\ req[r].pc \in {"body", "reconcile", "accepted", "upstream", "stream"}
  BY DEF Supabase!Abort, Supabase!tables
<1>2. PICK reason \in {"timeout", "cancelled"} :
        req' = [req EXCEPT ![r] = IF req[r].pc \in {"reconcile", "accepted"}
                                    THEN [req[r] EXCEPT !.abort = reason]
                                    ELSE Supabase!EndWith(r, reason)]
  BY DEF Supabase!Abort, Supabase!Becomes
<1>3. CASE req[r].pc \in {"reconcile", "accepted"}
  <2>1. /\ req[r] \in GatewayRequests /\ clock \in Nat
        /\ lease[r] \in [at : Nat, bytes : Nat, held : BOOLEAN]
        /\ Timely(clock, req[r], lease[r]) /\ Told(req[r], report[r])
        /\ Returned(req[r], lease[r])
        /\ Settled(req[r], lease[r], report[r], terminal[r], charges[r])
    BY GatewayOf
  <2>2. PICK q \in GatewayRequests : q = [req[r] EXCEPT !.abort = reason]
    BY <1>2, <2>1 DEF GatewayRequests
  <2>3. /\ q.pc = req[r].pc /\ q.due = req[r].due /\ q.deadline = req[r].deadline
        /\ q.audit = req[r].audit /\ q.answer = req[r].answer /\ q.said = req[r].said
    BY <2>1, <2>2 DEF GatewayRequests
  <2>4. req' = [req EXCEPT ![r] = q]
    BY <1>2, <1>3, <2>2
  <2>5. Timely(clock, q, lease[r]) /\ Returned(q, lease[r])
    BY <1>3, <2>1, <2>3 DEF Timely, Returned
  <2>6. Told(q, report[r]) /\ Settled(q, lease[r], report[r], terminal[r], charges[r])
    BY <1>3, <2>1, <2>3 DEF Told, Settled
  <2> QED BY <1>1, <2>4, <2>5, <2>6, GatewayMoves
<1>4. CASE req[r].pc \notin {"reconcile", "accepted"}
  BY <1>1, <1>2, <1>4, EndsKeeps
<1> QED BY <1>3, <1>4

Struck(g, n) == [g EXCEPT !.hits = @ + n]

LEMMA StruckSet ==
  ASSUME NEW g \in GatewayRequests, NEW n \in Nat
  PROVE  /\ Struck(g, n) \in GatewayRequests /\ Struck(g, n).hits = g.hits + n
         /\ Struck(g, n).pc = g.pc /\ Struck(g, n).audit = g.audit
         /\ Struck(g, n).answer = g.answer /\ Struck(g, n).said = g.said
<1>1. PICK h \in Nat : h = g.hits + n
  BY DEF GatewayRequests
<1>2. Struck(g, n) = [g EXCEPT !.hits = h]
  BY <1>1 DEF Struck
<1> QED BY <1>1, <1>2 DEF GatewayRequests

\* The transaction of of_finalize_execution, or the answer from its first run.
LEMMA Finalizes ==
  ASSUME GatewayInv, NEW r \in Requests, req[r].pc \in {"finalize", "retry"},
         NEW appended \in BOOLEAN, Supabase!FinalizeApplied(r, appended)
  PROVE  \E row \in [at : Nat, bytes : Nat, held : BOOLEAN], record \in GatewayReports,
            events \in Nat, charged \in Nat :
           /\ lease' = [lease EXCEPT ![r] = row] /\ report' = [report EXCEPT ![r] = record]
           /\ terminal' = [terminal EXCEPT ![r] = events]
           /\ charges' = [charges EXCEPT ![r] = charged]
           /\ ~row.held
           /\ charged = IF record = NoRecord THEN 0 ELSE 1
           /\ record = NoRecord => events = 0
           /\ events <= 1
           /\ record.audit = "recorded" => events = 1
           /\ report[r] # NoRecord => record = report[r]
           /\ req[r].audit = "degraded" /\ report[r] = NoRecord => record.audit # "recorded"
           /\ Supabase!FinalizeRaises(r) => record = NoRecord
<1>1. /\ req[r] \in GatewayRequests /\ report[r] \in GatewayReports
      /\ terminal[r] \in Nat /\ charges[r] \in Nat
      /\ lease[r] \in [at : Nat, bytes : Nat, held : BOOLEAN]
      /\ Settled(req[r], lease[r], report[r], terminal[r], charges[r])
  BY GatewayOf
<1>2. NoRecord = Supabase!NoReport
  BY DEF NoRecord, Supabase!NoReport
<1>3. CASE Supabase!FinalizeSkips(r)
  <2>1. /\ lease' = [lease EXCEPT ![r] = lease[r]]
        /\ report' = [report EXCEPT ![r] = report[r]]
        /\ terminal' = [terminal EXCEPT ![r] = terminal[r]]
        /\ charges' = [charges EXCEPT ![r] = charges[r]]
    BY <1>3 DEF Supabase!FinalizeApplied, GatewayInv, GatewayTypes
  <2>2. /\ ~lease[r].held
        /\ charges[r] = IF report[r] = NoRecord THEN 0 ELSE 1
        /\ report[r] = NoRecord => terminal[r] = 0
        /\ terminal[r] <= 1
        /\ report[r].audit = "recorded" => terminal[r] = 1
        /\ report[r] = NoRecord => report[r].audit # "recorded"
        /\ Supabase!FinalizeRaises(r) => report[r] = NoRecord
    BY <1>1, <1>2, <1>3
       DEF Settled, Supabase!FinalizeSkips, Supabase!FinalizeRaises, NoRecord
  <2> QED BY <1>1, <2>1, <2>2
<1>4. CASE ~Supabase!FinalizeSkips(r)
  <2>1. report[r] = NoRecord /\ charges[r] = 0 /\ terminal[r] = 0 /\ lease[r].held
    BY <1>1, <1>2, <1>4 DEF Settled, Supabase!FinalizeSkips
  <2>2. PICK audit \in {"recorded", "degraded"} :
          /\ audit = Supabase!ReportAudit(r, appended)
          /\ audit = "recorded" => appended /\ req[r].audit = "recorded"
    BY DEF Supabase!ReportAudit
  <2>3. PICK record \in GatewayReports :
          record = [outcome |-> req[r].outcome, bytes |-> req[r].sent, audit |-> audit]
    BY <1>1, <2>2 DEF GatewayReports, GatewayRequests
  <2>4. PICK events \in Nat : events = IF appended THEN 1 ELSE 0
    OBVIOUS
  <2>5. PICK row \in [at : Nat, bytes : Nat, held : BOOLEAN] : row = Supabase!NoLease
    BY DEF Supabase!NoLease
  <2>6. /\ lease' = [lease EXCEPT ![r] = row] /\ report' = [report EXCEPT ![r] = record]
    BY <1>4, <2>2, <2>3, <2>5 DEF Supabase!FinalizeApplied
  <2>7. /\ terminal' = [terminal EXCEPT ![r] = @ + IF appended THEN 1 ELSE 0]
        /\ charges' = [charges EXCEPT ![r] = @ + 1]
    BY <1>4 DEF Supabase!FinalizeApplied
  <2>8. /\ terminal' = [terminal EXCEPT ![r] = events]
        /\ charges' = [charges EXCEPT ![r] = 1]
    BY <2>1, <2>4, <2>7
  <2>9. /\ record # NoRecord /\ record.audit = audit /\ ~row.held
    BY <2>2, <2>3, <2>5 DEF NoRecord, Supabase!NoLease
  <2>10. ~Supabase!FinalizeRaises(r)
    BY <2>1 DEF Supabase!FinalizeRaises
  <2>11. /\ events <= 1 /\ (audit = "recorded" => events = 1)
         /\ (req[r].audit = "degraded" => record.audit # "recorded")
    BY <2>2, <2>4, <2>9
  <2> QED BY <2>1, <2>6, <2>8, <2>9, <2>10, <2>11
<1> QED BY <1>3, <1>4

LEMMA FinalizeKeeps ==
  ASSUME GatewayInv, NEW r \in Requests, Supabase!Finalize(r)
  PROVE  GatewayInv'
<1>1. PICK appended \in BOOLEAN, answer \in {"read", "lost", "unreadable"},
           n \in Nat :
        /\ n = (IF appended THEN 0 ELSE 1) + (IF answer = "read" THEN 0 ELSE 1)
        /\ Supabase!FinalizeApplied(r, appended)
        /\ \/ /\ answer = "lost" /\ Supabase!At(r, "finalize")
              /\ req' = [req EXCEPT ![r] =
                           [Supabase!Goto(r, "retry", 1) EXCEPT !.hits = @ + n]]
           \/ /\ \/ answer = "lost" /\ Supabase!At(r, "retry")
                 \/ answer = "read" /\ Supabase!FinalizeRaises(r)
              /\ req' = [req EXCEPT ![r] = Supabase!Thrown(r, n)]
           \/ /\ answer = "unreadable"
              /\ req' = [req EXCEPT ![r] =
                           [Supabase!Thrown(r, n) EXCEPT
                              !.unreadable = (req[r].answer = "none")]]
           \/ /\ answer = "read" /\ req[r].answer = "none"
              /\ req' = [req EXCEPT ![r] =
                           [Supabase!Done(r, "reported", report'[r].audit)
                              EXCEPT !.hits = @ + n]]
           \/ /\ answer = "read" /\ req[r].answer # "none"
              /\ req' = [req EXCEPT ![r] =
                           [Supabase!Done(r, req[r].answer, req[r].said)
                              EXCEPT !.hits = @ + n]]
  BY SMTT(30) DEF Supabase!Finalize, Supabase!Becomes
<1>2. answer # "read" => n >= 1
  BY <1>1
<1>3. clock' = clock /\ req[r].pc \in {"finalize", "retry"}
  BY DEF Supabase!Finalize
<1>4. PICK row \in [at : Nat, bytes : Nat, held : BOOLEAN], record \in GatewayReports,
           events \in Nat, charged \in Nat :
        /\ lease' = [lease EXCEPT ![r] = row] /\ report' = [report EXCEPT ![r] = record]
        /\ terminal' = [terminal EXCEPT ![r] = events]
        /\ charges' = [charges EXCEPT ![r] = charged]
        /\ ~row.held
        /\ charged = IF record = NoRecord THEN 0 ELSE 1
        /\ record = NoRecord => events = 0
        /\ events <= 1
        /\ record.audit = "recorded" => events = 1
        /\ report[r] # NoRecord => record = report[r]
        /\ req[r].audit = "degraded" /\ report[r] = NoRecord => record.audit # "recorded"
        /\ Supabase!FinalizeRaises(r) => record = NoRecord
  BY <1>1, <1>3, Finalizes
<1>5. /\ req[r] \in GatewayRequests /\ Told(req[r], report[r])
      /\ report[r] \in GatewayReports /\ report'[r] = record
  BY <1>4, GatewayOf DEF GatewayInv, GatewayTypes
<1>6. /\ req[r].said = "degraded" => record.audit \in {"none", "degraded"}
      /\ req[r].answer \in {"none", "target"}
  BY <1>3, <1>4, <1>5 DEF Told, GatewayReports
<1>7. ASSUME NEW q \in GatewayRequests, req' = [req EXCEPT ![r] = q],
             q.pc \in {"retry", "done"}, Told(q, record)
      PROVE  GatewayInv'
  <2>1. Timely(clock, q, row) /\ Returned(q, row)
    BY <1>4, <1>7 DEF Timely, Returned
  <2>2. Settled(q, row, record, events, charged)
    BY <1>4, <1>7 DEF Settled
  <2> QED BY <1>3, <1>4, <1>7, <2>1, <2>2, GatewaySteps
<1>8. ASSUME req' = [req EXCEPT ![r] =
                       [Supabase!Goto(r, "retry", 1) EXCEPT !.hits = @ + n]],
             answer = "lost"
      PROVE  GatewayInv'
  <2>1. PICK g \in GatewayRequests :
          /\ g = Supabase!Goto(r, "retry", 1) /\ g.pc = "retry" /\ g.hits = req[r].hits
          /\ g.audit = req[r].audit /\ g.answer = req[r].answer /\ g.said = req[r].said
    BY GoesTo DEF GatewayPlaces
  <2>2. PICK q \in GatewayRequests :
          /\ q = Struck(g, n) /\ q.hits = g.hits + n /\ q.pc = g.pc
          /\ q.audit = g.audit /\ q.answer = g.answer /\ q.said = g.said
    BY <2>1, StruckSet
  <2>3. req' = [req EXCEPT ![r] = q]
    BY <1>8, <2>1, <2>2 DEF Struck
  <2>4. Told(q, record)
    BY <1>2, <1>3, <1>5, <1>6, <1>8, <2>1, <2>2 DEF Told, GatewayRequests
  <2> QED BY <1>7, <2>1, <2>2, <2>3, <2>4
\* The record of a handler that throws.
<1>9. PICK reply \in {"relay", "target", "reported", "unfinalized"},
           thrown \in GatewayRequests :
        /\ reply = IF req[r].answer = "none" THEN "unfinalized" ELSE req[r].answer
        /\ thrown = Supabase!Thrown(r, n) /\ thrown.pc = "done"
        /\ thrown.hits = req[r].hits + n
        /\ thrown.answer = reply /\ thrown.said = req[r].said
  <2>1. PICK reply \in {"relay", "target", "reported", "unfinalized"} :
          reply = IF req[r].answer = "none" THEN "unfinalized" ELSE req[r].answer
    BY <1>6
  <2>2. PICK g \in GatewayRequests :
          /\ g = Supabase!Done(r, reply, req[r].said) /\ g.pc = "done"
          /\ g.hits = req[r].hits /\ g.answer = reply /\ g.said = req[r].said
    BY <1>5, Returns DEF GatewayRequests
  <2>3. PICK q \in GatewayRequests :
          /\ q = Struck(g, n) /\ q.hits = g.hits + n /\ q.pc = g.pc
          /\ q.audit = g.audit /\ q.answer = g.answer /\ q.said = g.said
    BY <2>2, StruckSet
  <2>4. q = Supabase!Thrown(r, n)
    BY <2>1, <2>2, <2>3 DEF Struck, Supabase!Thrown
  <2> QED BY <2>1, <2>2, <2>3, <2>4
<1>10. ASSUME req' = [req EXCEPT ![r] = Supabase!Thrown(r, n)],
              \/ answer = "lost" /\ Supabase!At(r, "retry")
              \/ answer = "read" /\ Supabase!FinalizeRaises(r)
       PROVE  GatewayInv'
  <2>1. req[r].pc = "retry" /\ n >= 1 => thrown.hits >= 2
    BY <1>5, <1>9 DEF Told, GatewayRequests
  <2>2. answer = "read" => record = NoRecord
    BY <1>4, <1>10
  <2>3. Told(thrown, record)
    BY <1>2, <1>6, <1>9, <1>10, <2>1, <2>2 DEF Told, Supabase!At
  <2> QED BY <1>7, <1>9, <1>10, <2>3
<1>11. ASSUME req' = [req EXCEPT ![r] =
                        [Supabase!Thrown(r, n) EXCEPT
                              !.unreadable = (req[r].answer = "none")]]
       PROVE  GatewayInv'
  <2>1. PICK q : q = [thrown EXCEPT !.unreadable = (req[r].answer = "none")]
    OBVIOUS
  <2>2. /\ q \in GatewayRequests /\ q.pc = "done"
        /\ q.unreadable \/ req[r].answer # "none"
        /\ q.answer = reply /\ q.said = req[r].said
    BY <1>9, <2>1 DEF GatewayRequests
  <2>3. req' = [req EXCEPT ![r] = q]
    BY <1>9, <1>11, <2>1
  <2>4. Told(q, record)
    BY <1>6, <1>9, <2>2 DEF Told
  <2> QED BY <1>7, <2>2, <2>3, <2>4
<1>12. ASSUME req' = [req EXCEPT ![r] =
                        [Supabase!Done(r, "reported", report'[r].audit)
                           EXCEPT !.hits = @ + n]]
       PROVE  GatewayInv'
  <2>1. PICK g \in GatewayRequests :
          /\ g = Supabase!Done(r, "reported", record.audit) /\ g.pc = "done"
          /\ g.answer = "reported" /\ g.said = record.audit
    BY Returns DEF GatewayReports
  <2>2. PICK q \in GatewayRequests :
          /\ q = Struck(g, n) /\ q.hits = g.hits + n /\ q.pc = g.pc
          /\ q.audit = g.audit /\ q.answer = g.answer /\ q.said = g.said
    BY <2>1, StruckSet
  <2>3. req' = [req EXCEPT ![r] = q]
    BY <1>5, <1>12, <2>1, <2>2 DEF Struck
  <2>4. Told(q, record)
    BY <2>1, <2>2 DEF Told
  <2> QED BY <1>7, <2>1, <2>2, <2>3, <2>4
<1>13. ASSUME req' = [req EXCEPT ![r] =
                        [Supabase!Done(r, req[r].answer, req[r].said)
                           EXCEPT !.hits = @ + n]],
              req[r].answer # "none"
       PROVE  GatewayInv'
  <2>1. PICK g \in GatewayRequests :
          /\ g = Supabase!Done(r, req[r].answer, req[r].said) /\ g.pc = "done"
          /\ g.answer = "target" /\ g.said = req[r].said
    <3>1. req[r].answer = "target" /\ req[r].said \in {"unknown", "none", "recorded", "degraded"}
      BY <1>5, <1>6, <1>13 DEF GatewayRequests
    <3> QED BY <3>1, Returns
  <2>2. PICK q \in GatewayRequests :
          /\ q = Struck(g, n) /\ q.hits = g.hits + n /\ q.pc = g.pc
          /\ q.audit = g.audit /\ q.answer = g.answer /\ q.said = g.said
    BY <2>1, StruckSet
  <2>3. req' = [req EXCEPT ![r] = q]
    BY <1>13, <2>1, <2>2 DEF Struck
  <2>4. Told(q, record)
    BY <1>6, <2>1, <2>2 DEF Told
  <2> QED BY <1>7, <2>1, <2>2, <2>3, <2>4
<1> QED BY <1>1, <1>8, <1>10, <1>11, <1>12, <1>13

LEMMA FinalizeFailsKeeps ==
  ASSUME GatewayInv, NEW r \in Requests, Supabase!FinalizeFails(r)
  PROVE  GatewayInv'
<1>1. /\ clock' = clock /\ UNCHANGED <<lease, report, terminal, charges>>
      /\ req[r].pc \in {"finalize", "retry"}
  BY DEF Supabase!FinalizeFails, Supabase!tables
<1>2. /\ req[r] \in GatewayRequests /\ Told(req[r], report[r])
      /\ Settled(req[r], lease[r], report[r], terminal[r], charges[r])
      /\ lease[r] \in [at : Nat, bytes : Nat, held : BOOLEAN]
  BY GatewayOf
<1>3. CASE req' = [req EXCEPT ![r] = Supabase!Thrown(r, 1)]
  <2>1. PICK answer \in {"relay", "target", "reported", "unfinalized"} :
          /\ answer = IF req[r].answer = "none" THEN "unfinalized" ELSE req[r].answer
          /\ answer \in {"target", "unfinalized"}
    BY <1>1, <1>2 DEF Told
  <2>2. PICK g \in GatewayRequests :
          /\ g = Supabase!Done(r, answer, req[r].said) /\ g.pc = "done"
          /\ g.hits = req[r].hits /\ g.answer = answer /\ g.said = req[r].said
    BY <1>2, <2>1, Returns DEF GatewayRequests
  <2>3. PICK q \in GatewayRequests :
          /\ q = Struck(g, 1) /\ q.hits = g.hits + 1 /\ q.pc = g.pc
          /\ q.audit = g.audit /\ q.answer = g.answer /\ q.said = g.said
    BY <2>2, StruckSet
  <2>4. req' = [req EXCEPT ![r] = q]
    BY <1>3, <2>1, <2>2, <2>3 DEF Struck, Supabase!Thrown
  <2>5. q.hits # 0
    BY <1>2, <2>2, <2>3 DEF GatewayRequests
  <2>6. Timely(clock, q, lease[r]) /\ Returned(q, lease[r])
    BY <2>2, <2>3, <2>5 DEF Timely, Returned
  <2>7. Settled(q, lease[r], report[r], terminal[r], charges[r])
    BY <1>1, <1>2, <2>2, <2>3 DEF Settled
  <2>8. req[r].pc = "retry" => q.hits >= 2
    BY <1>2, <2>2, <2>3 DEF Told, GatewayRequests
  <2>9. Told(q, report[r])
    BY <1>1, <1>2, <2>2, <2>3, <2>8 DEF Told, Settled
  <2> QED BY <1>1, <2>4, <2>6, <2>7, <2>9, GatewayMoves
<1>4. CASE req' = [req EXCEPT ![r] = [Supabase!Goto(r, "retry", 1) EXCEPT !.hits = @ + 1]]
  <2>1. PICK g \in GatewayRequests :
          /\ g = Supabase!Goto(r, "retry", 1) /\ g.pc = "retry" /\ g.hits = req[r].hits
          /\ g.audit = req[r].audit /\ g.answer = req[r].answer /\ g.said = req[r].said
    BY GoesTo DEF GatewayPlaces
  <2>2. PICK q \in GatewayRequests :
          /\ q = Struck(g, 1) /\ q.hits = g.hits + 1 /\ q.pc = g.pc
          /\ q.audit = g.audit /\ q.answer = g.answer /\ q.said = g.said
    BY <2>1, StruckSet
  <2>3. req' = [req EXCEPT ![r] = q]
    BY <1>4, <2>1, <2>2 DEF Struck
  <2>4. q.hits >= 1
    BY <1>2, <2>1, <2>2 DEF GatewayRequests
  <2>5. Timely(clock, q, lease[r]) /\ Returned(q, lease[r])
    BY <2>1, <2>2 DEF Timely, Returned
  <2>6. Settled(q, lease[r], report[r], terminal[r], charges[r])
    BY <1>1, <1>2, <2>1, <2>2 DEF Settled
  <2>7. Told(q, report[r])
    BY <1>1, <1>2, <2>1, <2>2, <2>4 DEF Told
  <2> QED BY <1>1, <2>3, <2>5, <2>6, <2>7, GatewayMoves
<1> QED BY <1>3, <1>4 DEF Supabase!FinalizeFails, Supabase!Becomes

LEMMA CleanupKeeps ==
  ASSUME GatewayInv, Supabase!CleanupExpired
  PROVE  GatewayInv'
<1>1. UNCHANGED <<clock, req, report, terminal, charges>> /\ lease' = Supabase!Reap
  BY DEF Supabase!CleanupExpired
<1>2. lease' \in [Requests -> [at : Nat, bytes : Nat, held : BOOLEAN]]
  BY <1>1 DEF GatewayInv, GatewayTypes, Supabase!Reap, Supabase!NoLease
<1>3. ASSUME NEW r \in Requests
      PROVE  GatewaySound(r)'
  <2>1. clock \in Nat /\ lease[r] \in [at : Nat, bytes : Nat, held : BOOLEAN]
    BY GatewayOf
  <2>2. /\ lease[r].held => LeaseLapses(r)
        /\ ~lease[r].held => ~lease'[r].held
    BY <1>1, <2>1 DEF LeaseLapses, Supabase!Reap, Supabase!NoLease, Supabase!Live,
       Supabase!LeaseTicks
  <2> QED BY <1>1, <2>2, GatewayRests
<1> QED BY <1>1, <1>2, <1>3 DEF GatewayInv, GatewayTypes

LEMMA GatewayTick ==
  ASSUME GatewayInv, Supabase!Tick
  PROVE  GatewayInv'
<1>1. UNCHANGED <<req, lease, report, terminal, charges>> /\ clock' = clock + 1
  BY DEF Supabase!Tick, Supabase!tables
<1>2. ASSUME NEW r \in Requests
      PROVE  GatewaySound(r)'
  <2>1. /\ req[r] \in GatewayRequests /\ clock \in Nat
        /\ lease[r] \in [at : Nat, bytes : Nat, held : BOOLEAN]
        /\ Timely(clock, req[r], lease[r]) /\ Told(req[r], report[r])
        /\ Settled(req[r], lease[r], report[r], terminal[r], charges[r])
        /\ Returned(req[r], lease[r])
    BY GatewayOf
  <2>2. /\ req[r].pc \in {"reconcile", "accepted"} => clock < req[r].due
        /\ req[r].pc \in {"body", "upstream", "stream"} => clock < req[r].deadline
    BY DEF Supabase!Tick, Supabase!Calls, Supabase!Waits
  <2>3. Timely(clock + 1, req[r], lease[r])
    BY <2>1, <2>2 DEF Timely, GatewayRequests
  <2> QED BY <1>1, <2>1, <2>3 DEF GatewaySound
<1> QED BY <1>1, <1>2 DEF GatewayInv, GatewayTypes

LEMMA GatewayInit ==
  ASSUME Supabase!Init
  PROVE  GatewayInv
<1>1. Supabase!NewRequest \in GatewayRequests
  BY DEF Supabase!NewRequest, GatewayRequests, GatewayPlaces
<1>2. Supabase!NoLease \in [at : Nat, bytes : Nat, held : BOOLEAN]
  BY DEF Supabase!NoLease
<1>3. Supabase!NoReport \in GatewayReports
  BY DEF Supabase!NoReport, GatewayReports
<1>4. GatewayTypes
  BY <1>1, <1>2, <1>3 DEF Supabase!Init, GatewayTypes
<1>5. ASSUME NEW r \in Requests
      PROVE  GatewaySound(r)
  <2>1. /\ req[r] = Supabase!NewRequest /\ lease[r] = Supabase!NoLease
        /\ report[r] = NoRecord /\ terminal[r] = 0 /\ charges[r] = 0
    BY DEF Supabase!Init, Supabase!NoReport, NoRecord
  <2> QED BY <2>1 DEF GatewaySound, Timely, Settled, Told, Returned,
          Supabase!NewRequest, Supabase!NoLease, NoRecord
<1> QED BY <1>4, <1>5 DEF GatewayInv

LEMMA GatewayStep ==
  ASSUME GatewayInv, ResponseLimit \in Nat, Supabase!Next
  PROVE  GatewayInv'
<1>1. ASSUME NEW r \in Requests, Supabase!Step(r)
      PROVE  GatewayInv'
  BY <1>1, HandleKeeps, ReceivedKeeps, RejectKeeps, AcquireKeeps, BodyKeeps,
     ReconcileKeeps, AcceptedKeeps, UpstreamKeeps, StreamKeeps, AbortKeeps,
     FinalizeKeeps, FinalizeFailsKeeps DEF Supabase!Step
<1> QED BY <1>1, CleanupKeeps, GatewayTick DEF Supabase!Next

LEMMA GatewayStutters ==
  ASSUME GatewayInv, UNCHANGED vars
  PROVE  GatewayInv'
BY DEF vars, GatewayInv, GatewayTypes, GatewaySound

\* What the run asks of Supabase.
LEMMA GatewayPromises ==
  ASSUME GatewayInv
  PROVE  /\ \A r \in Requests : req[r].pc \in Supabase!Waits => Supabase!Live(r)
         /\ Supabase!FinalizedOnce /\ Supabase!DegradedStays
         /\ Supabase!UnfinalizedIsRare /\ Supabase!LeakOnlyByFault
<1>1. NoRecord = Supabase!NoReport
  BY DEF NoRecord, Supabase!NoReport
<1>2. ASSUME NEW r \in Requests
      PROVE  /\ req[r].pc \in Supabase!Waits => Supabase!Live(r)
             /\ charges[r] = IF report[r] = Supabase!NoReport THEN 0 ELSE 1
             /\ terminal[r] <= 1
             /\ report[r].audit = "recorded" => terminal[r] = 1
             /\ report[r] # Supabase!NoReport => ~lease[r].held
             /\ req[r].answer = "unfinalized" =>
                  \/ req[r].hits >= 2 \/ report[r] = Supabase!NoReport
                  \/ req[r].unreadable
             /\ req[r].said = "degraded" => report[r].audit \in {"none", "degraded"}
             /\ Supabase!At(r, "done") /\ req[r].hits = 0 => ~lease[r].held
  <2>1. /\ req[r] \in GatewayRequests /\ clock \in Nat
        /\ lease[r] \in [at : Nat, bytes : Nat, held : BOOLEAN]
        /\ Timely(clock, req[r], lease[r]) /\ Told(req[r], report[r])
        /\ Settled(req[r], lease[r], report[r], terminal[r], charges[r])
        /\ Returned(req[r], lease[r])
    BY GatewayOf
  <2>2. req[r].pc \in Supabase!Waits => Supabase!Live(r)
    BY <2>1 DEF Supabase!Waits, Supabase!Live, Supabase!LeaseTicks, Timely, GatewayRequests
  <2>3. Supabase!At(r, "done") /\ req[r].hits = 0 => ~lease[r].held
    BY <2>1 DEF Supabase!At, Returned
  <2> QED BY <1>1, <2>1, <2>2, <2>3 DEF Settled, Told
<1> QED BY <1>2 DEF Supabase!FinalizedOnce, Supabase!DegradedStays,
        Supabase!UnfinalizedIsRare, Supabase!LeakOnlyByFault

-----------------------------------------------------------------------------
(* The quota object, for Cloudflare HTTP requests and tunnels *)

NoRow == [transport |-> "none", bytes |-> 0, expires |-> -1]

Rows == [transport : {"none", "http", "websocket"}, bytes : Nat, expires : Int]

\* The rows that have not run out.
Lapsed ==
  [r \in Requests |-> IF lease[r] # NoRow /\ lease[r].expires > clock
                        THEN lease[r] ELSE NoRow]

LEMMA Larger ==
  ASSUME NEW a \in Int, NEW b \in Int
  PROVE  /\ Worker!Max({a, b}) = IF a >= b THEN a ELSE b
         /\ Worker!Min({a, b}) = IF a >= b THEN b ELSE a
         /\ Tunnel!Max({a, b}) = IF a >= b THEN a ELSE b
<1>1. \A x \in {a, b} : x \in Int
  OBVIOUS
<1>2. PICK m \in {a, b} : m = IF a >= b THEN a ELSE b
  OBVIOUS
<1>3. PICK n \in {a, b} : n = IF a >= b THEN b ELSE a
  OBVIOUS
<1>4. (\A y \in {a, b} : m >= y) /\ \A x \in {a, b} : (\A y \in {a, b} : x >= y) => x = m
  BY <1>2
<1>5. (\A y \in {a, b} : n <= y) /\ \A x \in {a, b} : (\A y \in {a, b} : x <= y) => x = n
  BY <1>3
<1>6. /\ (CHOOSE x \in {a, b} : \A y \in {a, b} : x >= y) = m
      /\ (CHOOSE x \in {a, b} : \A y \in {a, b} : x <= y) = n
  BY <1>4, <1>5
<1> QED BY <1>2, <1>3, <1>6 DEF Worker!Max, Worker!Min, Tunnel!Max

LEMMA QuotaNames ==
  /\ Worker!NoLease = NoRow /\ Tunnel!NoLease = NoRow
  /\ Worker!Expired = Lapsed /\ Tunnel!Expired = Lapsed
  /\ Worker!LeaseTtl = 3 /\ Tunnel!LeaseTtl = 3 /\ Worker!RequestTimeout = 2
  /\ \A r : /\ Worker!Holds(r) <=> lease[r] # NoRow
            /\ Tunnel!Holds(r) <=> lease[r] # NoRow
            /\ Worker!Live(r) <=> lease[r] # NoRow /\ lease[r].expires > clock
            /\ Tunnel!Live(r) <=> lease[r] # NoRow /\ lease[r].expires > clock
<1>1. /\ Worker!NoLease = NoRow /\ Tunnel!NoLease = NoRow
      /\ Worker!RequestTimeout = 2 /\ Tunnel!RequestTimeout = 2
  BY DEF Worker!NoLease, Tunnel!NoLease, NoRow, Worker!RequestTimeout, Tunnel!RequestTimeout
<1>2. /\ \A r : /\ Worker!Holds(r) <=> lease[r] # NoRow
                /\ Tunnel!Holds(r) <=> lease[r] # NoRow
                /\ Worker!Live(r) <=> lease[r] # NoRow /\ lease[r].expires > clock
                /\ Tunnel!Live(r) <=> lease[r] # NoRow /\ lease[r].expires > clock
  BY <1>1 DEF Worker!Holds, Tunnel!Holds, Worker!Live, Tunnel!Live
<1>3. Worker!Expired = Lapsed /\ Tunnel!Expired = Lapsed
  BY <1>1, <1>2 DEF Worker!Expired, Tunnel!Expired, Lapsed
<1>4. Worker!LeaseTtl = 3 /\ Tunnel!LeaseTtl = 3
  BY <1>1, Larger DEF Worker!LeaseTtl, Tunnel!LeaseTtl
<1> QED BY <1>1, <1>2, <1>3, <1>4

\* The row of r stays, or has run out and is deleted.
RowLapses(r) ==
  lease'[r] = lease[r] \/ (lease'[r] = NoRow /\ lease[r].expires <= clock)

LEMMA OthersLapse ==
  ASSUME lease \in [Requests -> Rows], clock \in Nat, NEW r \in Requests, NEW row \in Rows,
         lease' = [lease EXCEPT ![r] = row] \/ lease' = [Lapsed EXCEPT ![r] = row]
  PROVE  /\ lease' \in [Requests -> Rows] /\ lease'[r] = row
         /\ \A p \in Requests \ {r} : RowLapses(p)
<1>1. NoRow \in Rows
  BY DEF NoRow, Rows
<1>2. Lapsed \in [Requests -> Rows]
  BY <1>1 DEF Lapsed
<1>3. \A p \in Requests : Lapsed[p] = lease[p] \/ (Lapsed[p] = NoRow /\ lease[p].expires <= clock)
  BY DEF Lapsed, NoRow, Rows
<1> QED BY <1>2, <1>3 DEF RowLapses

-----------------------------------------------------------------------------
(* Cloudflare HTTP *)

WorkerPlaces ==
  {"idle", "authorize", "body", "decide", "upstream", "stream", "complete", "record",
   "degrade", "done"}

WorkerRequests ==
  [pc : WorkerPlaces, start : Nat, timeout : Nat, abort : {"none", "timeout", "cancelled"},
   est : Nat, up : Nat, sent : Nat, left : Nat, relayed : Nat, hits : Nat,
   late : BOOLEAN, excess : Int]

Records == {"none", "recorded", "degraded"}

WorkerTypes ==
  /\ clock \in Nat
  /\ lease \in [Requests -> Rows]
  /\ report \in [Requests -> Records] /\ terminal \in [Requests -> Nat]
  /\ req \in [Requests -> WorkerRequests]

\* The lease was taken when the timer already ran: it is there, or it has had its
\* three ticks and the timer, two at most, stops what would call the target.
Covered(now, q, row) ==
  /\ q.pc = "authorize" => q.start <= now
  /\ q.pc \in {"body", "decide", "upstream", "stream"} =>
       \/ now >= q.start + 3
       \/ row # NoRow /\ row.expires >= q.start + 3
  /\ q.pc \in {"upstream", "stream"} => q.timeout <= 2
  /\ q.pc = "upstream" /\ q.abort = "none" => now <= q.start + q.timeout
  /\ q.pc = "stream" => now <= q.start + q.timeout /\ q.abort = "none"

\* What an announced body has left and has relayed is no more than announced;
\* before the body was prepared there is nothing of it.
Body(q) ==
  /\ q.est > 0 => q.left + q.relayed <= q.est
  /\ q.pc \in {"idle", "authorize", "body"} => q.left = 0 /\ q.relayed = 0

\* A row carries what was charged in advance.
Charged(q, row) ==
  /\ q.pc \in {"body", "decide", "upstream", "stream", "complete"} /\ row # NoRow =>
       row.bytes = q.est
  /\ q.excess >= 0
  /\ q.excess > 0 => q.late
  /\ Body(q)

\* Report and event come together, after the release.
Closed(q, row, record, events) ==
  /\ events <= 1
  /\ record = "none" => events = 0
  /\ record = "recorded" => events = 1
  /\ record # "none" => row = NoRow /\ q.pc \in {"complete", "record", "degrade", "done"}
  /\ q.pc \in {"idle", "hello", "authorize", "record", "degrade"} => row = NoRow
  /\ q.pc = "done" /\ q.hits = 0 => row = NoRow

WorkerSound(r) ==
  /\ Covered(clock, req[r], lease[r])
  /\ Charged(req[r], lease[r])
  /\ Closed(req[r], lease[r], report[r], terminal[r])

WorkerInv == WorkerTypes /\ \A r \in Requests : WorkerSound(r)

LEMMA WorkerOf ==
  ASSUME WorkerInv, NEW r \in Requests
  PROVE  /\ req[r] \in WorkerRequests /\ clock \in Nat /\ lease[r] \in Rows
         /\ report[r] \in Records /\ terminal[r] \in Nat
         /\ Covered(clock, req[r], lease[r]) /\ Charged(req[r], lease[r])
         /\ Closed(req[r], lease[r], report[r], terminal[r])
BY DEF WorkerInv, WorkerTypes, WorkerSound

LEMMA WorkerRests ==
  ASSUME WorkerInv, NEW r \in Requests, clock' = clock, req'[r] = req[r],
         report'[r] = report[r], terminal'[r] = terminal[r], RowLapses(r)
  PROVE  WorkerSound(r)'
<1>1. /\ req[r] \in WorkerRequests /\ clock \in Nat /\ lease[r] \in Rows
      /\ Covered(clock, req[r], lease[r]) /\ Charged(req[r], lease[r])
      /\ Closed(req[r], lease[r], report[r], terminal[r])
  BY WorkerOf
<1>2. Covered(clock', req'[r], lease'[r])
  <2>1. CASE lease'[r] = lease[r]
    BY <1>1, <2>1
  <2>2. CASE lease'[r] = NoRow /\ lease[r].expires <= clock
    BY <1>1, <2>2 DEF Covered, WorkerRequests, Rows
  <2> QED BY <2>1, <2>2 DEF RowLapses
<1>3. Charged(req'[r], lease'[r])
  BY <1>1 DEF Charged, RowLapses
<1>4. Closed(req'[r], lease'[r], report'[r], terminal'[r])
  BY <1>1 DEF Closed, RowLapses
<1> QED BY <1>2, <1>3, <1>4 DEF WorkerSound

\* A step of r that leaves the others alone.
LEMMA WorkerSteps ==
  ASSUME WorkerInv, NEW r \in Requests, NEW q \in WorkerRequests, clock' = clock,
         req' = [req EXCEPT ![r] = q], NEW row \in Rows,
         lease' = [lease EXCEPT ![r] = row] \/ lease' = [Lapsed EXCEPT ![r] = row],
         NEW record \in Records, report' = [report EXCEPT ![r] = record],
         NEW events \in Nat, terminal' = [terminal EXCEPT ![r] = events],
         Covered(clock, q, row), Charged(q, row), Closed(q, row, record, events)
  PROVE  WorkerInv'
<1>1. /\ lease \in [Requests -> Rows] /\ clock \in Nat
      /\ report \in [Requests -> Records] /\ terminal \in [Requests -> Nat]
      /\ req \in [Requests -> WorkerRequests]
  BY DEF WorkerInv, WorkerTypes
<1>2. /\ lease' \in [Requests -> Rows] /\ lease'[r] = row
      /\ \A p \in Requests \ {r} : RowLapses(p)
  BY <1>1, OthersLapse
<1>3. WorkerTypes'
  BY <1>1, <1>2 DEF WorkerTypes
<1>4. /\ req'[r] = q /\ report'[r] = record /\ terminal'[r] = events
      /\ \A p \in Requests \ {r} : /\ req'[p] = req[p] /\ report'[p] = report[p]
                                   /\ terminal'[p] = terminal[p]
  BY <1>1
<1>5. WorkerSound(r)'
  BY <1>2, <1>4 DEF WorkerSound
<1>6. ASSUME NEW p \in Requests \ {r}
      PROVE  WorkerSound(p)'
  BY <1>2, <1>4, WorkerRests
<1> QED BY <1>3, <1>5, <1>6 DEF WorkerInv

\* A step of r that changes nothing but its handler.
LEMMA WorkerMoves ==
  ASSUME WorkerInv, NEW r \in Requests, NEW q \in WorkerRequests, clock' = clock,
         req' = [req EXCEPT ![r] = q], UNCHANGED <<lease, report, terminal>>,
         Covered(clock, q, lease[r]), Charged(q, lease[r]),
         Closed(q, lease[r], report[r], terminal[r])
  PROVE  WorkerInv'
<1>1. lease[r] \in Rows /\ report[r] \in Records /\ terminal[r] \in Nat
  BY WorkerOf
<1>2. /\ lease' = [lease EXCEPT ![r] = lease[r]] /\ report' = [report EXCEPT ![r] = report[r]]
      /\ terminal' = [terminal EXCEPT ![r] = terminal[r]]
  BY DEF WorkerInv, WorkerTypes
<1> QED BY <1>1, <1>2, WorkerSteps

\* A step of r that changes its handler and its row.
LEMMA WorkerTakes ==
  ASSUME WorkerInv, NEW r \in Requests, NEW q \in WorkerRequests, clock' = clock,
         req' = [req EXCEPT ![r] = q], UNCHANGED <<report, terminal>>, NEW row \in Rows,
         lease' = [lease EXCEPT ![r] = row] \/ lease' = [Lapsed EXCEPT ![r] = row],
         Covered(clock, q, row), Charged(q, row),
         Closed(q, row, report[r], terminal[r])
  PROVE  WorkerInv'
<1>1. report[r] \in Records /\ terminal[r] \in Nat
  BY WorkerOf
<1>2. /\ report' = [report EXCEPT ![r] = report[r]]
      /\ terminal' = [terminal EXCEPT ![r] = terminal[r]]
  BY DEF WorkerInv, WorkerTypes
<1> QED BY <1>1, <1>2, WorkerSteps

Balanced(g, late, excess) == [g EXCEPT !.late = late, !.excess = excess]

LEMMA WorkerBalance ==
  ASSUME NEW g \in WorkerRequests, NEW late \in BOOLEAN, NEW excess \in Int
  PROVE  /\ Balanced(g, late, excess) \in WorkerRequests
         /\ Balanced(g, late, excess).pc = g.pc /\ Balanced(g, late, excess).hits = g.hits
         /\ Balanced(g, late, excess).late = late /\ Balanced(g, late, excess).excess = excess
         /\ Body(g) => Body(Balanced(g, late, excess))
BY DEF WorkerRequests, Balanced, Body

LEMMA WorkerGoes ==
  ASSUME WorkerInv, NEW r \in Requests, NEW label \in WorkerPlaces
  PROVE  \E q \in WorkerRequests :
           /\ q = Worker!Goto(r, label) /\ q.pc = label
           /\ q.start = req[r].start /\ q.timeout = req[r].timeout
           /\ q.abort = req[r].abort /\ q.est = req[r].est /\ q.up = req[r].up
           /\ q.sent = req[r].sent /\ q.hits = req[r].hits /\ q.late = req[r].late
           /\ q.excess = req[r].excess
           /\ q.left = req[r].left /\ q.relayed = req[r].relayed
           /\ \/ req[r].pc \in {"idle", "authorize", "body"}
              \/ label \notin {"idle", "authorize", "body"}
              => Body(q)
<1>1. req[r] \in WorkerRequests /\ Body(req[r])
  BY WorkerOf DEF Charged
<1>2. PICK q \in WorkerRequests : q = [req[r] EXCEPT !.pc = label]
  BY <1>1 DEF WorkerRequests
<1>3. /\ q.pc = label /\ q.start = req[r].start /\ q.timeout = req[r].timeout
      /\ q.abort = req[r].abort /\ q.est = req[r].est /\ q.up = req[r].up
      /\ q.sent = req[r].sent /\ q.hits = req[r].hits /\ q.late = req[r].late
      /\ q.excess = req[r].excess
      /\ q.left = req[r].left /\ q.relayed = req[r].relayed
  BY <1>1, <1>2 DEF WorkerRequests
<1>4. \/ req[r].pc \in {"idle", "authorize", "body"}
      \/ label \notin {"idle", "authorize", "body"}
      => Body(q)
  BY <1>1, <1>3 DEF Body
<1> QED BY <1>2, <1>3, <1>4 DEF Worker!Goto

LEMMA WorkerNew == Worker!NewRequest \in WorkerRequests
BY DEF Worker!NewRequest, WorkerRequests, WorkerPlaces

\* The handler has returned.
LEMMA WorkerReturns ==
  ASSUME WorkerInv, NEW r \in Requests, NEW n \in Nat
  PROVE  \E q \in WorkerRequests :
           /\ q = Worker!Done(r, n) /\ q.pc = "done" /\ q.est = 0 /\ q.up = 0
           /\ q.sent = 0 /\ q.hits = req[r].hits + n /\ q.late = req[r].late
           /\ q.excess = req[r].excess /\ Body(q)
<1>1. req[r] \in WorkerRequests
  BY WorkerOf
<1>2. PICK hits \in Nat, late \in BOOLEAN, excess \in Int :
        hits = req[r].hits + n /\ late = req[r].late /\ excess = req[r].excess
  BY <1>1 DEF WorkerRequests
<1>3. PICK d \in WorkerRequests : d = [Worker!NewRequest EXCEPT !.pc = "done"]
  <2>1. PICK new \in WorkerRequests : new = Worker!NewRequest
    BY WorkerNew
  <2>2. [new EXCEPT !.pc = "done"] \in WorkerRequests
    BY DEF WorkerRequests, WorkerPlaces
  <2> QED BY <2>1, <2>2
<1>4. /\ d.pc = "done" /\ d.est = 0 /\ d.up = 0 /\ d.sent = 0
  BY <1>3 DEF Worker!NewRequest
<1>5. PICK e \in WorkerRequests : e = [d EXCEPT !.hits = hits]
  BY <1>3 DEF WorkerRequests
<1>6. PICK q \in WorkerRequests : q = Balanced(e, late, excess)
  BY <1>5, WorkerBalance
<1>7. q = Worker!Done(r, n)
  BY <1>2, <1>3, <1>5, <1>6 DEF Worker!Done, Balanced
<1>8. /\ q.pc = "done" /\ q.est = 0 /\ q.up = 0 /\ q.sent = 0
      /\ q.hits = hits /\ q.late = late /\ q.excess = excess
  <2>1. /\ e.pc = "done" /\ e.est = 0 /\ e.up = 0 /\ e.sent = 0 /\ e.hits = hits
    BY <1>3, <1>4, <1>5 DEF WorkerRequests
  <2> QED BY <1>5, <1>6, <2>1 DEF WorkerRequests, Balanced
<1>9. Body(q)
  <2>1. e.left = 0 /\ e.relayed = 0 /\ e.est = 0
    BY <1>3, <1>4, <1>5 DEF WorkerRequests, Worker!NewRequest
  <2>2. Body(e)
    BY <2>1 DEF Body
  <2> QED BY <1>5, <1>6, <2>2, WorkerBalance
<1> QED BY <1>2, <1>6, <1>7, <1>8, <1>9

\* The handler goes to complete its execution.
LEMMA WorkerEnds ==
  ASSUME WorkerInv, NEW r \in Requests, NEW up \in Nat, NEW sent \in Nat
  PROVE  \E q \in WorkerRequests :
           /\ q = Worker!Ended(r, up, sent) /\ q.pc = "complete"
           /\ q.est = req[r].est /\ q.up = up /\ q.sent = sent
           /\ q.hits = req[r].hits /\ q.late = req[r].late
           /\ q.excess = req[r].excess /\ Body(q)
<1>1. req[r] \in WorkerRequests
  BY WorkerOf
<1>2. PICK e \in WorkerRequests : e = [req[r] EXCEPT !.pc = "complete", !.abort = "none"]
  BY <1>1 DEF WorkerRequests, WorkerPlaces
<1>3. PICK f \in WorkerRequests : f = [e EXCEPT !.start = 0, !.timeout = 0]
  BY <1>2 DEF WorkerRequests
<1>4. PICK q \in WorkerRequests : q = [f EXCEPT !.up = up, !.sent = sent]
  BY <1>3 DEF WorkerRequests
<1>5. q = Worker!Ended(r, up, sent)
  BY <1>2, <1>3, <1>4 DEF Worker!Ended
<1>6. /\ q.pc = "complete" /\ q.est = req[r].est /\ q.up = up /\ q.sent = sent
      /\ q.hits = req[r].hits /\ q.late = req[r].late /\ q.excess = req[r].excess
      /\ q.left = req[r].left /\ q.relayed = req[r].relayed
  BY <1>1, <1>2, <1>3, <1>4 DEF WorkerRequests
<1>7. Body(q)
  BY <1>6, WorkerOf DEF Charged, Body
<1> QED BY <1>4, <1>5, <1>6, <1>7

LEMMA WorkerStruck ==
  ASSUME NEW g \in WorkerRequests, NEW n \in Nat
  PROVE  /\ Struck(g, n) \in WorkerRequests
         /\ Struck(g, n).pc = g.pc /\ Struck(g, n).start = g.start
         /\ Struck(g, n).timeout = g.timeout /\ Struck(g, n).abort = g.abort
         /\ Struck(g, n).est = g.est /\ Struck(g, n).up = g.up
         /\ Struck(g, n).sent = g.sent /\ Struck(g, n).hits = g.hits + n
         /\ Struck(g, n).late = g.late /\ Struck(g, n).excess = g.excess
         /\ Body(g) => Body(Struck(g, n))
BY DEF WorkerRequests, Struck, Body

\* The handler returns, or goes to complete what holds its row.
LEMMA WorkerFinishes ==
  ASSUME WorkerInv, NEW r \in Requests, NEW q \in WorkerRequests, clock' = clock,
         req' = [req EXCEPT ![r] = q], UNCHANGED <<lease, report, terminal>>,
         q.late = req[r].late, q.excess = req[r].excess, Body(q),
         \/ q.pc = "done" /\ (q.hits # 0 \/ lease[r] = NoRow)
         \/ /\ q.pc = "complete" /\ q.est = req[r].est
            /\ req[r].pc \in {"body", "decide", "upstream", "stream"}
  PROVE  WorkerInv'
<1>1. /\ Covered(clock, req[r], lease[r]) /\ Charged(req[r], lease[r])
      /\ Closed(req[r], lease[r], report[r], terminal[r])
  BY WorkerOf
<1>2. Covered(clock, q, lease[r])
  BY DEF Covered
<1>3. Charged(q, lease[r])
  BY <1>1 DEF Charged
<1>4. Closed(q, lease[r], report[r], terminal[r])
  BY <1>1 DEF Closed
<1> QED BY <1>2, <1>3, <1>4, WorkerMoves

LEMMA HandleGatewayKeeps ==
  ASSUME WorkerInv, ClientTimeouts \subseteq Nat, NEW r \in Requests,
         Worker!HandleGatewayRequest(r)
  PROVE  WorkerInv'
<1>0. UNCHANGED <<clock, Worker!quota, Worker!tables>> /\ Worker!At(r, "idle")
  BY Zenon DEF Worker!HandleGatewayRequest
<1>1. /\ clock' = clock /\ UNCHANGED <<lease, report, terminal>>
      /\ req[r].pc = "idle"
  BY <1>0 DEF Worker!At, Worker!quota, Worker!tables
<1>2. /\ req[r] \in WorkerRequests /\ clock \in Nat /\ lease[r] = NoRow
      /\ Charged(req[r], lease[r])
      /\ Closed(req[r], lease[r], report[r], terminal[r])
  BY <1>1, WorkerOf DEF Closed
<1>3. CASE req' = [req EXCEPT ![r] = Worker!Done(r, 0)]
  <2>1. PICK q \in WorkerRequests :
          /\ q = Worker!Done(r, 0) /\ q.pc = "done"
          /\ q.late = req[r].late /\ q.excess = req[r].excess /\ Body(q)
    BY WorkerReturns
  <2> QED BY <1>1, <1>2, <1>3, <2>1, WorkerFinishes
<1>4. ASSUME NEW timeout \in ClientTimeouts, NEW est \in 0 .. 1,
             req' = [req EXCEPT ![r] = [Worker!Goto(r, "authorize") EXCEPT
                        !.start = clock, !.timeout = timeout, !.est = est, !.up = est]]
      PROVE  WorkerInv'
  <2>1. PICK g \in WorkerRequests :
          /\ g = Worker!Goto(r, "authorize") /\ g.pc = "authorize"
          /\ g.late = req[r].late /\ g.excess = req[r].excess
          /\ g.left = 0 /\ g.relayed = 0
    BY <1>1, <1>2, WorkerGoes DEF WorkerPlaces, Charged, Body
  <2>2. est \in Nat /\ timeout \in Nat
    BY <1>4
  <2>3. PICK q \in WorkerRequests :
          q = [g EXCEPT !.start = clock, !.timeout = timeout, !.est = est, !.up = est]
    BY <1>2, <2>2 DEF WorkerRequests
  <2>4. /\ q.pc = "authorize" /\ q.start = clock /\ q.left = 0 /\ q.relayed = 0
        /\ q.late = req[r].late /\ q.excess = req[r].excess
    BY <2>1, <2>3 DEF WorkerRequests
  <2>7. Body(q)
    BY <2>2, <2>3, <2>4 DEF Body, WorkerRequests
  <2>5. Covered(clock, q, lease[r])
    BY <1>2, <2>4 DEF Covered
  <2>6. Charged(q, lease[r]) /\ Closed(q, lease[r], report[r], terminal[r])
    BY <1>1, <1>2, <2>4, <2>7 DEF Charged, Closed
  <2>8. req' = [req EXCEPT ![r] = q]
    BY <1>4, <2>1, <2>3
  <2> QED BY <1>1, <2>5, <2>6, <2>8, WorkerMoves
<1> QED BY <1>3, <1>4 DEF Worker!HandleGatewayRequest, Worker!Becomes

\* What acquire makes of the row of a request that had none.
LEMMA WorkerAcquires ==
  ASSUME WorkerInv, NEW r \in Requests, lease[r] = NoRow, NEW bytes \in Nat,
         Worker!Acquire(r, "http", bytes)
  PROVE  \E row \in Rows :
           /\ lease' = [Lapsed EXCEPT ![r] = row]
           /\ Worker!Admits(r, "http", bytes) =>
                row # NoRow /\ row.bytes = bytes /\ row.expires = clock + 3
           /\ ~Worker!Admits(r, "http", bytes) => row = NoRow
<1>1. clock \in Nat /\ NoRow \in Rows /\ Lapsed \in [Requests -> Rows] /\ Lapsed[r] = NoRow
  <2>1. NoRow \in Rows
    BY DEF NoRow, Rows
  <2> QED BY <2>1 DEF WorkerInv, WorkerTypes, Lapsed
<1>2. CASE Worker!Admits(r, "http", bytes)
  <2>1. PICK row \in Rows : row = [transport |-> "http", bytes |-> bytes, expires |-> clock + 3]
    <3>1. clock + 3 \in Int
      BY <1>1
    <3>2. [transport |-> "http", bytes |-> bytes, expires |-> clock + 3] \in Rows
      BY <3>1 DEF Rows
    <3> QED BY <3>2
  <2>2. lease' = [Lapsed EXCEPT ![r] = row]
    BY <1>2, <2>1, QuotaNames DEF Worker!Acquire
  <2>3. row # NoRow
    BY <2>1 DEF NoRow
  <2> QED BY <1>2, <2>1, <2>2, <2>3
<1>3. CASE ~Worker!Admits(r, "http", bytes)
  <2>1. lease' = Lapsed
    BY <1>3, QuotaNames DEF Worker!Acquire
  <2>2. lease' = [Lapsed EXCEPT ![r] = NoRow]
    BY <1>1, <2>1
  <2> QED BY <1>1, <1>3, <2>2
<1> QED BY <1>2, <1>3

LEMMA AuthorizeKeeps ==
  ASSUME WorkerInv, NEW r \in Requests, Worker!AuthorizeExecution(r)
  PROVE  WorkerInv'
<1>1. /\ clock' = clock /\ UNCHANGED <<report, terminal>>
      /\ req[r].pc = "authorize"
  BY DEF Worker!AuthorizeExecution, Worker!At
<1>2. /\ req[r] \in WorkerRequests /\ clock \in Nat /\ lease[r] = NoRow
      /\ Covered(clock, req[r], lease[r]) /\ Charged(req[r], lease[r])
      /\ Closed(req[r], lease[r], report[r], terminal[r])
  BY <1>1, WorkerOf DEF Closed
<1>3. req[r].est \in Nat /\ req[r].up \in Nat
  BY <1>2 DEF WorkerRequests
<1>4. ASSUME NEW n \in Nat, req' = [req EXCEPT ![r] = Worker!Done(r, n)],
             \/ lease' = lease
             \/ Worker!Acquire(r, "http", req[r].est)
                  /\ (n # 0 \/ ~Worker!Admits(r, "http", req[r].est))
      PROVE  WorkerInv'
  <2>1. PICK q \in WorkerRequests :
          /\ q = Worker!Done(r, n) /\ q.pc = "done" /\ q.hits = req[r].hits + n
          /\ q.late = req[r].late /\ q.excess = req[r].excess /\ Body(q)
    BY WorkerReturns
  <2>2. CASE lease' = lease
    BY <1>1, <1>2, <1>4, <2>1, <2>2, WorkerFinishes
  <2>3. CASE Worker!Acquire(r, "http", req[r].est)
               /\ (n # 0 \/ ~Worker!Admits(r, "http", req[r].est))
    <3>1. PICK row \in Rows :
            /\ lease' = [Lapsed EXCEPT ![r] = row]
            /\ ~Worker!Admits(r, "http", req[r].est) => row = NoRow
      BY <1>2, <1>3, <2>3, WorkerAcquires
    <3>2. q.hits # 0 \/ row = NoRow
      BY <1>2, <2>1, <2>3, <3>1 DEF WorkerRequests
    <3>3. Covered(clock, q, row) /\ Charged(q, row)
      BY <1>2, <2>1 DEF Covered, Charged
    <3>4. Closed(q, row, report[r], terminal[r])
      BY <1>1, <1>2, <2>1, <3>2 DEF Closed
    <3> QED BY <1>1, <1>4, <2>1, <3>1, <3>3, <3>4, WorkerTakes
  <2> QED BY <1>4, <2>2, <2>3
<1>5. CASE /\ Worker!Admits(r, "http", req[r].est) /\ Worker!Acquire(r, "http", req[r].est)
           /\ req' = [req EXCEPT ![r] = Worker!Goto(r, "body")]
  <2>1. PICK q \in WorkerRequests :
          /\ q = Worker!Goto(r, "body") /\ q.pc = "body" /\ q.start = req[r].start
          /\ q.est = req[r].est /\ q.late = req[r].late /\ q.excess = req[r].excess /\ Body(q)
    BY <1>1, WorkerGoes DEF WorkerPlaces
  <2>2. PICK row \in Rows :
          /\ lease' = [Lapsed EXCEPT ![r] = row] /\ row # NoRow
          /\ row.bytes = req[r].est /\ row.expires = clock + 3
    BY <1>2, <1>3, <1>5, WorkerAcquires
  <2>3. Covered(clock, q, row)
    BY <1>1, <1>2, <2>1, <2>2 DEF Covered, WorkerRequests
  <2>4. Charged(q, row) /\ Closed(q, row, report[r], terminal[r])
    BY <1>1, <1>2, <2>1, <2>2 DEF Charged, Closed
  <2> QED BY <1>1, <1>5, <2>1, <2>2, <2>3, <2>4, WorkerTakes
<1>6. \/ \E n \in 0 .. 2 :
           /\ req' = [req EXCEPT ![r] = Worker!Done(r, n)]
           /\ \/ lease' = lease
              \/ Worker!Acquire(r, "http", req[r].est) /\ ~Worker!Admits(r, "http", req[r].est)
      \/ /\ req' = [req EXCEPT ![r] = Worker!Done(r, 1)]
         /\ lease' = lease \/ Worker!Acquire(r, "http", req[r].est)
      \/ /\ Worker!Admits(r, "http", req[r].est) /\ Worker!Acquire(r, "http", req[r].est)
         /\ req' = [req EXCEPT ![r] = Worker!Goto(r, "body")]
  BY DEF Worker!AuthorizeExecution, Worker!Becomes, Worker!quota
<1> QED BY <1>4, <1>5, <1>6

LEMMA PrepareKeeps ==
  ASSUME WorkerInv, NEW r \in Requests, Worker!PrepareRequestBody(r)
  PROVE  WorkerInv'
<1>0. UNCHANGED <<clock, Worker!quota, Worker!tables>> /\ Worker!At(r, "body")
  BY Zenon DEF Worker!PrepareRequestBody
<1>1. /\ clock' = clock /\ UNCHANGED <<lease, report, terminal>>
      /\ req[r].pc = "body"
  BY <1>0 DEF Worker!At, Worker!quota, Worker!tables
<1>2. /\ req[r] \in WorkerRequests /\ clock \in Nat
      /\ Covered(clock, req[r], lease[r]) /\ Charged(req[r], lease[r])
      /\ Closed(req[r], lease[r], report[r], terminal[r])
  BY WorkerOf
<1>3. req[r].est \in Nat /\ req[r].up \in Nat
  BY <1>2 DEF WorkerRequests
<1>4. CASE req' = [req EXCEPT ![r] = Worker!Fail(r)]
  <2>1. PICK q \in WorkerRequests :
          /\ q = Worker!Fail(r) /\ q.pc = "complete" /\ q.est = req[r].est
          /\ q.late = req[r].late /\ q.excess = req[r].excess /\ Body(q)
    BY <1>3, WorkerEnds DEF Worker!Fail
  <2> QED BY <1>1, <1>4, <2>1, WorkerFinishes
<1>5. ASSUME NEW up \in Nat, NEW left \in Nat, req[r].est > 0 => left = req[r].est,
             req' = [req EXCEPT ![r] =
                       [Worker!Goto(r, "decide") EXCEPT !.up = up, !.left = left]]
      PROVE  WorkerInv'
  <2>1. PICK g \in WorkerRequests :
          /\ g = Worker!Goto(r, "decide") /\ g.pc = "decide" /\ g.start = req[r].start
          /\ g.est = req[r].est /\ g.late = req[r].late /\ g.excess = req[r].excess
          /\ g.relayed = 0
    BY <1>1, <1>2, WorkerGoes DEF WorkerPlaces, Charged, Body
  <2>2. PICK q \in WorkerRequests : q = [g EXCEPT !.up = up, !.left = left]
    BY DEF WorkerRequests
  <2>3. /\ q.pc = "decide" /\ q.start = req[r].start
        /\ q.est = req[r].est /\ q.late = req[r].late /\ q.excess = req[r].excess
        /\ q.left = left /\ q.relayed = 0
    BY <2>1, <2>2 DEF WorkerRequests
  <2>6. Body(q)
    BY <1>3, <1>5, <2>3 DEF Body
  <2>4. Covered(clock, q, lease[r]) /\ Charged(q, lease[r])
    BY <1>1, <1>2, <2>3, <2>6 DEF Covered, Charged
  <2>5. Closed(q, lease[r], report[r], terminal[r])
    BY <1>1, <1>2, <2>3 DEF Closed
  <2> QED BY <1>1, <1>5, <2>1, <2>2, <2>4, <2>5, WorkerMoves
<1>6. \/ \E size \in IF req[r].est = 0 THEN 0 .. 1 ELSE {req[r].est} :
           req' = [req EXCEPT ![r] =
                     [Worker!Goto(r, "decide") EXCEPT !.up = size, !.left = size]]
      \/ /\ req[r].est = 0
         /\ req' = [req EXCEPT ![r] = [Worker!Goto(r, "decide") EXCEPT !.left = 1]]
      \/ req' = [req EXCEPT ![r] = Worker!Fail(r)]
  BY Zenon DEF Worker!PrepareRequestBody, Worker!Becomes
<1>7. ASSUME NEW size \in IF req[r].est = 0 THEN 0 .. 1 ELSE {req[r].est},
             req' = [req EXCEPT ![r] =
                       [Worker!Goto(r, "decide") EXCEPT !.up = size, !.left = size]]
      PROVE  WorkerInv'
  <2>1. size \in Nat /\ (req[r].est > 0 => size = req[r].est)
    BY <1>3, <1>7
  <2>2. PICK n \in Nat : n = size
    BY <2>1
  <2> QED BY Zenon, <1>5, <1>7, <2>1, <2>2
<1>8. ASSUME req[r].est = 0,
             req' = [req EXCEPT ![r] = [Worker!Goto(r, "decide") EXCEPT !.left = 1]]
      PROVE  WorkerInv'
  <2>1. PICK g \in WorkerRequests : g = Worker!Goto(r, "decide") /\ g.up = req[r].up
    BY WorkerGoes DEF WorkerPlaces
  <2>2. PICK up \in Nat, left \in Nat : up = req[r].up /\ left = 1
    BY <1>3
  <2>3. [g EXCEPT !.left = left] = [g EXCEPT !.up = up, !.left = left]
    BY <2>1, <2>2 DEF WorkerRequests
  <2>4. req' = [req EXCEPT ![r] =
                  [Worker!Goto(r, "decide") EXCEPT !.up = up, !.left = left]]
    BY <1>8, <2>1, <2>2, <2>3
  <2>5. req[r].est > 0 => left = req[r].est
    BY <1>8
  <2> QED BY Zenon, <1>5, <2>4, <2>5
<1> QED BY Zenon, <1>4, <1>6, <1>7, <1>8

\* release charges what the row has not paid for, so that the record balances.
LEMMA WorkerPays ==
  ASSUME WorkerInv, NEW r \in Requests, req[r].pc \in {"decide", "complete"}
  PROVE  \E late \in BOOLEAN, excess \in Int :
           /\ excess >= 0 /\ (excess > 0 => late)
           /\ \A g : Worker!Released(g, r) = Balanced(g, late, excess)
<1>1. /\ req[r] \in WorkerRequests /\ lease[r] \in Rows /\ Charged(req[r], lease[r])
  BY WorkerOf
<1>2. PICK sent \in Nat, up \in Nat, est \in Nat, bytes \in Nat :
        sent = req[r].sent /\ up = req[r].up /\ est = req[r].est /\ bytes = lease[r].bytes
  BY <1>1 DEF WorkerRequests, Rows
<1>3. /\ lease[r] # NoRow => bytes = est
      /\ lease[r] = NoRow => bytes = 0
  BY <1>1, <1>2 DEF Charged, NoRow
<1>4. /\ Worker!Max({0, sent}) = sent
      /\ Worker!Max({0, up - bytes}) = IF 0 >= up - bytes THEN 0 ELSE up - bytes
      /\ Worker!Max({est, up}) = IF est >= up THEN est ELSE up
  BY Larger
<1>5. Worker!ReleaseCharge(r, req[r].sent, req[r].up) =
        sent + (IF 0 >= up - bytes THEN 0 ELSE up - bytes)
  BY <1>2, <1>4 DEF Worker!ReleaseCharge
<1>6. PICK excess \in Int :
        excess = est + (sent + (IF 0 >= up - bytes THEN 0 ELSE up - bytes))
                   - (IF est >= up THEN est ELSE up) - sent
  OBVIOUS
<1>7. excess >= 0 /\ (excess > 0 => lease[r] = NoRow)
  BY <1>3, <1>6
<1>8. PICK late \in BOOLEAN : late = ~Worker!Holds(r)
  OBVIOUS
<1>9. late <=> lease[r] = NoRow
  BY <1>8, QuotaNames
<1>10. \A g : Worker!Released(g, r) = Balanced(g, late, excess)
  <2>1. excess = req[r].est + Worker!ReleaseCharge(r, req[r].sent, req[r].up)
                   - Worker!Max({req[r].est, req[r].up}) - req[r].sent
    BY <1>2, <1>4, <1>5, <1>6
  <2> QED BY <1>8, <2>1, Zenon DEF Worker!Released, Balanced
<1> QED BY <1>7, <1>9, <1>10

LEMMA ReleaseEmpties ==
  ASSUME NEW r, NEW response, NEW request,
         Worker!Release(r, response, request) \/ Tunnel!Release(r, response, request)
  PROVE  lease' = [lease EXCEPT ![r] = NoRow]
BY QuotaNames DEF Worker!Release, Tunnel!Release

\* The row has been returned, and the handler goes on.
LEMMA WorkerGivesBack ==
  ASSUME WorkerInv, NEW r \in Requests, NEW q \in WorkerRequests, clock' = clock,
         req' = [req EXCEPT ![r] = q], UNCHANGED <<report, terminal>>,
         lease' = [lease EXCEPT ![r] = NoRow], req[r].pc \in {"decide", "complete"},
         q.pc \in {"record", "done"}, q.excess >= 0, q.excess > 0 => q.late, Body(q)
  PROVE  WorkerInv'
<1>1. /\ NoRow \in Rows /\ Closed(req[r], lease[r], report[r], terminal[r])
  BY WorkerOf DEF NoRow, Rows
<1>2. Covered(clock, q, NoRow)
  BY DEF Covered
<1>3. Charged(q, NoRow)
  BY DEF Charged
<1>4. Closed(q, NoRow, report[r], terminal[r])
  BY <1>1 DEF Closed
<1> QED BY <1>1, <1>2, <1>3, <1>4, WorkerTakes

LEMMA DeniesKeeps ==
  ASSUME WorkerInv, NEW r \in Requests, Worker!PolicyDenies(r)
  PROVE  WorkerInv'
<1>1. /\ clock' = clock /\ UNCHANGED <<report, terminal>> /\ req[r].pc = "decide"
  BY DEF Worker!PolicyDenies, Worker!At
<1>2. req[r] \in WorkerRequests /\ Charged(req[r], lease[r])
  BY WorkerOf
<1>3. req[r].est \in Nat /\ req[r].up \in Nat /\ req[r].hits \in Nat
  BY <1>2 DEF WorkerRequests
<1>4. \/ /\ Worker!Release(r, 0, req[r].up)
         /\ \E n \in 0 .. 3 : req' = [req EXCEPT ![r] =
              Worker!Released(Worker!Done(r, IF n = 3 THEN 1 ELSE n), r)]
      \/ /\ UNCHANGED Worker!quota
         /\ \/ req' = [req EXCEPT ![r] = Worker!Done(r, 1)]
            \/ req' = [req EXCEPT ![r] = [Worker!Fail(r) EXCEPT !.hits = @ + 1]]
  BY Zenon DEF Worker!PolicyDenies, Worker!Becomes
<1>5. ASSUME NEW n \in 0 .. 3, Worker!Release(r, 0, req[r].up),
             req' = [req EXCEPT ![r] =
               Worker!Released(Worker!Done(r, IF n = 3 THEN 1 ELSE n), r)]
      PROVE  WorkerInv'
  <2>1. PICK late \in BOOLEAN, excess \in Int :
          /\ excess >= 0 /\ (excess > 0 => late)
          /\ \A g : Worker!Released(g, r) = Balanced(g, late, excess)
    BY <1>1, WorkerPays
  <2>2. PICK m \in Nat : m = IF n = 3 THEN 1 ELSE n
    OBVIOUS
  <2>3. PICK g \in WorkerRequests : g = Worker!Done(r, m) /\ g.pc = "done" /\ Body(g)
    BY WorkerReturns
  <2>4. PICK q \in WorkerRequests :
          /\ q = Balanced(g, late, excess) /\ q.pc = "done"
          /\ q.late = late /\ q.excess = excess /\ Body(q)
    BY <2>3, WorkerBalance
  <2>5. req' = [req EXCEPT ![r] = q]
    BY <1>5, <2>1, <2>2, <2>3, <2>4
  <2>6. lease' = [lease EXCEPT ![r] = NoRow]
    BY <1>5, ReleaseEmpties
  <2> QED BY <1>1, <2>1, <2>4, <2>5, <2>6, WorkerGivesBack
<1>6. ASSUME UNCHANGED Worker!quota
      PROVE  lease' = lease
  BY <1>6 DEF Worker!quota
<1>7. ASSUME lease' = lease, req' = [req EXCEPT ![r] = Worker!Done(r, 1)]
      PROVE  WorkerInv'
  <2>1. PICK q \in WorkerRequests :
          /\ q = Worker!Done(r, 1) /\ q.pc = "done" /\ q.hits = req[r].hits + 1
          /\ q.late = req[r].late /\ q.excess = req[r].excess /\ Body(q)
    BY WorkerReturns
  <2>2. q.hits # 0
    BY <1>3, <2>1
  <2> QED BY <1>1, <1>7, <2>1, <2>2, WorkerFinishes
<1>8. ASSUME lease' = lease, req' = [req EXCEPT ![r] = [Worker!Fail(r) EXCEPT !.hits = @ + 1]]
      PROVE  WorkerInv'
  <2>1. PICK g \in WorkerRequests :
          /\ g = Worker!Fail(r) /\ g.pc = "complete" /\ g.est = req[r].est
          /\ g.late = req[r].late /\ g.excess = req[r].excess /\ Body(g)
    BY <1>3, WorkerEnds DEF Worker!Fail
  <2>2. PICK q \in WorkerRequests :
          /\ q = Struck(g, 1) /\ q.pc = "complete" /\ q.est = req[r].est
          /\ q.late = req[r].late /\ q.excess = req[r].excess /\ Body(q)
    BY <2>1, WorkerStruck
  <2>3. req' = [req EXCEPT ![r] = q]
    BY <1>8, <2>1, <2>2 DEF Struck
  <2> QED BY <1>1, <1>8, <2>2, <2>3, WorkerFinishes
<1> QED BY <1>4, <1>5, <1>6, <1>7, <1>8

\* The timer runs with the configured limit; it may have run out already.
LEMMA WorkerArms ==
  ASSUME WorkerInv, NEW r \in Requests
  PROVE  \E q \in WorkerRequests :
           /\ q = Worker!Armed(r) /\ q.pc = "upstream" /\ q.start = req[r].start
           /\ q.timeout <= 2 /\ q.est = req[r].est
           /\ q.abort = "none" => clock <= q.start + q.timeout
           /\ q.hits = req[r].hits /\ q.late = req[r].late /\ q.excess = req[r].excess /\ Body(q)
<1>1. req[r] \in WorkerRequests /\ clock \in Nat
  BY WorkerOf
<1>2. PICK g \in WorkerRequests :
        /\ g = Worker!Goto(r, "upstream") /\ g.pc = "upstream" /\ g.start = req[r].start
        /\ g.timeout = req[r].timeout /\ g.abort = req[r].abort /\ g.est = req[r].est
        /\ g.hits = req[r].hits /\ g.late = req[r].late /\ g.excess = req[r].excess /\ Body(g)
  BY WorkerGoes DEF WorkerPlaces
<1>3. req[r].timeout \in Nat /\ req[r].start \in Nat
  BY <1>1 DEF WorkerRequests
<1>4. PICK limit \in Nat :
        /\ limit = Worker!Min({req[r].timeout, Worker!RequestTimeout}) /\ limit <= 2
  <2>1. Worker!Min({req[r].timeout, 2}) = IF req[r].timeout >= 2 THEN 2 ELSE req[r].timeout
    <3>1. PICK t \in Int : t = req[r].timeout
      BY <1>3
    <3>2. Worker!Min({t, 2}) = IF t >= 2 THEN 2 ELSE t
      BY Larger
    <3> QED BY <3>1, <3>2
  <2> QED BY <1>3, <2>1, QuotaNames
<1>5. PICK abort \in {"none", "timeout", "cancelled"} :
        abort = IF req[r].abort = "none" /\ clock >= req[r].start + limit
                  THEN "timeout" ELSE req[r].abort
  BY <1>1 DEF WorkerRequests
<1>6. PICK q \in WorkerRequests : q = [g EXCEPT !.timeout = limit, !.abort = abort]
  BY <1>2 DEF WorkerRequests
<1>7. q = Worker!Armed(r)
  BY <1>2, <1>4, <1>5, <1>6 DEF Worker!Armed
<1>8. /\ q.pc = "upstream" /\ q.start = req[r].start /\ q.timeout = limit
      /\ q.abort = abort /\ q.est = req[r].est
      /\ q.hits = req[r].hits /\ q.late = req[r].late /\ q.excess = req[r].excess
      /\ q.left = g.left /\ q.relayed = g.relayed /\ q.est = g.est
  BY <1>2, <1>6 DEF WorkerRequests
<1>10. Body(q)
  BY <1>2, <1>8 DEF Body
<1>9. abort = "none" => clock <= req[r].start + limit
  BY <1>1, <1>3, <1>5
<1> QED BY <1>4, <1>6, <1>7, <1>8, <1>9, <1>10

LEMMA AllowsKeeps ==
  ASSUME WorkerInv, NEW r \in Requests, Worker!PolicyAllows(r)
  PROVE  WorkerInv'
<1>0. UNCHANGED <<clock, Worker!quota, report, terminal>> /\ Worker!At(r, "decide")
  BY Zenon DEF Worker!PolicyAllows
<1>1. /\ clock' = clock /\ UNCHANGED <<lease, report, terminal>> /\ req[r].pc = "decide"
  BY <1>0 DEF Worker!quota, Worker!At
<1>2. /\ req[r] \in WorkerRequests /\ clock \in Nat
      /\ Covered(clock, req[r], lease[r]) /\ Charged(req[r], lease[r])
      /\ Closed(req[r], lease[r], report[r], terminal[r])
  BY WorkerOf
<1>3. req[r].est \in Nat /\ req[r].up \in Nat
  BY <1>2 DEF WorkerRequests
<1>4. \/ \E n \in 0 .. 2 : req' = [req EXCEPT ![r] = [Worker!Armed(r) EXCEPT !.hits = @ + n]]
      \/ req' = [req EXCEPT ![r] = [Worker!Armed(r) EXCEPT !.hits = @ + 1]]
      \/ req' = [req EXCEPT ![r] = [Worker!Fail(r) EXCEPT !.hits = @ + 1]]
      \/ req' = [req EXCEPT ![r] = Worker!Fail(r)]
  BY Zenon DEF Worker!PolicyAllows, Worker!Becomes
<1>5. ASSUME NEW n \in Nat,
             req' = [req EXCEPT ![r] = [Worker!Armed(r) EXCEPT !.hits = @ + n]]
      PROVE  WorkerInv'
  <2>1. PICK g \in WorkerRequests :
          /\ g = Worker!Armed(r) /\ g.pc = "upstream" /\ g.start = req[r].start
          /\ g.timeout <= 2 /\ g.est = req[r].est
          /\ g.abort = "none" => clock <= g.start + g.timeout
          /\ g.late = req[r].late /\ g.excess = req[r].excess /\ Body(g)
    BY WorkerArms
  <2>2. PICK q \in WorkerRequests :
          /\ q = Struck(g, n) /\ q.pc = g.pc /\ q.start = g.start /\ q.timeout = g.timeout
          /\ q.est = g.est /\ q.abort = g.abort /\ q.late = g.late /\ q.excess = g.excess /\ (Body(g) => Body(q))
    BY <2>1, WorkerStruck
  <2>3. req' = [req EXCEPT ![r] = q]
    BY <1>5, <2>1, <2>2 DEF Struck
  <2>4. Covered(clock, q, lease[r])
    BY <1>1, <1>2, <2>1, <2>2 DEF Covered
  <2>5. Charged(q, lease[r]) /\ Closed(q, lease[r], report[r], terminal[r])
    BY <1>1, <1>2, <2>1, <2>2 DEF Charged, Closed
  <2> QED BY <1>1, <2>3, <2>4, <2>5, WorkerMoves
<1>6. ASSUME NEW n \in Nat, req' = [req EXCEPT ![r] = [Worker!Fail(r) EXCEPT !.hits = @ + n]]
      PROVE  WorkerInv'
  <2>1. PICK g \in WorkerRequests :
          /\ g = Worker!Fail(r) /\ g.pc = "complete" /\ g.est = req[r].est
          /\ g.late = req[r].late /\ g.excess = req[r].excess /\ Body(g)
    BY <1>3, WorkerEnds DEF Worker!Fail
  <2>2. PICK q \in WorkerRequests :
          /\ q = Struck(g, n) /\ q.pc = "complete" /\ q.est = req[r].est
          /\ q.late = req[r].late /\ q.excess = req[r].excess /\ Body(q)
    BY <2>1, WorkerStruck
  <2>3. req' = [req EXCEPT ![r] = q]
    BY <1>6, <2>1, <2>2 DEF Struck
  <2> QED BY <1>1, <2>2, <2>3, WorkerFinishes
<1>7. ASSUME req' = [req EXCEPT ![r] = Worker!Fail(r)]
      PROVE  WorkerInv'
  <2>1. PICK q \in WorkerRequests :
          /\ q = Worker!Fail(r) /\ q.pc = "complete" /\ q.est = req[r].est
          /\ q.late = req[r].late /\ q.excess = req[r].excess /\ Body(q)
    BY <1>3, WorkerEnds DEF Worker!Fail
  <2> QED BY <1>1, <1>7, <2>1, WorkerFinishes
<1> QED BY <1>4, <1>5, <1>6, <1>7

LEMMA WorkerFetches ==
  ASSUME WorkerInv, NEW r \in Requests, Worker!Upstream(r)
  PROVE  WorkerInv'
<1>0. UNCHANGED <<clock, Worker!quota, Worker!tables>> /\ Worker!At(r, "upstream")
  BY Zenon DEF Worker!Upstream
<1>1. /\ clock' = clock /\ UNCHANGED <<lease, report, terminal>>
      /\ req[r].pc = "upstream"
  BY <1>0 DEF Worker!At, Worker!quota, Worker!tables
<1>2. /\ req[r] \in WorkerRequests /\ clock \in Nat
      /\ Covered(clock, req[r], lease[r]) /\ Charged(req[r], lease[r])
      /\ Closed(req[r], lease[r], report[r], terminal[r])
  BY WorkerOf
<1>3. req[r].est \in Nat /\ req[r].up \in Nat
  BY <1>2 DEF WorkerRequests
<1>4. ASSUME NEW up \in Nat, req' = [req EXCEPT ![r] = Worker!Ended(r, up, 0)]
      PROVE  WorkerInv'
  <2>1. PICK q \in WorkerRequests :
          /\ q = Worker!Ended(r, up, 0) /\ q.pc = "complete" /\ q.est = req[r].est
          /\ q.late = req[r].late /\ q.excess = req[r].excess /\ Body(q)
    BY WorkerEnds
  <2> QED BY <1>1, <1>4, <2>1, WorkerFinishes
<1>5. ASSUME NEW up \in Nat, req[r].abort = "none",
             req' = [req EXCEPT ![r] = [Worker!Goto(r, "stream") EXCEPT !.up = up]]
      PROVE  WorkerInv'
  <2>1. PICK g \in WorkerRequests :
          /\ g = Worker!Goto(r, "stream") /\ g.pc = "stream" /\ g.start = req[r].start
          /\ g.timeout = req[r].timeout /\ g.abort = "none"
          /\ g.est = req[r].est /\ g.late = req[r].late /\ g.excess = req[r].excess /\ Body(g)
    BY <1>5, WorkerGoes DEF WorkerPlaces
  <2>2. PICK q \in WorkerRequests : q = [g EXCEPT !.up = up]
    BY DEF WorkerRequests
  <2>3. /\ q.pc = "stream" /\ q.start = req[r].start /\ q.abort = "none"
        /\ q.timeout = req[r].timeout
        /\ q.est = req[r].est /\ q.late = req[r].late /\ q.excess = req[r].excess
        /\ q.left = g.left /\ q.relayed = g.relayed /\ q.est = g.est
    BY <2>1, <2>2 DEF WorkerRequests
  <2>6. Body(q)
    BY <2>1, <2>3 DEF Body
  <2>4. Covered(clock, q, lease[r])
    BY <1>1, <1>2, <1>5, <2>3 DEF Covered
  <2>5. Charged(q, lease[r]) /\ Closed(q, lease[r], report[r], terminal[r])
    BY <1>1, <1>2, <2>3, <2>6 DEF Charged, Closed
  <2> QED BY <1>1, <1>5, <2>1, <2>2, <2>4, <2>5, WorkerMoves
<1>6. \/ req' = [req EXCEPT ![r] = Worker!Ended(r, req[r].up, 0)]
      \/ req' = [req EXCEPT ![r] = Worker!Ended(r, req[r].relayed, 0)]
      \/ /\ req[r].abort = "none"
         /\ req' = [req EXCEPT ![r] =
                      [Worker!Goto(r, "stream") EXCEPT !.up = req[r].relayed]]
  BY Zenon DEF Worker!Upstream, Worker!Becomes, Worker!Fail
<1>7. req[r].relayed \in Nat
  BY <1>2 DEF WorkerRequests
<1> QED BY <1>3, <1>4, <1>5, <1>6, <1>7

\* The target takes some of the body.
LEMMA WorkerUploads ==
  ASSUME WorkerInv, NEW r \in Requests, Worker!Upload(r)
  PROVE  WorkerInv'
<1>0. /\ UNCHANGED <<clock, Worker!quota, Worker!tables>>
      /\ req[r].pc \in {"upstream", "stream", "complete"} /\ req[r].left > 0
      /\ req' = [req EXCEPT ![r] =
                   [req[r] EXCEPT !.left = @ - 1, !.relayed = @ + 1]]
  BY Zenon DEF Worker!Upload, Worker!Becomes
<1>1. clock' = clock /\ UNCHANGED <<lease, report, terminal>>
  BY <1>0 DEF Worker!quota, Worker!tables
<1>2. /\ req[r] \in WorkerRequests /\ clock \in Nat
      /\ Covered(clock, req[r], lease[r]) /\ Charged(req[r], lease[r])
      /\ Closed(req[r], lease[r], report[r], terminal[r])
  BY WorkerOf
<1>3. PICK a \in Nat, b \in Nat : a = req[r].left /\ b = req[r].relayed
  BY <1>2 DEF WorkerRequests
<1>4. a > 0
  BY <1>0, <1>3
<1>5. a - 1 \in Nat /\ b + 1 \in Nat
  BY <1>4
<1>6. PICK left \in Nat, relayed \in Nat : left = a - 1 /\ relayed = b + 1
  BY <1>5
<1>7. left + relayed = a + b
  BY <1>6
<1>8. PICK q \in WorkerRequests : q = [req[r] EXCEPT !.left = left, !.relayed = relayed]
  BY <1>2 DEF WorkerRequests
<1>9. /\ q.pc = req[r].pc /\ q.start = req[r].start /\ q.timeout = req[r].timeout
      /\ q.abort = req[r].abort /\ q.est = req[r].est
      /\ q.late = req[r].late /\ q.excess = req[r].excess
      /\ q.left = left /\ q.relayed = relayed
  BY <1>2, <1>8 DEF WorkerRequests
<1>10. q.left + q.relayed = req[r].left + req[r].relayed
  BY <1>3, <1>7, <1>9
<1>11. Body(q)
  BY <1>0, <1>2, <1>9, <1>10 DEF Charged, Body
<1>12. Covered(clock, q, lease[r])
  BY <1>2, <1>9 DEF Covered
<1>13. Charged(q, lease[r])
  BY <1>2, <1>9, <1>11 DEF Charged
<1>14. Closed(q, lease[r], report[r], terminal[r])
  BY <1>0, <1>2, <1>9 DEF Closed
<1>15. req' = [req EXCEPT ![r] = q]
  BY <1>0, <1>3, <1>6, <1>8
<1> QED BY <1>0, <1>1, <1>12, <1>13, <1>14, <1>15, WorkerMoves

Sends(g, n) == [g EXCEPT !.sent = n]

LEMMA WorkerSends ==
  ASSUME NEW g \in WorkerRequests, NEW n \in Nat
  PROVE  /\ Sends(g, n) \in WorkerRequests /\ Sends(g, n).pc = g.pc
         /\ Sends(g, n).start = g.start /\ Sends(g, n).timeout = g.timeout
         /\ Sends(g, n).abort = g.abort /\ Sends(g, n).est = g.est
         /\ Sends(g, n).late = g.late /\ Sends(g, n).excess = g.excess
         /\ Body(g) => Body(Sends(g, n))
BY DEF WorkerRequests, Sends, Body

LEMMA WorkerStreams ==
  ASSUME WorkerInv, ResponseLimit \in Nat, NEW r \in Requests, Worker!Stream(r)
  PROVE  WorkerInv'
<1>0. UNCHANGED <<clock, Worker!quota, Worker!tables>> /\ Worker!At(r, "stream")
  BY Zenon DEF Worker!Stream
<1>1. /\ clock' = clock /\ UNCHANGED <<lease, report, terminal>>
      /\ req[r].pc = "stream"
  BY <1>0 DEF Worker!At, Worker!quota, Worker!tables
<1>2. /\ req[r] \in WorkerRequests /\ clock \in Nat
      /\ Covered(clock, req[r], lease[r]) /\ Charged(req[r], lease[r])
      /\ Closed(req[r], lease[r], report[r], terminal[r])
  BY WorkerOf
<1>3. req[r].up \in Nat /\ req[r].sent \in Nat
  BY <1>2 DEF WorkerRequests
<1>4. ASSUME NEW sent \in Nat, req' = [req EXCEPT ![r] = Worker!Ended(r, req[r].up, sent)]
      PROVE  WorkerInv'
  <2>1. PICK q \in WorkerRequests :
          /\ q = Worker!Ended(r, req[r].up, sent) /\ q.pc = "complete" /\ q.est = req[r].est
          /\ q.late = req[r].late /\ q.excess = req[r].excess /\ Body(q)
    BY <1>3, WorkerEnds
  <2> QED BY <1>1, <1>4, <2>1, WorkerFinishes
<1>5. ASSUME req' = [req EXCEPT ![r] = [req[r] EXCEPT !.sent = @ + 1]]
      PROVE  WorkerInv'
  <2>1. PICK n \in Nat : n = req[r].sent + 1
    BY <1>3
  <2>2. PICK q \in WorkerRequests :
          /\ q = Sends(req[r], n) /\ q.pc = req[r].pc /\ q.start = req[r].start
          /\ q.timeout = req[r].timeout /\ q.abort = req[r].abort
          /\ q.est = req[r].est /\ q.late = req[r].late /\ q.excess = req[r].excess /\ Body(q)
    BY <1>2, WorkerSends DEF Charged
  <2>3. req' = [req EXCEPT ![r] = q]
    BY <1>5, <2>1, <2>2 DEF Sends
  <2>4. Covered(clock, q, lease[r])
    BY <1>1, <1>2, <2>2 DEF Covered
  <2>5. Charged(q, lease[r]) /\ Closed(q, lease[r], report[r], terminal[r])
    BY <1>1, <1>2, <2>2 DEF Charged, Closed
  <2> QED BY <1>1, <2>3, <2>4, <2>5, WorkerMoves
<1>6. \/ req' = [req EXCEPT ![r] = IF req[r].sent = ResponseLimit
                      THEN Worker!Ended(r, req[r].up, ResponseLimit + 1)
                      ELSE [req[r] EXCEPT !.sent = @ + 1]]
      \/ req' = [req EXCEPT ![r] = Worker!Ended(r, req[r].up, req[r].sent)]
  BY Zenon DEF Worker!Stream, Worker!Becomes
<1>7. ResponseLimit + 1 \in Nat
  OBVIOUS
<1>8. CASE req[r].sent = ResponseLimit
  BY <1>3, <1>4, <1>6, <1>7, <1>8
<1>9. CASE req[r].sent # ResponseLimit
  BY <1>3, <1>4, <1>5, <1>6, <1>9
<1> QED BY <1>8, <1>9

LEMMA WorkerAborts ==
  ASSUME WorkerInv, NEW r \in Requests, Worker!Abort(r)
  PROVE  WorkerInv'
<1>1. /\ clock' = clock /\ UNCHANGED <<lease, report, terminal>>
      /\ req[r].pc \in {"authorize", "body", "decide", "upstream", "stream"}
  BY DEF Worker!Abort, Worker!quota, Worker!tables
<1>2. /\ req[r] \in WorkerRequests /\ clock \in Nat
      /\ Covered(clock, req[r], lease[r]) /\ Charged(req[r], lease[r])
      /\ Closed(req[r], lease[r], report[r], terminal[r])
  BY WorkerOf
<1>3. req[r].up \in Nat /\ req[r].sent \in Nat /\ req[r].est \in Nat
  BY <1>2 DEF WorkerRequests
<1>4. PICK reason \in {"timeout", "cancelled"} :
        req' = [req EXCEPT ![r] =
          CASE Worker!At(r, "stream") -> Worker!Ended(r, req[r].up, req[r].sent)
            [] Worker!At(r, "body") \/ Worker!At(r, "upstream") -> Worker!Fail(r)
            [] OTHER -> [req[r] EXCEPT !.abort = reason]]
  BY Zenon DEF Worker!Abort, Worker!Becomes
<1>5. ASSUME NEW up \in Nat, NEW sent \in Nat, req' = [req EXCEPT ![r] = Worker!Ended(r, up, sent)],
             req[r].pc \in {"body", "upstream", "stream"}
      PROVE  WorkerInv'
  <2>1. PICK q \in WorkerRequests :
          /\ q = Worker!Ended(r, up, sent) /\ q.pc = "complete" /\ q.est = req[r].est
          /\ q.late = req[r].late /\ q.excess = req[r].excess /\ Body(q)
    BY WorkerEnds
  <2> QED BY <1>1, <1>5, <2>1, WorkerFinishes
<1>6. CASE req[r].pc = "stream"
  BY <1>3, <1>4, <1>5, <1>6 DEF Worker!At
<1>7. CASE req[r].pc \in {"body", "upstream"}
  BY <1>3, <1>4, <1>5, <1>7 DEF Worker!At, Worker!Fail
<1>8. CASE req[r].pc \in {"authorize", "decide"}
  <2>1. req' = [req EXCEPT ![r] = [req[r] EXCEPT !.abort = reason]]
    BY <1>4, <1>8 DEF Worker!At
  <2>2. PICK q \in WorkerRequests : q = [req[r] EXCEPT !.abort = reason]
    BY <1>2 DEF WorkerRequests
  <2>3. /\ q.pc = req[r].pc /\ q.start = req[r].start /\ q.est = req[r].est
        /\ q.late = req[r].late /\ q.excess = req[r].excess
        /\ q.left = req[r].left /\ q.relayed = req[r].relayed
    BY <1>2, <2>2 DEF WorkerRequests
  <2>6. Body(q)
    BY <1>2, <2>3 DEF Charged, Body
  <2>4. Covered(clock, q, lease[r])
    BY <1>2, <1>8, <2>3 DEF Covered
  <2>5. Charged(q, lease[r]) /\ Closed(q, lease[r], report[r], terminal[r])
    BY <1>2, <1>8, <2>3, <2>6 DEF Charged, Closed
  <2> QED BY <1>1, <2>1, <2>2, <2>4, <2>5, WorkerMoves
<1> QED BY <1>1, <1>6, <1>7, <1>8

LEMMA WorkerReturnsHit ==
  ASSUME WorkerInv, NEW r \in Requests, NEW n \in Nat
  PROVE  \E q \in WorkerRequests :
           /\ q = Worker!AfterFaults(Worker!Done(r, 0), n) /\ q.pc = "done"
           /\ q.hits = req[r].hits + n /\ q.late = req[r].late
           /\ q.excess = req[r].excess /\ Body(q)
<1>1. PICK g \in WorkerRequests :
        /\ g = Worker!Done(r, 0) /\ g.pc = "done" /\ g.hits = req[r].hits + 0
        /\ g.late = req[r].late /\ g.excess = req[r].excess /\ Body(g)
  BY WorkerReturns
<1>2. req[r].hits \in Nat
  BY WorkerOf DEF WorkerRequests
<1>3. PICK q \in WorkerRequests :
        /\ q = Struck(g, n) /\ q.pc = g.pc /\ q.hits = g.hits + n
        /\ q.late = g.late /\ q.excess = g.excess /\ (Body(g) => Body(q))
  BY WorkerStruck
<1>4. q = Worker!AfterFaults(Worker!Done(r, 0), n)
  BY <1>1, <1>3 DEF Struck, Worker!AfterFaults
<1> QED BY <1>1, <1>2, <1>3, <1>4

LEMMA WorkerGoesHit ==
  ASSUME WorkerInv, NEW r \in Requests, NEW n \in Nat
  PROVE  \E q \in WorkerRequests :
           /\ q = Worker!AfterFaults(Worker!Goto(r, "degrade"), n) /\ q.pc = "degrade"
           /\ q.late = req[r].late /\ q.excess = req[r].excess /\ Body(q)
<1>1. PICK g \in WorkerRequests :
        /\ g = Worker!Goto(r, "degrade") /\ g.pc = "degrade"
        /\ g.late = req[r].late /\ g.excess = req[r].excess /\ Body(g)
  BY WorkerGoes DEF WorkerPlaces
<1>2. PICK q \in WorkerRequests :
        /\ q = Struck(g, n) /\ q.pc = g.pc
        /\ q.late = g.late /\ q.excess = g.excess /\ (Body(g) => Body(q))
  BY WorkerStruck
<1>3. q = Worker!AfterFaults(Worker!Goto(r, "degrade"), n)
  BY <1>1, <1>2 DEF Struck, Worker!AfterFaults
<1> QED BY <1>1, <1>2, <1>3

LEMMA WorkerReleaseKeeps ==
  ASSUME WorkerInv, NEW r \in Requests, Worker!ReleaseExecution(r, Worker!Done(r, 0))
  PROVE  WorkerInv'
<1>0. UNCHANGED <<clock, Worker!tables>> /\ Worker!At(r, "complete")
  BY Zenon DEF Worker!ReleaseExecution
<1>1. clock' = clock /\ UNCHANGED <<report, terminal>> /\ req[r].pc = "complete"
  BY <1>0 DEF Worker!tables, Worker!At
<1>2. \/ /\ Worker!Release(r, req[r].sent, req[r].up)
         /\ \/ req' = [req EXCEPT ![r] = Worker!Released(Worker!Goto(r, "record"), r)]
            \/ req' = [req EXCEPT ![r] =
                 Worker!Released(Worker!AfterFaults(Worker!Done(r, 0), 1), r)]
      \/ /\ req' = [req EXCEPT ![r] = Worker!AfterFaults(Worker!Done(r, 0), 1)]
         /\ UNCHANGED Worker!quota
  BY Zenon DEF Worker!ReleaseExecution, Worker!Becomes
<1>3. PICK late \in BOOLEAN, excess \in Int :
        /\ excess >= 0 /\ (excess > 0 => late)
        /\ \A g : Worker!Released(g, r) = Balanced(g, late, excess)
  BY <1>1, WorkerPays
<1>4. ASSUME NEW g \in WorkerRequests, g.pc \in {"record", "done"}, Body(g),
             Worker!Release(r, req[r].sent, req[r].up),
             req' = [req EXCEPT ![r] = Worker!Released(g, r)]
      PROVE  WorkerInv'
  <2>1. PICK q \in WorkerRequests :
          /\ q = Balanced(g, late, excess) /\ q.pc = g.pc
          /\ q.late = late /\ q.excess = excess /\ Body(q)
    BY <1>4, WorkerBalance
  <2>2. req' = [req EXCEPT ![r] = q]
    BY <1>3, <1>4, <2>1
  <2>3. lease' = [lease EXCEPT ![r] = NoRow]
    BY <1>4, ReleaseEmpties
  <2> QED BY ZenonT(60), <1>1, <1>3, <1>4, <2>1, <2>2, <2>3, WorkerGivesBack
<1>5. PICK g \in WorkerRequests :
        g = Worker!Goto(r, "record") /\ g.pc = "record" /\ Body(g)
  BY WorkerGoes DEF WorkerPlaces
<1>6. PICK d \in WorkerRequests :
        /\ d = Worker!AfterFaults(Worker!Done(r, 0), 1) /\ d.pc = "done"
        /\ d.hits = req[r].hits + 1 /\ d.late = req[r].late /\ d.excess = req[r].excess /\ Body(d)
  BY WorkerReturnsHit
<1>7. ASSUME req' = [req EXCEPT ![r] = d], UNCHANGED Worker!quota
      PROVE  WorkerInv'
  <2>1. d.hits # 0
    BY <1>6, WorkerOf DEF WorkerRequests
  <2>2. lease' = lease
    BY <1>7 DEF Worker!quota
  <2> QED BY <1>1, <1>6, <1>7, <2>1, <2>2, WorkerFinishes
<1> QED BY <1>2, <1>4, <1>5, <1>6, <1>7

\* The row has gone; what is recorded stays on record.
LEMMA WorkerRecords ==
  ASSUME WorkerInv, NEW r \in Requests, NEW q \in WorkerRequests, clock' = clock,
         req' = [req EXCEPT ![r] = q], lease' = lease, lease[r] = NoRow,
         NEW record \in Records, report' = [report EXCEPT ![r] = record],
         NEW events \in Nat, terminal' = [terminal EXCEPT ![r] = events],
         q.pc \in {"record", "degrade", "done"},
         q.late = req[r].late, q.excess = req[r].excess, Body(q),
         events <= 1, record = "none" => events = 0, record = "recorded" => events = 1
  PROVE  WorkerInv'
<1>1. Charged(req[r], lease[r]) /\ lease[r] \in Rows
  BY WorkerOf
<1>2. Covered(clock, q, lease[r])
  BY DEF Covered
<1>3. Charged(q, lease[r])
  BY <1>1 DEF Charged
<1>4. Closed(q, lease[r], record, events)
  BY DEF Closed
<1>5. lease' = [lease EXCEPT ![r] = lease[r]]
  BY DEF WorkerInv, WorkerTypes
<1> QED BY <1>1, <1>2, <1>3, <1>4, <1>5, WorkerSteps

\* The batch leaves one event and one report, or what was there.
LEMMA WorkerBatch ==
  ASSUME WorkerInv, NEW r \in Requests,
         Worker!Batch(r) \/ UNCHANGED <<terminal, report>>
  PROVE  \E record \in Records, events \in Nat :
           /\ report' = [report EXCEPT ![r] = record]
           /\ terminal' = [terminal EXCEPT ![r] = events]
           /\ events <= 1
           /\ record = "none" => events = 0
           /\ record = "recorded" => events = 1
<1>1. /\ report \in [Requests -> Records] /\ terminal \in [Requests -> Nat]
      /\ Closed(req[r], lease[r], report[r], terminal[r])
  BY WorkerOf DEF WorkerInv, WorkerTypes
<1>2. CASE UNCHANGED <<terminal, report>>
  <2>1. /\ report' = [report EXCEPT ![r] = report[r]]
        /\ terminal' = [terminal EXCEPT ![r] = terminal[r]]
    BY <1>1, <1>2
  <2> QED BY <1>1, <2>1 DEF Closed
<1>3. CASE Worker!Batch(r) /\ report[r] = "none"
  <2>1. /\ terminal' = [terminal EXCEPT ![r] = terminal[r] + 1]
        /\ report' = [report EXCEPT ![r] = IF degraded THEN "degraded" ELSE "recorded"]
    BY <1>3 DEF Worker!Batch
  <2>2. terminal[r] + 1 = 1
    BY <1>1, <1>3 DEF Closed
  <2>3. terminal' = [terminal EXCEPT ![r] = 1]
    BY <2>1, <2>2, Zenon
  <2>4. PICK record \in {"recorded", "degraded"} : report' = [report EXCEPT ![r] = record]
    <3>1. CASE degraded
      BY <2>1, <3>1
    <3>2. CASE ~degraded
      BY <2>1, <3>2
    <3> QED BY <3>1, <3>2
  <2>5. record \in Records /\ record # "none" /\ 1 \in Nat /\ 1 <= 1
    BY DEF Records
  <2> QED BY <2>3, <2>4, <2>5
<1>4. CASE Worker!Batch(r) /\ report[r] # "none"
  BY <1>2, <1>4 DEF Worker!Batch
<1> QED BY <1>2, <1>3, <1>4

LEMMA WorkerRecordKeeps ==
  ASSUME WorkerInv, NEW r \in Requests,
         Worker!RecordExecution(r, Worker!Done(r, 0), Worker!Done(r, 0))
  PROVE  WorkerInv'
<1>0. UNCHANGED <<clock, Worker!quota>> /\ Worker!At(r, "record")
  BY Zenon DEF Worker!RecordExecution
<1>1. /\ clock' = clock /\ lease' = lease /\ req[r].pc = "record" /\ lease[r] = NoRow
  BY <1>0, WorkerOf DEF Worker!quota, Worker!At, Closed
<1>2. /\ Worker!Batch(r) \/ UNCHANGED <<terminal, report>>
      /\ \/ req' = [req EXCEPT ![r] = Worker!Done(r, 0)]
         \/ req' = [req EXCEPT ![r] = Worker!AfterFaults(Worker!Goto(r, "degrade"), 1)]
         \/ req' = [req EXCEPT ![r] = Worker!AfterFaults(Worker!Done(r, 0), 1)]
  BY Zenon DEF Worker!RecordExecution, Worker!Becomes
<1>3. PICK record \in Records, events \in Nat :
        /\ report' = [report EXCEPT ![r] = record]
        /\ terminal' = [terminal EXCEPT ![r] = events]
        /\ events <= 1
        /\ record = "none" => events = 0
        /\ record = "recorded" => events = 1
  BY <1>2, WorkerBatch
<1>4. ASSUME NEW q \in WorkerRequests, req' = [req EXCEPT ![r] = q],
             q.pc \in {"degrade", "done"}, q.late = req[r].late, q.excess = req[r].excess /\ Body(q)
      PROVE  WorkerInv'
  BY <1>1, <1>3, <1>4, WorkerRecords
<1>5. \E q \in WorkerRequests :
        /\ q = Worker!Done(r, 0) /\ q.pc = "done"
        /\ q.late = req[r].late /\ q.excess = req[r].excess /\ Body(q)
  BY WorkerReturns
<1>6. \E q \in WorkerRequests :
        /\ q = Worker!AfterFaults(Worker!Goto(r, "degrade"), 1) /\ q.pc = "degrade"
        /\ q.late = req[r].late /\ q.excess = req[r].excess /\ Body(q)
  BY WorkerGoesHit
<1>7. \E q \in WorkerRequests :
        /\ q = Worker!AfterFaults(Worker!Done(r, 0), 1) /\ q.pc = "done"
        /\ q.late = req[r].late /\ q.excess = req[r].excess /\ Body(q)
  BY WorkerReturnsHit
<1> QED BY <1>2, <1>4, <1>5, <1>6, <1>7

\* How many of the two writes failed.
LEMMA WorkerFailures ==
  ASSUME NEW marked \in BOOLEAN, NEW saved \in BOOLEAN
  PROVE  Worker!Cardinality({i \in {1, 2} : ~(<<marked, saved>>[i])}) \in Nat
<1>1. {i \in {1, 2} : ~(<<marked, saved>>[i])} \subseteq {1, 2}
  OBVIOUS
<1>2. IsFiniteSet({1, 2})
  <2>1. {1, 2} = 1 .. 2
    OBVIOUS
  <2>2. 1 \in Int /\ 2 \in Int
    OBVIOUS
  <2>3. IsFiniteSet(1 .. 2) /\ Cardinality(1 .. 2) = IF 1 > 2 THEN 0 ELSE 2 - 1 + 1
    BY <2>2, FS_Interval
  <2> QED BY <2>1, <2>3, Zenon
<1>3. Cardinality({i \in {1, 2} : ~(<<marked, saved>>[i])}) \in Nat
  BY <1>1, <1>2, FS_Subset, FS_CardinalityType
<1> QED BY <1>3 DEF Worker!Cardinality, Cardinality

LEMMA WorkerSaveKeeps ==
  ASSUME WorkerInv, NEW r \in Requests,
         Worker!SaveDegradedReport(r, Worker!Done(r, 0), Worker!Done(r, 0))
  PROVE  WorkerInv'
<1>0. /\ UNCHANGED <<clock, Worker!quota, terminal>> /\ Worker!At(r, "degrade")
  BY Zenon DEF Worker!SaveDegradedReport
<1>1. /\ clock' = clock /\ lease' = lease /\ terminal' = terminal
      /\ req[r].pc = "degrade" /\ lease[r] = NoRow
  BY <1>0, WorkerOf DEF Worker!quota, Worker!At, Closed
<1>2. PICK marked \in BOOLEAN, saved \in BOOLEAN :
        LET n == Worker!Cardinality({i \in {1, 2} : ~(<<marked, saved>>[i])}) IN
        /\ report' = IF saved /\ report[r] = "none"
                       THEN [report EXCEPT ![r] = "degraded"] ELSE report
        /\ \/ req' = [req EXCEPT ![r] = Worker!AfterFaults(Worker!Done(r, 0), n)]
           \/ req' = [req EXCEPT ![r] = Worker!AfterFaults(Worker!Done(r, 0), n + 1)]
  BY Zenon DEF Worker!SaveDegradedReport, Worker!Becomes
<1>3. PICK n \in Nat : n = Worker!Cardinality({i \in {1, 2} : ~(<<marked, saved>>[i])})
  BY WorkerFailures
<1>4. PICK m \in Nat : req' = [req EXCEPT ![r] = Worker!AfterFaults(Worker!Done(r, 0), m)]
  <2>1. n + 1 \in Nat
    OBVIOUS
  <2> QED BY <1>2, <1>3, <2>1, Zenon
<1>5. PICK q \in WorkerRequests :
        /\ q = Worker!AfterFaults(Worker!Done(r, 0), m) /\ q.pc = "done"
        /\ q.late = req[r].late /\ q.excess = req[r].excess /\ Body(q)
  BY WorkerReturnsHit
<1>6. /\ report \in [Requests -> Records] /\ terminal \in [Requests -> Nat]
      /\ Closed(req[r], lease[r], report[r], terminal[r])
  BY WorkerOf DEF WorkerInv, WorkerTypes
<1>7. PICK record \in Records :
        /\ report' = [report EXCEPT ![r] = record]
        /\ record = "none" => terminal[r] = 0
        /\ record = "recorded" => terminal[r] = 1
  <2>1. CASE report' = report
    <3>1. report' = [report EXCEPT ![r] = report[r]] /\ report[r] \in Records
      BY <1>6, <2>1
    <3> QED BY <1>6, <3>1 DEF Closed
  <2>2. CASE report' = [report EXCEPT ![r] = "degraded"]
    BY <2>2 DEF Records
  <2> QED BY <1>2, <2>1, <2>2
<1>8. terminal' = [terminal EXCEPT ![r] = terminal[r]] /\ terminal[r] \in Nat /\ terminal[r] <= 1
  BY <1>1, <1>6 DEF Closed
<1> QED BY <1>1, <1>4, <1>5, <1>7, <1>8, WorkerRecords

LEMMA EvictKeeps ==
  ASSUME WorkerInv, NEW r \in Requests, Worker!Evict(r)
  PROVE  WorkerInv'
<1>1. /\ clock' = clock /\ UNCHANGED <<lease, report, terminal>>
      /\ req' = [req EXCEPT ![r] = Worker!Done(r, 1)]
  BY DEF Worker!Evict, Worker!quota, Worker!tables, Worker!Becomes
<1>2. PICK q \in WorkerRequests :
        /\ q = Worker!Done(r, 1) /\ q.pc = "done" /\ q.hits = req[r].hits + 1
        /\ q.late = req[r].late /\ q.excess = req[r].excess /\ Body(q)
  BY WorkerReturns
<1>3. q.hits # 0
  BY <1>2, WorkerOf DEF WorkerRequests
<1> QED BY <1>1, <1>2, <1>3, WorkerFinishes

LEMMA WorkerAlarm ==
  ASSUME WorkerInv, Worker!Alarm /\ UNCHANGED <<Worker!tables, req, faults>>
  PROVE  WorkerInv'
<1>1. /\ UNCHANGED <<clock, req, report, terminal>> /\ lease' = Lapsed
  BY QuotaNames DEF Worker!Alarm, Worker!tables
<1>2. lease' \in [Requests -> Rows]
  <2>1. NoRow \in Rows
    BY DEF NoRow, Rows
  <2> QED BY <1>1, <2>1 DEF WorkerInv, WorkerTypes, Lapsed
<1>3. ASSUME NEW r \in Requests
      PROVE  WorkerSound(r)'
  <2>1. clock \in Nat /\ lease[r] \in Rows
    BY WorkerOf
  <2>2. RowLapses(r)
    BY <1>1, <2>1 DEF RowLapses, Lapsed, Rows, NoRow
  <2> QED BY <1>1, <2>2, WorkerRests
<1> QED BY <1>1, <1>2, <1>3 DEF WorkerInv, WorkerTypes

LEMMA WorkerTick ==
  ASSUME WorkerInv, Worker!Tick
  PROVE  WorkerInv'
<1>1. UNCHANGED <<req, lease, report, terminal>> /\ clock' = clock + 1
  BY DEF Worker!Tick, Worker!quota, Worker!tables
<1>2. ASSUME NEW r \in Requests
      PROVE  WorkerSound(r)'
  <2>1. /\ req[r] \in WorkerRequests /\ clock \in Nat /\ lease[r] \in Rows
        /\ Covered(clock, req[r], lease[r]) /\ Charged(req[r], lease[r])
        /\ Closed(req[r], lease[r], report[r], terminal[r])
    BY WorkerOf
  <2>2. req[r].pc \in {"upstream", "stream"} =>
          req[r].abort = "none" /\ ~(clock >= req[r].start + req[r].timeout)
    BY DEF Worker!Tick, Worker!Overdue
  <2>3. Covered(clock + 1, req[r], lease[r])
    BY <2>1, <2>2 DEF Covered, WorkerRequests
  <2> QED BY <1>1, <2>1, <2>3 DEF WorkerSound
<1>3. clock + 1 \in Nat
  BY DEF WorkerInv, WorkerTypes
<1> QED BY <1>1, <1>2, <1>3 DEF WorkerInv, WorkerTypes

LEMMA WorkerInit ==
  ASSUME Worker!Init
  PROVE  WorkerInv
<1>1. /\ clock = 0 /\ lease = [r \in Requests |-> NoRow]
      /\ report = [r \in Requests |-> "none"] /\ terminal = [r \in Requests |-> 0]
      /\ req = [r \in Requests |-> Worker!NewRequest]
  BY QuotaNames DEF Worker!Init, Worker!RecordingInit, Worker!QuotaInit
<1>2. NoRow \in Rows /\ "none" \in Records
  BY DEF NoRow, Rows, Records
<1>3. WorkerTypes
  BY <1>1, <1>2, WorkerNew DEF WorkerTypes
<1>4. ASSUME NEW r \in Requests
      PROVE  WorkerSound(r)
  <2>1. /\ req[r] = Worker!NewRequest /\ lease[r] = NoRow /\ report[r] = "none"
        /\ terminal[r] = 0
    BY <1>1
  <2> QED BY <2>1 DEF WorkerSound, Covered, Charged, Closed, Body, Worker!NewRequest
<1> QED BY <1>3, <1>4 DEF WorkerInv

LEMMA WorkerStep ==
  ASSUME WorkerInv, ResponseLimit \in Nat, ClientTimeouts \subseteq Nat, Worker!Next
  PROVE  WorkerInv'
<1>1. ASSUME NEW r \in Requests, Worker!Step(r)
      PROVE  WorkerInv'
  BY <1>1, HandleGatewayKeeps, AuthorizeKeeps, PrepareKeeps, DeniesKeeps, AllowsKeeps,
     WorkerUploads, WorkerFetches, WorkerStreams, WorkerAborts, WorkerReleaseKeeps, WorkerRecordKeeps,
     WorkerSaveKeeps, EvictKeeps DEF Worker!Step
<1> QED BY <1>1, WorkerAlarm, WorkerTick DEF Worker!Next

LEMMA WorkerStutters ==
  ASSUME WorkerInv, UNCHANGED vars
  PROVE  WorkerInv'
BY DEF vars, WorkerInv, WorkerTypes, WorkerSound

\* What the run asks of the Cloudflare gateway.
LEMMA WorkerPromises ==
  ASSUME WorkerInv
  PROVE  /\ Worker!RelayIsLeased /\ Worker!TerminalOnce /\ Worker!ChargedInFull
         /\ Worker!LeakOnlyByFault
<1>1. ASSUME NEW r \in Requests
      PROVE  /\ (Worker!At(r, "upstream") /\ req[r].abort = "none")
                  \/ Worker!At(r, "stream") => Worker!Live(r)
             /\ terminal[r] <= 1
             /\ report[r] = "recorded" => terminal[r] = 1
             /\ report[r] # "none" => ~Worker!Holds(r)
             /\ req[r].excess >= 0 /\ (req[r].excess > 0 => req[r].late)
             /\ req[r].relayed > Worker!Max({req[r].est, req[r].up}) => req[r].est = 0
             /\ Worker!At(r, "done") /\ req[r].hits = 0 => ~Worker!Holds(r)
  <2>1. /\ req[r] \in WorkerRequests /\ clock \in Nat /\ lease[r] \in Rows
        /\ Covered(clock, req[r], lease[r]) /\ Charged(req[r], lease[r])
        /\ Closed(req[r], lease[r], report[r], terminal[r])
    BY WorkerOf
  <2>2. (req[r].pc = "upstream" /\ req[r].abort = "none") \/ req[r].pc = "stream" =>
          lease[r] # NoRow /\ lease[r].expires > clock
    BY <2>1 DEF Covered, WorkerRequests, Rows
  <2>3. PICK est \in Int, up \in Int : est = req[r].est /\ up = req[r].up
    BY <2>1 DEF WorkerRequests
  <2>4. Worker!Max({est, up}) = IF est >= up THEN est ELSE up
    BY Larger
  <2>5. req[r].relayed > Worker!Max({req[r].est, req[r].up}) => req[r].est = 0
    BY <2>1, <2>3, <2>4 DEF WorkerRequests, Charged, Body
  <2> QED BY <2>1, <2>2, <2>5, QuotaNames DEF Worker!At, Charged, Closed
<1> QED BY <1>1 DEF Worker!RelayIsLeased, Worker!TerminalOnce, Worker!ChargedInFull,
        Worker!LeakOnlyByFault

-----------------------------------------------------------------------------
(* Cloudflare tunnels *)

TunnelPlaces ==
  {"idle", "hello", "authorize", "decide", "open", "bridge", "complete", "record",
   "degrade", "done"}

Sockets == {"none", "awaiting", "connecting", "connected", "closed"}

TunnelRequests ==
  [pc : TunnelPlaces, socket : Sockets, client : {"open", "closing", "closed"},
   target : {"none", "open", "closed"}, abort : BOOLEAN, renewal : BOOLEAN,
   confirmed : BOOLEAN, missed : Nat, retry : BOOLEAN, est : Nat, up : Nat,
   sent : Nat, hits : Nat, late : BOOLEAN, excess : Int]

TunnelTypes ==
  /\ clock \in Nat
  /\ lease \in [Requests -> Rows]
  /\ report \in [Requests -> Records] /\ terminal \in [Requests -> Nat]
  /\ req \in [Requests -> TunnelRequests]

\* The renewals that were due since the last answer.
Due(q) == q.missed + (IF q.renewal THEN 1 ELSE 0)

\* An open bridge whose lease was confirmed has as much of it left as renewals
\* have not been due, or so many are due that the lease may be lost.
Bridged(now, q, row) ==
  /\ q.socket = "awaiting" => q.pc = "hello"
  /\ q.pc # "bridge" => ~q.confirmed
  /\ q.pc = "bridge" /\ q.client = "open" /\ q.confirmed =>
       \/ Due(q) >= 3
       \/ row # NoRow /\ row.expires >= now + 3 - Due(q)

TunnelSound(r) ==
  /\ Bridged(clock, req[r], lease[r])
  /\ Closed(req[r], lease[r], report[r], terminal[r])

TunnelInv == TunnelTypes /\ \A r \in Requests : TunnelSound(r)

LEMMA TunnelOf ==
  ASSUME TunnelInv, NEW r \in Requests
  PROVE  /\ req[r] \in TunnelRequests /\ clock \in Nat /\ lease[r] \in Rows
         /\ report[r] \in Records /\ terminal[r] \in Nat
         /\ Bridged(clock, req[r], lease[r])
         /\ Closed(req[r], lease[r], report[r], terminal[r])
BY DEF TunnelInv, TunnelTypes, TunnelSound

LEMMA DueIsCounted ==
  ASSUME NEW q \in TunnelRequests
  PROVE  Due(q) \in Nat
BY DEF Due, TunnelRequests

LEMMA TunnelRests ==
  ASSUME TunnelInv, NEW r \in Requests, clock' = clock, req'[r] = req[r],
         report'[r] = report[r], terminal'[r] = terminal[r], RowLapses(r)
  PROVE  TunnelSound(r)'
<1>1. /\ req[r] \in TunnelRequests /\ clock \in Nat /\ lease[r] \in Rows
      /\ Bridged(clock, req[r], lease[r])
      /\ Closed(req[r], lease[r], report[r], terminal[r])
  BY TunnelOf
<1>2. Bridged(clock', req'[r], lease'[r])
  <2>1. CASE lease'[r] = lease[r]
    BY <1>1, <2>1
  <2>2. CASE lease'[r] = NoRow /\ lease[r].expires <= clock
    <3>1. PICK due \in Nat : due = Due(req[r])
      BY <1>1, DueIsCounted
    <3>2. lease[r].expires \in Int
      BY <1>1 DEF Rows
    <3> QED BY <1>1, <2>2, <3>1, <3>2 DEF Bridged
  <2> QED BY <2>1, <2>2 DEF RowLapses
<1>3. Closed(req'[r], lease'[r], report'[r], terminal'[r])
  BY <1>1 DEF Closed, RowLapses
<1> QED BY <1>2, <1>3 DEF TunnelSound

\* A step of r that leaves the others alone.
LEMMA TunnelSteps ==
  ASSUME TunnelInv, NEW r \in Requests, NEW q \in TunnelRequests, clock' = clock,
         req' = [req EXCEPT ![r] = q], NEW row \in Rows,
         lease' = [lease EXCEPT ![r] = row] \/ lease' = [Lapsed EXCEPT ![r] = row],
         NEW record \in Records, report' = [report EXCEPT ![r] = record],
         NEW events \in Nat, terminal' = [terminal EXCEPT ![r] = events],
         Bridged(clock, q, row), Closed(q, row, record, events)
  PROVE  TunnelInv'
<1>1. /\ lease \in [Requests -> Rows] /\ clock \in Nat
      /\ report \in [Requests -> Records] /\ terminal \in [Requests -> Nat]
      /\ req \in [Requests -> TunnelRequests]
  BY DEF TunnelInv, TunnelTypes
<1>2. /\ lease' \in [Requests -> Rows] /\ lease'[r] = row
      /\ \A p \in Requests \ {r} : RowLapses(p)
  BY <1>1, OthersLapse
<1>3. TunnelTypes'
  BY <1>1, <1>2 DEF TunnelTypes
<1>4. /\ req'[r] = q /\ report'[r] = record /\ terminal'[r] = events
      /\ \A p \in Requests \ {r} : /\ req'[p] = req[p] /\ report'[p] = report[p]
                                   /\ terminal'[p] = terminal[p]
  BY <1>1
<1>5. TunnelSound(r)'
  BY <1>2, <1>4 DEF TunnelSound
<1>6. ASSUME NEW p \in Requests \ {r}
      PROVE  TunnelSound(p)'
  BY <1>2, <1>4, TunnelRests
<1> QED BY <1>3, <1>5, <1>6 DEF TunnelInv

\* A step of r that changes its handler and its row.
LEMMA TunnelTakes ==
  ASSUME TunnelInv, NEW r \in Requests, NEW q \in TunnelRequests, clock' = clock,
         req' = [req EXCEPT ![r] = q], UNCHANGED <<report, terminal>>, NEW row \in Rows,
         lease' = [lease EXCEPT ![r] = row] \/ lease' = [Lapsed EXCEPT ![r] = row],
         Bridged(clock, q, row), Closed(q, row, report[r], terminal[r])
  PROVE  TunnelInv'
<1>1. report[r] \in Records /\ terminal[r] \in Nat
  BY TunnelOf
<1>2. /\ report' = [report EXCEPT ![r] = report[r]]
      /\ terminal' = [terminal EXCEPT ![r] = terminal[r]]
  BY DEF TunnelInv, TunnelTypes
<1> QED BY <1>1, <1>2, TunnelSteps

\* A step of r that changes nothing but its handler.
LEMMA TunnelMoves ==
  ASSUME TunnelInv, NEW r \in Requests, NEW q \in TunnelRequests, clock' = clock,
         req' = [req EXCEPT ![r] = q], UNCHANGED <<lease, report, terminal>>,
         Bridged(clock, q, lease[r]), Closed(q, lease[r], report[r], terminal[r])
  PROVE  TunnelInv'
<1>1. lease[r] \in Rows /\ lease' = [lease EXCEPT ![r] = lease[r]]
  BY DEF TunnelInv, TunnelTypes
<1> QED BY <1>1, TunnelTakes

\* The updates of a handler's record, one field at a time.
LEMMA TunnelFields ==
  ASSUME NEW g \in TunnelRequests
  PROVE  /\ \A v \in TunnelPlaces : [g EXCEPT !.pc = v] \in TunnelRequests
         /\ \A v \in Sockets : [g EXCEPT !.socket = v] \in TunnelRequests
         /\ \A v \in {"open", "closing", "closed"} : [g EXCEPT !.client = v] \in TunnelRequests
         /\ \A v \in {"none", "open", "closed"} : [g EXCEPT !.target = v] \in TunnelRequests
         /\ \A v \in BOOLEAN : [g EXCEPT !.abort = v] \in TunnelRequests
         /\ \A v \in BOOLEAN : [g EXCEPT !.renewal = v] \in TunnelRequests
         /\ \A v \in BOOLEAN : [g EXCEPT !.confirmed = v] \in TunnelRequests
         /\ \A v \in Nat : [g EXCEPT !.missed = v] \in TunnelRequests
         /\ \A v \in BOOLEAN : [g EXCEPT !.retry = v] \in TunnelRequests
         /\ \A v \in Nat : [g EXCEPT !.sent = v] \in TunnelRequests
         /\ \A v \in Nat : [g EXCEPT !.hits = v] \in TunnelRequests
         /\ \A v \in BOOLEAN : [g EXCEPT !.late = v] \in TunnelRequests
         /\ \A v \in Int : [g EXCEPT !.excess = v] \in TunnelRequests
BY DEF TunnelRequests

LEMMA TunnelGoes ==
  ASSUME TunnelInv, NEW r \in Requests, NEW label \in TunnelPlaces
  PROVE  \E q \in TunnelRequests :
           /\ q = Tunnel!Goto(r, label) /\ q.pc = label /\ q.socket = req[r].socket
           /\ q.client = req[r].client /\ q.renewal = req[r].renewal
           /\ q.confirmed = req[r].confirmed /\ q.missed = req[r].missed
           /\ q.retry = req[r].retry /\ q.hits = req[r].hits
<1>1. req[r] \in TunnelRequests
  BY TunnelOf
<1>2. PICK q \in TunnelRequests : q = [req[r] EXCEPT !.pc = label]
  BY <1>1, TunnelFields
<1> WITNESS q \in TunnelRequests
<1> QED BY <1>1, <1>2 DEF TunnelRequests, Tunnel!Goto

LEMMA TunnelStruck ==
  ASSUME NEW g \in TunnelRequests, NEW n \in Nat
  PROVE  /\ Struck(g, n) \in TunnelRequests
         /\ Struck(g, n).pc = g.pc /\ Struck(g, n).socket = g.socket
         /\ Struck(g, n).client = g.client /\ Struck(g, n).renewal = g.renewal
         /\ Struck(g, n).confirmed = g.confirmed /\ Struck(g, n).missed = g.missed
         /\ Struck(g, n).retry = g.retry /\ Struck(g, n).hits = g.hits + n
BY DEF TunnelRequests, Struck

LEMMA TunnelNew == Tunnel!NewTunnel \in TunnelRequests
BY DEF Tunnel!NewTunnel, TunnelRequests, TunnelPlaces, Sockets

LEMMA TunnelBalance ==
  ASSUME NEW g \in TunnelRequests, NEW late \in BOOLEAN, NEW excess \in Int
  PROVE  /\ Balanced(g, late, excess) \in TunnelRequests
         /\ Balanced(g, late, excess).pc = g.pc
         /\ Balanced(g, late, excess).socket = g.socket
         /\ Balanced(g, late, excess).confirmed = g.confirmed
         /\ Balanced(g, late, excess).hits = g.hits
BY DEF TunnelRequests, Balanced

\* The peer of a closed socket learns of it later.
LEMMA ShutClient ==
  ASSUME NEW state \in {"open", "closing", "closed"}
  PROVE  Tunnel!Shut(state) \in {"closing", "closed"}
BY DEF Tunnel!Shut

\* The handler has returned.
LEMMA TunnelReturns ==
  ASSUME TunnelInv, NEW r \in Requests, NEW n \in Nat
  PROVE  \E q \in TunnelRequests :
           /\ q = Tunnel!Done(r, n) /\ q.pc = "done" /\ q.socket = "closed"
           /\ ~q.confirmed /\ q.hits = req[r].hits + n
<1>1. PICK hits \in Nat, late \in BOOLEAN, excess \in Int, target \in {"none", "open", "closed"},
           client \in {"open", "closing", "closed"} :
        /\ hits = req[r].hits + n /\ late = req[r].late /\ excess = req[r].excess
        /\ target = req[r].target /\ client = Tunnel!Shut(req[r].client)
  BY TunnelOf, ShutClient DEF TunnelRequests
<1>2. PICK new \in TunnelRequests : new = Tunnel!NewTunnel
  BY TunnelNew
<1>3. PICK a \in TunnelRequests : a = [new EXCEPT !.pc = "done"]
  BY TunnelFields DEF TunnelPlaces
<1>4. PICK b \in TunnelRequests : b = [a EXCEPT !.socket = "closed"]
  BY TunnelFields DEF Sockets
<1>5. PICK c \in TunnelRequests : c = [b EXCEPT !.client = client]
  BY TunnelFields
<1>6. PICK d \in TunnelRequests : d = [c EXCEPT !.target = target]
  BY TunnelFields
<1>7. PICK e \in TunnelRequests : e = [d EXCEPT !.hits = hits]
  BY TunnelFields
<1>8. PICK q \in TunnelRequests : q = Balanced(e, late, excess)
  BY TunnelBalance
<1>9. q = Tunnel!Done(r, n)
  BY <1>1, <1>2, <1>3, <1>4, <1>5, <1>6, <1>7, <1>8 DEF Tunnel!Done, Balanced
<1>10. b.pc = "done" /\ b.socket = "closed" /\ b.confirmed = FALSE
  BY <1>2, <1>3, <1>4 DEF TunnelRequests, Tunnel!NewTunnel
<1>11. d.pc = "done" /\ d.socket = "closed" /\ d.confirmed = FALSE
  BY <1>5, <1>6, <1>10 DEF TunnelRequests
<1>12. /\ e.pc = "done" /\ e.socket = "closed" /\ e.confirmed = FALSE
       /\ e.hits = hits
  BY <1>7, <1>11 DEF TunnelRequests
<1>13. /\ q.pc = "done" /\ q.socket = "closed" /\ q.confirmed = FALSE
       /\ q.hits = hits
  BY <1>8, <1>12, TunnelBalance
<1> QED BY <1>1, <1>8, <1>9, <1>13

\* The catch block goes to complete what it holds.
LEMMA TunnelFails ==
  ASSUME TunnelInv, NEW r \in Requests, NEW n \in Nat
  PROVE  \E q \in TunnelRequests :
           /\ q = Tunnel!Fail(r, n) /\ q.pc = "complete" /\ q.socket = req[r].socket
           /\ q.confirmed = req[r].confirmed
<1>1. PICK a \in TunnelRequests :
        /\ a = Tunnel!Goto(r, "complete") /\ a.pc = "complete"
        /\ a.socket = req[r].socket /\ a.confirmed = req[r].confirmed
  BY TunnelGoes DEF TunnelPlaces
<1>2. PICK b \in TunnelRequests : b = [a EXCEPT !.abort = FALSE]
  BY TunnelFields
<1>3. PICK c \in TunnelRequests : c = [b EXCEPT !.retry = FALSE]
  BY TunnelFields
<1>4. PICK d \in TunnelRequests : d = [c EXCEPT !.sent = 0]
  BY TunnelFields
<1>5. PICK q \in TunnelRequests :
        q = Struck(d, n) /\ q.pc = d.pc /\ q.socket = d.socket /\ q.confirmed = d.confirmed
  BY TunnelStruck
<1>6. q = Tunnel!Fail(r, n)
  BY <1>1, <1>2, <1>3, <1>4, <1>5 DEF Tunnel!Fail, Struck
<1>7. /\ d.pc = "complete" /\ d.socket = req[r].socket /\ d.confirmed = req[r].confirmed
  BY <1>1, <1>2, <1>3, <1>4 DEF TunnelRequests
<1> QED BY <1>5, <1>6, <1>7

\* A completion that fails is thrown, or called again by the catch block.
LEMMA TunnelThrows ==
  ASSUME TunnelInv, NEW r \in Requests, NEW n \in Nat
  PROVE  \E q \in TunnelRequests :
           /\ q = Tunnel!AfterFaults(Tunnel!Threw(r, 0), n)
           /\ \/ q.pc = "complete" /\ q.socket = req[r].socket /\ q.confirmed = req[r].confirmed
              \/ /\ q.pc = "done" /\ q.socket = "closed" /\ ~q.confirmed
                 /\ q.hits = req[r].hits + n
<1>1. req[r].hits \in Nat /\ req[r].retry \in BOOLEAN
  BY TunnelOf DEF TunnelRequests
<1>2. PICK g \in TunnelRequests :
        /\ g = Tunnel!Threw(r, 0)
        /\ \/ g.pc = "complete" /\ g.socket = req[r].socket /\ g.confirmed = req[r].confirmed
           \/ /\ g.pc = "done" /\ g.socket = "closed" /\ ~g.confirmed
              /\ g.hits = req[r].hits
  <2>1. CASE req[r].retry
    BY <2>1, TunnelFails DEF Tunnel!Threw
  <2>2. CASE ~req[r].retry
    <3>1. PICK g \in TunnelRequests :
            /\ g = Tunnel!Done(r, 0) /\ g.pc = "done" /\ g.socket = "closed"
            /\ ~g.confirmed /\ g.hits = req[r].hits + 0
      BY TunnelReturns
    <3>2. g = Tunnel!Threw(r, 0)
      BY <2>2, <3>1 DEF Tunnel!Threw
    <3> QED BY <1>1, <3>1, <3>2
  <2> QED BY <2>1, <2>2
<1>3. PICK q \in TunnelRequests :
        /\ q = Struck(g, n) /\ q.pc = g.pc /\ q.socket = g.socket
        /\ q.confirmed = g.confirmed /\ q.hits = g.hits + n
  BY TunnelStruck
<1>4. q = Tunnel!AfterFaults(Tunnel!Threw(r, 0), n)
  BY <1>2, <1>3 DEF Struck, Tunnel!AfterFaults
<1> QED BY <1>2, <1>3, <1>4

LEMMA HandleTunnelKeeps ==
  ASSUME TunnelInv, NEW r \in Requests, Tunnel!HandleGatewayTunnel(r)
  PROVE  TunnelInv'
<1>0. UNCHANGED <<clock, Tunnel!quota, Tunnel!tables>> /\ Tunnel!At(r, "idle")
  BY Zenon DEF Tunnel!HandleGatewayTunnel
<1>1. /\ clock' = clock /\ UNCHANGED <<lease, report, terminal>> /\ req[r].pc = "idle"
  BY <1>0 DEF Tunnel!At, Tunnel!quota, Tunnel!tables
<1>2. /\ Bridged(clock, req[r], lease[r]) /\ Closed(req[r], lease[r], report[r], terminal[r])
  BY TunnelOf
<1>3. CASE req' = [req EXCEPT ![r] = Tunnel!Done(r, 0)]
  <2>1. PICK q \in TunnelRequests :
          /\ q = Tunnel!Done(r, 0) /\ q.pc = "done" /\ q.socket = "closed" /\ ~q.confirmed
    BY TunnelReturns
  <2>2. Bridged(clock, q, lease[r]) /\ Closed(q, lease[r], report[r], terminal[r])
    BY <1>1, <1>2, <2>1 DEF Bridged, Closed
  <2> QED BY <1>1, <1>3, <2>1, <2>2, TunnelMoves
<1>4. CASE req' = [req EXCEPT ![r] = [Tunnel!Goto(r, "hello") EXCEPT !.socket = "awaiting"]]
  <2>1. PICK g \in TunnelRequests :
          /\ g = Tunnel!Goto(r, "hello") /\ g.pc = "hello" /\ g.confirmed = req[r].confirmed
    BY TunnelGoes DEF TunnelPlaces
  <2>2. PICK q \in TunnelRequests : q = [g EXCEPT !.socket = "awaiting"]
    BY TunnelFields DEF Sockets
  <2>3. q.pc = "hello" /\ q.confirmed = req[r].confirmed
    BY <2>1, <2>2 DEF TunnelRequests
  <2>4. Bridged(clock, q, lease[r]) /\ Closed(q, lease[r], report[r], terminal[r])
    BY <1>1, <1>2, <2>3 DEF Bridged, Closed
  <2> QED BY <1>1, <1>4, <2>1, <2>2, <2>4, TunnelMoves
<1> QED BY <1>3, <1>4, Zenon DEF Tunnel!HandleGatewayTunnel, Tunnel!Becomes

LEMMA FrameKeeps ==
  ASSUME TunnelInv, NEW r \in Requests, Tunnel!ClientFrame(r)
  PROVE  TunnelInv'
<1>0. UNCHANGED <<clock, Tunnel!quota, Tunnel!tables>>
  BY Zenon DEF Tunnel!ClientFrame
<1>1. clock' = clock /\ UNCHANGED <<lease, report, terminal>>
  BY <1>0 DEF Tunnel!quota, Tunnel!tables
<1>2. /\ req[r] \in TunnelRequests /\ Bridged(clock, req[r], lease[r])
      /\ Closed(req[r], lease[r], report[r], terminal[r])
  BY TunnelOf
<1>3. \/ /\ req[r].socket = "awaiting"
         /\ \/ req' = [req EXCEPT ![r] =
                 [Tunnel!Goto(r, "authorize") EXCEPT !.socket = "connecting"]]
            \/ req' = [req EXCEPT ![r] = Tunnel!Done(r, 0)]
      \/ /\ req[r].socket = "connecting"
         /\ req' = [req EXCEPT ![r] = [req[r] EXCEPT !.socket = "closed", !.client = "closing"]]
  BY Zenon DEF Tunnel!ClientFrame, Tunnel!Becomes
<1>4. CASE /\ req[r].socket = "awaiting"
           /\ req' = [req EXCEPT ![r] =
                 [Tunnel!Goto(r, "authorize") EXCEPT !.socket = "connecting"]]
  <2>1. PICK g \in TunnelRequests :
          /\ g = Tunnel!Goto(r, "authorize") /\ g.pc = "authorize"
          /\ g.confirmed = req[r].confirmed
    BY TunnelGoes DEF TunnelPlaces
  <2>2. PICK q \in TunnelRequests : q = [g EXCEPT !.socket = "connecting"]
    BY TunnelFields DEF Sockets
  <2>3. q.pc = "authorize" /\ q.confirmed = req[r].confirmed /\ q.socket = "connecting"
    BY <2>1, <2>2 DEF TunnelRequests
  <2>4. req[r].pc = "hello"
    BY <1>2, <1>4 DEF Bridged
  <2>5. Bridged(clock, q, lease[r]) /\ Closed(q, lease[r], report[r], terminal[r])
    BY <1>2, <2>3, <2>4 DEF Bridged, Closed
  <2> QED BY <1>1, <1>4, <2>1, <2>2, <2>5, TunnelMoves
<1>5. CASE req[r].socket = "awaiting" /\ req' = [req EXCEPT ![r] = Tunnel!Done(r, 0)]
  <2>1. PICK q \in TunnelRequests :
          /\ q = Tunnel!Done(r, 0) /\ q.pc = "done" /\ q.socket = "closed" /\ ~q.confirmed
    BY TunnelReturns
  <2>2. req[r].pc = "hello"
    BY <1>2, <1>5 DEF Bridged
  <2>3. Bridged(clock, q, lease[r]) /\ Closed(q, lease[r], report[r], terminal[r])
    BY <1>2, <2>1, <2>2 DEF Bridged, Closed
  <2> QED BY <1>1, <1>5, <2>1, <2>3, TunnelMoves
<1>6. CASE req' = [req EXCEPT ![r] = [req[r] EXCEPT !.socket = "closed", !.client = "closing"]]
  <2>1. PICK g \in TunnelRequests : g = [req[r] EXCEPT !.socket = "closed"]
    BY <1>2, TunnelFields DEF Sockets
  <2>2. PICK q \in TunnelRequests : q = [g EXCEPT !.client = "closing"]
    BY TunnelFields
  <2>3. /\ q.pc = req[r].pc /\ q.confirmed = req[r].confirmed /\ q.hits = req[r].hits
        /\ q.socket = "closed" /\ q.client = "closing"
    BY <1>2, <2>1, <2>2 DEF TunnelRequests
  <2>4. Bridged(clock, q, lease[r]) /\ Closed(q, lease[r], report[r], terminal[r])
    BY <1>2, <2>3 DEF Bridged, Closed
  <2> QED BY <1>1, <1>6, <2>1, <2>2, <2>4, TunnelMoves
<1> QED BY <1>3, <1>4, <1>5, <1>6

\* What acquire makes of the row of a tunnel that had none.
LEMMA TunnelAcquires ==
  ASSUME TunnelInv, NEW r \in Requests, lease[r] = NoRow,
         Tunnel!Acquire(r, "websocket", 0)
  PROVE  \E row \in Rows :
           /\ lease' = [Lapsed EXCEPT ![r] = row]
           /\ ~Tunnel!Admits(r, "websocket", 0) => row = NoRow
<1>1. clock \in Nat /\ NoRow \in Rows /\ Lapsed \in [Requests -> Rows] /\ Lapsed[r] = NoRow
  <2>1. NoRow \in Rows
    BY DEF NoRow, Rows
  <2> QED BY <2>1 DEF TunnelInv, TunnelTypes, Lapsed
<1>2. CASE Tunnel!Admits(r, "websocket", 0)
  <2>1. PICK row \in Rows :
          row = [transport |-> "websocket", bytes |-> 0, expires |-> clock + 3]
    <3>1. clock + 3 \in Int
      BY <1>1
    <3>2. [transport |-> "websocket", bytes |-> 0, expires |-> clock + 3] \in Rows
      BY <3>1 DEF Rows
    <3> QED BY <3>2
  <2>2. lease' = [Lapsed EXCEPT ![r] = row]
    BY <1>2, <2>1, QuotaNames DEF Tunnel!Acquire
  <2> QED BY <1>2, <2>1, <2>2
<1>3. CASE ~Tunnel!Admits(r, "websocket", 0)
  <2>1. lease' = Lapsed
    BY <1>3, QuotaNames DEF Tunnel!Acquire
  <2>2. lease' = [Lapsed EXCEPT ![r] = NoRow]
    BY <1>1, <2>1
  <2> QED BY <1>1, <1>3, <2>2
<1> QED BY <1>2, <1>3

LEMMA AuthorizeTunnelKeeps ==
  ASSUME TunnelInv, NEW r \in Requests, Tunnel!AuthorizeTunnel(r)
  PROVE  TunnelInv'
<1>0. UNCHANGED <<clock, Tunnel!tables>> /\ Tunnel!At(r, "authorize")
  BY Zenon DEF Tunnel!AuthorizeTunnel
<1>1. /\ clock' = clock /\ UNCHANGED <<report, terminal>> /\ req[r].pc = "authorize"
  BY <1>0 DEF Tunnel!At, Tunnel!tables
<1>2. /\ req[r] \in TunnelRequests /\ Bridged(clock, req[r], lease[r])
      /\ Closed(req[r], lease[r], report[r], terminal[r])
  BY TunnelOf
<1>3. lease[r] = NoRow /\ report[r] = "none" /\ req[r].hits \in Nat /\ NoRow \in Rows
  BY <1>1, <1>2 DEF Closed, TunnelRequests, NoRow, Rows
<1>4. \/ /\ Tunnel!Acquire(r, "websocket", 0)
         /\ req' = [req EXCEPT ![r] = IF Tunnel!Admits(r, "websocket", 0)
                      THEN Tunnel!Goto(r, "decide") ELSE Tunnel!Done(r, 0)]
      \/ /\ Tunnel!Acquire(r, "websocket", 0) \/ UNCHANGED Tunnel!quota
         /\ req' = [req EXCEPT ![r] = Tunnel!Done(r, 1)]
  BY Zenon DEF Tunnel!AuthorizeTunnel, Tunnel!Becomes
<1>5. PICK row \in Rows :
        /\ lease' = [lease EXCEPT ![r] = row] \/ lease' = [Lapsed EXCEPT ![r] = row]
        /\ Tunnel!Acquire(r, "websocket", 0) /\ ~Tunnel!Admits(r, "websocket", 0) => row = NoRow
  <2>1. CASE Tunnel!Acquire(r, "websocket", 0)
    BY <1>3, <2>1, TunnelAcquires
  <2>2. CASE ~Tunnel!Acquire(r, "websocket", 0)
    <3>1. lease' = lease
      BY <1>4, <2>2 DEF Tunnel!quota
    <3>2. lease' = [lease EXCEPT ![r] = NoRow]
      BY <1>3, <3>1 DEF TunnelInv, TunnelTypes
    <3> QED BY <1>3, <2>2, <3>2
  <2> QED BY <2>1, <2>2
<1>6. ASSUME NEW n \in Nat, req' = [req EXCEPT ![r] = Tunnel!Done(r, n)],
             n # 0 \/ row = NoRow
      PROVE  TunnelInv'
  <2>1. PICK q \in TunnelRequests :
          /\ q = Tunnel!Done(r, n) /\ q.pc = "done" /\ q.socket = "closed" /\ ~q.confirmed
          /\ q.hits = req[r].hits + n
    BY TunnelReturns
  <2>2. q.hits = 0 => row = NoRow
    BY <1>3, <1>6, <2>1
  <2>3. Bridged(clock, q, row) /\ Closed(q, row, report[r], terminal[r])
    BY <1>2, <1>3, <2>1, <2>2 DEF Bridged, Closed
  <2> QED BY <1>1, <1>5, <1>6, <2>1, <2>3, TunnelTakes
<1>7. ASSUME req' = [req EXCEPT ![r] = Tunnel!Goto(r, "decide")]
      PROVE  TunnelInv'
  <2>1. PICK q \in TunnelRequests :
          /\ q = Tunnel!Goto(r, "decide") /\ q.pc = "decide" /\ q.socket = req[r].socket
          /\ q.confirmed = req[r].confirmed
    BY TunnelGoes DEF TunnelPlaces
  <2>2. Bridged(clock, q, row) /\ Closed(q, row, report[r], terminal[r])
    BY <1>1, <1>2, <1>3, <2>1 DEF Bridged, Closed
  <2> QED BY <1>1, <1>5, <1>7, <2>1, <2>2, TunnelTakes
<1>8. CASE Tunnel!Admits(r, "websocket", 0)
  BY <1>4, <1>6, <1>7, <1>8
<1>9. CASE ~Tunnel!Admits(r, "websocket", 0)
  BY <1>4, <1>5, <1>6, <1>9
<1> QED BY <1>8, <1>9

LEMMA TunnelPays ==
  ASSUME TunnelInv, NEW r \in Requests
  PROVE  \E late \in BOOLEAN, excess \in Int :
           \A g : Tunnel!Released(g, r) = Balanced(g, late, excess)
<1>1. req[r] \in TunnelRequests /\ lease[r] \in Rows
  BY TunnelOf
<1>2. PICK sent \in Nat, up \in Nat, est \in Nat, bytes \in Nat :
        sent = req[r].sent /\ up = req[r].up /\ est = req[r].est /\ bytes = lease[r].bytes
  BY <1>1 DEF TunnelRequests, Rows
<1>3. /\ Tunnel!Max({0, sent}) \in Int
      /\ Tunnel!Max({0, up - bytes}) \in Int
      /\ Tunnel!Max({est, up}) \in Int
  <2>1. /\ Tunnel!Max({0, sent}) = IF 0 >= sent THEN 0 ELSE sent
        /\ Tunnel!Max({0, up - bytes}) = IF 0 >= up - bytes THEN 0 ELSE up - bytes
        /\ Tunnel!Max({est, up}) = IF est >= up THEN est ELSE up
    BY SMTT(60), Larger
  <2> QED BY <2>1
<1>4. Tunnel!ReleaseCharge(r, req[r].sent, req[r].up) \in Int
  BY <1>2, <1>3 DEF Tunnel!ReleaseCharge
<1>5. PICK excess \in Int :
        excess = req[r].est + Tunnel!ReleaseCharge(r, req[r].sent, req[r].up)
                   - Tunnel!Max({req[r].est, req[r].up}) - req[r].sent
  BY <1>2, <1>3, <1>4
<1>6. PICK late \in BOOLEAN : late = ~Tunnel!Holds(r)
  OBVIOUS
<1>7. \A g : Tunnel!Released(g, r) = Balanced(g, late, excess)
  BY <1>5, <1>6, Zenon DEF Tunnel!Released, Balanced
<1> QED BY <1>7

\* The row has been returned, and the handler goes on.
LEMMA TunnelGivesBack ==
  ASSUME TunnelInv, NEW r \in Requests, NEW q \in TunnelRequests, clock' = clock,
         req' = [req EXCEPT ![r] = q], UNCHANGED <<report, terminal>>,
         lease' = [lease EXCEPT ![r] = NoRow],
         q.pc \in {"complete", "record", "done"}, q.socket # "awaiting", ~q.confirmed
  PROVE  TunnelInv'
<1>1. /\ NoRow \in Rows /\ Closed(req[r], lease[r], report[r], terminal[r])
  BY TunnelOf DEF NoRow, Rows
<1>2. Bridged(clock, q, NoRow)
  BY DEF Bridged
<1>3. Closed(q, NoRow, report[r], terminal[r])
  BY <1>1 DEF Closed
<1> QED BY <1>1, <1>2, <1>3, TunnelTakes

\* The handler returns after a fault, or goes to complete what it holds.
LEMMA TunnelFinishes ==
  ASSUME TunnelInv, NEW r \in Requests, NEW q \in TunnelRequests, clock' = clock,
         req' = [req EXCEPT ![r] = q], UNCHANGED <<lease, report, terminal>>,
         q.socket # "awaiting", ~q.confirmed,
         \/ q.pc = "done" /\ q.hits # 0
            /\ req[r].pc \in {"decide", "open", "bridge", "complete"}
         \/ q.pc = "complete" /\ req[r].pc \in {"decide", "open", "bridge", "complete"}
  PROVE  TunnelInv'
<1>1. Closed(req[r], lease[r], report[r], terminal[r])
  BY TunnelOf
<1>2. Bridged(clock, q, lease[r])
  BY DEF Bridged
<1>3. Closed(q, lease[r], report[r], terminal[r])
  BY <1>1 DEF Closed
<1> QED BY <1>2, <1>3, TunnelMoves

LEMMA DecisionKeeps ==
  ASSUME TunnelInv, NEW r \in Requests, Tunnel!TunnelDecision(r)
  PROVE  TunnelInv'
<1>0. UNCHANGED <<clock, Tunnel!tables>> /\ Tunnel!At(r, "decide")
  BY Zenon DEF Tunnel!TunnelDecision
<1>1. /\ clock' = clock /\ UNCHANGED <<report, terminal>> /\ req[r].pc = "decide"
  BY <1>0 DEF Tunnel!At, Tunnel!tables
<1>2. /\ req[r] \in TunnelRequests /\ Bridged(clock, req[r], lease[r])
      /\ Closed(req[r], lease[r], report[r], terminal[r])
  BY TunnelOf
<1>3. req[r].socket # "awaiting" /\ req[r].confirmed = FALSE /\ req[r].hits \in Nat
  BY <1>1, <1>2 DEF Bridged, TunnelRequests
<1>4. \/ /\ Tunnel!Release(r, 0, 0)
         /\ \E n \in 0 .. 1 : req' = [req EXCEPT ![r] = Tunnel!Released(Tunnel!Done(r, n), r)]
      \/ /\ UNCHANGED Tunnel!quota
         /\ \/ req' = [req EXCEPT ![r] = Tunnel!Done(r, 1)]
            \/ req' = [req EXCEPT ![r] = Tunnel!Fail(r, 1)]
            \/ \E n \in 0 .. 1 :
                 req' = [req EXCEPT ![r] = [Tunnel!Goto(r, "open") EXCEPT
                           !.hits = @ + n, !.abort = (req[r].client # "open")]]
  BY Zenon DEF Tunnel!TunnelDecision, Tunnel!Becomes
<1>5. ASSUME NEW n \in Nat, Tunnel!Release(r, 0, 0),
             req' = [req EXCEPT ![r] = Tunnel!Released(Tunnel!Done(r, n), r)]
      PROVE  TunnelInv'
  <2>1. PICK late \in BOOLEAN, excess \in Int :
          \A g : Tunnel!Released(g, r) = Balanced(g, late, excess)
    BY TunnelPays
  <2>2. PICK g \in TunnelRequests :
          g = Tunnel!Done(r, n) /\ g.pc = "done" /\ g.socket = "closed" /\ ~g.confirmed
    BY TunnelReturns
  <2>3. PICK q \in TunnelRequests :
          /\ q = Balanced(g, late, excess) /\ q.pc = "done" /\ q.socket = "closed"
          /\ ~q.confirmed
    BY <2>2, TunnelBalance
  <2>4. req' = [req EXCEPT ![r] = q]
    BY <1>5, <2>1, <2>2, <2>3
  <2>5. lease' = [lease EXCEPT ![r] = NoRow]
    BY <1>5, ReleaseEmpties
  <2> QED BY <1>1, <2>3, <2>4, <2>5, TunnelGivesBack
<1>6. ASSUME UNCHANGED Tunnel!quota
      PROVE  lease' = lease
  BY <1>6 DEF Tunnel!quota
<1>7. ASSUME lease' = lease, req' = [req EXCEPT ![r] = Tunnel!Done(r, 1)]
      PROVE  TunnelInv'
  <2>1. PICK q \in TunnelRequests :
          /\ q = Tunnel!Done(r, 1) /\ q.pc = "done" /\ q.hits = req[r].hits + 1
          /\ q.socket = "closed" /\ ~q.confirmed
    BY TunnelReturns
  <2>2. q.hits # 0
    BY <1>3, <2>1
  <2> QED BY <1>1, <1>7, <2>1, <2>2, TunnelFinishes
<1>8. ASSUME lease' = lease, req' = [req EXCEPT ![r] = Tunnel!Fail(r, 1)]
      PROVE  TunnelInv'
  <2>1. PICK q \in TunnelRequests :
          /\ q = Tunnel!Fail(r, 1) /\ q.pc = "complete" /\ q.socket = req[r].socket
          /\ q.confirmed = req[r].confirmed
    BY TunnelFails
  <2> QED BY <1>1, <1>3, <1>8, <2>1, TunnelFinishes
<1>9. ASSUME NEW n \in Nat, lease' = lease,
             req' = [req EXCEPT ![r] = [Tunnel!Goto(r, "open") EXCEPT
                       !.hits = @ + n, !.abort = (req[r].client # "open")]]
      PROVE  TunnelInv'
  <2>1. PICK g \in TunnelRequests :
          /\ g = Tunnel!Goto(r, "open") /\ g.pc = "open" /\ g.socket = req[r].socket
          /\ g.confirmed = req[r].confirmed
    BY TunnelGoes DEF TunnelPlaces
  <2>2. PICK s \in TunnelRequests :
          /\ s = Struck(g, n) /\ s.pc = g.pc /\ s.socket = g.socket
          /\ s.confirmed = g.confirmed
    BY TunnelStruck
  <2>3. PICK abort \in BOOLEAN : abort = (req[r].client # "open")
    OBVIOUS
  <2>4. PICK q \in TunnelRequests : q = [s EXCEPT !.abort = abort]
    BY TunnelFields
  <2>5. q.pc = "open" /\ q.socket = req[r].socket /\ q.confirmed = FALSE
    BY <1>3, <2>1, <2>2, <2>4 DEF TunnelRequests
  <2>6. req' = [req EXCEPT ![r] = q]
    BY <1>9, <2>1, <2>2, <2>3, <2>4, Zenon DEF Struck
  <2>7. Bridged(clock, q, lease[r]) /\ Closed(q, lease[r], report[r], terminal[r])
    BY <1>1, <1>2, <1>3, <2>5 DEF Bridged, Closed
  <2> QED BY <1>1, <1>9, <2>6, <2>7, TunnelMoves
<1>10. \A n \in 0 .. 1 : n \in Nat
  OBVIOUS
<1> QED BY <1>4, <1>5, <1>6, <1>7, <1>8, <1>9, <1>10

LEMMA OpenKeeps ==
  ASSUME TunnelInv, NEW r \in Requests, Tunnel!OpenTarget(r)
  PROVE  TunnelInv'
<1>0. UNCHANGED <<clock, Tunnel!quota, Tunnel!tables>> /\ Tunnel!At(r, "open")
  BY Zenon DEF Tunnel!OpenTarget
<1>1. /\ clock' = clock /\ UNCHANGED <<lease, report, terminal>> /\ req[r].pc = "open"
  BY <1>0 DEF Tunnel!At, Tunnel!quota, Tunnel!tables
<1>2. /\ req[r] \in TunnelRequests /\ Bridged(clock, req[r], lease[r])
      /\ Closed(req[r], lease[r], report[r], terminal[r])
  BY TunnelOf
<1>3. req[r].socket # "awaiting" /\ req[r].confirmed = FALSE
  BY <1>1, <1>2 DEF Bridged, TunnelRequests
<1>4. \/ req' = [req EXCEPT ![r] = Tunnel!Fail(r, 0)]
      \/ req' = [req EXCEPT ![r] = [Tunnel!Goto(r, "complete") EXCEPT !.retry = TRUE]]
      \/ req' = [req EXCEPT ![r] = [Tunnel!Goto(r, "bridge") EXCEPT
                   !.socket = "connected", !.target = "open"]]
      \/ req' = [req EXCEPT ![r] = [Tunnel!Fail(r, 0) EXCEPT !.target = "open"]]
  BY Zenon DEF Tunnel!OpenTarget, Tunnel!Becomes
<1>5. PICK f \in TunnelRequests :
        /\ f = Tunnel!Fail(r, 0) /\ f.pc = "complete" /\ f.socket = req[r].socket
        /\ f.confirmed = req[r].confirmed
  BY TunnelFails
<1>6. CASE req' = [req EXCEPT ![r] = Tunnel!Fail(r, 0)]
  BY <1>1, <1>3, <1>5, <1>6, TunnelFinishes
<1>7. CASE req' = [req EXCEPT ![r] = [Tunnel!Fail(r, 0) EXCEPT !.target = "open"]]
  <2>1. PICK q \in TunnelRequests : q = [f EXCEPT !.target = "open"]
    BY TunnelFields
  <2>2. q.pc = "complete" /\ q.socket = req[r].socket /\ q.confirmed = req[r].confirmed
    BY <1>5, <2>1 DEF TunnelRequests
  <2> QED BY <1>1, <1>3, <1>5, <1>7, <2>1, <2>2, TunnelFinishes
<1>8. CASE req' = [req EXCEPT ![r] = [Tunnel!Goto(r, "complete") EXCEPT !.retry = TRUE]]
  <2>1. PICK g \in TunnelRequests :
          /\ g = Tunnel!Goto(r, "complete") /\ g.pc = "complete" /\ g.socket = req[r].socket
          /\ g.confirmed = req[r].confirmed
    BY TunnelGoes DEF TunnelPlaces
  <2>2. PICK q \in TunnelRequests : q = [g EXCEPT !.retry = TRUE]
    BY TunnelFields
  <2>3. q.pc = "complete" /\ q.socket = req[r].socket /\ q.confirmed = req[r].confirmed
    BY <2>1, <2>2 DEF TunnelRequests
  <2> QED BY <1>1, <1>3, <1>8, <2>1, <2>2, <2>3, TunnelFinishes
<1>9. CASE req' = [req EXCEPT ![r] = [Tunnel!Goto(r, "bridge") EXCEPT
                     !.socket = "connected", !.target = "open"]]
  <2>1. PICK g \in TunnelRequests :
          /\ g = Tunnel!Goto(r, "bridge") /\ g.pc = "bridge" /\ g.confirmed = req[r].confirmed
    BY TunnelGoes DEF TunnelPlaces
  <2>2. PICK s \in TunnelRequests : s = [g EXCEPT !.socket = "connected"]
    BY TunnelFields DEF Sockets
  <2>3. PICK q \in TunnelRequests : q = [s EXCEPT !.target = "open"]
    BY TunnelFields
  <2>4. q.pc = "bridge" /\ q.socket = "connected" /\ q.confirmed = FALSE
    BY <1>3, <2>1, <2>2, <2>3 DEF TunnelRequests
  <2>5. Bridged(clock, q, lease[r]) /\ Closed(q, lease[r], report[r], terminal[r])
    BY <1>1, <1>2, <2>4 DEF Bridged, Closed
  <2> QED BY <1>1, <1>9, <2>1, <2>2, <2>3, <2>5, TunnelMoves
<1> QED BY <1>4, <1>6, <1>7, <1>8, <1>9

LEMMA TargetFrameKeeps ==
  ASSUME TunnelInv, NEW r \in Requests, Tunnel!TargetFrame(r)
  PROVE  TunnelInv'
<1>1. /\ clock' = clock /\ UNCHANGED <<lease, report, terminal>> /\ req[r].pc = "bridge"
      /\ req' = [req EXCEPT ![r] = [req[r] EXCEPT !.sent = @ + 1]]
  BY DEF Tunnel!TargetFrame, Tunnel!At, Tunnel!quota, Tunnel!tables, Tunnel!Becomes
<1>2. /\ req[r] \in TunnelRequests /\ Bridged(clock, req[r], lease[r])
      /\ Closed(req[r], lease[r], report[r], terminal[r])
  BY TunnelOf
<1>3. PICK n \in Nat : n = req[r].sent + 1
  BY <1>2 DEF TunnelRequests
<1>4. PICK q \in TunnelRequests : q = [req[r] EXCEPT !.sent = n]
  BY <1>2, TunnelFields
<1>5. /\ q.pc = req[r].pc /\ q.socket = req[r].socket /\ q.client = req[r].client
      /\ q.confirmed = req[r].confirmed /\ q.renewal = req[r].renewal
      /\ q.missed = req[r].missed /\ q.hits = req[r].hits
  BY <1>2, <1>4 DEF TunnelRequests
<1>6. Bridged(clock, q, lease[r]) /\ Closed(q, lease[r], report[r], terminal[r])
  BY <1>2, <1>5 DEF Bridged, Closed, Due
<1>7. req' = [req EXCEPT ![r] = q]
  BY <1>1, <1>3, <1>4
<1> QED BY <1>1, <1>6, <1>7, TunnelMoves

LEMMA TunnelEnds ==
  ASSUME TunnelInv, NEW r \in Requests
  PROVE  \E q \in TunnelRequests :
           /\ q = Tunnel!Finish(r) /\ q.pc = "complete" /\ q.socket = "closed" /\ ~q.confirmed
<1>1. PICK a \in TunnelRequests : a = Tunnel!Goto(r, "complete") /\ a.pc = "complete"
  BY TunnelGoes DEF TunnelPlaces
<1>2. PICK b \in TunnelRequests : b = [a EXCEPT !.socket = "closed"]
  BY TunnelFields DEF Sockets
<1>3. PICK c \in TunnelRequests : c = [b EXCEPT !.renewal = FALSE]
  BY TunnelFields
<1>4. PICK d \in TunnelRequests : d = [c EXCEPT !.confirmed = FALSE]
  BY TunnelFields
<1>5. PICK e \in TunnelRequests : e = [d EXCEPT !.missed = 0]
  BY TunnelFields
<1>6. Tunnel!Shut(e.client) \in {"open", "closing", "closed"}
  BY ShutClient DEF TunnelRequests
<1>7. PICK f \in TunnelRequests : f = [e EXCEPT !.client = Tunnel!Shut(e.client)]
  BY <1>6, TunnelFields
<1>8. PICK q \in TunnelRequests : q = [f EXCEPT !.target = "closed"]
  BY TunnelFields
<1>9. q = Tunnel!Finish(r)
  BY <1>1, <1>2, <1>3, <1>4, <1>5, <1>7, <1>8, Zenon DEF Tunnel!Finish
<1>10. d.pc = "complete" /\ d.socket = "closed" /\ d.confirmed = FALSE
  BY <1>1, <1>2, <1>3, <1>4 DEF TunnelRequests
<1>11. q.pc = "complete" /\ q.socket = "closed" /\ q.confirmed = FALSE
  BY <1>5, <1>7, <1>8, <1>10 DEF TunnelRequests
<1> QED BY <1>8, <1>9, <1>11

LEMMA CloseKeeps ==
  ASSUME TunnelInv, NEW r \in Requests, Tunnel!SocketCloses(r)
  PROVE  TunnelInv'
<1>0. UNCHANGED <<clock, Tunnel!quota, Tunnel!tables>>
  BY Zenon DEF Tunnel!SocketCloses
<1>1. clock' = clock /\ UNCHANGED <<lease, report, terminal>>
  BY <1>0 DEF Tunnel!quota, Tunnel!tables
<1>2. /\ req[r] \in TunnelRequests /\ Bridged(clock, req[r], lease[r])
      /\ Closed(req[r], lease[r], report[r], terminal[r])
  BY TunnelOf
<1>3. \/ /\ req[r].pc = "bridge"
         /\ \/ req' = [req EXCEPT ![r] = [Tunnel!Finish(r) EXCEPT !.client = "closed"]]
            \/ req' = [req EXCEPT ![r] = Tunnel!Finish(r)]
      \/ /\ req[r].pc \notin {"idle", "bridge", "hello"}
         /\ req' = [req EXCEPT ![r] = [req[r] EXCEPT !.client = "closed",
                     !.socket = "closed", !.abort = @ \/ Tunnel!At(r, "open")]]
      \/ /\ req[r].pc = "hello"
         /\ req' = [req EXCEPT ![r] = [Tunnel!Done(r, 0) EXCEPT !.client = "closed"]]
  BY Zenon DEF Tunnel!SocketCloses, Tunnel!Becomes, Tunnel!At
<1>4. PICK f \in TunnelRequests :
        /\ f = Tunnel!Finish(r) /\ f.pc = "complete" /\ f.socket = "closed" /\ ~f.confirmed
  BY TunnelEnds
<1>5. CASE req[r].pc = "bridge" /\ req' = [req EXCEPT ![r] = Tunnel!Finish(r)]
  BY <1>1, <1>4, <1>5, TunnelFinishes
<1>6. CASE /\ req[r].pc = "bridge"
           /\ req' = [req EXCEPT ![r] = [Tunnel!Finish(r) EXCEPT !.client = "closed"]]
  <2>1. PICK q \in TunnelRequests : q = [f EXCEPT !.client = "closed"]
    BY TunnelFields
  <2>2. q.pc = "complete" /\ q.socket = "closed" /\ ~q.confirmed
    BY <1>4, <2>1 DEF TunnelRequests
  <2> QED BY <1>1, <1>4, <1>6, <2>1, <2>2, TunnelFinishes
<1>7. CASE /\ req[r].pc \notin {"idle", "bridge", "hello"}
           /\ req' = [req EXCEPT ![r] = [req[r] EXCEPT !.client = "closed",
                       !.socket = "closed", !.abort = @ \/ Tunnel!At(r, "open")]]
  <2>1. PICK a \in TunnelRequests : a = [req[r] EXCEPT !.client = "closed"]
    BY <1>2, TunnelFields
  <2>2. PICK b \in TunnelRequests : b = [a EXCEPT !.socket = "closed"]
    BY TunnelFields DEF Sockets
  <2>3. PICK abort \in BOOLEAN : abort = (b.abort \/ Tunnel!At(r, "open"))
    OBVIOUS
  <2>4. PICK q \in TunnelRequests : q = [b EXCEPT !.abort = abort]
    BY TunnelFields
  <2>5. /\ q.pc = req[r].pc /\ q.socket = "closed" /\ q.confirmed = req[r].confirmed
        /\ q.hits = req[r].hits
    BY <1>2, <2>1, <2>2, <2>4 DEF TunnelRequests
  <2>6. req' = [req EXCEPT ![r] = q]
    BY <1>7, <2>1, <2>2, <2>3, <2>4, Zenon
  <2>7. Bridged(clock, q, lease[r]) /\ Closed(q, lease[r], report[r], terminal[r])
    BY <1>2, <1>7, <2>5 DEF Bridged, Closed
  <2> QED BY <1>1, <2>6, <2>7, TunnelMoves
<1>8. CASE /\ req[r].pc = "hello"
           /\ req' = [req EXCEPT ![r] = [Tunnel!Done(r, 0) EXCEPT !.client = "closed"]]
  <2>1. PICK g \in TunnelRequests :
          /\ g = Tunnel!Done(r, 0) /\ g.pc = "done" /\ g.socket = "closed" /\ ~g.confirmed
    BY TunnelReturns
  <2>2. PICK q \in TunnelRequests : q = [g EXCEPT !.client = "closed"]
    BY TunnelFields
  <2>3. q.pc = "done" /\ q.socket = "closed" /\ ~q.confirmed
    BY <2>1, <2>2 DEF TunnelRequests
  <2>4. Bridged(clock, q, lease[r]) /\ Closed(q, lease[r], report[r], terminal[r])
    BY <1>2, <1>8, <2>3 DEF Bridged, Closed
  <2> QED BY <1>1, <1>8, <2>1, <2>2, <2>4, TunnelMoves
<1> QED BY <1>3, <1>5, <1>6, <1>7, <1>8

\* What renew makes of the row.
LEMMA TunnelRenews ==
  ASSUME TunnelInv, NEW r \in Requests, Tunnel!Renew(r)
  PROVE  \E row \in Rows :
           /\ lease' = [Lapsed EXCEPT ![r] = row]
           /\ Tunnel!Renews(r) => row # NoRow /\ row.expires = clock + 3
           /\ ~Tunnel!Renews(r) => row = NoRow
           /\ Tunnel!Renews(r) <=> lease[r] # NoRow /\ lease[r].expires > clock
<1>1. /\ clock \in Nat /\ NoRow \in Rows /\ Lapsed \in [Requests -> Rows]
      /\ lease[r] \in Rows
  <2>1. NoRow \in Rows
    BY DEF NoRow, Rows
  <2> QED BY <2>1 DEF TunnelInv, TunnelTypes, Lapsed
<1>2. /\ Tunnel!Renews(r) <=> Lapsed[r] # NoRow
      /\ Lapsed[r] # NoRow => Lapsed[r] = lease[r]
      /\ Lapsed[r] # NoRow <=> lease[r] # NoRow /\ lease[r].expires > clock
  BY QuotaNames DEF Tunnel!Renews, Lapsed
<1>3. CASE Tunnel!Renews(r)
  <2>1. PICK row : row = [Lapsed[r] EXCEPT !.expires = clock + 3]
    OBVIOUS
  <2>2. clock + 3 \in Int /\ Lapsed[r] \in Rows
    BY <1>1
  <2>3. row \in Rows /\ row.expires = clock + 3
    BY <2>1, <2>2 DEF Rows
  <2>4. lease' = [Lapsed EXCEPT ![r] = row]
    <3>1. lease' = [Lapsed EXCEPT ![r].expires = clock + 3]
      BY <1>3, QuotaNames DEF Tunnel!Renew
    <3> QED BY <1>1, <2>1, <3>1
  <2>5. row # NoRow
    BY <1>1, <2>3 DEF NoRow
  <2> QED BY <1>2, <1>3, <2>3, <2>4, <2>5
<1>4. CASE ~Tunnel!Renews(r)
  <2>1. lease' = Lapsed
    BY <1>4, QuotaNames DEF Tunnel!Renew
  <2>2. Lapsed[r] = NoRow
    BY <1>2, <1>4
  <2>3. lease' = [Lapsed EXCEPT ![r] = NoRow]
    BY <1>1, <2>1, <2>2
  <2> QED BY <1>1, <1>2, <1>4, <2>3
<1> QED BY <1>3, <1>4

\* A renewal that went unanswered counts as missed; the interval is over.
LEMMA TunnelMisses ==
  ASSUME TunnelInv, NEW r \in Requests, req[r].renewal
  PROVE  \E q \in TunnelRequests :
           /\ q = Tunnel!Unanswered(r) /\ q.pc = req[r].pc /\ q.socket = req[r].socket
           /\ q.client = req[r].client /\ q.confirmed = req[r].confirmed
           /\ Due(q) = Due(req[r]) /\ q.hits # 0
<1>1. req[r] \in TunnelRequests
  BY TunnelOf
<1>2. PICK n \in Nat : n = req[r].missed + 1
  BY <1>1 DEF TunnelRequests
<1>3. PICK a \in TunnelRequests : a = [req[r] EXCEPT !.renewal = FALSE]
  BY <1>1, TunnelFields
<1>4. PICK b \in TunnelRequests : b = [a EXCEPT !.missed = n]
  BY TunnelFields
<1>5. PICK q \in TunnelRequests :
        /\ q = Struck(b, 1) /\ q.pc = b.pc /\ q.socket = b.socket /\ q.client = b.client
        /\ q.confirmed = b.confirmed /\ q.renewal = b.renewal /\ q.missed = b.missed
        /\ q.hits = b.hits + 1
  BY TunnelStruck
<1>6. /\ a.pc = req[r].pc /\ a.socket = req[r].socket /\ a.client = req[r].client
      /\ a.confirmed = req[r].confirmed /\ a.renewal = FALSE /\ a.hits = req[r].hits
      /\ a.missed = req[r].missed
  BY <1>1, <1>3 DEF TunnelRequests
<1>7. /\ b.pc = req[r].pc /\ b.socket = req[r].socket /\ b.client = req[r].client
      /\ b.confirmed = req[r].confirmed /\ b.renewal = FALSE /\ b.hits = req[r].hits
      /\ b.missed = n
  BY <1>4, <1>6 DEF TunnelRequests
<1>8. q = Tunnel!Unanswered(r)
  BY <1>1, <1>2, <1>3, <1>4, <1>5, <1>6 DEF Tunnel!Unanswered, Struck
<1>9. Due(q) = Due(req[r])
  BY <1>1, <1>2, <1>5, <1>7 DEF Due, TunnelRequests
<1>10. q.hits # 0
  BY <1>1, <1>5, <1>7 DEF TunnelRequests
<1> QED BY <1>5, <1>7, <1>8, <1>9, <1>10

\* The answer of a renewal.
LEMMA TunnelHears ==
  ASSUME TunnelInv, NEW r \in Requests
  PROVE  \E q \in TunnelRequests :
           /\ q = Tunnel!AfterRenewal(r) /\ q.pc = req[r].pc /\ q.socket = req[r].socket
           /\ Due(q) = 0 /\ q.hits = req[r].hits
           /\ ~Tunnel!Renews(r) => q.client # "open"
<1>1. req[r] \in TunnelRequests
  BY TunnelOf
<1>2. PICK a \in TunnelRequests : a = [req[r] EXCEPT !.renewal = FALSE]
  BY <1>1, TunnelFields
<1>3. PICK b \in TunnelRequests : b = [a EXCEPT !.missed = 0]
  BY TunnelFields
<1>4. PICK confirmed \in BOOLEAN : confirmed = (b.confirmed \/ Tunnel!Renews(r))
  OBVIOUS
<1>5. PICK c \in TunnelRequests : c = [b EXCEPT !.confirmed = confirmed]
  BY TunnelFields
<1>6. PICK client \in {"open", "closing", "closed"} :
        /\ client = IF Tunnel!Renews(r) THEN c.client ELSE Tunnel!Shut(c.client)
        /\ ~Tunnel!Renews(r) => client # "open"
  <2>1. c.client \in {"open", "closing", "closed"}
    BY DEF TunnelRequests
  <2> QED BY <2>1, ShutClient
<1>7. PICK q \in TunnelRequests : q = [c EXCEPT !.client = client]
  BY TunnelFields
<1>8. q = Tunnel!AfterRenewal(r)
  BY <1>2, <1>3, <1>4, <1>5, <1>6, <1>7, Zenon DEF Tunnel!AfterRenewal
<1>9. /\ b.pc = req[r].pc /\ b.socket = req[r].socket /\ b.renewal = FALSE
      /\ b.missed = 0 /\ b.hits = req[r].hits
  BY <1>1, <1>2, <1>3 DEF TunnelRequests
<1>10. /\ q.pc = req[r].pc /\ q.socket = req[r].socket /\ q.renewal = FALSE
       /\ q.missed = 0 /\ q.hits = req[r].hits /\ q.client = client
  BY <1>5, <1>7, <1>9 DEF TunnelRequests
<1>11. Due(q) = 0
  BY <1>10 DEF Due
<1> QED BY <1>6, <1>7, <1>8, <1>10, <1>11

LEMMA RenewKeeps ==
  ASSUME TunnelInv, NEW r \in Requests, Tunnel!RenewExecution(r)
  PROVE  TunnelInv'
<1>0. /\ UNCHANGED <<clock, Tunnel!tables>> /\ Tunnel!At(r, "bridge") /\ req[r].renewal
      /\ \/ Tunnel!Renew(r) /\ req' = [req EXCEPT ![r] = Tunnel!AfterRenewal(r)]
         \/ /\ Tunnel!Renew(r) \/ UNCHANGED Tunnel!quota
            /\ req' = [req EXCEPT ![r] = Tunnel!Unanswered(r)]
  BY Zenon DEF Tunnel!RenewExecution, Tunnel!Becomes
<1>1. /\ clock' = clock /\ UNCHANGED <<report, terminal>> /\ req[r].pc = "bridge"
  BY <1>0 DEF Tunnel!At, Tunnel!tables
<1>2. /\ req[r] \in TunnelRequests /\ clock \in Nat /\ lease[r] \in Rows
      /\ Bridged(clock, req[r], lease[r])
      /\ Closed(req[r], lease[r], report[r], terminal[r])
  BY TunnelOf
<1>3. CASE Tunnel!Renew(r) /\ req' = [req EXCEPT ![r] = Tunnel!AfterRenewal(r)]
  <2>1. PICK row \in Rows :
          /\ lease' = [Lapsed EXCEPT ![r] = row]
          /\ Tunnel!Renews(r) => row # NoRow /\ row.expires = clock + 3
          /\ ~Tunnel!Renews(r) => row = NoRow
          /\ Tunnel!Renews(r) <=> lease[r] # NoRow /\ lease[r].expires > clock
    BY <1>3, TunnelRenews
  <2>2. PICK q \in TunnelRequests :
          /\ q = Tunnel!AfterRenewal(r) /\ q.pc = req[r].pc /\ q.socket = req[r].socket
          /\ Due(q) = 0 /\ q.hits = req[r].hits
          /\ ~Tunnel!Renews(r) => q.client # "open"
    BY TunnelHears
  <2>3. Bridged(clock, q, row)
    BY <1>1, <1>2, <2>1, <2>2 DEF Bridged
  <2>4. Closed(q, row, report[r], terminal[r])
    BY <1>1, <1>2, <2>1, <2>2 DEF Closed
  <2> QED BY <1>1, <1>3, <2>1, <2>2, <2>3, <2>4, TunnelTakes
<1>4. CASE /\ Tunnel!Renew(r) \/ UNCHANGED Tunnel!quota
           /\ req' = [req EXCEPT ![r] = Tunnel!Unanswered(r)]
  <2>1. PICK q \in TunnelRequests :
          /\ q = Tunnel!Unanswered(r) /\ q.pc = req[r].pc /\ q.socket = req[r].socket
          /\ q.client = req[r].client /\ q.confirmed = req[r].confirmed
          /\ Due(q) = Due(req[r]) /\ q.hits # 0
    BY <1>0, TunnelMisses
  <2>2. CASE UNCHANGED Tunnel!quota
    <3>1. lease' = lease
      BY <2>2 DEF Tunnel!quota
    <3>2. Bridged(clock, q, lease[r]) /\ Closed(q, lease[r], report[r], terminal[r])
      BY <1>1, <1>2, <2>1 DEF Bridged, Closed
    <3> QED BY <1>1, <1>4, <2>1, <3>1, <3>2, TunnelMoves
  <2>3. CASE Tunnel!Renew(r)
    <3>1. PICK row \in Rows :
            /\ lease' = [Lapsed EXCEPT ![r] = row]
            /\ Tunnel!Renews(r) => row # NoRow /\ row.expires = clock + 3
            /\ ~Tunnel!Renews(r) => row = NoRow
            /\ Tunnel!Renews(r) <=> lease[r] # NoRow /\ lease[r].expires > clock
      BY <2>3, TunnelRenews
    <3>2. PICK due \in Nat : due = Due(req[r])
      BY <1>2, DueIsCounted
    <3>3. Bridged(clock, q, row)
      <4>1. CASE Tunnel!Renews(r)
        BY <1>1, <1>2, <2>1, <3>1, <3>2, <4>1 DEF Bridged
      <4>2. CASE ~Tunnel!Renews(r)
        <5>1. lease[r].expires \in Int
          BY <1>2 DEF Rows
        <5> QED BY <1>1, <1>2, <2>1, <3>1, <3>2, <4>2, <5>1 DEF Bridged
      <4> QED BY <4>1, <4>2
    <3>4. Closed(q, row, report[r], terminal[r])
      BY <1>1, <1>2, <2>1, <3>1 DEF Closed
    <3> QED BY <1>1, <1>4, <2>1, <3>1, <3>3, <3>4, TunnelTakes
  <2> QED BY <1>4, <2>2, <2>3
<1> QED BY <1>0, <1>3, <1>4

LEMMA TunnelReleaseKeeps ==
  ASSUME TunnelInv, NEW r \in Requests, Tunnel!ReleaseExecution(r, Tunnel!Threw(r, 0))
  PROVE  TunnelInv'
<1>0. UNCHANGED <<clock, Tunnel!tables>> /\ Tunnel!At(r, "complete")
  BY Zenon DEF Tunnel!ReleaseExecution
<1>1. clock' = clock /\ UNCHANGED <<report, terminal>> /\ req[r].pc = "complete"
  BY <1>0 DEF Tunnel!tables, Tunnel!At
<1>2. \/ /\ Tunnel!Release(r, req[r].sent, req[r].up)
         /\ \/ req' = [req EXCEPT ![r] = Tunnel!Released(Tunnel!Goto(r, "record"), r)]
            \/ req' = [req EXCEPT ![r] =
                 Tunnel!Released(Tunnel!AfterFaults(Tunnel!Threw(r, 0), 1), r)]
      \/ /\ req' = [req EXCEPT ![r] = Tunnel!AfterFaults(Tunnel!Threw(r, 0), 1)]
         /\ UNCHANGED Tunnel!quota
  BY Zenon DEF Tunnel!ReleaseExecution, Tunnel!Becomes
<1>3. /\ req[r] \in TunnelRequests /\ Bridged(clock, req[r], lease[r])
  BY TunnelOf
<1>4. req[r].socket # "awaiting" /\ req[r].confirmed = FALSE /\ req[r].hits \in Nat
  BY <1>1, <1>3 DEF Bridged, TunnelRequests
<1>5. PICK late \in BOOLEAN, excess \in Int :
        \A g : Tunnel!Released(g, r) = Balanced(g, late, excess)
  BY TunnelPays
<1>6. ASSUME NEW g \in TunnelRequests, g.pc \in {"complete", "record", "done"},
             g.socket # "awaiting", ~g.confirmed,
             Tunnel!Release(r, req[r].sent, req[r].up),
             req' = [req EXCEPT ![r] = Tunnel!Released(g, r)]
      PROVE  TunnelInv'
  <2>1. PICK q \in TunnelRequests :
          /\ q = Balanced(g, late, excess) /\ q.pc = g.pc /\ q.socket = g.socket
          /\ q.confirmed = g.confirmed
    BY TunnelBalance
  <2>2. req' = [req EXCEPT ![r] = q]
    BY <1>5, <1>6, <2>1
  <2>3. lease' = [lease EXCEPT ![r] = NoRow]
    BY <1>6, ReleaseEmpties
  <2> QED BY <1>1, <1>6, <2>1, <2>2, <2>3, TunnelGivesBack
<1>7. PICK g \in TunnelRequests :
        /\ g = Tunnel!Goto(r, "record") /\ g.pc = "record" /\ g.socket = req[r].socket
        /\ g.confirmed = req[r].confirmed
  BY TunnelGoes DEF TunnelPlaces
<1>8. PICK d \in TunnelRequests :
        /\ d = Tunnel!AfterFaults(Tunnel!Threw(r, 0), 1)
        /\ d.pc \in {"complete", "done"} /\ d.socket # "awaiting" /\ ~d.confirmed
        /\ d.pc = "done" => d.hits # 0
  <2>1. PICK d \in TunnelRequests :
          /\ d = Tunnel!AfterFaults(Tunnel!Threw(r, 0), 1)
          /\ \/ d.pc = "complete" /\ d.socket = req[r].socket /\ d.confirmed = req[r].confirmed
             \/ /\ d.pc = "done" /\ d.socket = "closed" /\ ~d.confirmed
                /\ d.hits = req[r].hits + 1
    BY TunnelThrows
  <2> QED BY <1>4, <2>1
<1>9. ASSUME req' = [req EXCEPT ![r] = d], UNCHANGED Tunnel!quota
      PROVE  TunnelInv'
  <2>1. lease' = lease
    BY <1>9 DEF Tunnel!quota
  <2> QED BY <1>1, <1>8, <1>9, <2>1, TunnelFinishes
<1>10. g.socket # "awaiting" /\ ~g.confirmed
  BY <1>4, <1>7
<1> QED BY <1>2, <1>6, <1>7, <1>8, <1>9, <1>10

\* The row has gone; what is recorded stays on record.
LEMMA TunnelRecords ==
  ASSUME TunnelInv, NEW r \in Requests, NEW q \in TunnelRequests, clock' = clock,
         req' = [req EXCEPT ![r] = q], lease' = lease, lease[r] = NoRow,
         NEW record \in Records, report' = [report EXCEPT ![r] = record],
         NEW events \in Nat, terminal' = [terminal EXCEPT ![r] = events],
         q.pc \in {"complete", "degrade", "done"}, q.socket # "awaiting", ~q.confirmed,
         events <= 1, record = "none" => events = 0, record = "recorded" => events = 1
  PROVE  TunnelInv'
<1>1. lease[r] \in Rows
  BY TunnelOf
<1>2. Bridged(clock, q, lease[r])
  BY DEF Bridged
<1>3. Closed(q, lease[r], record, events)
  BY DEF Closed
<1>4. lease' = [lease EXCEPT ![r] = lease[r]]
  BY DEF TunnelInv, TunnelTypes
<1> QED BY <1>1, <1>2, <1>3, <1>4, TunnelSteps

LEMMA TunnelBatch ==
  ASSUME TunnelInv, NEW r \in Requests,
         Tunnel!Batch(r) \/ UNCHANGED <<terminal, report>>
  PROVE  \E record \in Records, events \in Nat :
           /\ report' = [report EXCEPT ![r] = record]
           /\ terminal' = [terminal EXCEPT ![r] = events]
           /\ events <= 1
           /\ record = "none" => events = 0
           /\ record = "recorded" => events = 1
<1>1. /\ report \in [Requests -> Records] /\ terminal \in [Requests -> Nat]
      /\ Closed(req[r], lease[r], report[r], terminal[r])
  BY TunnelOf DEF TunnelInv, TunnelTypes
<1>2. CASE UNCHANGED <<terminal, report>>
  <2>1. /\ report' = [report EXCEPT ![r] = report[r]]
        /\ terminal' = [terminal EXCEPT ![r] = terminal[r]]
    BY <1>1, <1>2
  <2> QED BY <1>1, <2>1 DEF Closed
<1>3. CASE Tunnel!Batch(r) /\ report[r] = "none"
  <2>1. /\ terminal' = [terminal EXCEPT ![r] = terminal[r] + 1]
        /\ report' = [report EXCEPT ![r] = IF degraded THEN "degraded" ELSE "recorded"]
    BY <1>3 DEF Tunnel!Batch
  <2>2. terminal[r] + 1 = 1
    BY <1>1, <1>3 DEF Closed
  <2>3. terminal' = [terminal EXCEPT ![r] = 1]
    BY <2>1, <2>2, Zenon
  <2>4. PICK record \in {"recorded", "degraded"} : report' = [report EXCEPT ![r] = record]
    <3>1. CASE degraded
      BY <2>1, <3>1
    <3>2. CASE ~degraded
      BY <2>1, <3>2
    <3> QED BY <3>1, <3>2
  <2>5. record \in Records /\ record # "none" /\ 1 \in Nat /\ 1 <= 1
    BY DEF Records
  <2> QED BY <2>3, <2>4, <2>5
<1>4. CASE Tunnel!Batch(r) /\ report[r] # "none"
  BY <1>2, <1>4 DEF Tunnel!Batch
<1> QED BY <1>2, <1>3, <1>4

\* What record and degrade leave of the handler.
LEMMA TunnelClosesUp ==
  ASSUME TunnelInv, NEW r \in Requests, req[r].pc \in {"record", "degrade"}, NEW n \in Nat
  PROVE  /\ \E q \in TunnelRequests :
              /\ q = Tunnel!AfterFaults(Tunnel!Threw(r, 0), n)
              /\ q.pc \in {"complete", "done"} /\ q.socket # "awaiting" /\ ~q.confirmed
         /\ \E q \in TunnelRequests :
              /\ q = Tunnel!AfterFaults(Tunnel!Done(r, 0), n)
              /\ q.pc = "done" /\ q.socket # "awaiting" /\ ~q.confirmed
         /\ \E q \in TunnelRequests :
              /\ q = Tunnel!AfterFaults(Tunnel!Goto(r, "degrade"), n)
              /\ q.pc = "degrade" /\ q.socket # "awaiting" /\ ~q.confirmed
<1>1. req[r].socket # "awaiting" /\ req[r].confirmed = FALSE
  BY TunnelOf DEF Bridged, TunnelRequests
<1>2. \E q \in TunnelRequests :
        /\ q = Tunnel!AfterFaults(Tunnel!Threw(r, 0), n)
        /\ q.pc \in {"complete", "done"} /\ q.socket # "awaiting" /\ ~q.confirmed
  BY <1>1, TunnelThrows
<1>3. \E q \in TunnelRequests :
        /\ q = Tunnel!AfterFaults(Tunnel!Done(r, 0), n)
        /\ q.pc = "done" /\ q.socket # "awaiting" /\ ~q.confirmed
  <2>1. PICK g \in TunnelRequests :
          /\ g = Tunnel!Done(r, 0) /\ g.pc = "done" /\ g.socket = "closed" /\ ~g.confirmed
    BY TunnelReturns
  <2>2. PICK q \in TunnelRequests :
          q = Struck(g, n) /\ q.pc = g.pc /\ q.socket = g.socket /\ q.confirmed = g.confirmed
    BY TunnelStruck
  <2>3. q = Tunnel!AfterFaults(Tunnel!Done(r, 0), n)
    BY <2>1, <2>2 DEF Struck, Tunnel!AfterFaults
  <2> QED BY <2>1, <2>2, <2>3
<1>4. \E q \in TunnelRequests :
        /\ q = Tunnel!AfterFaults(Tunnel!Goto(r, "degrade"), n)
        /\ q.pc = "degrade" /\ q.socket # "awaiting" /\ ~q.confirmed
  <2>1. PICK g \in TunnelRequests :
          /\ g = Tunnel!Goto(r, "degrade") /\ g.pc = "degrade" /\ g.socket = req[r].socket
          /\ g.confirmed = req[r].confirmed
    BY TunnelGoes DEF TunnelPlaces
  <2>2. PICK q \in TunnelRequests :
          q = Struck(g, n) /\ q.pc = g.pc /\ q.socket = g.socket /\ q.confirmed = g.confirmed
    BY TunnelStruck
  <2>3. q = Tunnel!AfterFaults(Tunnel!Goto(r, "degrade"), n)
    BY <2>1, <2>2 DEF Struck, Tunnel!AfterFaults
  <2> QED BY <1>1, <2>1, <2>2, <2>3
<1> QED BY <1>2, <1>3, <1>4

LEMMA TunnelRecordKeeps ==
  ASSUME TunnelInv, NEW r \in Requests,
         Tunnel!RecordExecution(r, Tunnel!Done(r, 0), Tunnel!Threw(r, 0))
  PROVE  TunnelInv'
<1>0. UNCHANGED <<clock, Tunnel!quota>> /\ Tunnel!At(r, "record")
  BY Zenon DEF Tunnel!RecordExecution
<1>1. /\ clock' = clock /\ lease' = lease /\ req[r].pc = "record" /\ lease[r] = NoRow
  BY <1>0, TunnelOf DEF Tunnel!quota, Tunnel!At, Closed
<1>2. /\ Tunnel!Batch(r) \/ UNCHANGED <<terminal, report>>
      /\ \/ req' = [req EXCEPT ![r] = Tunnel!Done(r, 0)]
         \/ req' = [req EXCEPT ![r] = Tunnel!AfterFaults(Tunnel!Goto(r, "degrade"), 1)]
         \/ req' = [req EXCEPT ![r] = Tunnel!AfterFaults(Tunnel!Threw(r, 0), 1)]
  BY Zenon DEF Tunnel!RecordExecution, Tunnel!Becomes
<1>3. PICK record \in Records, events \in Nat :
        /\ report' = [report EXCEPT ![r] = record]
        /\ terminal' = [terminal EXCEPT ![r] = events]
        /\ events <= 1
        /\ record = "none" => events = 0
        /\ record = "recorded" => events = 1
  BY <1>2, TunnelBatch
<1>4. ASSUME NEW q \in TunnelRequests, req' = [req EXCEPT ![r] = q],
             q.pc \in {"complete", "degrade", "done"}, q.socket # "awaiting", ~q.confirmed
      PROVE  TunnelInv'
  BY <1>1, <1>3, <1>4, TunnelRecords
<1>5. \E q \in TunnelRequests :
        q = Tunnel!Done(r, 0) /\ q.pc = "done" /\ q.socket = "closed" /\ ~q.confirmed
  BY TunnelReturns
<1>6. /\ \E q \in TunnelRequests :
           /\ q = Tunnel!AfterFaults(Tunnel!Threw(r, 0), 1)
           /\ q.pc \in {"complete", "done"} /\ q.socket # "awaiting" /\ ~q.confirmed
      /\ \E q \in TunnelRequests :
           /\ q = Tunnel!AfterFaults(Tunnel!Goto(r, "degrade"), 1)
           /\ q.pc = "degrade" /\ q.socket # "awaiting" /\ ~q.confirmed
  BY <1>1, TunnelClosesUp
<1> QED BY <1>2, <1>4, <1>5, <1>6

LEMMA TunnelFailures ==
  ASSUME NEW marked \in BOOLEAN, NEW saved \in BOOLEAN
  PROVE  Tunnel!Cardinality({i \in {1, 2} : ~(<<marked, saved>>[i])}) \in Nat
<1>1. Worker!Cardinality({i \in {1, 2} : ~(<<marked, saved>>[i])}) \in Nat
  BY WorkerFailures
<1> QED BY <1>1 DEF Worker!Cardinality, Tunnel!Cardinality

LEMMA TunnelSaveKeeps ==
  ASSUME TunnelInv, NEW r \in Requests,
         Tunnel!SaveDegradedReport(r, Tunnel!Done(r, 0), Tunnel!Threw(r, 0))
  PROVE  TunnelInv'
<1>0. /\ UNCHANGED <<clock, Tunnel!quota, terminal>> /\ Tunnel!At(r, "degrade")
  BY Zenon DEF Tunnel!SaveDegradedReport
<1>1. /\ clock' = clock /\ lease' = lease /\ terminal' = terminal
      /\ req[r].pc = "degrade" /\ lease[r] = NoRow
  BY <1>0, TunnelOf DEF Tunnel!quota, Tunnel!At, Closed
<1>2. PICK marked \in BOOLEAN, saved \in BOOLEAN :
        LET n == Tunnel!Cardinality({i \in {1, 2} : ~(<<marked, saved>>[i])}) IN
        /\ report' = IF saved /\ report[r] = "none"
                       THEN [report EXCEPT ![r] = "degraded"] ELSE report
        /\ \/ req' = [req EXCEPT ![r] = Tunnel!AfterFaults(Tunnel!Done(r, 0), n)]
           \/ req' = [req EXCEPT ![r] = Tunnel!AfterFaults(Tunnel!Threw(r, 0), n + 1)]
  BY Zenon DEF Tunnel!SaveDegradedReport, Tunnel!Becomes
<1>3. PICK n \in Nat : n = Tunnel!Cardinality({i \in {1, 2} : ~(<<marked, saved>>[i])})
  BY TunnelFailures
<1>4. PICK m \in Nat :
        \/ req' = [req EXCEPT ![r] = Tunnel!AfterFaults(Tunnel!Done(r, 0), m)]
        \/ req' = [req EXCEPT ![r] = Tunnel!AfterFaults(Tunnel!Threw(r, 0), m)]
  <2>1. n + 1 \in Nat
    OBVIOUS
  <2> QED BY <1>2, <1>3, <2>1, Zenon
<1>5. PICK q \in TunnelRequests :
        /\ req' = [req EXCEPT ![r] = q]
        /\ q.pc \in {"complete", "done"} /\ q.socket # "awaiting" /\ ~q.confirmed
  BY <1>1, <1>4, TunnelClosesUp
<1>6. /\ report \in [Requests -> Records] /\ terminal \in [Requests -> Nat]
      /\ Closed(req[r], lease[r], report[r], terminal[r])
  BY TunnelOf DEF TunnelInv, TunnelTypes
<1>7. PICK record \in Records :
        /\ report' = [report EXCEPT ![r] = record]
        /\ record = "none" => terminal[r] = 0
        /\ record = "recorded" => terminal[r] = 1
  <2>1. CASE report' = report
    <3>1. report' = [report EXCEPT ![r] = report[r]] /\ report[r] \in Records
      BY <1>6, <2>1
    <3> QED BY <1>6, <3>1 DEF Closed
  <2>2. CASE report' = [report EXCEPT ![r] = "degraded"]
    BY <2>2 DEF Records
  <2> QED BY <1>2, <2>1, <2>2
<1>8. terminal' = [terminal EXCEPT ![r] = terminal[r]] /\ terminal[r] \in Nat /\ terminal[r] <= 1
  BY <1>1, <1>6 DEF Closed
<1> QED BY <1>1, <1>5, <1>7, <1>8, TunnelRecords

LEMMA TunnelAlarm ==
  ASSUME TunnelInv, Tunnel!Alarm /\ UNCHANGED <<Tunnel!tables, req, faults>>
  PROVE  TunnelInv'
<1>1. /\ UNCHANGED <<clock, req, report, terminal>> /\ lease' = Lapsed
  BY QuotaNames DEF Tunnel!Alarm, Tunnel!tables
<1>2. lease' \in [Requests -> Rows]
  <2>1. NoRow \in Rows
    BY DEF NoRow, Rows
  <2> QED BY <1>1, <2>1 DEF TunnelInv, TunnelTypes, Lapsed
<1>3. ASSUME NEW r \in Requests
      PROVE  TunnelSound(r)'
  <2>1. clock \in Nat /\ lease[r] \in Rows
    BY TunnelOf
  <2>2. RowLapses(r)
    BY <1>1, <2>1 DEF RowLapses, Lapsed, Rows, NoRow
  <2> QED BY <1>1, <2>2, TunnelRests
<1> QED BY <1>1, <1>2, <1>3 DEF TunnelInv, TunnelTypes

LEMMA TunnelTick ==
  ASSUME TunnelInv, Tunnel!Tick
  PROVE  TunnelInv'
<1>1. /\ UNCHANGED <<lease, report, terminal>> /\ clock' = clock + 1
      /\ req' = [r \in Requests |-> [req[r] EXCEPT !.renewal = Tunnel!At(r, "bridge")]]
      /\ \A r \in Requests : ~req[r].renewal
  BY DEF Tunnel!Tick, Tunnel!quota, Tunnel!tables
<1>2. ASSUME NEW r \in Requests
      PROVE  req'[r] \in TunnelRequests /\ TunnelSound(r)'
  <2>1. /\ req[r] \in TunnelRequests /\ clock \in Nat /\ lease[r] \in Rows
        /\ Bridged(clock, req[r], lease[r])
        /\ Closed(req[r], lease[r], report[r], terminal[r])
    BY TunnelOf
  <2>2. PICK renewal \in BOOLEAN : renewal = Tunnel!At(r, "bridge")
    BY DEF Tunnel!At
  <2>3. PICK q \in TunnelRequests : q = [req[r] EXCEPT !.renewal = renewal]
    BY <2>1, TunnelFields
  <2>4. req'[r] = q
    BY <1>1, <2>2, <2>3, Zenon
  <2>5. /\ q.pc = req[r].pc /\ q.socket = req[r].socket /\ q.client = req[r].client
        /\ q.confirmed = req[r].confirmed /\ q.renewal = renewal
        /\ q.missed = req[r].missed /\ q.hits = req[r].hits
    BY <2>1, <2>3 DEF TunnelRequests
  <2>6. q.pc = "bridge" => Due(q) = Due(req[r]) + 1
    BY <1>1, <2>1, <2>2, <2>5 DEF Due, Tunnel!At, TunnelRequests
  <2>7. PICK due \in Nat : due = Due(req[r])
    BY <2>1, DueIsCounted
  <2>8. Bridged(clock + 1, q, lease[r])
    <3>1. lease[r].expires \in Int
      BY <2>1 DEF Rows
    <3> QED BY <2>1, <2>5, <2>6, <2>7, <3>1 DEF Bridged
  <2>9. Closed(q, lease[r], report[r], terminal[r])
    BY <2>1, <2>5 DEF Closed
  <2> QED BY <1>1, <2>4, <2>8, <2>9 DEF TunnelSound
<1>3. req' \in [Requests -> TunnelRequests]
  <2>1. \A r \in Requests : req'[r] \in TunnelRequests
    BY <1>2
  <2>2. req' = [r \in Requests |-> req'[r]]
    BY <1>1, Zenon
  <2> QED BY <2>1, <2>2
<1>4. clock + 1 \in Nat
  BY DEF TunnelInv, TunnelTypes
<1> QED BY <1>1, <1>2, <1>3, <1>4 DEF TunnelInv, TunnelTypes

LEMMA TunnelInit ==
  ASSUME Tunnel!Init
  PROVE  TunnelInv
<1>1. /\ clock = 0 /\ lease = [r \in Requests |-> NoRow]
      /\ report = [r \in Requests |-> "none"] /\ terminal = [r \in Requests |-> 0]
      /\ req = [r \in Requests |-> Tunnel!NewTunnel]
  BY QuotaNames DEF Tunnel!Init, Tunnel!RecordingInit, Tunnel!QuotaInit
<1>2. NoRow \in Rows /\ "none" \in Records
  BY DEF NoRow, Rows, Records
<1>3. TunnelTypes
  BY <1>1, <1>2, TunnelNew DEF TunnelTypes
<1>4. ASSUME NEW r \in Requests
      PROVE  TunnelSound(r)
  <2>1. /\ req[r] = Tunnel!NewTunnel /\ lease[r] = NoRow /\ report[r] = "none"
        /\ terminal[r] = 0
    BY <1>1
  <2> QED BY <2>1 DEF TunnelSound, Bridged, Closed, Tunnel!NewTunnel
<1> QED BY <1>3, <1>4 DEF TunnelInv

LEMMA TunnelStep ==
  ASSUME TunnelInv, Tunnel!Next
  PROVE  TunnelInv'
<1>1. ASSUME NEW r \in Requests, Tunnel!Step(r)
      PROVE  TunnelInv'
  BY <1>1, HandleTunnelKeeps, FrameKeeps, AuthorizeTunnelKeeps, DecisionKeeps, OpenKeeps,
     TargetFrameKeeps, CloseKeeps, RenewKeeps, TunnelReleaseKeeps, TunnelRecordKeeps,
     TunnelSaveKeeps DEF Tunnel!Step
<1> QED BY <1>1, TunnelAlarm, TunnelTick DEF Tunnel!Next

LEMMA TunnelStutters ==
  ASSUME TunnelInv, UNCHANGED vars
  PROVE  TunnelInv'
BY DEF vars, TunnelInv, TunnelTypes, TunnelSound

\* What the run asks of the tunnels.
LEMMA TunnelPromises ==
  ASSUME TunnelInv
  PROVE  Tunnel!BridgeIsLeased /\ Tunnel!TerminalOnce /\ Tunnel!LeakOnlyByFault
<1>1. ASSUME NEW r \in Requests
      PROVE  /\ Tunnel!At(r, "bridge") /\ req[r].client = "open" /\ req[r].confirmed
                  /\ ~Tunnel!Live(r) => req[r].missed >= Tunnel!LeaseTtl - 1
             /\ terminal[r] <= 1
             /\ report[r] = "recorded" => terminal[r] = 1
             /\ report[r] # "none" => ~Tunnel!Holds(r)
             /\ Tunnel!At(r, "done") /\ req[r].hits = 0 => ~Tunnel!Holds(r)
  <2>1. /\ req[r] \in TunnelRequests /\ clock \in Nat /\ lease[r] \in Rows
        /\ Bridged(clock, req[r], lease[r])
        /\ Closed(req[r], lease[r], report[r], terminal[r])
    BY TunnelOf
  <2>2. PICK due \in Nat : due = Due(req[r]) /\ req[r].missed >= due - 1
    BY <2>1, DueIsCounted DEF Due, TunnelRequests
  <2>3. lease[r].expires \in Int /\ req[r].missed \in Nat
    BY <2>1 DEF Rows, TunnelRequests
  <2>4. req[r].pc = "bridge" /\ req[r].client = "open" /\ req[r].confirmed
          /\ ~(lease[r] # NoRow /\ lease[r].expires > clock) => req[r].missed >= 3 - 1
    BY <2>1, <2>2, <2>3 DEF Bridged
  <2> QED BY <2>1, <2>4, QuotaNames DEF Tunnel!At, Closed
<1> QED BY <1>1 DEF Tunnel!BridgeIsLeased, Tunnel!TerminalOnce, Tunnel!LeakOnlyByFault

-----------------------------------------------------------------------------
(* No more leases count than the limits allow *)

Few(S, n) == IsFiniteSet(S) /\ Cardinality(S) <= n

\* A step takes elements away or, while there is room, adds one.
LEMMA FewStay ==
  ASSUME NEW S, NEW T, NEW r, NEW n \in Nat, Few(S, n),
         T \subseteq S \/ (T \subseteq S \cup {r} /\ Cardinality(S) < n)
  PROVE  Few(T, n)
<1>1. IsFiniteSet(S) /\ Cardinality(S) \in Nat /\ Cardinality(S) <= n
  BY FS_CardinalityType DEF Few
<1>2. CASE T \subseteq S
  <2>1. IsFiniteSet(T) /\ Cardinality(T) \in Nat /\ Cardinality(T) <= Cardinality(S)
    BY <1>1, <1>2, FS_Subset, FS_CardinalityType
  <2> QED BY <1>1, <2>1 DEF Few
<1>3. CASE T \subseteq S \cup {r} /\ Cardinality(S) < n
  <2>1. /\ IsFiniteSet(S \cup {r}) /\ Cardinality(S \cup {r}) \in Nat
        /\ Cardinality(S \cup {r}) <= Cardinality(S) + 1
    <3>1. /\ IsFiniteSet(S \cup {r})
          /\ \/ Cardinality(S \cup {r}) = Cardinality(S)
             \/ Cardinality(S \cup {r}) = Cardinality(S) + 1
      BY <1>1, FS_AddElement
    <3> QED BY <1>1, <3>1
  <2>2. IsFiniteSet(T) /\ Cardinality(T) \in Nat /\ Cardinality(T) <= Cardinality(S \cup {r})
    BY <1>3, <2>1, FS_Subset, FS_CardinalityType
  <2> QED BY <1>1, <1>3, <2>1, <2>2 DEF Few
<1> QED BY <1>2, <1>3

LEMMA OneCardinality ==
  \A S : /\ Supabase!Cardinality(S) = Cardinality(S)
         /\ Worker!Cardinality(S) = Cardinality(S)
         /\ Tunnel!Cardinality(S) = Cardinality(S)
BY DEF Supabase!Cardinality, Worker!Cardinality, Tunnel!Cardinality, Cardinality

\* The leases of Supabase that have not run out.
Leased == {r \in Requests : lease[r].held /\ lease[r].at + 8 > clock}

\* of_acquire_execution counts them before it books another.
LEMMA AcquireFits ==
  ASSUME GatewayInv, NEW r \in Requests, clock' = clock,
         Supabase!AcquireApplied(r), Few(Leased, ConcurrentHttp)
  PROVE  Few(Leased, ConcurrentHttp)'
<1>1. Leased = {q \in Requests : Supabase!Reap[q].held}
  BY DEF Leased, Supabase!Reap, Supabase!Live, Supabase!LeaseTicks, Supabase!NoLease
<1>2. ConcurrentHttp \in Nat
  BY ExecutionsAssumption
<1>3. \A p \in Requests : Supabase!Reap[p].held =>
        Supabase!Reap[p] = lease[p] /\ p \in Leased
  BY DEF Supabase!Reap, Supabase!Live, Supabase!LeaseTicks, Supabase!NoLease, Leased
<1>4. CASE Supabase!AcquireSql(r).allowed
  <2>1. Cardinality(Leased) < ConcurrentHttp
    BY <1>1, <1>4, OneCardinality DEF Supabase!AcquireSql
  <2>2. \A p \in Requests \ {r} : lease'[p] = Supabase!Reap[p]
    BY <1>4 DEF Supabase!AcquireApplied, Supabase!Reap
  <2>3. Leased' \subseteq Leased \cup {r}
    BY <1>3, <2>2 DEF Leased
  <2> QED BY <1>2, <2>1, <2>3, FewStay
<1>5. CASE ~Supabase!AcquireSql(r).allowed
  <2>1. lease' = Supabase!Reap
    BY <1>5 DEF Supabase!AcquireApplied
  <2>2. Leased' \subseteq Leased
    BY <1>3, <2>1 DEF Leased
  <2> QED BY <1>2, <2>2, FewStay
<1> QED BY <1>4, <1>5

\* What stays, has gone or only changed its bytes is counted as before.
LEMMA LeasedLess ==
  ASSUME GatewayInv, clock' \in Nat, clock' >= clock, Few(Leased, ConcurrentHttp),
         \A p \in Requests :
           lease'[p].held => lease[p].held /\ lease'[p].at = lease[p].at
  PROVE  Few(Leased, ConcurrentHttp)'
<1>1. \A p \in Requests : lease[p].at \in Nat
  BY DEF GatewayInv, GatewayTypes
<1>2. clock \in Nat /\ ConcurrentHttp \in Nat
  BY ExecutionsAssumption DEF GatewayInv, GatewayTypes
<1>3. Leased' \subseteq Leased
  BY <1>1, <1>2 DEF Leased
<1> QED BY <1>2, <1>3, FewStay

LEMMA GatewayLeases ==
  ASSUME GatewayInv, Supabase!Next, Few(Leased, ConcurrentHttp)
  PROVE  Few(Leased, ConcurrentHttp)'
<1>1. /\ clock \in Nat
      /\ lease \in [Requests -> [at : Nat, bytes : Nat, held : BOOLEAN]]
  BY DEF GatewayInv, GatewayTypes
<1>2. CASE UNCHANGED <<clock, lease>>
  BY <1>1, <1>2, LeasedLess
<1>3. ASSUME NEW r \in Requests, Supabase!Step(r)
      PROVE  Few(Leased, ConcurrentHttp)'
  <2>1. clock' = clock
    BY <1>3 DEF Supabase!Step, Supabase!Handle, Supabase!Received, Supabase!Reject,
       Supabase!AcquireExecution, Supabase!ReadRequestBody, Supabase!Reconcile,
       Supabase!Accepted, Supabase!Upstream, Supabase!Stream, Supabase!Abort,
       Supabase!Finalize, Supabase!FinalizeFails
  <2>2. CASE Supabase!AcquireExecution(r)
    <3>1. Supabase!AcquireApplied(r) \/ lease' = lease
      BY <2>2 DEF Supabase!AcquireExecution
    <3> QED BY <1>2, <2>1, <3>1, AcquireFits
  <2>3. CASE Supabase!Reconcile(r)
    <3>1. PICK bytes \in 0..1 :
            lease' = lease \/ lease' = [lease EXCEPT ![r].bytes = bytes]
      BY <2>3 DEF Supabase!Reconcile, Supabase!ReconcileApplied
    <3>2. \A p \in Requests : lease'[p].held = lease[p].held /\ lease'[p].at = lease[p].at
      BY <1>1, <3>1
    <3> QED BY <1>1, <2>1, <3>2, LeasedLess
  <2>4. CASE Supabase!Finalize(r)
    <3>1. lease' = lease \/ lease' = [lease EXCEPT ![r] = Supabase!NoLease]
      BY <2>4 DEF Supabase!Finalize, Supabase!FinalizeApplied
    <3>2. \A p \in Requests :
            lease'[p].held => lease[p].held /\ lease'[p].at = lease[p].at
      BY <1>1, <3>1 DEF Supabase!NoLease
    <3> QED BY <1>1, <2>1, <3>2, LeasedLess
  <2>5. CASE ~(Supabase!AcquireExecution(r) \/ Supabase!Reconcile(r) \/ Supabase!Finalize(r))
    <3>1. lease' = lease
      BY <1>3, <2>5 DEF Supabase!Step, Supabase!Handle, Supabase!Received,
         Supabase!Reject, Supabase!ReadRequestBody, Supabase!Accepted,
         Supabase!Upstream, Supabase!Stream, Supabase!Abort,
         Supabase!FinalizeFails, Supabase!tables
    <3> QED BY <1>2, <2>1, <3>1
  <2> QED BY <2>2, <2>3, <2>4, <2>5
<1>4. CASE Supabase!CleanupExpired
  <2>1. clock' = clock /\ lease' = Supabase!Reap
    BY <1>4 DEF Supabase!CleanupExpired
  <2>2. \A p \in Requests :
          lease'[p].held => lease[p].held /\ lease'[p].at = lease[p].at
    BY <2>1 DEF Supabase!Reap, Supabase!Live, Supabase!NoLease
  <2> QED BY <1>1, <2>1, <2>2, LeasedLess
<1>5. CASE Supabase!Tick
  <2>1. clock' = clock + 1 /\ lease' = lease
    BY <1>5 DEF Supabase!Tick, Supabase!tables
  <2> QED BY <1>1, <2>1, LeasedLess
<1> QED BY <1>3, <1>4, <1>5 DEF Supabase!Next

\* The rows of the quota object that have not run out, by kind.
Booked(t) ==
  {r \in Requests :
     Lapsed[r] # NoRow /\ (Lapsed[r].transport = "http") = (t = "http")}

QuotaLimits ==
  /\ Few(Booked("http"), ConcurrentHttp)
  /\ Few(Booked("websocket"), ConcurrentTunnels)

LEMMA Counts ==
  ASSUME NEW t
  PROVE  /\ Worker!ActiveCount(Worker!Expired, t) = Cardinality(Booked(t))
         /\ Tunnel!ActiveCount(Tunnel!Expired, t) = Cardinality(Booked(t))
<1>1. /\ Worker!ActiveCount(Lapsed, t) = Worker!Cardinality(Booked(t))
      /\ Tunnel!ActiveCount(Lapsed, t) = Tunnel!Cardinality(Booked(t))
  BY QuotaNames DEF Worker!ActiveCount, Tunnel!ActiveCount, Booked
<1> QED BY <1>1, QuotaNames, OneCardinality

\* Rows that stay, go or are extended before they run out add nothing.
LEMMA BookedLess ==
  ASSUME lease \in [Requests -> Rows], clock \in Nat, clock' \in Nat, clock' >= clock,
         QuotaLimits,
         \A p \in Requests :
           \/ lease'[p] = NoRow
           \/ lease'[p] = lease[p]
           \/ Lapsed[p] # NoRow /\ lease'[p].transport = Lapsed[p].transport
  PROVE  QuotaLimits'
<1>1. ASSUME NEW p \in Requests, lease'[p] # NoRow, lease'[p].expires > clock'
      PROVE  Lapsed[p] # NoRow /\ lease'[p].transport = Lapsed[p].transport
  <2>1. CASE lease'[p] = lease[p]
    <3>1. lease[p].expires > clock
      BY <1>1, <2>1 DEF Rows
    <3> QED BY <1>1, <2>1, <3>1 DEF Lapsed
  <2> QED BY <1>1, <2>1
<1>2. \A p \in Requests : Lapsed'[p] # NoRow =>
        /\ Lapsed'[p] = lease'[p] /\ lease'[p] # NoRow /\ lease'[p].expires > clock'
  BY DEF Lapsed, NoRow
<1>3. \A t : Booked(t)' \subseteq Booked(t)
  BY <1>1, <1>2 DEF Booked, NoRow
<1> QED BY <1>3, FewStay, ExecutionsAssumption DEF QuotaLimits

\* acquire counts the rows of its kind before it books another.
LEMMA BookedMore ==
  ASSUME lease \in [Requests -> Rows], clock \in Nat, clock' = clock, QuotaLimits,
         NEW r \in Requests, NEW t \in {"http", "websocket"}, NEW bytes,
         Worker!Acquire(r, t, bytes) \/ Tunnel!Acquire(r, t, bytes)
  PROVE  QuotaLimits'
<1>1. CASE lease' = Lapsed
  <2>1. \A p \in Requests : lease'[p] = NoRow \/ lease'[p] = lease[p]
    BY <1>1 DEF Lapsed
  <2> QED BY <2>1, BookedLess
<1>2. ASSUME lease' # Lapsed
      PROVE  /\ Cardinality(Booked(t)) < IF t = "http" THEN ConcurrentHttp
                                                       ELSE ConcurrentTunnels
             /\ \E row : lease' = [Lapsed EXCEPT ![r] = row] /\ row.transport = t
  <2>1. CASE Worker!Acquire(r, t, bytes)
    <3>1. /\ Worker!Admits(r, t, bytes)
          /\ lease' = [Lapsed EXCEPT ![r] =
               [transport |-> t, bytes |-> bytes, expires |-> clock + Worker!LeaseTtl]]
      BY <1>2, <2>1, QuotaNames DEF Worker!Acquire
    <3>2. Cardinality(Booked(t)) < IF t = "http" THEN ConcurrentHttp
                                                 ELSE ConcurrentTunnels
      BY <3>1, Counts DEF Worker!Admits
    <3>3. PICK row : row = [transport |-> t, bytes |-> bytes,
                            expires |-> clock + Worker!LeaseTtl]
      OBVIOUS
    <3>4. row.transport = t
      BY <3>3
    <3>5. lease' = [Lapsed EXCEPT ![r] = row]
      BY <3>1, <3>3
    <3> QED BY <3>2, <3>4, <3>5
  <2>2. CASE Tunnel!Acquire(r, t, bytes)
    <3>1. /\ Tunnel!Admits(r, t, bytes)
          /\ lease' = [Lapsed EXCEPT ![r] =
               [transport |-> t, bytes |-> bytes, expires |-> clock + Tunnel!LeaseTtl]]
      BY <1>2, <2>2, QuotaNames DEF Tunnel!Acquire
    <3>2. Cardinality(Booked(t)) < IF t = "http" THEN ConcurrentHttp
                                                 ELSE ConcurrentTunnels
      BY <3>1, Counts DEF Tunnel!Admits
    <3>3. PICK row : row = [transport |-> t, bytes |-> bytes,
                            expires |-> clock + Tunnel!LeaseTtl]
      OBVIOUS
    <3>4. row.transport = t
      BY <3>3
    <3>5. lease' = [Lapsed EXCEPT ![r] = row]
      BY <3>1, <3>3
    <3> QED BY <3>2, <3>4, <3>5
  <2> QED BY <2>1, <2>2
<1>3. CASE lease' # Lapsed
  <2>1. PICK row : lease' = [Lapsed EXCEPT ![r] = row] /\ row.transport = t
    BY <1>2, <1>3
  <2>2. /\ lease'[r].transport = t
        /\ \A p \in Requests \ {r} : lease'[p] = Lapsed[p]
    BY <2>1 DEF Lapsed
  <2>3. \A p \in Requests : Lapsed'[p] # NoRow => Lapsed'[p] = lease'[p]
    BY DEF Lapsed, NoRow
  <2>4. \A k : Booked(k)' \subseteq Booked(k) \cup {r}
    BY <2>2, <2>3 DEF Booked, NoRow
  <2>5. \A k : (t = "http") # (k = "http") => Booked(k)' \subseteq Booked(k)
    BY <2>2, <2>3 DEF Booked, NoRow
  <2>6. CASE t = "http"
    <3>1. Few(Booked("http")', ConcurrentHttp)
      BY <1>2, <1>3, <2>4, <2>6, FewStay, ExecutionsAssumption DEF QuotaLimits
    <3>2. Few(Booked("websocket")', ConcurrentTunnels)
      BY <2>5, <2>6, FewStay, ExecutionsAssumption DEF QuotaLimits
    <3> QED BY <3>1, <3>2 DEF QuotaLimits
  <2>7. CASE t = "websocket"
    <3>1. Few(Booked("websocket")', ConcurrentTunnels)
      BY <1>2, <1>3, <2>4, <2>7, FewStay, ExecutionsAssumption DEF QuotaLimits
    <3>2. Few(Booked("http")', ConcurrentHttp)
      BY <2>5, <2>7, FewStay, ExecutionsAssumption DEF QuotaLimits
    <3> QED BY <3>1, <3>2 DEF QuotaLimits
  <2> QED BY <2>6, <2>7
<1> QED BY <1>1, <1>3

LEMMA ReleaseFrees ==
  ASSUME lease \in [Requests -> Rows], clock \in Nat, clock' = clock, QuotaLimits,
         NEW r \in Requests,
         \/ lease' = lease
         \/ lease' = [lease EXCEPT ![r] = NoRow]
  PROVE  QuotaLimits'
<1>1. \A p \in Requests : lease'[p] = NoRow \/ lease'[p] = lease[p]
  OBVIOUS
<1> QED BY <1>1, BookedLess

LEMMA TimePasses ==
  ASSUME lease \in [Requests -> Rows], clock \in Nat, QuotaLimits,
         (clock' = clock /\ lease' = Lapsed) \/ (clock' = clock + 1 /\ lease' = lease)
  PROVE  QuotaLimits'
<1>1. \A p \in Requests : lease'[p] = NoRow \/ lease'[p] = lease[p]
  BY DEF Lapsed
<1> QED BY <1>1, BookedLess

LEMMA WorkerLeases ==
  ASSUME WorkerInv, Worker!Next, QuotaLimits
  PROVE  QuotaLimits'
<1>1. clock \in Nat /\ lease \in [Requests -> Rows]
  BY DEF WorkerInv, WorkerTypes
<1>2. ASSUME NEW r \in Requests, Worker!Step(r)
      PROVE  QuotaLimits'
  <2>1. clock' = clock
    <3>1. CASE \/ Worker!HandleGatewayRequest(r) \/ Worker!PrepareRequestBody(r)
               \/ Worker!Upload(r) \/ Worker!Upstream(r) \/ Worker!Stream(r) \/ Worker!Abort(r)
               \/ Worker!Evict(r)
      BY <3>1, Zenon DEF Worker!HandleGatewayRequest, Worker!PrepareRequestBody,
         Worker!Upload, Worker!Upstream, Worker!Stream, Worker!Abort, Worker!Evict
    <3>2. CASE \/ Worker!AuthorizeExecution(r) \/ Worker!PolicyDenies(r)
               \/ Worker!PolicyAllows(r)
      BY <3>2, Zenon DEF Worker!AuthorizeExecution, Worker!PolicyDenies,
         Worker!PolicyAllows
    <3>3. CASE \/ Worker!ReleaseExecution(r, Worker!Done(r, 0))
               \/ Worker!RecordExecution(r, Worker!Done(r, 0), Worker!Done(r, 0))
               \/ Worker!SaveDegradedReport(r, Worker!Done(r, 0), Worker!Done(r, 0))
      BY <3>3, Zenon DEF Worker!ReleaseExecution, Worker!RecordExecution,
         Worker!SaveDegradedReport
    <3> QED BY <1>2, <3>1, <3>2, <3>3 DEF Worker!Step
  <2>2. CASE Worker!AuthorizeExecution(r)
    <3>1. Worker!Acquire(r, "http", req[r].est) \/ lease' = lease
      BY <2>2 DEF Worker!AuthorizeExecution, Worker!quota
    <3> QED BY <1>1, <2>1, <3>1, BookedMore, ReleaseFrees
  <2>3. CASE Worker!PolicyDenies(r)
    <3>1. lease' = [lease EXCEPT ![r] = NoRow] \/ lease' = lease
      BY <2>3, QuotaNames DEF Worker!PolicyDenies, Worker!Release, Worker!quota
    <3> QED BY <1>1, <2>1, <3>1, ReleaseFrees
  <2>4. CASE Worker!ReleaseExecution(r, Worker!Done(r, 0))
    <3>1. lease' = [lease EXCEPT ![r] = NoRow] \/ lease' = lease
      BY <2>4, QuotaNames DEF Worker!ReleaseExecution, Worker!Release, Worker!quota
    <3> QED BY <1>1, <2>1, <3>1, ReleaseFrees
  <2>5. CASE ~(\/ Worker!AuthorizeExecution(r) \/ Worker!PolicyDenies(r)
               \/ Worker!ReleaseExecution(r, Worker!Done(r, 0)))
    <3>1. UNCHANGED Worker!quota
      <4>1. CASE \/ Worker!HandleGatewayRequest(r) \/ Worker!PrepareRequestBody(r)
                 \/ Worker!Upload(r) \/ Worker!Upstream(r) \/ Worker!Stream(r) \/ Worker!Abort(r)
                 \/ Worker!Evict(r) \/ Worker!PolicyAllows(r)
        BY <4>1, Zenon DEF Worker!HandleGatewayRequest, Worker!PrepareRequestBody,
           Worker!Upload, Worker!Upstream, Worker!Stream, Worker!Abort, Worker!Evict,
           Worker!PolicyAllows
      <4>2. CASE \/ Worker!RecordExecution(r, Worker!Done(r, 0), Worker!Done(r, 0))
                 \/ Worker!SaveDegradedReport(r, Worker!Done(r, 0), Worker!Done(r, 0))
        BY <4>2, Zenon DEF Worker!RecordExecution, Worker!SaveDegradedReport
      <4> QED BY <1>2, <2>5, <4>1, <4>2 DEF Worker!Step
    <3>2. lease' = lease
      BY <3>1 DEF Worker!quota
    <3> QED BY <1>1, <2>1, <3>2, ReleaseFrees
  <2> QED BY <2>2, <2>3, <2>4, <2>5
<1>3. CASE Worker!Alarm /\ UNCHANGED <<Worker!tables, req, faults>>
  <2>1. clock' = clock /\ lease' = Lapsed
    BY <1>3, QuotaNames DEF Worker!Alarm
  <2> QED BY <1>1, <2>1, TimePasses
<1>4. CASE Worker!Tick
  <2>1. clock' = clock + 1 /\ lease' = lease
    BY <1>4 DEF Worker!Tick, Worker!quota
  <2> QED BY <1>1, <2>1, TimePasses
<1> QED BY <1>2, <1>3, <1>4 DEF Worker!Next

LEMMA TunnelLeases ==
  ASSUME TunnelInv, Tunnel!Next, QuotaLimits
  PROVE  QuotaLimits'
<1>1. clock \in Nat /\ lease \in [Requests -> Rows]
  BY DEF TunnelInv, TunnelTypes
<1>2. ASSUME NEW r \in Requests, Tunnel!Step(r)
      PROVE  QuotaLimits'
  <2>1. clock' = clock
    BY <1>2 DEF Tunnel!Step, Tunnel!HandleGatewayTunnel, Tunnel!ClientFrame,
       Tunnel!AuthorizeTunnel, Tunnel!TunnelDecision, Tunnel!OpenTarget,
       Tunnel!TargetFrame, Tunnel!SocketCloses, Tunnel!RenewExecution,
       Tunnel!ReleaseExecution, Tunnel!RecordExecution, Tunnel!SaveDegradedReport
  <2>2. CASE Tunnel!AuthorizeTunnel(r)
    <3>1. Tunnel!Acquire(r, "websocket", 0) \/ lease' = lease
      BY <2>2 DEF Tunnel!AuthorizeTunnel, Tunnel!quota
    <3> QED BY <1>1, <2>1, <3>1, BookedMore, ReleaseFrees
  <2>3. CASE Tunnel!TunnelDecision(r)
    <3>1. lease' = [lease EXCEPT ![r] = NoRow] \/ lease' = lease
      BY <2>3, QuotaNames DEF Tunnel!TunnelDecision, Tunnel!Release, Tunnel!quota
    <3> QED BY <1>1, <2>1, <3>1, ReleaseFrees
  <2>4. CASE Tunnel!ReleaseExecution(r, Tunnel!Threw(r, 0))
    <3>1. lease' = [lease EXCEPT ![r] = NoRow] \/ lease' = lease
      BY <2>4, QuotaNames DEF Tunnel!ReleaseExecution, Tunnel!Release, Tunnel!quota
    <3> QED BY <1>1, <2>1, <3>1, ReleaseFrees
  <2>5. CASE Tunnel!RenewExecution(r)
    <3>1. CASE lease' = lease
      BY <1>1, <2>1, <3>1, ReleaseFrees
    <3>2. CASE Tunnel!Renew(r)
      <4>1. \A p \in Requests : Lapsed[p] = NoRow \/ Lapsed[p] = lease[p]
        BY DEF Lapsed
      <4>2. CASE lease' = Lapsed
        BY <1>1, <2>1, <4>1, <4>2, BookedLess
      <4>3. CASE /\ Lapsed[r] # NoRow
                 /\ lease' = [Lapsed EXCEPT ![r].expires = clock + 3]
        <5>1. Lapsed[r] \in Rows
          BY <1>1, <4>1, <4>3
        <5>2. /\ lease'[r] = [Lapsed[r] EXCEPT !.expires = clock + 3]
              /\ \A p \in Requests \ {r} : lease'[p] = Lapsed[p]
          BY <4>3 DEF Lapsed
        <5>3. lease'[r].transport = Lapsed[r].transport
          BY <5>1, <5>2 DEF Rows
        <5> QED BY <1>1, <2>1, <4>1, <4>3, <5>2, <5>3, BookedLess
      <4> QED BY <3>2, <4>2, <4>3, QuotaNames DEF Tunnel!Renew, Tunnel!Renews
    <3> QED BY <2>5, <3>1, <3>2 DEF Tunnel!RenewExecution, Tunnel!quota
  <2>6. CASE ~(\/ Tunnel!AuthorizeTunnel(r) \/ Tunnel!TunnelDecision(r)
               \/ Tunnel!ReleaseExecution(r, Tunnel!Threw(r, 0))
               \/ Tunnel!RenewExecution(r))
    <3>1. lease' = lease
      BY <1>2, <2>6 DEF Tunnel!Step, Tunnel!HandleGatewayTunnel, Tunnel!ClientFrame,
         Tunnel!OpenTarget, Tunnel!TargetFrame, Tunnel!SocketCloses,
         Tunnel!RecordExecution, Tunnel!SaveDegradedReport, Tunnel!quota
    <3> QED BY <1>1, <2>1, <3>1, ReleaseFrees
  <2> QED BY <2>2, <2>3, <2>4, <2>5, <2>6
<1>3. CASE Tunnel!Alarm /\ UNCHANGED <<Tunnel!tables, req, faults>>
  <2>1. clock' = clock /\ lease' = Lapsed
    BY <1>3, QuotaNames DEF Tunnel!Alarm
  <2> QED BY <1>1, <2>1, TimePasses
<1>4. CASE Tunnel!Tick
  <2>1. clock' = clock + 1 /\ lease' = lease
    BY <1>4 DEF Tunnel!Tick, Tunnel!quota
  <2> QED BY <1>1, <2>1, TimePasses
<1> QED BY <1>2, <1>3, <1>4 DEF Tunnel!Next

-----------------------------------------------------------------------------
(* The three together *)

ExecutionsInv ==
  /\ kind \in {"supabase", "worker", "tunnel"}
  /\ kind = "supabase" => GatewayInv
  /\ kind = "worker" => WorkerInv
  /\ kind = "tunnel" => TunnelInv

\* Whichever of the three runs, its invariant holds in every state.
LEMMA ExecutionsSafe == Spec => []ExecutionsInv
<1>1. Init => ExecutionsInv
  BY GatewayInit, WorkerInit, TunnelInit DEF Init, ExecutionsInv
<1>2. ASSUME ExecutionsInv, [Next]_vars
      PROVE  ExecutionsInv'
  <2>1. ResponseLimit \in Nat /\ ClientTimeouts \subseteq Nat
    BY ExecutionsAssumption
  <2>2. CASE kind = "supabase" /\ Supabase!Next /\ kind' = kind
    BY <1>2, <2>1, <2>2, GatewayStep DEF ExecutionsInv
  <2>3. CASE kind = "worker" /\ Worker!Next /\ kind' = kind
    BY <1>2, <2>1, <2>3, WorkerStep DEF ExecutionsInv
  <2>4. CASE kind = "tunnel" /\ Tunnel!Next /\ kind' = kind
    BY <1>2, <2>4, TunnelStep DEF ExecutionsInv
  <2>5. CASE UNCHANGED vars
    <3>1. kind' = kind
      BY <2>5 DEF vars
    <3> QED BY <1>2, <2>5, <3>1, GatewayStutters, WorkerStutters, TunnelStutters
            DEF ExecutionsInv
  <2> QED BY <1>2, <2>2, <2>3, <2>4, <2>5 DEF Next
<1> QED BY <1>1, <1>2, PTL DEF Spec

LeasesInv ==
  /\ kind = "supabase" => Few(Leased, ConcurrentHttp)
  /\ kind \in {"worker", "tunnel"} => QuotaLimits

\* Whichever of the three runs, its leases keep within the limits.
LEMMA LeasesStayFew == Spec => []LeasesInv
<1>1. Init => LeasesInv
  <2> SUFFICES ASSUME Init PROVE LeasesInv
    OBVIOUS
  <2>1. \A n \in Nat : Few({}, n)
    BY FS_EmptySet DEF Few
  <2>2. CASE Supabase!Init /\ kind = "supabase"
    <3>1. Leased = {}
      BY <2>2 DEF Supabase!Init, Supabase!NoLease, Leased
    <3> QED BY <2>1, <2>2, <3>1, ExecutionsAssumption DEF LeasesInv
  <2>3. CASE (Worker!Init \/ Tunnel!Init) /\ kind \in {"worker", "tunnel"}
    <3>1. lease = [r \in Requests |-> NoRow]
      BY <2>3, QuotaNames DEF Worker!Init, Worker!RecordingInit, Worker!QuotaInit,
         Tunnel!Init, Tunnel!RecordingInit, Tunnel!QuotaInit
    <3>2. \A r \in Requests : Lapsed[r] = NoRow
      <4>1. \A r \in Requests : lease[r] = NoRow
        BY <3>1, Zenon
      <4> QED BY <4>1, Zenon DEF Lapsed
    <3>3. Booked("http") = {} /\ Booked("websocket") = {}
      BY <3>2 DEF Booked
    <3> QED BY <2>1, <2>3, <3>3, ExecutionsAssumption DEF LeasesInv, QuotaLimits
  <2> QED BY <2>2, <2>3 DEF Init
<1>2. ASSUME ExecutionsInv, LeasesInv, [Next]_vars
      PROVE  LeasesInv'
  <2>1. CASE kind = "supabase" /\ Supabase!Next /\ kind' = kind
    BY <1>2, <2>1, GatewayLeases DEF ExecutionsInv, LeasesInv
  <2>2. CASE kind = "worker" /\ Worker!Next /\ kind' = kind
    BY <1>2, <2>2, WorkerLeases DEF ExecutionsInv, LeasesInv
  <2>3. CASE kind = "tunnel" /\ Tunnel!Next /\ kind' = kind
    BY <1>2, <2>3, TunnelLeases DEF ExecutionsInv, LeasesInv
  <2>4. CASE UNCHANGED vars
    <3>1. kind' = kind /\ lease' = lease /\ clock' = clock
      BY <2>4 DEF vars
    <3> QED BY <1>2, <3>1 DEF LeasesInv, Leased, QuotaLimits, Booked, Lapsed
  <2> QED BY <1>2, <2>1, <2>2, <2>3, <2>4 DEF Next
<1> QED BY <1>1, <1>2, ExecutionsSafe, PTL DEF Spec

\* Those are the leases the quota counts.
LEMMA LeasesAreCounted ==
  ASSUME LeasesInv
  PROVE  /\ kind = "supabase" =>
              Supabase!Cardinality({r \in Requests : Supabase!Live(r)}) <= ConcurrentHttp
         /\ kind = "worker" => Worker!LeasesWithinLimits
         /\ kind = "tunnel" => Tunnel!LeasesWithinLimits
<1>1. Leased = {r \in Requests : Supabase!Live(r)}
  BY DEF Leased, Supabase!Live, Supabase!LeaseTicks
<1>2. kind = "supabase" => Cardinality(Leased) <= ConcurrentHttp
  BY DEF LeasesInv, Few
<1>3. kind \in {"worker", "tunnel"} =>
        /\ Cardinality(Booked("http")) <= ConcurrentHttp
        /\ Cardinality(Booked("websocket")) <= ConcurrentTunnels
  BY DEF LeasesInv, QuotaLimits, Few
<1>4. kind = "worker" => Worker!LeasesWithinLimits
  BY <1>3, Counts DEF Worker!LeasesWithinLimits
<1>5. kind = "tunnel" => Tunnel!LeasesWithinLimits
  BY <1>3, Counts DEF Tunnel!LeasesWithinLimits
<1> QED BY <1>1, <1>2, <1>4, <1>5, OneCardinality

(* What waits for its target or streams holds a lease that counts it, in    *)
(* each adapter, however long its upload took and whatever calls were lost; *)
(* a bridge without one has missed a whole lease of renewals; and the       *)
(* leases that count are never more than the limits of the token.           *)
THEOREM WorkIsLeasedHolds == Spec => []WorkIsLeased
<1>1. ASSUME ExecutionsInv, LeasesInv
      PROVE  WorkIsLeased
  <2>1. kind = "supabase" => Supabase!WorkIsLeased
    BY <1>1, GatewayPromises, LeasesAreCounted DEF ExecutionsInv, Supabase!WorkIsLeased
  <2> QED BY <1>1, <2>1, WorkerPromises, TunnelPromises, LeasesAreCounted
          DEF ExecutionsInv, WorkIsLeased
<1> QED BY <1>1, ExecutionsSafe, LeasesStayFew, PTL

(* One terminal event and one report at most, and the report says recorded  *)
(* only with its event, through lost answers, repeated completions and      *)
(* batches that failed or only seemed to.                                   *)
THEOREM EndsOnceOnRecordHolds == Spec => []EndsOnceOnRecord
<1>1. ExecutionsInv => EndsOnceOnRecord
  BY GatewayPromises, WorkerPromises, TunnelPromises DEF ExecutionsInv, EndsOnceOnRecord
<1> QED BY <1>1, ExecutionsSafe, PTL

(* A Cloudflare request is charged every byte it relayed, and more than     *)
(* those only when its lease had run out before the release.                *)
THEOREM ChargedInFullHolds == Spec => []ChargedInFull
<1>1. ExecutionsInv => ChargedInFull
  BY WorkerPromises DEF ExecutionsInv, ChargedInFull
<1> QED BY <1>1, ExecutionsSafe, PTL

(* An execution that met no fault leaves no lease behind; on Supabase only  *)
(* two faults in a row leave it unfinalized.                                *)
THEOREM LeftoverOnlyByFaultHolds == Spec => []LeftoverOnlyByFault
<1>1. ExecutionsInv => LeftoverOnlyByFault
  BY GatewayPromises, WorkerPromises, TunnelPromises DEF ExecutionsInv, LeftoverOnlyByFault
<1> QED BY <1>1, ExecutionsSafe, PTL
=============================================================================
