---------------------------- MODULE AuditLedger ----------------------------
(***************************************************************************)
(* The audit ledger of the three adapters: events are built and signed     *)
(* before they are written, so that they reach the table in another order  *)
(* than they happened; the administrator walks through the table a page    *)
(* at a time, from the newest event on, while it grows and, on Cloudflare, *)
(* expires.  A signature is a Boolean: does the row still verify.          *)
(***************************************************************************)
EXTENDS Naturals, Sequences, FiniteSets, SequencesExt

CONSTANTS
  Writers,    \* ids of the events, positive numbers because ids order
  Limit,      \* events on a page
  MaxClock,   \* bound: distinct times of day
  MaxAltered  \* bound: rows of Supabase changed behind its back

VARIABLES
  platform,   \* node, cloudflare or supabase
  clock,
  writer,     \* pc, the time the event bears, its sequence number
  rows,       \* the table
  issued,     \* the last sequence number given out
  walk,       \* pc, cursor, the events shown, those there when it began
  degraded,   \* audit_degraded of Supabase
  altered     \* how often MaxAltered was used

auditVars ==
  <<platform, clock, writer, rows, issued, walk, degraded, altered>>

NoRow == [id |-> 0, stamp |-> 0, seq |-> 0, previous |-> 0, whole |-> FALSE]

Init ==
  /\ platform \in {"node", "cloudflare", "supabase"}
  /\ clock = 0 /\ rows = {} /\ issued = 0 /\ degraded = FALSE /\ altered = 0
  /\ writer = [w \in Writers |-> [pc |-> "idle", stamp |-> 0, seq |-> 0]]
  /\ walk = [pc |-> "idle", cursor |-> NoRow, shown |-> <<>>, began |-> {},
             altered |-> FALSE]

Stored == {row.id : row \in rows}

Tick ==
  /\ clock < MaxClock
  /\ clock' = clock + 1
  /\ UNCHANGED <<platform, writer, rows, issued, walk, degraded, altered>>

-----------------------------------------------------------------------------
(* prepare, buildAuditEvent, createAuditEvent: time, hash and signature    *)
(* are fixed here; the row is written after further awaits, or never if    *)
(* the statements around it fail.                                          *)
Prepare(w) ==
  /\ writer[w].pc = "idle"
  /\ writer' =
       [writer EXCEPT ![w] = [pc |-> "prepared", stamp |-> clock, seq |-> issued]]
  /\ UNCHANGED <<platform, clock, rows, issued, walk, degraded, altered>>

(* (SELECT content_sha256 ... ORDER BY sequence DESC LIMIT 1) inside the   *)
(* INSERT: what is last when the row is written.                           *)
Numbered(seq) == {row \in rows : row.seq = seq}
Previous_AtPrepare(w) ==
  IF Numbered(writer[w].seq) = {} THEN 0 ELSE (CHOOSE row \in Numbered(writer[w].seq) : TRUE).id
Previous(w) == IF Numbered(issued) = {} THEN 0 ELSE (CHOOSE row \in Numbered(issued) : TRUE).id

Written(w, seq, previous) ==
  rows' = rows \cup {[id |-> w, stamp |-> writer[w].stamp, seq |-> seq,
                      previous |-> previous, whole |-> TRUE]}

(* Node: one writer at a time, the sequence number follows the commit.     *)
NodeAppends(w) ==
  /\ platform = "node" /\ writer[w].pc = "prepared"
  /\ Written(w, issued + 1, Previous(w))
  /\ issued' = issued + 1
  /\ writer' = [writer EXCEPT ![w].pc = "committed"]
  /\ UNCHANGED <<platform, clock, walk, degraded, altered>>

(* Cloudflare: no sequence; events are ordered by their time, then by id.  *)
CloudflareAppends(w) ==
  /\ platform = "cloudflare" /\ writer[w].pc = "prepared"
  /\ Written(w, 0, 0)
  /\ writer' = [writer EXCEPT ![w].pc = "committed"]
  /\ UNCHANGED <<platform, clock, issued, walk, degraded, altered>>

(* Supabase: the identity column is drawn when append_audit inserts, the   *)
(* row is seen when the function around it commits.                        *)
SupabaseInserts(w) ==
  /\ platform = "supabase" /\ writer[w].pc = "prepared"
  /\ issued' = issued + 1
  /\ writer' =
       [writer EXCEPT ![w] = [@ EXCEPT !.pc = "inserted", !.seq = issued + 1]]
  /\ UNCHANGED <<platform, clock, rows, walk, degraded, altered>>

SupabaseCommits(w) ==
  /\ platform = "supabase" /\ writer[w].pc = "inserted"
  /\ Written(w, writer[w].seq, 0)
  /\ writer' = [writer EXCEPT ![w].pc = "committed"]
  /\ UNCHANGED <<platform, clock, issued, walk, degraded, altered>>

(* purgeExpiredRecords, of Cloudflare only.                                *)
Purge(cutoff) ==
  /\ platform = "cloudflare"
  /\ rows' = {row \in rows : row.stamp >= cutoff}
  /\ rows' # rows
  /\ UNCHANGED <<platform, clock, writer, issued, walk, degraded, altered>>

Alter(row) ==
  /\ platform = "supabase"
  /\ altered < MaxAltered /\ altered' = altered + 1
  /\ rows' = (rows \ {row}) \cup {[row EXCEPT !.whole = FALSE]}
  /\ UNCHANGED <<platform, clock, writer, issued, walk, degraded>>

-----------------------------------------------------------------------------
(* ORDER BY sequence DESC, or ORDER BY occurred_at DESC, event_id DESC     *)
Before(a, b) ==
  IF platform = "cloudflare"
  THEN a.stamp < b.stamp \/ (a.stamp = b.stamp /\ a.id < b.id)
  ELSE a.seq < b.seq

(* WHERE sequence < ?, or occurred_at < ? OR (occurred_at = ? AND ...)     *)
PastCursor_ByTime(row, cursor) ==
  IF platform = "cloudflare" THEN row.stamp < cursor.stamp ELSE row.seq < cursor.seq
PastCursor(row, cursor) == Before(row, cursor)

Remaining ==
  {row \in rows : walk.cursor = NoRow \/ PastCursor(row, walk.cursor)}

(* The newest first: the row at place i has i - 1 newer ones.              *)
Newer(row, set) == {other \in set : Before(row, other)}
Page ==
  [i \in 1 .. Min({Limit, Cardinality(Remaining)}) |->
     CHOOSE row \in Remaining : Cardinality(Newer(row, Remaining)) = i - 1]

(* Node and Supabase name a next page when this one is full, Cloudflare    *)
(* when it saw one row more.                                               *)
HasNext ==
  IF platform = "cloudflare" THEN Cardinality(Remaining) > Limit
  ELSE Len(Page) = Limit

IdsOf(page) == [i \in DOMAIN page |-> page[i].id]

WalkBegins ==
  /\ walk.pc = "idle"
  /\ walk' = [walk EXCEPT !.pc = "reading", !.began = Stored \ {0}]
  /\ UNCHANGED <<platform, clock, writer, rows, issued, degraded, altered>>

(* Supabase verifies every row before it shows any; one that fails stops   *)
(* the answer.  Node and Cloudflare return rows with their signatures.     *)
Verified(page) ==
  platform = "supabase" => \A i \in DOMAIN page : page[i].whole

ReadPage ==
  /\ walk.pc = "reading"
  /\ walk' =
       IF ~Verified(Page) THEN [walk EXCEPT !.pc = "mark"]
       ELSE [walk EXCEPT
               !.shown = @ \o IdsOf(Page),
               !.altered = @ \/ \E i \in DOMAIN Page : ~Page[i].whole,
               !.cursor = IF HasNext THEN Page[Len(Page)] ELSE @,
               !.pc = IF HasNext THEN "reading" ELSE "done"]
  /\ UNCHANGED <<platform, clock, writer, rows, issued, degraded, altered>>

(* markAuditIntegrityFailure: the instance is degraded, with one event for *)
(* the first time, before 503 is answered; or the call fails.              *)
MarkDegraded ==
  /\ platform = "supabase" /\ walk.pc = "mark"
  /\ walk' = [walk EXCEPT !.pc = "stopped"]
  /\ \/ /\ degraded' = TRUE
        /\ IF degraded THEN UNCHANGED <<rows, issued>>
           ELSE /\ issued' = issued + 1
                /\ rows' = rows \cup {[NoRow EXCEPT !.stamp = clock, !.whole = TRUE,
                                                    !.seq = issued + 1]}
     \/ UNCHANGED <<rows, issued, degraded>>
  /\ UNCHANGED <<platform, clock, writer, altered>>

Next ==
  \/ Tick \/ WalkBegins \/ ReadPage \/ MarkDegraded
  \/ \E w \in Writers :
       \/ Prepare(w) \/ NodeAppends(w) \/ CloudflareAppends(w)
       \/ SupabaseInserts(w) \/ SupabaseCommits(w)
  \/ \E cutoff \in 1..MaxClock : Purge(cutoff)
  \/ \E row \in rows : Alter(row)

Spec == Init /\ [][Next]_auditVars

-----------------------------------------------------------------------------
(* A walk that came to its end has shown every event that was there when   *)
(* it began and still is, and none twice, whatever was appended between    *)
(* its pages, under whatever time and number.                              *)
WalkIsWhole ==
  walk.pc = "done" =>
    /\ walk.began \cap Stored \subseteq ToSet(walk.shown)
    /\ IsInjective(walk.shown)

(* Node: each event names the hash of the one before it in the table,      *)
(* although many are prepared before any is written.                       *)
ChainUnbroken ==
  platform = "node" =>
    \A row \in rows :
      IF row.seq = 1 THEN row.previous = 0
      ELSE \E before \in rows : before.seq = row.seq - 1 /\ before.id = row.previous

(* Supabase: an event that does not verify is never shown.                 *)
ShownIsGenuine == platform = "supabase" => ~walk.altered
=============================================================================
