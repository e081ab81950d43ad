------------------------- MODULE NodeConfiguration -------------------------
(***************************************************************************)
(* The runtime configuration of the Node adapter and the two routes that   *)
(* change it (adapters/node/src/configuration.ts and the config routes of  *)
(* control-management-routes.ts).                                          *)
(*                                                                         *)
(* A PUT carries the version the administrator has seen.  The handler      *)
(* reads the row, compares versions in the process, prepares the next row  *)
(* from what it read and then writes it with its audit event in one        *)
(* transaction, whose UPDATE names no version.  A refused PUT (409, 428)   *)
(* changes nothing and is no step.                                         *)
(***************************************************************************)
EXTENDS Naturals, Sequences

CONSTANTS
  Clients,     \* administrators at work, each with one request at a time
  Policies,    \* policy sets; NoRules, the empty allowlist, is one of them
  NoRules,
  MaxChanges,  \* bound: configuration changes
  MaxClock     \* bound: the clock stays in 0..MaxClock

VARIABLES
  row,        \* instance_config: the stored configuration
  seen,       \* seen[c]: the configuration c fetched last
  pc, loc,    \* progress and locals of each client's PUT
  ledger,     \* audit events of the changes, in commit order
  clock,
  overlapped  \* history: a PUT committed over a row it had not read

vars == <<row, seen, pc, loc, ledger, clock, overlapped>>

Changes == ({"policy"} \X Policies) \cup ({"paused"} \X BOOLEAN)

Content(r) == [policy |-> r.policy, paused |-> r.paused]

\* initialize and defaultPolicy
Default ==
  [policy |-> NoRules, paused |-> FALSE, policyRevision |-> 0, revision |-> 0,
   version |-> <<0, 0>>]

NoLocals == [before |-> Default, next |-> Default, field |-> "none"]

Init ==
  /\ row = Default
  /\ seen = [c \in Clients |-> Default]
  /\ pc = [c \in Clients |-> "idle"]
  /\ loc = [c \in Clients |-> NoLocals]
  /\ ledger = <<>>
  /\ clock = 0
  /\ overlapped = FALSE

-----------------------------------------------------------------------------
Get(c) ==
  /\ pc[c] = "idle"
  /\ seen' = [seen EXCEPT ![c] = row]
  /\ UNCHANGED <<row, pc, loc, ledger, clock, overlapped>>

\* prepareUpdate and prepareGatewayPaused: the row that follows r at time t.
Prepared(r, change, t) ==
  LET touched == [r EXCEPT !.revision = @ + 1,
                           !.version = <<t, r.revision + 1>>]
  IN IF change[1] = "policy"
     THEN [touched EXCEPT !.policy = change[2], !.policyRevision = @ + 1]
     ELSE [touched EXCEPT !.paused = change[2]]

\* If-Match against the stored version, and for a policy its own revision.
VersionMatches_NotChecked(c, change) == TRUE
VersionMatches(c, change) ==
  /\ seen[c].version = row.version
  /\ change[1] = "policy" => seen[c].policyRevision = row.policyRevision

PutRead(c, change) ==
  /\ pc[c] = "idle"
  /\ VersionMatches(c, change)
  /\ pc' = [pc EXCEPT ![c] = "write"]
  /\ loc' = [loc EXCEPT ![c] = [before |-> row, field |-> change[1],
                                next |-> Prepared(row, change, clock)]]
  /\ UNCHANGED <<row, seen, ledger, clock, overlapped>>

\* The audit event, with the content its author saw and the one it replaced.
Entry(c) ==
  [field |-> loc[c].field, before |-> loc[c].before.version,
   after |-> loc[c].next.version, seen |-> Content(seen[c]),
   replaced |-> Content(row)]

PutCommit(c) ==
  /\ pc[c] = "write"
  /\ Len(ledger) < MaxChanges
  /\ row' = loc[c].next
  /\ ledger' = Append(ledger, Entry(c))
  /\ overlapped' = (overlapped \/ row # loc[c].before)
  /\ pc' = [pc EXCEPT ![c] = "idle"]
  /\ loc' = [loc EXCEPT ![c] = NoLocals]
  /\ UNCHANGED <<seen, clock>>

\* What is left of the row when the audit append, or the commit, fails.
RolledBack(c) == row

PutFail(c) ==
  /\ pc[c] = "write"
  /\ row' = RolledBack(c)
  /\ pc' = [pc EXCEPT ![c] = "idle"]
  /\ loc' = [loc EXCEPT ![c] = NoLocals]
  /\ UNCHANGED <<seen, ledger, clock, overlapped>>

Tick ==
  /\ clock < MaxClock
  /\ clock' = clock + 1
  /\ UNCHANGED <<row, seen, pc, loc, ledger, overlapped>>

Next ==
  \/ \E c \in Clients :
       \/ Get(c) \/ PutCommit(c) \/ PutFail(c)
       \/ \E change \in Changes : PutRead(c, change)
  \/ Tick

Spec == Init /\ [][Next]_vars

-----------------------------------------------------------------------------
(* Properties *)

\* The row in force is the one the last audit event of a change describes:
\* a change and its event commit together or not at all.
LedgerCurrent ==
  row.version = IF ledger = <<>> THEN Default.version
                ELSE ledger[Len(ledger)].after

\* Every change replaced the very configuration its author had fetched.
NothingUnseenReplaced ==
  \A i \in 1 .. Len(ledger) : ledger[i].seen = ledger[i].replaced

\* The version check does keep that promise as long as no two PUTs overlap,
\* however far apart an administrator's GET and PUT are and even when the
\* clock has not moved between two changes.
SafeUnlessOverlapped == overlapped \/ NothingUnseenReplaced
=============================================================================
