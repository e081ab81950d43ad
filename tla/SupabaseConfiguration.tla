----------------------- MODULE SupabaseConfiguration -----------------------
(***************************************************************************)
(* The runtime configuration of the Supabase adapter: the two routes that  *)
(* change it (functions/one-fetch-control/configuration-routes.ts) and the *)
(* database function they end in, of_update_config, which locks the row,   *)
(* compares revisions, files the new revision and appends the audit event. *)
(*                                                                         *)
(* A version is a time and a digest of the configuration, without the      *)
(* revision, so it may come back; config_revisions has it UNIQUE.  A PUT   *)
(* refused before of_update_config (409, 428) changes nothing and is no    *)
(* step.                                                                   *)
(***************************************************************************)
EXTENDS Naturals, Sequences

CONSTANTS
  Clients,     \* administrators at work, each with one request at a time
  Policies,    \* policy sets; NoRules, that of the bootstrap, is one
  NoRules,
  MaxChanges,  \* bound: configuration changes
  MaxClock     \* bound: the clock stays in 0..MaxClock

VARIABLES
  row,       \* instance_state, once of_bootstrap_admin_session has run
  filed,     \* the versions in config_revisions
  seen,      \* seen[c]: the configuration c fetched last
  pc, loc,   \* progress and locals of each client's PUT
  ledger,    \* audit events of the changes, in commit order
  clock

vars == <<row, filed, seen, pc, loc, ledger, clock>>

Changes == ({"policy"} \X Policies) \cup ({"paused"} \X BOOLEAN)

Content(r) == [policy |-> r.policy, paused |-> r.paused]

\* configVersion; the digest tells apart what the configuration holds.
ConfigVersion(r, t) == <<t, r.policy, r.policyRevision, r.paused>>

Default ==
  LET r == [policy |-> NoRules, policyRevision |-> 0, paused |-> FALSE]
  IN [policy |-> NoRules, policyRevision |-> 0, paused |-> FALSE,
      revision |-> 0, version |-> ConfigVersion(r, 0)]

Init ==
  /\ row = Default
  /\ filed = {Default.version}
  /\ seen = [c \in Clients |-> Default]
  /\ pc = [c \in Clients |-> "idle"]
  /\ loc = [c \in Clients |-> Default]
  /\ ledger = <<>>
  /\ clock = 0

-----------------------------------------------------------------------------
Get(c) ==
  /\ pc[c] = "idle"
  /\ seen' = [seen EXCEPT ![c] = row]
  /\ UNCHANGED <<row, filed, pc, loc, ledger, clock>>

\* One field of the stored configuration is replaced.
Updated(r, change) ==
  IF change[1] = "policy" THEN [r EXCEPT !.policy = change[2]]
                          ELSE [r EXCEPT !.paused = change[2]]

\* As Prepared, without the fields of the current configuration spread in
Prepared_NotSpread(r, change, t) ==
  LET changed == [Updated(Default, change) EXCEPT
                    !.revision = r.revision + 1,
                    !.policyRevision = r.policyRevision + 1]
  IN [changed EXCEPT !.version = ConfigVersion(changed, t)]

\* persistConfiguration: the row that follows r at time t
Prepared(r, change, t) ==
  LET changed ==
        [Updated(r, change) EXCEPT !.revision = @ + 1,
           !.policyRevision = IF change[1] = "policy" THEN @ + 1 ELSE @]
  IN [changed EXCEPT !.version = ConfigVersion(changed, t)]

PutRead(c, change) ==
  /\ pc[c] = "idle"
  /\ seen[c].version = row.version
  /\ change[1] = "policy" => seen[c].policyRevision = row.policyRevision
  /\ pc' = [pc EXCEPT ![c] = "update"]
  /\ loc' = [loc EXCEPT ![c] = Prepared(row, change, clock)]
  /\ UNCHANGED <<row, filed, seen, ledger, clock>>

\* config_revision against p_expected_revision, under FOR UPDATE
RevisionHolds(c) == row.revision + 1 = loc[c].revision

PutCommit(c) ==
  /\ pc[c] = "update"
  /\ RevisionHolds(c)
  /\ loc[c].version \notin filed
  /\ Len(ledger) < MaxChanges
  /\ row' = [loc[c] EXCEPT !.revision = row.revision + 1]
  /\ filed' = filed \cup {loc[c].version}
  /\ ledger' = Append(ledger, [after |-> loc[c].version,
                               seen |-> Content(seen[c]),
                               replaced |-> Content(row)])
  /\ pc' = [pc EXCEPT ![c] = "idle"]
  /\ loc' = [loc EXCEPT ![c] = Default]
  /\ UNCHANGED <<seen, clock>>

\* Overtaken (409), a version filed before, or a failed call (503)
PutRefused(c) ==
  /\ pc[c] = "update"
  /\ pc' = [pc EXCEPT ![c] = "idle"]
  /\ loc' = [loc EXCEPT ![c] = Default]
  /\ UNCHANGED <<row, filed, seen, ledger, clock>>

Tick ==
  /\ clock < MaxClock
  /\ clock' = clock + 1
  /\ UNCHANGED <<row, filed, seen, pc, loc, ledger>>

Next ==
  \/ \E c \in Clients :
       \/ Get(c) \/ PutCommit(c) \/ PutRefused(c)
       \/ \E change \in Changes : PutRead(c, change)
  \/ Tick

Spec == Init /\ [][Next]_vars

-----------------------------------------------------------------------------
(* Properties *)

\* Every change replaced the very configuration its author had fetched, also
\* when a pause and a resume within one tick bring a digest back.
NothingUnseenReplaced ==
  \A i \in 1 .. Len(ledger) : ledger[i].seen = ledger[i].replaced

Shared ==
  INSTANCE SharedConfiguration
    WITH content <- Content(row), revision <- row.revision

\* Changes made at the same time take effect one after another, each on the
\* configuration in force (of_update_config and its revision check).
ImplementsSharedConfiguration == Shared!Spec
=============================================================================
