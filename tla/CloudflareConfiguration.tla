---------------------- MODULE CloudflareConfiguration ----------------------
(***************************************************************************)
(* The runtime configuration of the Cloudflare adapter: its creation by    *)
(* whichever request comes first (ensureInstance in storage.ts) and the    *)
(* two routes that change it (control-configuration-routes.ts), where the  *)
(* audit event and the row are written in one D1 batch, each on condition  *)
(* that the stored version is still the one the administrator named.       *)
(*                                                                         *)
(* Workers run any number of requests at once.  A refused PUT (409, 428)   *)
(* changes nothing and is no step.                                         *)
(***************************************************************************)
EXTENDS Naturals, Sequences

CONSTANTS
  Clients,     \* administrators at work, each with one request at a time
  Policies,    \* system policies; NoRules, that of DEFAULT_CONFIG, is one
  NoRules,
  MaxChanges,  \* bound: configuration changes
  MaxClock     \* bound: the clock stays in 0..MaxClock

ASSUME ConfigurationAssumption ==
  /\ NoRules \in Policies
  /\ MaxChanges \in Nat /\ MaxClock \in Nat

VARIABLES
  row,      \* instance_state; revision 0: no row yet
  seen,     \* seen[c]: the configuration c fetched last; revision 0: none
  pc, loc,  \* progress and locals of each client's request
  ledger,   \* audit events of the changes, in commit order
  clock

vars == <<row, seen, pc, loc, ledger, clock>>

Changes == ({"policy"} \X Policies) \cup ({"paused"} \X BOOLEAN)

Content(r) == [policy |-> r.policy, paused |-> r.paused]

\* createConfigVersion: time, revision and a digest of the configuration,
\* which does not include the pause flag.
ConfigVersion(revision, policy, t) == <<t, revision, policy>>

\* DEFAULT_CONFIG as defaultConfigRecord stores it at time t
Default(t) ==
  [policy |-> NoRules, paused |-> FALSE, revision |-> 1,
   version |-> ConfigVersion(1, NoRules, t)]

NoRow == [Default(0) EXCEPT !.revision = 0]

NoLocals == [at |-> 0, expected |-> NoRow.version, next |-> NoRow]

Init ==
  /\ row = NoRow
  /\ seen = [c \in Clients |-> NoRow]
  /\ pc = [c \in Clients |-> "idle"]
  /\ loc = [c \in Clients |-> NoLocals]
  /\ ledger = <<>>
  /\ clock = 0

Goto(c, label, locals) ==
  /\ pc' = [pc EXCEPT ![c] = label]
  /\ loc' = [loc EXCEPT ![c] = locals]

-----------------------------------------------------------------------------
(* ensureInstance.  A PUT names a version, so its row exists; only a GET   *)
(* can find none, insert the default and select again.                     *)

Get(c) ==
  /\ pc[c] \in {"idle", "selectAgain"}
  /\ row.revision # 0
  /\ seen' = [seen EXCEPT ![c] = row]
  /\ Goto(c, "idle", NoLocals)
  /\ UNCHANGED <<row, ledger, clock>>

FindNoInstance(c) ==
  /\ pc[c] = "idle"
  /\ row.revision = 0
  /\ Goto(c, "insert", [NoLocals EXCEPT !.at = clock])
  /\ UNCHANGED <<row, seen, ledger, clock>>

\* INSERT OR IGNORE of the default configuration of time t
Inserted_OrReplaced(t) == Default(t)
Inserted(t) == IF row.revision = 0 THEN Default(t) ELSE row

InsertInstance(c) ==
  /\ pc[c] = "insert"
  /\ row' = Inserted(loc[c].at)
  /\ Goto(c, "selectAgain", NoLocals)
  /\ UNCHANGED <<seen, ledger, clock>>

-----------------------------------------------------------------------------
(* updateConfiguration *)

\* One field of the stored configuration is replaced.
Updated(r, change) ==
  IF change[1] = "policy" THEN [r EXCEPT !.policy = change[2]]
                          ELSE [r EXCEPT !.paused = change[2]]

\* The row that follows r at time t
Prepared(r, change, t) ==
  LET changed == Updated(r, change)
  IN [policy |-> changed.policy, paused |-> changed.paused,
      revision |-> r.revision + 1,
      version |-> ConfigVersion(r.revision + 1, changed.policy, t)]

PutRead(c, change) ==
  /\ pc[c] = "idle"
  /\ seen[c].revision # 0
  /\ seen[c].version = row.version
  /\ Goto(c, "batch", [at |-> clock, expected |-> seen[c].version,
                       next |-> Prepared(row, change, clock)])
  /\ UNCHANGED <<row, seen, ledger, clock>>

\* WHERE config_version = ?, in both statements of the batch
VersionHolds(c) == row.version = loc[c].expected

PutCommit(c) ==
  /\ pc[c] = "batch"
  /\ VersionHolds(c)
  /\ Len(ledger) < MaxChanges
  /\ row' = loc[c].next
  /\ ledger' = Append(ledger, [after |-> loc[c].next.version,
                               seen |-> Content(seen[c]),
                               replaced |-> Content(row)])
  /\ Goto(c, "idle", NoLocals)
  /\ UNCHANGED <<seen, clock>>

\* Overtaken, or the batch failed and was rolled back.
PutRefused(c) ==
  /\ pc[c] = "batch"
  /\ Goto(c, "idle", NoLocals)
  /\ UNCHANGED <<row, seen, ledger, clock>>

Tick ==
  /\ clock < MaxClock
  /\ clock' = clock + 1
  /\ UNCHANGED <<row, seen, pc, loc, ledger>>

Next ==
  \/ \E c \in Clients :
       \/ Get(c) \/ FindNoInstance(c) \/ InsertInstance(c)
       \/ PutCommit(c) \/ PutRefused(c)
       \/ \E change \in Changes : PutRead(c, change)
  \/ Tick

Spec == Init /\ [][Next]_vars

-----------------------------------------------------------------------------
(* Properties *)

\* Every change replaced the very configuration its author had fetched, also
\* when the clock has not moved between two changes.
NothingUnseenReplaced ==
  \A i \in 1 .. Len(ledger) : ledger[i].seen = ledger[i].replaced

\* The row counts from its creation on; before, it is the default to come.
Shared ==
  INSTANCE SharedConfiguration
    WITH content <- Content(row),
         revision <- IF row.revision = 0 THEN 1 ELSE row.revision

\* Changes made at the same time take effect one after another, each on the
\* configuration in force (updateConfiguration and its conditional batch).
ImplementsSharedConfiguration == Shared!Spec
=============================================================================
