-------------------------- MODULE MCAdministration --------------------------
(***************************************************************************)
(* What administrators run against an instance: changes of its             *)
(* configuration (MCConfigurations), the deployment helpers of the three   *)
(* adapters, two invocations at once, and two tabs of the Admin console.   *)
(* The variable subject says which of them a behaviour is about; the       *)
(* variables of the others stay as they are.                               *)
(***************************************************************************)
EXTENDS MCConfigurations

CONSTANTS
  Helpers,                            \* runs of a deployment helper
  Versions, Migrations, MaxConfig,    \* of NodeDeployment
  Machines, Builds, Schema,           \* of CloudflareDeployment
  MaxRevision, CloudflareFaults,
  EdgeBuilds, EdgeSchema, EdgeFaults, \* of SupabaseDeployment
  Tabs, Calls, Profiles, Endpoints,   \* of AdminSession
  MaxPairs, MaxLoads, MaxMoves

\* The migrations of a version are a list, a schema is a number; "none" is no
\* helper, version, build or instance; the Cloudflare helper runs on some
\* machine; a profile and an endpoint are saved.
ASSUME AdministrationAssumption ==
  /\ Migrations \in [Versions -> Seq(STRING)]
  /\ "none" \notin Helpers \cup Versions \cup Builds \cup EdgeBuilds \cup Profiles
  /\ Schema \in [Builds -> Nat \ {0}] /\ EdgeSchema \in [EdgeBuilds -> Nat \ {0}]
  /\ Machines # {} /\ Profiles # {} /\ Endpoints # {} /\ MaxPairs \in Nat

VARIABLES
  lock, pointer, dirs, nodeBackups, schemaLedger, config, launching, running, nodeOp,
  journal, effects,
  host, coordination, d1, d1Schema, active, d1Paused, d1Backups, stateFile, cloudflareOp,
  foreign, past, cloudflareFaults,
  dep, fn, schema, paused, backups, record, supabaseOp, faults,
  stored, local, own, consumed, tab, op, pairs, presented, loads, moves

Node ==
  INSTANCE NodeDeployment WITH
    ledger <- schemaLedger, backups <- nodeBackups, op <- nodeOp

Cloudflare ==
  INSTANCE CloudflareDeployment WITH
    MaxFaults <- CloudflareFaults,
    row <- coordination, schema <- d1Schema, paused <- d1Paused, backups <- d1Backups,
    local <- stateFile, op <- cloudflareOp, faults <- cloudflareFaults

Supabase ==
  INSTANCE SupabaseDeployment WITH
    Builds <- EdgeBuilds, Schema <- EdgeSchema, MaxFaults <- EdgeFaults,
    op <- supabaseOp

Console == INSTANCE AdminSession

nodeVars ==
  <<lock, pointer, dirs, nodeBackups, schemaLedger, config, launching, running, nodeOp,
    journal, effects>>
cloudflareVars ==
  <<host, coordination, d1, d1Schema, active, d1Paused, d1Backups, stateFile, cloudflareOp,
    foreign, past, cloudflareFaults>>
supabaseVars == <<dep, fn, schema, paused, backups, record, supabaseOp, faults>>
consoleVars ==
  <<stored, local, own, consumed, tab, op, pairs, presented, loads, moves>>

\* The parts a behaviour is not about
NodeStill ==
  /\ lock = 0 /\ pointer = 0 /\ dirs = 0 /\ nodeBackups = 0
  /\ schemaLedger = 0 /\ config = 0 /\ launching = 0 /\ running = 0
  /\ nodeOp = 0 /\ journal = 0 /\ effects = 0
CloudflareStill ==
  /\ host = 0 /\ coordination = 0 /\ d1 = 0 /\ d1Schema = 0
  /\ active = 0 /\ d1Paused = 0 /\ d1Backups = 0 /\ stateFile = 0
  /\ cloudflareOp = 0 /\ foreign = 0 /\ past = 0 /\ cloudflareFaults = 0
SupabaseStill ==
  /\ dep = 0 /\ fn = 0 /\ schema = 0 /\ paused = 0
  /\ backups = 0 /\ record = 0 /\ supabaseOp = 0 /\ faults = 0
ConsoleStill ==
  /\ stored = 0 /\ local = 0 /\ own = 0 /\ consumed = 0
  /\ tab = 0 /\ op = 0 /\ pairs = 0 /\ presented = 0
  /\ loads = 0 /\ moves = 0

AdministrationInit ==
  \/ /\ ConfigurationsInit
     /\ NodeStill /\ CloudflareStill /\ SupabaseStill /\ ConsoleStill
  \/ /\ subject = "node" /\ Node!Init /\ ConfigurationsStill
     /\ CloudflareStill /\ SupabaseStill /\ ConsoleStill
  \/ /\ subject = "cloudflare" /\ Cloudflare!Init /\ ConfigurationsStill
     /\ NodeStill /\ SupabaseStill /\ ConsoleStill
  \/ /\ subject = "supabase" /\ Supabase!Init /\ ConfigurationsStill
     /\ NodeStill /\ CloudflareStill /\ ConsoleStill
  \/ /\ subject = "console" /\ Console!Init /\ ConfigurationsStill
     /\ NodeStill /\ CloudflareStill /\ SupabaseStill

NodeNext ==
  /\ subject = "node" /\ Node!Next
  /\ UNCHANGED <<subject, configurationsVars, cloudflareVars, supabaseVars, consoleVars>>
CloudflareNext ==
  /\ subject = "cloudflare" /\ Cloudflare!Next
  /\ UNCHANGED <<subject, configurationsVars, nodeVars, supabaseVars, consoleVars>>
SupabaseNext ==
  /\ subject = "supabase" /\ Supabase!Next
  /\ UNCHANGED <<subject, configurationsVars, nodeVars, cloudflareVars, consoleVars>>
ConsoleNext ==
  /\ subject = "console" /\ Console!Next
  /\ UNCHANGED <<subject, configurationsVars, nodeVars, cloudflareVars, supabaseVars>>

AdministrationNext ==
  \/ /\ ConfigurationsNext
     /\ UNCHANGED <<nodeVars, cloudflareVars, supabaseVars, consoleVars>>
  \/ NodeNext \/ CloudflareNext \/ SupabaseNext \/ ConsoleNext

administrationVars ==
  <<subject, configurationsVars, nodeVars, cloudflareVars, supabaseVars, consoleVars>>

AdministrationSpec ==
  AdministrationInit /\ [][AdministrationNext]_administrationVars

-----------------------------------------------------------------------------
(* The instance that TLC checks *)

CONSTANTS
  u1, u2,  \* who acts: an administrator, a run of a helper or a tab
  w1, w2   \* a machine of the Cloudflare helper, or a call of a tab

Symmetry == Permutations({u1, u2}) \cup Permutations({w1, w2})

\* v2 keeps the schema of v1, v3 extends it, v4 replaces a migration.
Released ==
  [v1 |-> <<"a">>, v2 |-> <<"a">>, v3 |-> <<"a", "b">>, v4 |-> <<"a", "x">>]
SchemaOfBuild == [b1 |-> 1, b2 |-> 2]
SchemaOfEdgeBuild == [b1 |-> 1, b2 |-> 1, b3 |-> 2]

-----------------------------------------------------------------------------
PointerRuns == subject = "node" => Node!PointerRuns
UpdateIsRecoverable == subject = "node" => Node!UpdateIsRecoverable
IntentRecorded == subject = "node" => Node!IntentRecorded

(* Node: the active version can always open the database, with launches,    *)
(* crashes and recovered locks between the steps of apply and rollback; an  *)
(* update the helper cannot roll back left a backup of the previous schema  *)
(* that was taken while the gateway was paused; and a helper killed at any  *)
(* point has journalled every effect it had.                                *)
NodeHasWayBack == PointerRuns /\ UpdateIsRecoverable /\ IntentRecorded

FreeMeansWhole == subject = "cloudflare" => Cloudflare!FreeMeansWhole
MixedHasWayBack == subject = "cloudflare" => Cloudflare!MixedHasWayBack
NoDeadEnd == subject = "cloudflare" => Cloudflare!NoDeadEnd
DatabaseOutlivesWorkers ==
  subject = "cloudflare" => Cloudflare!DatabaseOutlivesWorkers

(* Cloudflare: a free coordination row stands for a whole deployment, and   *)
(* some operation accepts the checkpoints that are left with it; Workers of *)
(* two builds can be rolled back from a checkpoint that names one of the    *)
(* two and has its backup; the database is deleted only after both Workers  *)
(* are gone.                                                                *)
CloudflareHasWayBack ==
  FreeMeansWhole /\ MixedHasWayBack /\ NoDeadEnd /\ DatabaseOutlivesWorkers

(* Supabase: Functions of two builds, with nobody at work on them, are on   *)
(* record in some run's state file.                                         *)
DegradedIsRecorded == subject = "supabase" => Supabase!DegradedIsRecorded

ReplacesExpected == [][subject = "node" => Node!ReplacesExpected]_nodeVars
ResumesActiveBuild == [][subject = "node" => Node!ResumesActiveBuild]_nodeVars
ResumesWhole == [][subject = "cloudflare" => Cloudflare!ResumesWhole]_cloudflareVars
CompletedIsWhole == [][subject = "supabase" => Supabase!CompletedIsWhole]_supabaseVars
StartsFromListed == [][subject = "supabase" => Supabase!StartsFromListed]_supabaseVars

(* A helper replaces and resumes only what it checked, although another     *)
(* operator may be at work: current.json changes only from the version the  *)
(* operator expected, traffic is resumed only on the build current.json     *)
(* names (Node) or on two Workers of the verified build (Cloudflare); and,  *)
(* unless a lease ran out under a running command, a Supabase update begins *)
(* over the pair its preflight listed and completes over a whole pair of    *)
(* its own.                                                                 *)
ActsOnWhatItChecked ==
  /\ ReplacesExpected /\ ResumesActiveBuild
  /\ ResumesWhole
  /\ CompletedIsWhole /\ StartsFromListed

(* Console: no refresh token reaches a server twice, whichever tabs hold    *)
(* it, whatever is reloaded, duplicated or lost.                            *)
PresentedOnce == subject = "console" => Console!PresentedOnce

(* Console: a restored session is shown under the profile it was restored   *)
(* for, although profiles change while refreshSession waits.                *)
SignedInWhereAsked == subject = "console" => Console!SignedInWhereAsked
=============================================================================
