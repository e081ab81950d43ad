-------------------------- MODULE MCConfigurations --------------------------
(***************************************************************************)
(* Two administrators at work at once on the configuration of an instance, *)
(* two policies, three changes.  The variable subject says on which        *)
(* adapter; the Cloudflare one is extended, for its theorems, and the      *)
(* others have their own rows.                                             *)
(***************************************************************************)
EXTENDS CloudflareConfiguration, TLC

VARIABLES subject, supabaseRow, filed, nodeRow, nodeLedger, overlapped

SupabaseConfig == INSTANCE SupabaseConfiguration WITH row <- supabaseRow
NodeConfig == INSTANCE NodeConfiguration WITH row <- nodeRow, ledger <- nodeLedger

supabaseConfigVars == <<supabaseRow, filed>>
nodeConfigVars == <<nodeRow, nodeLedger, overlapped>>

SupabaseConfigStill == supabaseRow = SupabaseConfig!Default /\ filed = {}
NodeConfigStill ==
  nodeRow = NodeConfig!Default /\ nodeLedger = <<>> /\ overlapped = FALSE

\* The parts a behaviour about something else does not move
ConfigurationsStill == Init /\ SupabaseConfigStill /\ NodeConfigStill

ConfigurationsInit ==
  \/ subject = "cloudflareConfiguration" /\ ConfigurationsStill
  \/ /\ subject = "supabaseConfiguration" /\ SupabaseConfig!Init
     /\ row = NoRow /\ NodeConfigStill
  \/ /\ subject = "nodeConfiguration" /\ NodeConfig!Init
     /\ row = NoRow /\ ledger = <<>> /\ SupabaseConfigStill

ConfigurationsNext ==
  \/ /\ subject = "cloudflareConfiguration" /\ Next
     /\ UNCHANGED <<subject, supabaseConfigVars, nodeConfigVars>>
  \/ /\ subject = "supabaseConfiguration" /\ SupabaseConfig!Next
     /\ UNCHANGED <<subject, row, nodeConfigVars>>
  \/ /\ subject = "nodeConfiguration" /\ NodeConfig!Next
     /\ UNCHANGED <<subject, row, ledger, supabaseConfigVars>>

configurationsVars == <<vars, supabaseConfigVars, nodeConfigVars>>

-----------------------------------------------------------------------------
\* Supabase: concurrent changes take effect one after another, each on the
\* configuration in force (of_update_config and its revision check).
SupabaseImplementsShared == SupabaseConfig!ImplementsSharedConfiguration

LedgerCurrent == NodeConfig!LedgerCurrent

SafeUnlessOverlapped == NodeConfig!SafeUnlessOverlapped

\* Node: the ledger ends with the version in force, although PUTs overlap
\* and their transactions fail; and as long as no two PUTs overlap, every
\* change replaces the very configuration its author had fetched.
NodeConfigurationSafe == LedgerCurrent /\ SafeUnlessOverlapped
=============================================================================
