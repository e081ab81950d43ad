---------------------------- MODULE MCCloudAuth ----------------------------
(* One instance of the tables, run by either adapter.                      *)
EXTENDS CloudAuthTables, TLC

VARIABLE adapter

C == INSTANCE CloudflareAuth
S == INSTANCE SupabaseAuth

MCInit == adapter \in {"cloudflare", "supabase"} /\ Init

MCNext ==
  /\ \/ adapter = "cloudflare" /\ C!Next
     \/ adapter = "supabase" /\ S!Next
  /\ UNCHANGED adapter

MCSpec == MCInit /\ [][MCNext]_<<vars, adapter>>

CloudflareSpec ==
  /\ Init /\ adapter = "cloudflare"
  /\ [][C!Next /\ UNCHANGED adapter]_<<vars, adapter>>

Symmetry == Permutations(Calls)

EndedStaysEnded ==
  IF adapter = "cloudflare" THEN C!EndedStaysEnded ELSE S!EndedStaysEnded

ReuseEndsSession == adapter = "cloudflare" => C!ReuseEndsSession

\* A session that was revoked never authenticates a request again, whatever
\* was in progress when it ended, and a refresh token presented again ends its
\* session (on Supabase in the same transaction that finds it).
SessionsEndForGood == [][EndedStaysEnded' /\ ReuseEndsSession]_<<vars, adapter>>

RecoveryCodeOnce == C!RecoveryCodeOnce

\* What is good once is used once: a refresh token, a recovery code, the
\* bootstrap, whichever calls present it at the same time.
EachGoodOnce == RotatedOnce /\ RecoveryCodeOnce /\ BootstrapOnce

SupabaseLockHolds == [][adapter = "supabase" => S!LockHolds]_<<vars, adapter>>

\* On Supabase a login decided before a password change opens no session, and
\* nothing but time ends a lockout.
SupabaseLoginIsCurrent ==
  [](adapter = "supabase" => PasswordCurrent) /\ SupabaseLockHolds

\* On Cloudflare a second factor is asked for only with a secret the
\* administrator has shown a code of.
EnrolledIsVerified == C!EnrolledIsVerified
=============================================================================
