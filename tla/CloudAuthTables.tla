--------------------------- MODULE CloudAuthTables ---------------------------
(***************************************************************************)
(* The tables behind administrator authentication that the Cloudflare      *)
(* (D1) and the Supabase (Postgres) adapter have in common, and the calls  *)
(* in progress on them.  CloudflareAuth and SupabaseAuth hold the handlers.*)
(*                                                                         *)
(* A session, its token family and its first token pair are created        *)
(* together: one number, that of the pair, stands for all three.           *)
(***************************************************************************)
EXTENDS Integers, Sequences, FiniteSets

CONSTANTS
  Calls,        \* control requests that may be in progress at once
  MaxFailures,  \* failed logins that lock the account
  Lockout,      \* how long it stays locked, and the window failures count in
  AccessLife,   \* lifetime of an access token
  RefreshLife,  \* lifetime of a refresh token
  PendingLife,  \* PENDING_TOTP_TTL_MS
  Limit,        \* login attempts a username may make in a throttle window
  MaxClock,     \* bound: the clock stays in 0 .. MaxClock
  MaxPairs,     \* bound: token pairs issued
  MaxHash,      \* bound: password hashes (the first and its changes)
  MaxSecrets,   \* bound: TOTP secrets prepared
  MaxEnrolments \* bound: times TOTP is enabled

ASSUME CloudAuthAssumption ==
  {MaxFailures, Lockout, AccessLife, RefreshLife, PendingLife, MaxPairs,
   MaxEnrolments} \subseteq Nat

VARIABLES
  admin,     \* the administrator's row; hash 0: there is none
  lock,      \* its failed logins: [count, since, until]
  throttle,  \* login_throttles, the row of the username
  sessions,  \* sessions[s]: the pair it stands at and whether it is revoked
  pairs,     \* token pairs issued, in order
  spent,     \* refresh_token_history
  codes,     \* unused recovery codes, one for each enrolment
  pc, loc,   \* progress and locals of each call
  clock,
  \* history
  epoch,     \* epoch[s]: the password hash session s stands for
  ended,     \* sessions that were revoked
  shown      \* TOTP secrets a matching code was shown for

tables  == <<admin, lock, throttle, sessions, pairs, spent, codes>>
history == <<epoch, ended, shown>>
vars == <<tables, pc, loc, clock, history>>

NoLock == [count |-> 0, since |-> 0, until |-> 0]
NoFactor == <<"none", 0>>
NoLocals ==
  [hash |-> 0, totp |-> 0, enabled |-> FALSE, factor |-> NoFactor, pair |-> 0,
   session |-> 0, lock |-> NoLock]

Pairs == 1 .. Len(pairs)
SessionOf(p) == pairs[p].session
Sessions == {SessionOf(p) : p \in Pairs}

\* The refresh token of p is the one its session would exchange.
Current(p) == sessions[SessionOf(p)].current = p

Init ==
  /\ admin = [hash |-> 0, totp |-> 0, enabled |-> FALSE, pending |-> 0,
              pending_until |-> 0, secrets |-> 0, enrolments |-> 0]
  /\ lock = NoLock
  /\ throttle = NoLock
  /\ sessions = [s \in 1 .. MaxPairs |-> [current |-> 0, revoked |-> FALSE]]
  /\ pairs = <<>>
  /\ spent = {}
  /\ codes = {}
  /\ pc = [c \in Calls |-> "idle"]
  /\ loc = [c \in Calls |-> NoLocals]
  /\ clock = 0
  /\ epoch = [s \in 1 .. MaxPairs |-> 0]
  /\ ended = {}
  /\ shown = {}

Goto(c, label, locals) ==
  /\ pc' = [pc EXCEPT ![c] = label]
  /\ loc' = [loc EXCEPT ![c] = locals]

Return(c) == Goto(c, "idle", NoLocals)

\* The rows of a token pair: of session s, or of a new one when s is 0.
NewPair(s, parent, factor, until) ==
  Append(pairs,
         [session |-> IF s = 0 THEN Len(pairs) + 1 ELSE s, parent |-> parent,
          factor |-> factor, revoked |-> FALSE,
          access_until |-> clock + AccessLife, until |-> until])

\* INSERT INTO sessions, with the pair of a login or of the bootstrap.
OpenSession(hash, factor) ==
  LET s == Len(pairs) + 1 IN
  /\ Len(pairs) < MaxPairs
  /\ pairs' = NewPair(0, 0, factor, clock + RefreshLife)
  /\ sessions' = [sessions EXCEPT ![s] = [current |-> s, revoked |-> FALSE]]
  /\ epoch' = [epoch EXCEPT ![s] = hash]

\* UPDATE sessions SET revoked_at ... WHERE it is in S and not revoked.
EndSessions(S) ==
  /\ sessions' = [s \in DOMAIN sessions |->
                    [sessions[s] EXCEPT !.revoked = @ \/ s \in S]]
  /\ ended' = ended \cup S

Tick ==
  /\ clock < MaxClock
  /\ clock' = clock + 1
  /\ UNCHANGED <<tables, pc, loc, history>>

-----------------------------------------------------------------------------
(* Properties that both adapters share *)

\* However many calls present the same refresh token at once, it is
\* exchanged for at most one new pair.
RotatedOnce ==
  \A p \in Pairs : Cardinality({q \in Pairs : pairs[q].parent = p}) <= 1

\* Of all the bootstrap requests that race, one creates the administrator
\* and its session.
BootstrapOnce ==
  Cardinality({p \in Pairs : pairs[p].factor[1] = "bootstrap"
                            /\ pairs[p].parent = 0}) <= 1

\* No session that can still be used was opened with a password that has
\* been replaced since.
PasswordCurrent ==
  \A s \in Sessions : sessions[s].revoked \/ epoch[s] = admin.hash
=============================================================================
