------------------------------- MODULE NodeAuth -------------------------------
(***************************************************************************)
(* Administrator authentication of the Node adapter: bootstrap, login with *)
(* lockout and second factor, refresh rotation, logout, session revocation,*)
(* password change and TOTP enrolment (adapters/node/src/                  *)
(* auth-administrator.ts, auth-sessions.ts, second-factor.ts).             *)
(*                                                                         *)
(* A handler reads rows, awaits (bcrypt, the database worker) and writes   *)
(* in a transaction whose first statement is conditional.  The steps of a  *)
(* call here are its database operations; what it computes in between      *)
(* depends only on what it read and is folded into the read.  Only TOTP    *)
(* enrolment is serialised in the process (#exclusive).                    *)
(*                                                                         *)
(* A session and its token family are created together and carried along   *)
(* together by rotation, so one number stands for session_id and           *)
(* family_id: that of the session's first token pair.                      *)
(***************************************************************************)
EXTENDS Integers, Sequences, FiniteSets

CONSTANTS
  Calls,         \* control requests that may be in progress at once
  Handlers,      \* the handlers a run explores
  MaxFailures,   \* MAX_LOGIN_FAILURES
  Lockout,       \* LOCKOUT_MS
  BootstrapLife, \* BOOTSTRAP_LIFETIME_MS
  AccessLife,    \* ACCESS_LIFETIME_MS
  RefreshLife,   \* REFRESH_LIFETIME_MS
  MaxClock,      \* bound: the clock stays in 0..MaxClock
  MaxPairs,      \* bound: token pairs issued
  MaxHash,       \* bound: password hashes (the first and its changes)
  MaxSecrets,    \* bound: TOTP secrets prepared
  MaxRestarts    \* bound: restarts of the process

AllHandlers ==
  {"bootstrap", "login", "refresh", "logout", "revoke", "password",
   "prepare", "enable"}

ASSUME AuthAssumption ==
  /\ IsFiniteSet(Calls)
  /\ Handlers \subseteq AllHandlers
  /\ MaxFailures \in Nat \ {0}
  /\ {Lockout, BootstrapLife, AccessLife, RefreshLife} \subseteq Nat \ {0}
  /\ {MaxClock, MaxPairs, MaxHash, MaxSecrets, MaxRestarts} \subseteq Nat

VARIABLES
  admin,    \* the row of table administrators; hash 0: there is none
  boot,     \* table bootstrap_state; token 0: no row
  rows,     \* table auth_tokens: the pairs issued, in order
  codes,    \* unused recovery_codes, named after the secret enrolled
  secrets,  \* TOTP secrets generated so far
  pc, loc,  \* progress and locals of each call
  chain,    \* #tail of SecondFactorService
  startup,  \* progress of ensureBootstrap
  clock, restarts,
  \* history
  epoch,    \* epoch[s]: the password hash session s stands for
  ended,    \* sessions that a revocation has ended
  audited,  \* sessions whose end wrote an audit event
  verified  \* secrets a matching code was shown for

tables  == <<admin, boot, rows, codes, secrets>>
history == <<epoch, ended, audited, verified>>
vars == <<tables, pc, loc, chain, startup, clock, restarts, history>>

NoFactor == <<"none", 0>>
NoLocals ==
  [hash |-> 0, now |-> 0, factor |-> NoFactor, pair |-> 0, session |-> 0,
   target |-> 0, secret |-> 0]

Pairs    == 1 .. Len(rows)
Sessions == {rows[p].session : p \in Pairs}
Factors  == {NoFactor} \cup ({"totp", "recovery"} \X (1 .. MaxSecrets))

Init ==
  /\ admin = [hash |-> 0, failed |-> 0, locked_until |-> 0,
              totp |-> 0, pending |-> 0]
  /\ boot = [token |-> 0, expires_at |-> 0, consumed |-> FALSE]
  /\ rows = <<>>
  /\ codes = {}
  /\ secrets = 0
  /\ pc = [c \in Calls |-> "idle"]
  /\ loc = [c \in Calls |-> NoLocals]
  /\ chain = <<>>
  /\ startup = "administrator"
  /\ clock = 0
  /\ restarts = 0
  /\ epoch = [s \in 1 .. MaxPairs |-> 0]
  /\ ended = {}
  /\ audited = {}
  /\ verified = {}

-----------------------------------------------------------------------------
Starts(c, handler) == pc[c] = "idle" /\ handler \in Handlers

Goto(c, label, locals) ==
  /\ pc' = [pc EXCEPT ![c] = label]
  /\ loc' = [loc EXCEPT ![c] = locals]

Return(c) == Goto(c, "idle", NoLocals)

-----------------------------------------------------------------------------
(* The token table *)

\* prepareSession and tokenOperation at time t: a pair of session s, or of a
\* new session when s is 0, in exchange for the refresh token of parent.
PairOf(s, parent, factor, t) ==
  [session |-> s, parent |-> parent, factor |-> factor,
   access_expires |-> t + AccessLife, refresh_expires |-> t + RefreshLife,
   access_revoked |-> FALSE, refresh_revoked |-> FALSE, used |-> FALSE]

NewPair(s, parent, factor, t) ==
  PairOf(IF s = 0 THEN Len(rows) + 1 ELSE s, parent, factor, t)

Live(p) == ~rows[p].access_revoked \/ ~rows[p].refresh_revoked

\* UPDATE auth_tokens SET revoked_at ... WHERE session or family in S
Revoked(S) ==
  [p \in Pairs |->
     IF rows[p].session \in S
     THEN [rows[p] EXCEPT !.access_revoked = TRUE, !.refresh_revoked = TRUE]
     ELSE rows[p]]

EndSessions(S, audit) ==
  /\ rows' = Revoked(S)
  /\ ended' = ended \cup S
  /\ audited' = IF audit THEN audited \cup S ELSE audited

-----------------------------------------------------------------------------
(* ensureBootstrap, run by every start after the listeners are up *)

FindAdministrator ==
  /\ startup = "administrator"
  /\ startup' = IF admin.hash # 0 THEN "done" ELSE "active"
  /\ UNCHANGED <<tables, pc, loc, chain, clock, restarts, history>>

FindActiveBootstrap ==
  /\ startup = "active"
  /\ startup' = IF boot.token # 0 /\ ~boot.consumed /\ boot.expires_at > clock
                THEN "done" ELSE "write"
  /\ UNCHANGED <<tables, pc, loc, chain, clock, restarts, history>>

WriteBootstrap ==
  /\ startup = "write"
  /\ startup' = "done"
  /\ boot' = [token |-> boot.token + 1, expires_at |-> clock + BootstrapLife,
              consumed |-> FALSE]
  /\ UNCHANGED <<admin, rows, codes, secrets, pc, loc, chain, clock, restarts,
                 history>>

BootstrapTokenGood(token, t) ==
  /\ boot.token = token
  /\ ~boot.consumed
  /\ boot.expires_at > t

BootstrapRead(c, token) ==
  /\ Starts(c, "bootstrap")
  /\ BootstrapTokenGood(token, clock)
  /\ admin.hash = 0
  /\ Goto(c, "bootstrap", [NoLocals EXCEPT !.secret = token, !.now = clock])
  /\ UNCHANGED <<tables, chain, startup, clock, restarts, history>>

\* The conditional UPDATE, and the unique index on administrators.  The time
\* t both use is read once the password is hashed, before the transaction.
CommitBootstrap(c, t) ==
  /\ pc[c] = "bootstrap"
  /\ BootstrapTokenGood(loc[c].secret, t)
  /\ admin.hash = 0
  /\ Len(rows) < MaxPairs
  /\ boot' = [boot EXCEPT !.consumed = TRUE]
  /\ admin' = [admin EXCEPT !.hash = 1]
  /\ rows' = Append(rows, NewPair(0, 0, NoFactor, t))
  /\ epoch' = [epoch EXCEPT ![Len(rows) + 1] = 1]
  /\ Return(c)
  /\ UNCHANGED <<codes, secrets, chain, startup, clock, restarts, ended,
                 audited, verified>>

BootstrapOvertaken(c, t) ==
  /\ pc[c] = "bootstrap"
  /\ ~(BootstrapTokenGood(loc[c].secret, t) /\ admin.hash = 0)
  /\ Return(c)
  /\ UNCHANGED <<tables, chain, startup, clock, restarts, history>>

-----------------------------------------------------------------------------
(* login *)

\* The row is read once; its lock, password and second factor are judged
\* from that copy.  A recovery code is left to the database.
LoginVerdict(password, factor) ==
  IF \/ admin.hash = 0 \/ admin.locked_until > clock
     \/ password # admin.hash     THEN "failure"
  ELSE IF admin.totp = 0          THEN "login"
  ELSE IF factor[1] = "none"      THEN "idle"
  ELSE IF factor[1] = "recovery"  THEN "recovery"
  ELSE IF factor[2] = admin.totp  THEN "login" ELSE "failure"

LoginRead(c, password, factor) ==
  LET verdict == LoginVerdict(password, factor) IN
  /\ Starts(c, "login")
  /\ Goto(c, verdict,
          IF verdict = "idle" THEN NoLocals
          ELSE [NoLocals EXCEPT !.hash = admin.hash, !.now = clock,
                  !.factor = IF admin.totp = 0 THEN NoFactor ELSE factor])
  /\ UNCHANGED <<tables, chain, startup, clock, restarts, history>>

\* One conditional UPDATE finds and spends the code.
TakesCode_OnlyReads(code) == codes' = codes
TakesCode(code) == codes' = codes \ {code}

UseRecoveryCode(c) ==
  LET code == loc[c].factor[2] IN
  /\ pc[c] = "recovery"
  /\ Goto(c, IF code \in codes THEN "login" ELSE "failure", loc[c])
  /\ TakesCode(code)
  /\ UNCHANGED <<admin, boot, rows, secrets, chain, startup, clock, restarts,
                 history>>

\* WHERE password_hash = ? AND (locked_until IS NULL OR locked_until <= ?),
\* with the values and the time of the read.
LoginStillGood_IgnoresHash(l) == admin.locked_until <= l.now
LoginStillGood(l) ==
  /\ admin.hash = l.hash
  /\ admin.locked_until <= l.now

\* The pair's lifetime runs from t, read once the factors are checked.
CommitLogin(c, t) ==
  /\ pc[c] = "login"
  /\ LoginStillGood(loc[c])
  /\ Len(rows) < MaxPairs
  /\ admin' = [admin EXCEPT !.failed = 0, !.locked_until = 0]
  /\ rows' = Append(rows, NewPair(0, 0, loc[c].factor, t))
  /\ epoch' = [epoch EXCEPT ![Len(rows) + 1] = loc[c].hash]
  /\ Return(c)
  /\ UNCHANGED <<boot, codes, secrets, chain, startup, clock, restarts,
                 ended, audited, verified>>

LoginOvertaken(c) ==
  /\ pc[c] = "login"
  /\ ~LoginStillGood(loc[c])
  /\ Goto(c, "failure", [loc[c] EXCEPT !.now = clock])
  /\ UNCHANGED <<tables, chain, startup, clock, restarts, history>>

\* The row after recordLoginFailure at time now.  Counts past MaxFailures
\* are not told apart, because the code only asks whether it is reached.
AfterFailure(now) ==
  LET count == IF admin.failed < MaxFailures THEN admin.failed + 1
                                             ELSE MaxFailures
  IN [admin EXCEPT
        !.failed = count,
        !.locked_until = IF admin.locked_until > now THEN admin.locked_until
                         ELSE IF count >= MaxFailures THEN now + Lockout
                         ELSE 0]

RecordLoginFailure(c) ==
  /\ pc[c] = "failure"
  /\ admin' = IF loc[c].hash = 0 THEN admin ELSE AfterFailure(loc[c].now)
  /\ Return(c)
  /\ UNCHANGED <<boot, rows, codes, secrets, chain, startup, clock, restarts,
                 history>>

-----------------------------------------------------------------------------
(* refresh *)

RefreshRead(c, p) ==
  /\ Starts(c, "refresh")
  /\ rows[p].refresh_revoked \/ rows[p].used \/ rows[p].refresh_expires > clock
  /\ Goto(c, IF rows[p].refresh_revoked \/ rows[p].used THEN "reuse"
                                                        ELSE "rotate",
          [NoLocals EXCEPT !.pair = p, !.session = rows[p].session,
                           !.now = clock])
  /\ UNCHANGED <<tables, chain, startup, clock, restarts, history>>

\* WHERE used_at IS NULL AND revoked_at IS NULL AND expires_at > now, the
\* last with the time of the read.
Unspent_OnlyUse(p) == ~rows[p].used
Unspent_Reusable(p) == rows[p].used \/ ~rows[p].refresh_revoked
Unspent(p) == ~rows[p].used /\ ~rows[p].refresh_revoked

Rotate(c) ==
  LET p == loc[c].pair IN
  /\ pc[c] = "rotate"
  /\ Unspent(p)
  /\ Len(rows) < MaxPairs
  /\ rows' = Append([rows EXCEPT ![p] = [@ EXCEPT !.used = TRUE,
                                                    !.refresh_revoked = TRUE]],
                    NewPair(loc[c].session, p, rows[p].factor, loc[c].now))
  /\ Return(c)
  /\ UNCHANGED <<admin, boot, codes, secrets, chain, startup, clock, restarts,
                 history>>

RotateOvertaken(c) ==
  /\ pc[c] = "rotate"
  /\ ~Unspent(loc[c].pair)
  /\ Goto(c, "reuse", loc[c])
  /\ UNCHANGED <<tables, chain, startup, clock, restarts, history>>

\* rejectRefreshReuse: one UPDATE, no audit event.
RejectRefreshReuse(c) ==
  /\ pc[c] = "reuse"
  /\ EndSessions({loc[c].session}, FALSE)
  /\ Return(c)
  /\ UNCHANGED <<admin, boot, codes, secrets, chain, startup, clock, restarts,
                 epoch, verified>>

-----------------------------------------------------------------------------
(* logout: the access token may have expired, but not been revoked *)

LogoutRead(c, p) ==
  /\ Starts(c, "logout")
  /\ ~rows[p].access_revoked
  /\ Goto(c, "logout", [NoLocals EXCEPT !.session = rows[p].session])
  /\ UNCHANGED <<tables, chain, startup, clock, restarts, history>>

CommitLogout(c) ==
  /\ pc[c] = "logout"
  /\ EndSessions({loc[c].session}, TRUE)
  /\ Return(c)
  /\ UNCHANGED <<admin, boot, codes, secrets, chain, startup, clock, restarts,
                 epoch, verified>>

-----------------------------------------------------------------------------
(* Handlers behind authenticateAdminSession: what it found holds for the   *)
(* rest of the call, whatever happens to the session meanwhile.            *)

AccessGood(p) == ~rows[p].access_revoked /\ rows[p].access_expires > clock

Authenticate(c, p, handler, locals) ==
  /\ Starts(c, handler)
  /\ AccessGood(p)
  /\ Goto(c, handler, [locals EXCEPT !.session = rows[p].session])
  /\ chain' = IF handler \in {"prepare", "enable"} THEN Append(chain, c)
                                                   ELSE chain
  /\ UNCHANGED <<tables, startup, clock, restarts, history>>

\* revokeSession: rows are never deleted, so finding one needs no step.
RevokeSession(c) ==
  /\ pc[c] = "revoke"
  /\ EndSessions({loc[c].target}, TRUE)
  /\ Return(c)
  /\ UNCHANGED <<admin, boot, codes, secrets, chain, startup, clock, restarts,
                 epoch, verified>>

ChangeRead(c, password) ==
  /\ pc[c] = "password"
  /\ IF password = admin.hash
     THEN Goto(c, "change", [loc[c] EXCEPT !.hash = admin.hash])
     ELSE Return(c)
  /\ UNCHANGED <<tables, chain, startup, clock, restarts, history>>

\* Sessions the password change revokes: all but the caller's.
Others(s) == Sessions \ {s}

CommitChange(c) ==
  /\ pc[c] = "change"
  /\ admin.hash = loc[c].hash
  /\ admin.hash < MaxHash
  /\ admin' = [admin EXCEPT !.hash = @ + 1]
  /\ EndSessions(Others(loc[c].session), TRUE)
  /\ epoch' = [epoch EXCEPT ![loc[c].session] = admin.hash + 1]
  /\ Return(c)
  /\ UNCHANGED <<boot, codes, secrets, chain, startup, clock, restarts,
                 verified>>

ChangeOvertaken(c) ==
  /\ pc[c] = "change"
  /\ admin.hash # loc[c].hash
  /\ Return(c)
  /\ UNCHANGED <<tables, chain, startup, clock, restarts, history>>

-----------------------------------------------------------------------------
(* TOTP enrolment, one call at a time *)

HasChain(c) == chain # <<>> /\ Head(chain) = c

LeaveChain_KeepsHead == chain' = chain
LeaveChain == chain' = Tail(chain)

PrepareTotp(c) ==
  /\ pc[c] = "prepare"
  /\ HasChain(c)
  /\ secrets < MaxSecrets
  /\ secrets' = secrets + 1
  /\ admin' = [admin EXCEPT !.pending = secrets + 1]
  /\ LeaveChain
  /\ Return(c)
  /\ UNCHANGED <<boot, rows, codes, startup, clock, restarts, history>>

EnableRead(c) ==
  /\ pc[c] = "enable"
  /\ HasChain(c)
  /\ admin.pending # 0 /\ loc[c].secret = admin.pending
  /\ Goto(c, "enabling", loc[c])
  /\ verified' = verified \cup {loc[c].secret}
  /\ UNCHANGED <<tables, chain, startup, clock, restarts, epoch, ended, audited>>

EnableRefused(c) ==
  /\ pc[c] = "enable"
  /\ HasChain(c)
  /\ ~(admin.pending # 0 /\ loc[c].secret = admin.pending)
  /\ LeaveChain
  /\ Return(c)
  /\ UNCHANGED <<tables, startup, clock, restarts, history>>

\* The transaction enrols what is pending when it runs and replaces every
\* recovery code.
CommitEnable(c) ==
  /\ pc[c] = "enabling"
  /\ HasChain(c)
  /\ admin' = [admin EXCEPT !.totp = admin.pending, !.pending = 0]
  /\ codes' = {admin.pending}
  /\ LeaveChain
  /\ Return(c)
  /\ UNCHANGED <<boot, rows, secrets, startup, clock, restarts, history>>

-----------------------------------------------------------------------------
Tick ==
  /\ clock < MaxClock
  /\ clock' = clock + 1
  /\ UNCHANGED <<tables, pc, loc, chain, startup, restarts, history>>

Restart ==
  /\ restarts < MaxRestarts
  /\ restarts' = restarts + 1
  /\ pc' = [c \in Calls |-> "idle"]
  /\ loc' = [c \in Calls |-> NoLocals]
  /\ chain' = <<>>
  /\ startup' = "administrator"
  /\ UNCHANGED <<tables, clock, history>>

\* A call whose statement failed ends there; its tables are rolled back.
Fail(c) ==
  /\ pc[c] # "idle"
  /\ pc[c] \in {"prepare", "enable", "enabling"} => HasChain(c)
  /\ IF pc[c] \in {"prepare", "enable", "enabling"} THEN LeaveChain
                                                    ELSE UNCHANGED chain
  /\ Return(c)
  /\ UNCHANGED <<tables, startup, clock, restarts, history>>

Request(c) ==
  \/ \E token \in 1 .. boot.token : BootstrapRead(c, token)
  \/ \E password \in 0 .. MaxHash, factor \in Factors :
       LoginRead(c, password, factor)
  \/ \E p \in Pairs : RefreshRead(c, p) \/ LogoutRead(c, p)
  \/ \E p \in Pairs, target \in Sessions :
       Authenticate(c, p, "revoke", [NoLocals EXCEPT !.target = target])
  \/ \E p \in Pairs, handler \in {"password", "prepare"} :
       Authenticate(c, p, handler, NoLocals)
  \/ \E p \in Pairs, secret \in 1 .. MaxSecrets :
       Authenticate(c, p, "enable", [NoLocals EXCEPT !.secret = secret])

Continue(c) ==
  \/ \E t \in loc[c].now .. clock :
       CommitBootstrap(c, t) \/ BootstrapOvertaken(c, t) \/ CommitLogin(c, t)
  \/ UseRecoveryCode(c) \/ LoginOvertaken(c)
  \/ RecordLoginFailure(c)
  \/ Rotate(c) \/ RotateOvertaken(c) \/ RejectRefreshReuse(c)
  \/ CommitLogout(c) \/ RevokeSession(c)
  \/ \E password \in 0 .. MaxHash : ChangeRead(c, password)
  \/ CommitChange(c) \/ ChangeOvertaken(c)
  \/ PrepareTotp(c) \/ EnableRead(c) \/ EnableRefused(c) \/ CommitEnable(c)
  \/ Fail(c)

EnsureBootstrap == FindAdministrator \/ FindActiveBootstrap \/ WriteBootstrap

Next ==
  \/ \E c \in Calls : Request(c) \/ Continue(c)
  \/ EnsureBootstrap
  \/ Tick
  \/ Restart

Spec == Init /\ [][Next]_vars

(* A call that has started goes on: every database call settles.           *)
FairSpec == Spec /\ \A c \in Calls : WF_vars(Continue(c))

-----------------------------------------------------------------------------
(* Properties *)

\* A session that was logged out, revoked, caught reusing a refresh token
\* or ended by a password change has no live token again, although a
\* rotation that read it before may still be on its way.
EndedSessionsStayEnded ==
  \A p \in Pairs : rows[p].session \in ended => ~Live(p)

\* A refresh token is exchanged at most once.
RotatedOnce ==
  \A p, q \in Pairs :
    rows[p].parent # 0 /\ rows[p].parent = rows[q].parent => p = q

PasswordCurrent ==
  \A p \in Pairs : Live(p) => epoch[rows[p].session] = admin.hash

NoLoginWhileLocked ==
  Len(rows') > Len(rows) /\ rows'[Len(rows')].parent = 0 /\ admin.hash # 0
    => admin.locked_until <= clock

\* Every session with a live token was opened with the current password or
\* is the one that set it, and no login succeeds while the account is locked:
\* no login or rotation outlives a password change or a lock that came after
\* it had read the row.
LoginIsCurrent == [][PasswordCurrent' /\ NoLoginWhileLocked]_vars

RecoveryCodeOnce ==
  \A p, q \in Pairs :
    /\ rows[p].parent = 0 /\ rows[q].parent = 0
    /\ rows[p].factor = rows[q].factor
    /\ rows[p].factor[1] = "recovery"
    => p = q

EnrolledIsVerified == admin.totp # 0 => admin.totp \in verified

\* A recovery code opens at most one session, and the secret a login must
\* match is one the administrator has shown a code of: a second prepare
\* cannot slip its secret under a running enable.
SecondFactorSound == RecoveryCodeOnce /\ EnrolledIsVerified

\* Every call returns, those waiting for an enrolment to finish included.
CallsReturn == \A c \in Calls : pc[c] # "idle" ~> pc[c] = "idle"

\* Every end of a session or refresh family is in the audit ledger.
SessionEndsAudited == ended \subseteq audited
=============================================================================
