--------------------------- MODULE CloudflareAuth ---------------------------
(***************************************************************************)
(* Administrator authentication of the Cloudflare adapter (adapters/       *)
(* cloudflare/src/auth-session-repository.ts, auth-security-repository.ts, *)
(* behind durable-objects/auth.ts and control-auth-routes.ts).             *)
(*                                                                         *)
(* The repository lives in one Durable Object, but its rows are in D1: at  *)
(* every awaited statement another call may run.  A step is one statement, *)
(* or one batch, which D1 applies as a transaction; what a call computes   *)
(* between two statements is folded into the first.  Only the recovery     *)
(* code, the rotation and the bootstrap are conditional when they write.   *)
(***************************************************************************)
EXTENDS CloudAuthTables

\* bootstrap: the secret is right and no administrator was found.
Bootstrap(c) ==
  /\ pc[c] = "idle"
  /\ admin.hash = 0
  /\ Goto(c, "bootstrap", NoLocals)
  /\ UNCHANGED <<tables, clock, history>>

\* admins_singleton_idx refuses the batch of everyone but the first.
CreateAdmin(c) == admin.hash = 0 /\ OpenSession(1, <<"bootstrap", 0>>)

CommitBootstrap(c) ==
  /\ pc[c] = "bootstrap"
  /\ \/ /\ CreateAdmin(c)
        /\ admin' = [admin EXCEPT !.hash = 1]
     \/ /\ admin.hash # 0
        /\ UNCHANGED <<admin, pairs, sessions, epoch>>
  /\ Return(c)
  /\ UNCHANGED <<lock, throttle, spent, codes, clock, ended, shown>>

-----------------------------------------------------------------------------
(* login *)

\* The row is read, then, by isLoginLocked, the failures of its username.
Login(c, factor) ==
  /\ pc[c] = "idle"
  /\ admin.hash # 0
  /\ Goto(c, "login", [NoLocals EXCEPT
            !.hash = admin.hash, !.totp = admin.totp,
            !.enabled = admin.enabled,
            !.factor = IF admin.enabled THEN factor ELSE NoFactor])
  /\ UNCHANGED <<tables, clock, history>>

\* secondFactorFailure on the row that was read.  A code of the row's own
\* secret is the only one that verifies; without a secret none does.
FactorVerdict(l) ==
  IF ~l.enabled                       THEN "issue"
  ELSE IF l.factor = NoFactor         THEN "idle"
  ELSE IF l.factor[1] = "recovery"    THEN "recovery"
  ELSE IF l.factor[1] = "totp" /\ l.totp # 0 THEN "issue" ELSE "failure"

IsLoginLocked(c, passwordRight) ==
  /\ pc[c] = "login"
  /\ LET verdict == IF lock.until > clock THEN "idle"
                    ELSE IF ~passwordRight THEN "failure"
                    ELSE FactorVerdict(loc[c])
     IN Goto(c, verdict, IF verdict \in {"idle", "failure"} THEN NoLocals
                         ELSE [loc[c] EXCEPT !.totp = 0, !.enabled = FALSE])
  /\ UNCHANGED <<tables, clock, history>>

\* UPDATE recovery_codes SET used_at ... WHERE used_at IS NULL
Spend(code) == codes' = codes \ {code}

ConsumeRecoveryCode(c) ==
  LET code == loc[c].factor[2] IN
  /\ pc[c] = "recovery"
  /\ IF code \in codes THEN Goto(c, "issue", loc[c])
                      ELSE Goto(c, "failure", NoLocals)
  /\ Spend(code)
  /\ UNCHANGED <<admin, lock, throttle, sessions, pairs, spent, clock, history>>

\* recordLoginFailure reads the row in one statement ...
ReadFailures(c) ==
  /\ pc[c] = "failure"
  /\ Goto(c, "record", [NoLocals EXCEPT !.lock = lock])
  /\ UNCHANGED <<tables, clock, history>>

\* ... and writes what it computed in another.  Counts past MaxFailures are
\* not told apart.
RecordLoginFailure(c) ==
  LET old == loc[c].lock
      inWindow == old.count > 0 /\ clock - old.since < Lockout
      count == IF ~inWindow THEN 1
               ELSE IF old.count < MaxFailures THEN old.count + 1
               ELSE MaxFailures
  IN
  /\ pc[c] = "record"
  /\ lock' = [count |-> count,
              since |-> IF inWindow THEN old.since ELSE clock,
              until |-> IF count >= MaxFailures THEN clock + Lockout ELSE 0]
  /\ Return(c)
  /\ UNCHANGED <<admin, throttle, sessions, pairs, spent, codes, clock, history>>

\* The batch of a successful login: nothing is checked again.
CommitLogin(c) ==
  /\ pc[c] = "issue"
  /\ OpenSession(loc[c].hash, loc[c].factor)
  /\ lock' = NoLock
  /\ Return(c)
  /\ UNCHANGED <<admin, throttle, spent, codes, clock, ended, shown>>

-----------------------------------------------------------------------------
(* refresh *)

Expired(p) == pairs[p].until <= clock

Refresh(c, p) ==
  /\ pc[c] = "idle"
  /\ Current(p) => ~sessions[SessionOf(p)].revoked /\ ~Expired(p)
  /\ Goto(c, IF Current(p) THEN "rotate" ELSE "reuse",
          [NoLocals EXCEPT !.pair = p])
  /\ UNCHANGED <<tables, clock, history>>

\* token_hash is the primary key of refresh_token_history: the second batch
\* that retires the same token fails as a whole.
CanRetire_Ignored(p) == TRUE
CanRetire(p) == p \notin spent

\* The batch: the old token to the history, the session to the new one, the
\* access tokens issued before revoked.  The session is not looked at again.
Rotate(c) ==
  LET p == loc[c].pair  s == SessionOf(p) IN
  /\ pc[c] = "rotate"
  /\ CanRetire(p)
  /\ Len(pairs) < MaxPairs
  /\ spent' = spent \cup {p}
  /\ pairs' = [q \in 1 .. Len(pairs) + 1 |->
                 IF q \in Pairs /\ SessionOf(q) = s
                 THEN [pairs[q] EXCEPT !.revoked = TRUE]
                 ELSE NewPair(s, p, pairs[p].factor, pairs[p].until)[q]]
  /\ sessions' = [sessions EXCEPT ![s].current = Len(pairs) + 1]
  /\ Return(c)
  /\ UNCHANGED <<admin, lock, throttle, codes, clock, history>>

RotateOvertaken(c) ==
  /\ pc[c] = "rotate"
  /\ ~CanRetire(loc[c].pair)
  /\ Goto(c, "reuse", loc[c])
  /\ UNCHANGED <<tables, clock, history>>

\* access_tokens of the sessions in S
RevokeAccess(S) ==
  pairs' = [p \in Pairs |->
              [pairs[p] EXCEPT !.revoked = @ \/ SessionOf(p) \in S]]

ReuseEnds(p) == IF p \in spent THEN {SessionOf(p)} ELSE {}

RevokeReusedRefreshFamily(c) ==
  LET S == ReuseEnds(loc[c].pair) IN
  /\ pc[c] = "reuse"
  /\ EndSessions(S)
  /\ RevokeAccess(S)
  /\ Return(c)
  /\ UNCHANGED <<admin, lock, throttle, spent, codes, clock, epoch, shown>>

-----------------------------------------------------------------------------
(* What requireAdmin lets through, and the handlers behind it *)

VerifyAccess_TokenOnly(p) == ~pairs[p].revoked /\ pairs[p].access_until > clock
VerifyAccess(p) ==
  /\ ~pairs[p].revoked
  /\ ~sessions[SessionOf(p)].revoked
  /\ pairs[p].access_until > clock
  /\ ~Expired(p)

\* verifyAccess answered: a handler starts, with the session it will use.
RequireAdmin(c, p, handler, session) ==
  /\ pc[c] = "idle"
  /\ VerifyAccess(p)
  /\ Goto(c, handler, [NoLocals EXCEPT !.session = session])
  /\ UNCHANGED <<tables, clock, history>>

\* logout and DELETE sessions/:id: revokeSessionRecord of the target, when
\* it was found active.
FindActive(c) ==
  /\ pc[c] = "revoke"
  /\ IF sessions[loc[c].session].revoked THEN Return(c)
     ELSE Goto(c, "revoking", loc[c])
  /\ UNCHANGED <<tables, clock, history>>

RevokeSession(c) ==
  /\ pc[c] = "revoking"
  /\ EndSessions({loc[c].session})
  /\ RevokeAccess({loc[c].session})
  /\ Return(c)
  /\ UNCHANGED <<admin, lock, throttle, spent, codes, clock, epoch, shown>>

\* changePassword: the current password matched the row that was read.
CheckPassword(c) ==
  /\ pc[c] = "password"
  /\ Goto(c, "change", loc[c])
  /\ UNCHANGED <<tables, clock, history>>

ChangePassword(c) ==
  LET s == loc[c].session  others == Sessions \ {s} IN
  /\ pc[c] = "change"
  /\ admin.hash < MaxHash
  /\ admin' = [admin EXCEPT !.hash = @ + 1]
  /\ EndSessions({x \in others : ~sessions[x].revoked})
  /\ RevokeAccess(others)
  /\ epoch' = [epoch EXCEPT ![s] = admin.hash + 1]
  /\ Return(c)
  /\ UNCHANGED <<lock, throttle, spent, codes, clock, shown>>

PrepareTotp(c) ==
  /\ pc[c] = "prepare"
  /\ admin.secrets < MaxSecrets
  /\ admin' = [admin EXCEPT !.secrets = @ + 1, !.pending = admin.secrets + 1,
                            !.pending_until = clock + PendingLife]
  /\ Return(c)
  /\ UNCHANGED <<lock, throttle, sessions, pairs, spent, codes, clock, history>>

\* enableTotp reads the row: usablePendingTotp, and a code that verifies.
ReadPendingTotp(c) ==
  /\ pc[c] = "enable"
  /\ \/ /\ admin.pending # 0 /\ admin.pending_until > clock
        /\ shown' = shown \cup {admin.pending}
        /\ Goto(c, "enabling", loc[c])
     \/ /\ admin.pending # 0 /\ admin.pending_until <= clock
        /\ Goto(c, "expire", loc[c])
        /\ UNCHANGED shown
     \/ /\ Return(c)
        /\ UNCHANGED shown
  /\ UNCHANGED <<tables, clock, epoch, ended>>

ClearPendingTotp(c) ==
  /\ pc[c] = "expire"
  /\ admin' = [admin EXCEPT !.pending = 0, !.pending_until = 0]
  /\ Return(c)
  /\ UNCHANGED <<lock, throttle, sessions, pairs, spent, codes, clock, history>>

\* The batch copies the secret the row holds now, and replaces the unused
\* recovery codes.
EnableTotp(c) ==
  /\ pc[c] = "enabling"
  /\ admin.enrolments < MaxEnrolments
  /\ admin' = [admin EXCEPT !.totp = admin.pending, !.enabled = TRUE,
                            !.pending = 0, !.pending_until = 0,
                            !.enrolments = @ + 1]
  /\ codes' = {admin.enrolments + 1}
  /\ Return(c)
  /\ UNCHANGED <<lock, throttle, sessions, pairs, spent, clock, history>>

-----------------------------------------------------------------------------
Next ==
  \/ \E c \in Calls :
       \/ Bootstrap(c) \/ CommitBootstrap(c)
       \/ \E f \in {NoFactor, <<"totp", 0>>}
                  \cup ({"recovery"} \X (1 .. MaxEnrolments)) : Login(c, f)
       \/ \E right \in BOOLEAN : IsLoginLocked(c, right)
       \/ ConsumeRecoveryCode(c)
       \/ ReadFailures(c) \/ RecordLoginFailure(c) \/ CommitLogin(c)
       \/ \E p \in Pairs : Refresh(c, p)
       \/ Rotate(c) \/ RotateOvertaken(c) \/ RevokeReusedRefreshFamily(c)
       \/ \E p \in Pairs :
            \/ \E s \in Sessions : RequireAdmin(c, p, "revoke", s)
            \/ RequireAdmin(c, p, "password", SessionOf(p))
            \/ \E h \in {"prepare", "enable"} : RequireAdmin(c, p, h, 0)
       \/ FindActive(c) \/ RevokeSession(c)
       \/ CheckPassword(c) \/ ChangePassword(c)
       \/ PrepareTotp(c)
       \/ ReadPendingTotp(c) \/ ClearPendingTotp(c) \/ EnableTotp(c)
  \/ Tick

-----------------------------------------------------------------------------
\* A session that was revoked never authenticates a request again, and its
\* refresh tokens are never exchanged for a pair that would: a rotation that
\* was under way when the session ended leaves only dead tokens behind.
EndedStaysEnded == \A p \in Pairs : SessionOf(p) \in ended => ~VerifyAccess(p)

\* A recovery code opens at most one session.
RecoveryCodeOnce ==
  \A n \in 1 .. MaxEnrolments :
    Cardinality({p \in Pairs : pairs[p].factor = <<"recovery", n>>
                               /\ pairs[p].parent = 0}) <= 1

\* A refresh token that was exchanged before and is presented again, however
\* the two calls interleave, leaves the session revoked when it is refused.
ReuseEndsSession ==
  \A c \in Calls :
    pc[c] = "reuse" /\ pc'[c] = "idle" =>
      sessions'[SessionOf(loc[c].pair)].revoked

\* A second factor is asked for only with a secret the administrator has
\* shown a code of.
EnrolledIsVerified == admin.enabled => admin.totp \in shown
=============================================================================
