---------------------------- MODULE SupabaseAuth ----------------------------
(***************************************************************************)
(* Administrator authentication of the Supabase adapter: the control       *)
(* function's auth-routes.ts and account-routes.ts, and the SQL functions  *)
(* they call (migrations 0002, 0005, 0006 and 0008).                       *)
(*                                                                         *)
(* A route is a sequence of remote calls; each SQL function is one         *)
(* transaction that locks the rows it decides on, so a step is one call.   *)
(* The session row holds the hashes of its current pair, so an older       *)
(* access token stops working with the rotation that replaces it.          *)
(***************************************************************************)
EXTENDS CloudAuthTables

ThrottleWindow == 1   \* '5 minutes', in units of the model's clock
ThrottleBlock  == 1   \* '15 minutes'

\* bump_login_throttle: [row |-> the row after the attempt, allowed |-> ...]
Bump(row) ==
  IF row.until > clock THEN [row |-> row, allowed |-> FALSE]
  ELSE IF row.count > 0 /\ row.since <= clock - ThrottleWindow THEN
    [row |-> [count |-> 1, since |-> clock, until |-> 0], allowed |-> TRUE]
  ELSE IF row.count + 1 > Limit THEN
    [row |-> [row EXCEPT !.until = clock + ThrottleBlock], allowed |-> FALSE]
  ELSE
    [row |-> [count |-> row.count + 1, until |-> 0,
              since |-> IF row.count = 0 THEN clock ELSE row.since],
     allowed |-> TRUE]

-----------------------------------------------------------------------------
(* bootstrap: of_bootstrap_admin_session under an advisory lock *)

Initialized == admin.hash # 0

Bootstrap(c) ==
  /\ pc[c] = "idle"
  /\ ~Initialized
  /\ OpenSession(1, <<"bootstrap", 0>>)
  /\ admin' = [admin EXCEPT !.hash = 1]
  /\ UNCHANGED <<lock, throttle, spent, codes, pc, loc, clock, ended, shown>>

-----------------------------------------------------------------------------
(* login *)

\* of_begin_login_attempt, for one source: the username's row decides.
OfBeginLoginAttempt == Bump(throttle)

BeginLoginAttempt(c) ==
  LET bumped == OfBeginLoginAttempt IN
  /\ pc[c] = "idle"
  /\ admin.hash # 0
  /\ throttle' = bumped.row
  /\ IF bumped.allowed THEN Goto(c, "login", NoLocals) ELSE Return(c)
  /\ UNCHANGED <<admin, lock, sessions, pairs, spent, codes, clock, history>>

\* of_get_admin_for_login; the password is compared even when the row is
\* locked, and either way the attempt counts as a failure.
GetAdminForLogin(c, passwordRight) ==
  /\ pc[c] = "login"
  /\ IF passwordRight /\ lock.until <= clock
     THEN Goto(c, "issue", [NoLocals EXCEPT !.hash = admin.hash])
     ELSE Goto(c, "failure", NoLocals)
  /\ UNCHANGED <<tables, clock, history>>

\* of_record_login_failure counts only while the account is not locked; the
\* count is kept when a lock has passed.
CountsFailure == lock.until <= clock

RecordLoginFailure(c) ==
  LET count == IF lock.count < MaxFailures THEN lock.count + 1 ELSE MaxFailures
  IN
  /\ pc[c] = "failure"
  /\ lock' = IF ~CountsFailure THEN lock
             ELSE [count |-> count, since |-> 0,
                   until |-> IF count >= MaxFailures THEN clock + Lockout
                                                     ELSE 0]
  /\ Return(c)
  /\ UNCHANGED <<admin, throttle, sessions, pairs, spent, codes, clock, history>>

\* of_issue_session_guarded compares the row with what the login was
\* decided on.
StillGood_IgnoresLock(l) == admin.hash = l.hash
StillGood(l) == admin.hash = l.hash /\ lock.until <= clock

IssueSession(c) ==
  /\ pc[c] = "issue"
  /\ \/ /\ StillGood(loc[c])
        /\ OpenSession(loc[c].hash, NoFactor)
        /\ lock' = NoLock
        /\ throttle' = NoLock
     \/ /\ ~StillGood(loc[c])
        /\ UNCHANGED <<lock, throttle, sessions, pairs, epoch>>
  /\ Return(c)
  /\ UNCHANGED <<admin, spent, codes, clock, ended, shown>>

-----------------------------------------------------------------------------
(* refresh: of_rotate_refresh_audited *)

Rotates(p) ==
  /\ Current(p)
  /\ ~sessions[SessionOf(p)].revoked
  /\ pairs[p].until > clock

ReuseEnds(p) ==
  IF p \in spent /\ pairs[p].until > clock THEN {SessionOf(p)} ELSE {}

Refresh(c, p) ==
  LET s == SessionOf(p) IN
  /\ pc[c] = "idle"
  /\ \/ /\ Rotates(p)
        /\ Len(pairs) < MaxPairs
        /\ spent' = spent \cup {p}
        /\ pairs' = NewPair(s, p, pairs[p].factor, clock + RefreshLife)
        /\ sessions' = [sessions EXCEPT ![s].current = Len(pairs) + 1]
        /\ UNCHANGED ended
     \/ /\ ~Rotates(p)
        /\ EndSessions(ReuseEnds(p))
        /\ UNCHANGED <<spent, pairs>>
  /\ UNCHANGED <<admin, lock, throttle, codes, pc, loc, clock, epoch, shown>>

-----------------------------------------------------------------------------
(* Routes behind of_authenticate_access *)

AuthenticateAccess(p) ==
  /\ Current(p)
  /\ ~sessions[SessionOf(p)].revoked
  /\ pairs[p].access_until > clock

AdminOrResponse(c, p, handler, session) ==
  /\ pc[c] = "idle"
  /\ AuthenticateAccess(p)
  /\ Goto(c, handler, [NoLocals EXCEPT !.session = session])
  /\ UNCHANGED <<tables, clock, history>>

\* of_revoke_session; of a session revoked meanwhile nothing changes.
OfRevokeSession(s) == EndSessions({s})

\* logout and DELETE sessions/:id
RevokeSession(c) ==
  /\ pc[c] = "revoke"
  /\ OfRevokeSession(loc[c].session)
  /\ Return(c)
  /\ UNCHANGED <<admin, lock, throttle, pairs, spent, codes, clock, epoch,
                 shown>>

\* of_get_admin_for_password_change, and the current password matched.
CheckPassword(c) ==
  /\ pc[c] = "password"
  /\ Goto(c, "change", [loc[c] EXCEPT !.hash = admin.hash])
  /\ UNCHANGED <<tables, clock, history>>

\* of_change_password, refused when the hash is no longer the one checked.
OfChangePassword(s, hash) ==
  \/ /\ admin.hash = hash
     /\ admin.hash < MaxHash
     /\ admin' = [admin EXCEPT !.hash = @ + 1]
     /\ EndSessions({x \in Sessions \ {s} : ~sessions[x].revoked})
     /\ epoch' = [epoch EXCEPT ![s] = admin.hash + 1]
  \/ /\ admin.hash # hash
     /\ UNCHANGED <<admin, sessions, ended, epoch>>

ChangePassword(c) ==
  /\ pc[c] = "change"
  /\ OfChangePassword(loc[c].session, loc[c].hash)
  /\ Return(c)
  /\ UNCHANGED <<lock, throttle, pairs, spent, codes, clock, shown>>

-----------------------------------------------------------------------------
Next ==
  \/ \E c \in Calls :
       \/ Bootstrap(c)
       \/ BeginLoginAttempt(c)
       \/ \E right \in BOOLEAN : GetAdminForLogin(c, right)
       \/ RecordLoginFailure(c) \/ IssueSession(c)
       \/ \E p \in Pairs :
            \/ Refresh(c, p)
            \/ \E s \in Sessions : AdminOrResponse(c, p, "revoke", s)
            \/ AdminOrResponse(c, p, "password", SessionOf(p))
       \/ RevokeSession(c) \/ CheckPassword(c) \/ ChangePassword(c)
  \/ Tick

-----------------------------------------------------------------------------
\* A session that was revoked, and a pair that was replaced, never
\* authenticate a request again.
EndedStaysEnded ==
  \A p \in Pairs :
    SessionOf(p) \in ended \/ p \in spent =>
      ~AuthenticateAccess(p) /\ ~Rotates(p)

\* While the account is locked nothing but time unlocks it: neither a login
\* decided before the lock nor a further failure.
LockHolds ==
  lock.until > clock /\ clock' = clock => lock'.until >= lock.until
=============================================================================
