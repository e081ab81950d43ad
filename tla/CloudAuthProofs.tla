--------------------------- MODULE CloudAuthProofs ---------------------------
(***************************************************************************)
(* Proofs about administrator authentication on Cloudflare and on Supabase *)
(* (MCCloudAuth), for any number of calls in progress, any lifetimes and   *)
(* any bounds.  The two adapters share one invariant of the tables: which  *)
(* refresh tokens are spent, which sessions have ended, and who holds a    *)
(* recovery code.                                                          *)
(***************************************************************************)
EXTENDS MCCloudAuth, FiniteSetTheorems, TLAPS

Administrators ==
  [hash : Nat, totp : Nat, enabled : BOOLEAN, pending : Nat, pending_until : Int,
   secrets : Nat, enrolments : Nat]

Locks == [count : Nat, since : Int, until : Int]

Factors == {"none", "totp", "recovery", "bootstrap"} \X Nat

PairRows ==
  [session : Nat, parent : Nat, factor : Factors, revoked : BOOLEAN,
   access_until : Int, until : Int]

Locals ==
  [hash : Nat, totp : Nat, enabled : BOOLEAN, factor : Factors, pair : Nat,
   session : Nat, lock : Locks]

Places ==
  {"idle", "bootstrap", "login", "issue", "recovery", "failure", "record", "rotate",
   "reuse", "revoke", "revoking", "password", "change", "prepare", "enable",
   "enabling", "expire"}

TypeInv ==
  /\ adapter \in {"cloudflare", "supabase"}
  /\ admin \in Administrators
  /\ lock \in Locks
  /\ sessions \in [1 .. MaxPairs -> [current : Nat, revoked : BOOLEAN]]
  /\ pairs \in Seq(PairRows) /\ Len(pairs) <= MaxPairs
  /\ spent \subseteq Pairs
  /\ codes \subseteq Nat
  /\ pc \in [Calls -> Places] /\ loc \in [Calls -> Locals]
  /\ clock \in Nat
  /\ epoch \in [1 .. MaxPairs -> Nat]
  /\ ended \subseteq Pairs

\* The tokens that are not spent are those the sessions stand at, and every
\* token that replaced another names one that is spent.
TokensSound ==
  \A p \in Pairs :
    /\ SessionOf(p) \in Pairs
    /\ Current(p) <=> p \notin spent
    /\ pairs[p].parent # 0 => pairs[p].parent \in spent

ReplacedOnce ==
  \A p, q \in Pairs :
    pairs[p].parent = pairs[q].parent /\ pairs[p].parent # 0 => p = q

EndedSound == \A s \in ended : sessions[s].revoked

\* Session p was opened with factor f.
OpenedBy(p, f) == pairs[p].parent = 0 /\ pairs[p].factor = f

\* Code n was given out, and can no longer be consumed.
Used(n) == n \in 1 .. admin.enrolments /\ n \notin codes

\* The login c has consumed code n and has not opened its session yet.
HoldsCode(at, l, n) == at = "issue" /\ l.factor = <<"recovery", n>>

CodesSound ==
  /\ codes \subseteq 1 .. admin.enrolments
  /\ \A p \in Pairs, n \in Nat : OpenedBy(p, <<"recovery", n>>) =>
       /\ Used(n)
       /\ \A q \in Pairs : OpenedBy(q, <<"recovery", n>>) => p = q
  /\ \A c \in Calls, n \in Nat : HoldsCode(pc[c], loc[c], n) =>
       /\ Used(n)
       /\ \A p \in Pairs : ~OpenedBy(p, <<"recovery", n>>)
       /\ \A d \in Calls : HoldsCode(pc[d], loc[d], n) => c = d

\* Before there is an administrator there is no session.
AdminSound ==
  /\ pairs # <<>> => admin.hash # 0
  /\ \A p, q \in Pairs :
       OpenedBy(p, <<"bootstrap", 0>>) /\ OpenedBy(q, <<"bootstrap", 0>>) => p = q
  /\ \A p \in Pairs :
       pairs[p].factor[1] = "bootstrap" => pairs[p].factor = <<"bootstrap", 0>>

\* What a call that stands at a place knows.
CallSound(at, l) ==
  /\ l.factor[1] # "bootstrap"
  /\ at \in {"login", "issue", "recovery"} => admin.hash # 0
  /\ at = "login" /\ ~l.enabled => l.factor = NoFactor
  /\ at \in {"rotate", "reuse"} => l.pair \in Pairs
  /\ at = "reuse" => l.pair \in spent
  /\ at \in {"revoke", "revoking", "password", "change"} => l.session \in Pairs

CallsSound == \A c \in Calls : CallSound(pc[c], loc[c])

CurrentLogins == adapter = "supabase" => PasswordCurrent

AuthInv ==
  /\ TypeInv /\ TokensSound /\ ReplacedOnce /\ EndedSound /\ CodesSound
  /\ AdminSound /\ CallsSound /\ CurrentLogins

-----------------------------------------------------------------------------
(* What a step does to the tables, whichever adapter takes it *)

\* The calls other than c do not move.
OnlyMoves(c) == \A d \in Calls \ {c} : pc'[d] = pc[d] /\ loc'[d] = loc[d]

\* The pairs are those there were, but for the access they give.
SamePairs ==
  /\ Len(pairs') = Len(pairs)
  /\ \A p \in Pairs : /\ pairs'[p].session = pairs[p].session
                      /\ pairs'[p].parent = pairs[p].parent
                      /\ pairs'[p].factor = pairs[p].factor

\* No session comes back, or stands at another pair.
SessionsOnlyEnd ==
  /\ \A s \in 1 .. MaxPairs :
       /\ sessions'[s].current = sessions[s].current
       /\ sessions[s].revoked => sessions'[s].revoked
  /\ \A s \in ended' : s \in ended \/ sessions'[s].revoked

\* A used code stays used.
CodesOnlyUsed ==
  /\ codes' \subseteq 1 .. admin'.enrolments
  /\ \A n \in Nat : Used(n) => Used(n)'

\* A step that issues no pair: at most it consumes a code for its own call.
LEMMA StepKeeps ==
  ASSUME AuthInv, TypeInv', CurrentLogins', NEW c \in Calls, OnlyMoves(c),
         CallSound(pc[c], loc[c])',
         \A n \in Nat : HoldsCode(pc'[c], loc'[c], n) =>
            HoldsCode(pc[c], loc[c], n) \/ (n \in codes /\ Used(n)'),
         SamePairs, SessionsOnlyEnd, CodesOnlyUsed, spent' = spent,
         admin.hash # 0 => admin'.hash # 0
  PROVE  AuthInv'
<1>1. Pairs' = Pairs
  BY DEF SamePairs, Pairs
<1>2. Pairs \subseteq 1 .. MaxPairs /\ Len(pairs) \in Nat /\ Len(pairs') \in Nat
  BY CloudAuthAssumption DEF AuthInv, TypeInv, Pairs
<1>3. TokensSound' /\ ReplacedOnce'
  <2>1. \A p \in Pairs : /\ SessionOf(p)' = SessionOf(p) /\ SessionOf(p) \in Pairs
                         /\ Current(p)' <=> Current(p)
    BY ZenonT(60), <1>2 DEF AuthInv, TokensSound, SamePairs, SessionsOnlyEnd, SessionOf, Current
  <2>2. TokensSound'
    BY <1>1, <2>1 DEF AuthInv, TokensSound, SamePairs
  <2>3. ReplacedOnce'
    BY <1>1 DEF AuthInv, ReplacedOnce, SamePairs
  <2> QED BY <2>2, <2>3
<1>4. EndedSound'
  BY <1>1, <1>2 DEF AuthInv, TypeInv, EndedSound, SessionsOnlyEnd
<1>5. \A p \in Pairs : \A f : OpenedBy(p, f)' <=> OpenedBy(p, f)
  BY DEF OpenedBy, SamePairs
<1>6. CodesSound'
  <2>1. ASSUME NEW p \in Pairs, NEW n \in Nat, OpenedBy(p, <<"recovery", n>>)
        PROVE  Used(n)' /\ \A q \in Pairs : OpenedBy(q, <<"recovery", n>>) => p = q
    BY <2>1 DEF AuthInv, CodesSound, CodesOnlyUsed
  <2>2. ASSUME NEW d \in Calls, NEW n \in Nat, HoldsCode(pc'[d], loc'[d], n)
        PROVE  /\ Used(n)'
               /\ \A p \in Pairs : ~OpenedBy(p, <<"recovery", n>>)
               /\ \A e \in Calls : HoldsCode(pc'[e], loc'[e], n) => d = e
    <3>1. CASE HoldsCode(pc[d], loc[d], n)
      <4>1. Used(n) /\ n \notin codes
        BY <3>1 DEF AuthInv, CodesSound, Used
      <4> QED BY <3>1, <4>1 DEF AuthInv, CodesSound, CodesOnlyUsed, OnlyMoves
    <3>2. CASE ~HoldsCode(pc[d], loc[d], n)
      <4>1. d = c /\ n \in codes /\ Used(n)' /\ ~Used(n)
        BY <2>2, <3>2 DEF OnlyMoves, Used
      <4> QED BY <4>1 DEF AuthInv, CodesSound, OnlyMoves
    <3> QED BY <3>1, <3>2
  <2> QED BY <1>1, <1>5, <2>1, <2>2 DEF CodesSound, CodesOnlyUsed
<1>7. AdminSound'
  <2>1. pairs' # <<>> => pairs # <<>>
    BY <1>2 DEF AuthInv, TypeInv, SamePairs
  <2>2. \A p \in Pairs : pairs'[p].factor = pairs[p].factor
    BY DEF SamePairs
  <2> QED BY <1>1, <1>5, <2>1, <2>2 DEF AuthInv, AdminSound
<1>8. CallsSound'
  BY <1>1 DEF AuthInv, CallsSound, CallSound, OnlyMoves
<1> QED BY <1>3, <1>4, <1>6, <1>7, <1>8 DEF AuthInv

\* A login or the bootstrap opens a session.
LEMMA OpeningKeeps ==
  ASSUME AuthInv, TypeInv', NEW c \in Calls, OnlyMoves(c), pc'[c] = "idle",
         loc'[c].factor[1] # "bootstrap", NEW hash \in Nat, NEW factor \in Factors,
         OpenSession(hash, factor),
         \A n \in Nat : factor = <<"recovery", n>> => HoldsCode(pc[c], loc[c], n),
         factor[1] = "bootstrap" => factor = <<"bootstrap", 0>> /\ admin.hash = 0,
         admin'.hash # 0, admin'.hash = admin.hash \/ admin.hash = 0,
         adapter = "supabase" => hash = admin'.hash,
         UNCHANGED <<adapter, spent, codes, ended, admin.enrolments>>
  PROVE  AuthInv'
<1> PICK s \in Nat : s = Len(pairs) + 1
  BY DEF AuthInv, TypeInv
<1>1. /\ Len(pairs) \in Nat /\ s \in 1 .. MaxPairs /\ Len(pairs') = s
      /\ Pairs' = Pairs \cup {s} /\ s \notin Pairs
      /\ \A p \in Pairs : pairs'[p] = pairs[p] /\ p \in 1 .. MaxPairs
      /\ pairs'[s].session = s /\ pairs'[s].parent = 0 /\ pairs'[s].factor = factor
  <2> DEFINE new == [session |-> IF 0 = 0 THEN Len(pairs) + 1 ELSE 0, parent |-> 0,
                     factor |-> factor, revoked |-> FALSE,
                     access_until |-> clock + AccessLife,
                     until |-> clock + RefreshLife]
  <2>1. pairs' = Append(pairs, new) /\ Len(pairs) < MaxPairs
    BY DEF OpenSession, NewPair
  <2>2. pairs \in Seq(PairRows) /\ Len(pairs) \in Nat /\ MaxPairs \in Nat
    BY CloudAuthAssumption DEF AuthInv, TypeInv
  <2>3. new.session = s /\ new.parent = 0 /\ new.factor = factor
    OBVIOUS
  <2> HIDE DEF new
  <2>4. /\ Len(pairs') = s /\ pairs'[s] = new
        /\ \A p \in 1 .. Len(pairs) : pairs'[p] = pairs[p]
    BY <2>1, <2>2
  <2> QED BY <2>1, <2>2, <2>3, <2>4 DEF Pairs
<1>2. /\ sessions'[s] = [current |-> s, revoked |-> FALSE] /\ epoch'[s] = hash
      /\ \A p \in Pairs : sessions'[p] = sessions[p] /\ epoch'[p] = epoch[p]
  BY <1>1 DEF OpenSession, AuthInv, TypeInv
<1>3. \A p \in Pairs : SessionOf(p) \in Pairs /\ SessionOf(p)' = SessionOf(p)
  BY <1>1 DEF AuthInv, TokensSound, SessionOf
<1>4. spent \subseteq Pairs /\ s \notin spent /\ ended \subseteq Pairs
  BY <1>1 DEF AuthInv, TypeInv
<1>5. TokensSound' /\ ReplacedOnce' /\ EndedSound'
  <2>1. \A p \in Pairs : Current(p)' <=> Current(p)
    BY <1>2, <1>3 DEF Current
  <2>2. SessionOf(s)' = s /\ Current(s)'
    BY <1>1, <1>2 DEF Current, SessionOf
  <2>3. TokensSound'
    BY <1>1, <1>3, <1>4, <2>1, <2>2 DEF AuthInv, TokensSound
  <2>4. ReplacedOnce'
    BY <1>1 DEF AuthInv, ReplacedOnce
  <2>5. EndedSound'
    BY <1>2, <1>4 DEF AuthInv, EndedSound
  <2> QED BY <2>3, <2>4, <2>5
<1>6. /\ \A p \in Pairs : \A f : OpenedBy(p, f)' <=> OpenedBy(p, f)
      /\ \A f : OpenedBy(s, f)' <=> f = factor
  BY <1>1 DEF OpenedBy
<1>7. \A n \in Nat : Used(n)' <=> Used(n)
  BY DEF Used
<1>8. \A d \in Calls, n \in Nat : HoldsCode(pc'[d], loc'[d], n) =>
                                     HoldsCode(pc[d], loc[d], n) /\ d # c
  BY DEF HoldsCode, OnlyMoves
<1>9. CodesSound'
  <2>1. ASSUME NEW p \in Pairs', NEW n \in Nat, OpenedBy(p, <<"recovery", n>>)'
        PROVE  /\ Used(n)
               /\ \A q \in Pairs' : OpenedBy(q, <<"recovery", n>>)' => p = q
    <3>1. CASE factor = <<"recovery", n>>
      <4>1. Used(n) /\ \A q \in Pairs : ~OpenedBy(q, <<"recovery", n>>)
        BY <3>1 DEF AuthInv, CodesSound
      <4> QED BY <1>1, <1>6, <2>1, <4>1
    <3>2. CASE factor # <<"recovery", n>>
      BY <1>1, <1>6, <2>1, <3>2 DEF AuthInv, CodesSound
    <3> QED BY <3>1, <3>2
  <2>2. ASSUME NEW d \in Calls, NEW n \in Nat, HoldsCode(pc'[d], loc'[d], n)
        PROVE  /\ Used(n)
               /\ \A p \in Pairs' : ~OpenedBy(p, <<"recovery", n>>)'
               /\ \A e \in Calls : HoldsCode(pc'[e], loc'[e], n) => d = e
    <3>1. HoldsCode(pc[d], loc[d], n) /\ d # c
      BY <1>8, <2>2
    <3>2. factor # <<"recovery", n>>
      BY <3>1 DEF AuthInv, CodesSound
    <3> QED BY <1>1, <1>6, <1>8, <3>1, <3>2 DEF AuthInv, CodesSound
  <2>3. codes' \subseteq 1 .. admin'.enrolments
    BY DEF AuthInv, CodesSound
  <2> QED BY <1>7, <2>1, <2>2, <2>3 DEF CodesSound
<1>10. AdminSound'
  <2>1. factor[1] = "bootstrap" => Pairs = {}
    BY <1>1 DEF AuthInv, AdminSound, TypeInv, Pairs
  <2>2. factor = <<"bootstrap", 0>> => factor[1] = "bootstrap"
    OBVIOUS
  <2>3. \A p, q \in Pairs' :
          OpenedBy(p, <<"bootstrap", 0>>)' /\ OpenedBy(q, <<"bootstrap", 0>>)' => p = q
    BY <1>1, <1>6, <2>1, <2>2 DEF AuthInv, AdminSound
  <2>4. \A p \in Pairs' :
          pairs'[p].factor[1] = "bootstrap" => pairs'[p].factor = <<"bootstrap", 0>>
    BY <1>1 DEF AuthInv, AdminSound
  <2> QED BY <2>3, <2>4 DEF AdminSound
<1>11. CallsSound'
  <2>1. CallSound(pc[c], loc[c])'
    BY DEF CallSound
  <2>2. ASSUME NEW d \in Calls \ {c}
        PROVE  CallSound(pc[d], loc[d])'
    BY <1>1 DEF AuthInv, CallsSound, CallSound, OnlyMoves
  <2> QED BY <2>1, <2>2 DEF CallsSound
<1>12. CurrentLogins'
  <2> SUFFICES ASSUME adapter = "supabase", NEW p \in Pairs',
                      ~sessions'[SessionOf(p)'].revoked
               PROVE  epoch'[SessionOf(p)'] = admin'.hash
    BY DEF CurrentLogins, PasswordCurrent, Sessions
  <2>1. CASE p = s
    BY <1>1, <1>2, <2>1 DEF SessionOf
  <2>2. CASE p \in Pairs
    <3>1. SessionOf(p) \in Sessions /\ SessionOf(p) \in Pairs
      BY <1>3, <2>2 DEF Sessions
    <3>2. epoch[SessionOf(p)] = admin.hash
      BY <1>2, <1>3, <2>2, <3>1 DEF AuthInv, CurrentLogins, PasswordCurrent
    <3>3. admin.hash # 0
      BY <1>1, <2>2 DEF AuthInv, AdminSound, TypeInv, Pairs
    <3> QED BY <1>2, <1>3, <2>2, <3>1, <3>2, <3>3
  <2> QED BY <1>1, <2>1, <2>2
<1> QED BY <1>5, <1>9, <1>10, <1>11, <1>12 DEF AuthInv

\* A session exchanges its refresh token, of pair p, for a new pair.
LEMMA RotationKeeps ==
  ASSUME AuthInv, TypeInv', NEW c \in Calls, OnlyMoves(c), pc'[c] = "idle",
         loc'[c].factor[1] # "bootstrap",
         NEW p \in Pairs, p \notin spent, spent' = spent \cup {p},
         Len(pairs') = Len(pairs) + 1,
         \A q \in Pairs : /\ pairs'[q].session = pairs[q].session
                          /\ pairs'[q].parent = pairs[q].parent
                          /\ pairs'[q].factor = pairs[q].factor,
         pairs'[Len(pairs) + 1].session = SessionOf(p),
         pairs'[Len(pairs) + 1].parent = p,
         pairs'[Len(pairs) + 1].factor = pairs[p].factor,
         sessions' = [sessions EXCEPT ![SessionOf(p)].current = Len(pairs) + 1],
         UNCHANGED <<adapter, admin, codes, ended, epoch>>
  PROVE  AuthInv'
<1> PICK n \in Nat : n = Len(pairs) + 1
  BY DEF AuthInv, TypeInv
<1> PICK s : s = SessionOf(p)
  OBVIOUS
<1>1. /\ Len(pairs) \in Nat /\ n \in 1 .. MaxPairs /\ Pairs' = Pairs \cup {n}
      /\ n \notin Pairs /\ n # 0 /\ p # 0
      /\ \A q \in Pairs : q \in 1 .. MaxPairs
  <2>1. /\ Len(pairs) \in Nat /\ Len(pairs) <= MaxPairs /\ MaxPairs \in Nat
        /\ Len(pairs') = n /\ n <= MaxPairs
    BY CloudAuthAssumption DEF AuthInv, TypeInv
  <2> QED BY <2>1 DEF Pairs
<1>2. /\ pairs'[n].session = s /\ pairs'[n].parent = p
      /\ pairs'[n].factor = pairs[p].factor
  OBVIOUS
<1>3. s \in Pairs /\ s \in 1 .. MaxPairs /\ Current(p) /\ sessions[s].current = p
  BY <1>1 DEF AuthInv, TokensSound, SessionOf, Current
<1>4. /\ sessions'[s].current = n /\ sessions'[s].revoked = sessions[s].revoked
      /\ \A t \in 1 .. MaxPairs : t # s => sessions'[t] = sessions[t]
  BY <1>3 DEF AuthInv, TypeInv
<1>5. spent \subseteq Pairs /\ n \notin spent' /\ ended \subseteq Pairs
  BY <1>1 DEF AuthInv, TypeInv
<1>6. \A q \in Pairs : SessionOf(q)' = SessionOf(q) /\ SessionOf(q) \in Pairs
  BY DEF AuthInv, TokensSound, SessionOf
<1>7. TokensSound'
  <2>1. SessionOf(n)' = s /\ Current(n)'
    BY <1>2, <1>4 DEF SessionOf, Current
  <2>2. ASSUME NEW q \in Pairs
        PROVE  Current(q)' <=> q \notin spent'
    <3>1. CASE SessionOf(q) = s
      <4>1. ~Current(q)'
        BY <1>1, <1>4, <1>6, <3>1 DEF Current
      <4>2. q \notin spent => q = p
        BY <1>3, <3>1 DEF AuthInv, TokensSound, Current
      <4> QED BY <4>1, <4>2
    <3>2. CASE SessionOf(q) # s
      <4>1. SessionOf(q)' = SessionOf(q) /\ SessionOf(q) \in 1 .. MaxPairs /\ q # p
        BY <1>1, <1>6, <3>2
      <4>2. Current(q)' <=> Current(q)
        BY <1>4, <3>2, <4>1 DEF Current
      <4> QED BY <4>1, <4>2 DEF AuthInv, TokensSound
    <3> QED BY <3>1, <3>2
  <2>3. \A q \in Pairs' : pairs'[q].parent # 0 => pairs'[q].parent \in spent'
    BY <1>1, <1>2 DEF AuthInv, TokensSound
  <2> QED BY <1>1, <1>3, <1>5, <1>6, <2>1, <2>2, <2>3 DEF TokensSound
<1>8. ReplacedOnce'
  <2>1. \A q \in Pairs : pairs[q].parent # p
    BY <1>1 DEF AuthInv, TokensSound
  <2> QED BY <1>1, <1>2, <2>1 DEF AuthInv, ReplacedOnce
<1>9. EndedSound'
  BY <1>1, <1>4, <1>5 DEF AuthInv, EndedSound
<1>10. /\ \A q \in Pairs : \A f : OpenedBy(q, f)' <=> OpenedBy(q, f)
       /\ \A f : ~OpenedBy(n, f)'
  BY <1>1, <1>2 DEF OpenedBy
<1>11. CodesSound'
  <2>1. \A d \in Calls, m \in Nat : HoldsCode(pc'[d], loc'[d], m) =>
                                      HoldsCode(pc[d], loc[d], m)
    BY DEF HoldsCode, OnlyMoves
  <2>2. \A m \in Nat : Used(m)' <=> Used(m)
    BY DEF Used
  <2>3. codes' \subseteq 1 .. admin'.enrolments
    BY DEF AuthInv, CodesSound
  <2>4. \A q \in Pairs', m \in Nat : OpenedBy(q, <<"recovery", m>>)' =>
          q \in Pairs /\ OpenedBy(q, <<"recovery", m>>)
    BY <1>1, <1>10
  <2> QED BY <2>1, <2>2, <2>3, <2>4 DEF AuthInv, CodesSound
<1>12. AdminSound'
  <2>1. admin.hash # 0
    BY <1>1 DEF AuthInv, AdminSound, TypeInv, Pairs
  <2>2. \A q \in Pairs' :
          pairs'[q].factor[1] = "bootstrap" => pairs'[q].factor = <<"bootstrap", 0>>
    BY <1>1, <1>2 DEF AuthInv, AdminSound
  <2> QED BY <1>1, <1>10, <2>1, <2>2 DEF AuthInv, AdminSound
<1>13. CallsSound'
  <2>1. CallSound(pc[c], loc[c])'
    BY DEF CallSound
  <2>2. ASSUME NEW d \in Calls \ {c}
        PROVE  CallSound(pc[d], loc[d])'
    BY <1>1 DEF AuthInv, CallsSound, CallSound, OnlyMoves
  <2> QED BY <2>1, <2>2 DEF CallsSound
<1>14. CurrentLogins'
  <2> SUFFICES ASSUME adapter = "supabase", NEW q \in Pairs',
                      ~sessions'[SessionOf(q)'].revoked
               PROVE  epoch[SessionOf(q)'] = admin.hash
    BY DEF CurrentLogins, PasswordCurrent, Sessions
  <2>1. PICK r \in Pairs : SessionOf(q)' = SessionOf(r)
    BY <1>1, <1>2, <1>6 DEF SessionOf
  <2>2. sessions'[SessionOf(r)].revoked = sessions[SessionOf(r)].revoked
    BY <1>1, <1>4, <1>6
  <2> QED BY <2>1, <2>2 DEF AuthInv, CurrentLogins, PasswordCurrent, Sessions
<1> QED BY <1>7, <1>8, <1>9, <1>11, <1>12, <1>13, <1>14 DEF AuthInv

-----------------------------------------------------------------------------
(* The same, with the types *)

LEMMA AtRest ==
  /\ NoLocals \in Locals /\ NoLocals.factor = NoFactor /\ ~NoLocals.enabled
  /\ NoFactor \in Factors /\ NoFactor[1] = "none" /\ NoLock \in Locks
<1>1. NoFactor[1] = "none"
  BY DEF NoFactor
<1>2. NoFactor \in Factors
  BY DEF NoFactor, Factors
<1>3. NoLock \in Locks
  BY DEF NoLock, Locks
<1> QED BY <1>1, <1>2, <1>3 DEF NoLocals, Locals

LEMMA InitAuth == MCInit => AuthInv
<1> SUFFICES ASSUME MCInit PROVE AuthInv
  OBVIOUS
<1>1. Pairs = {} /\ Len(pairs) = 0 /\ MaxPairs \in Nat
  BY CloudAuthAssumption DEF MCInit, Init, Pairs
<1>2. pc \in [Calls -> Places] /\ loc \in [Calls -> Locals]
  <2>1. pc = [c \in Calls |-> "idle"] /\ loc = [c \in Calls |-> NoLocals]
    BY DEF MCInit, Init
  <2>2. NoLocals \in Locals
    BY AtRest
  <2> QED BY <2>1, <2>2 DEF Places
<1>3. TypeInv
  BY <1>1, <1>2 DEF MCInit, Init, TypeInv, Administrators, Locks, NoLock
<1>4. TokensSound /\ ReplacedOnce /\ EndedSound
  BY <1>1 DEF MCInit, Init, TokensSound, ReplacedOnce, EndedSound
<1>5. \A c \in Calls : pc[c] = "idle" /\ loc[c] = NoLocals
  BY DEF MCInit, Init
<1>6. CodesSound
  BY <1>1, <1>5 DEF MCInit, Init, CodesSound, HoldsCode
<1>7. AdminSound
  BY <1>1 DEF MCInit, Init, AdminSound
<1>8. CallsSound
  BY <1>5, AtRest DEF CallsSound, CallSound
<1>9. CurrentLogins
  BY <1>1 DEF CurrentLogins, PasswordCurrent, Sessions
<1> QED BY <1>3, <1>4, <1>6, <1>7, <1>8, <1>9 DEF AuthInv

LEMMA Going ==
  ASSUME AuthInv, NEW c \in Calls, NEW at \in Places, NEW l \in Locals,
         Goto(c, at, l)
  PROVE  /\ pc' \in [Calls -> Places] /\ loc' \in [Calls -> Locals]
         /\ pc'[c] = at /\ loc'[c] = l /\ OnlyMoves(c)
BY DEF AuthInv, TypeInv, Goto, OnlyMoves

\* A step that only moves its call
LEMMA MoveKeeps ==
  ASSUME AuthInv, NEW c \in Calls, NEW at \in Places, NEW l \in Locals,
         Goto(c, at, l), CallSound(at, l),
         \A n \in Nat : HoldsCode(at, l, n) => HoldsCode(pc[c], loc[c], n),
         UNCHANGED <<adapter, tables, clock, epoch, ended>>
  PROVE  AuthInv'
<1>1. /\ pc' \in [Calls -> Places] /\ loc' \in [Calls -> Locals]
      /\ pc'[c] = at /\ loc'[c] = l /\ OnlyMoves(c)
  BY Going
<1>2. TypeInv'
  BY <1>1 DEF AuthInv, TypeInv, tables, Pairs
<1>3. SamePairs /\ SessionsOnlyEnd /\ CodesOnlyUsed /\ CurrentLogins'
  BY DEF AuthInv, tables, SamePairs, SessionsOnlyEnd, CodesOnlyUsed, CodesSound, Used,
     CurrentLogins, PasswordCurrent, Sessions, Pairs, SessionOf
<1>4. CallSound(pc[c], loc[c])'
  BY <1>1 DEF CallSound, tables, Pairs
<1> QED BY <1>1, <1>2, <1>3, <1>4, StepKeeps DEF tables

\* The access of some pairs is taken back.
LEMMA Taken ==
  ASSUME AuthInv, NEW Over,
         pairs' = [p \in Pairs |->
                    [pairs[p] EXCEPT !.revoked = pairs[p].revoked \/ SessionOf(p) \in Over]]
  PROVE  pairs' \in Seq(PairRows) /\ SamePairs
<1> DEFINE gone(p) == [pairs[p] EXCEPT !.revoked = pairs[p].revoked \/ SessionOf(p) \in Over]
<1>1. /\ Len(pairs) \in Nat /\ Pairs = 1 .. Len(pairs)
      /\ \A p \in 1 .. Len(pairs) : pairs[p] \in PairRows
  BY DEF AuthInv, TypeInv, Pairs
<1>2. \A p \in 1 .. Len(pairs) :
        gone(p) \in PairRows /\ gone(p).session = pairs[p].session
        /\ gone(p).parent = pairs[p].parent /\ gone(p).factor = pairs[p].factor
  BY <1>1 DEF PairRows
<1>3. pairs' = [p \in 1 .. Len(pairs) |-> gone(p)]
  BY <1>1
<1> HIDE DEF gone
<1>4. \A p \in 1 .. Len(pairs) : pairs'[p] \in PairRows /\ pairs'[p] = gone(p)
  BY <1>2, <1>3
<1>5. pairs' \in Seq(PairRows) /\ Len(pairs') = Len(pairs)
  BY <1>1, <1>3, <1>4
<1> QED BY <1>1, <1>2, <1>4, <1>5 DEF SamePairs

\* The sessions in Over end, and access with them.
LEMMA EndingKeeps ==
  ASSUME AuthInv, CurrentLogins', NEW c \in Calls, OnlyMoves(c), pc'[c] = "idle",
         pc' \in [Calls -> Places], loc' \in [Calls -> Locals],
         loc'[c].factor[1] # "bootstrap",
         NEW Over \in SUBSET Pairs, EndSessions(Over),
         pairs' \in Seq(PairRows), SamePairs,
         admin' \in Administrators, admin'.enrolments = admin.enrolments,
         admin.hash # 0 => admin'.hash # 0,
         epoch' \in [1 .. MaxPairs -> Nat],
         UNCHANGED <<adapter, lock, spent, codes, clock>>
  PROVE  AuthInv'
<1>1. Pairs' = Pairs /\ \A p \in Pairs : p \in 1 .. MaxPairs
  BY CloudAuthAssumption DEF SamePairs, Pairs, AuthInv, TypeInv
<1>2. /\ sessions' \in [1 .. MaxPairs -> [current : Nat, revoked : BOOLEAN]]
      /\ \A s \in 1 .. MaxPairs :
           /\ sessions'[s].current = sessions[s].current
           /\ sessions'[s].revoked <=> sessions[s].revoked \/ s \in Over
  BY DEF AuthInv, TypeInv, EndSessions
<1>3. ended' = ended \cup Over
  BY DEF EndSessions
<1>4. TypeInv'
  BY <1>1, <1>2, <1>3 DEF AuthInv, TypeInv, SamePairs
<1>5. SessionsOnlyEnd
  BY <1>1, <1>2, <1>3 DEF SessionsOnlyEnd
<1>6. CodesOnlyUsed
  BY DEF AuthInv, CodesOnlyUsed, CodesSound, Used
<1>7. CallSound(pc[c], loc[c])' /\ \A n \in Nat : ~HoldsCode(pc'[c], loc'[c], n)
  BY DEF CallSound, HoldsCode
<1> QED BY <1>4, <1>5, <1>6, <1>7, StepKeeps

LEMMA TickKeeps ==
  ASSUME AuthInv, Tick, UNCHANGED adapter
  PROVE  AuthInv'
<1>1. TypeInv'
  BY DEF AuthInv, TypeInv, Tick, tables, history, Pairs
<1>2. TokensSound' /\ ReplacedOnce' /\ EndedSound'
  BY DEF AuthInv, Tick, tables, history, TokensSound, ReplacedOnce, EndedSound, Pairs,
     SessionOf, Current
<1>3. CodesSound' /\ AdminSound'
  BY DEF AuthInv, Tick, tables, history, CodesSound, AdminSound, Pairs, OpenedBy, Used
<1>4. CallsSound' /\ CurrentLogins'
  BY DEF AuthInv, Tick, tables, history, CallsSound, CallSound, CurrentLogins,
     PasswordCurrent, Sessions, Pairs, SessionOf
<1> QED BY <1>1, <1>2, <1>3, <1>4 DEF AuthInv

LEMMA StutterKeeps ==
  ASSUME AuthInv, UNCHANGED <<vars, adapter>>
  PROVE  AuthInv'
<1>1. TypeInv'
  BY DEF AuthInv, TypeInv, vars, tables, history, Pairs
<1>2. TokensSound' /\ ReplacedOnce' /\ EndedSound'
  BY DEF AuthInv, vars, tables, history, TokensSound, ReplacedOnce, EndedSound, Pairs,
     SessionOf, Current
<1>3. CodesSound' /\ AdminSound'
  BY DEF AuthInv, vars, tables, history, CodesSound, AdminSound, Pairs, OpenedBy, Used
<1>4. CallsSound' /\ CurrentLogins'
  BY DEF AuthInv, vars, tables, history, CallsSound, CallSound, CurrentLogins,
     PasswordCurrent, Sessions, Pairs, SessionOf
<1> QED BY <1>1, <1>2, <1>3, <1>4 DEF AuthInv

-----------------------------------------------------------------------------
(* The steps of Cloudflare *)

\* CloudflareAuth has its own copy of what the tables define.
LEMMA CloudflareNames ==
  /\ C!Pairs = Pairs /\ C!Sessions = Sessions /\ C!NoLocals = NoLocals
  /\ C!NoFactor = NoFactor /\ C!NoLock = NoLock
  /\ \A p : C!SessionOf(p) = SessionOf(p) /\ (C!Current(p) <=> Current(p))
  /\ \A c, at, l : C!Goto(c, at, l) <=> Goto(c, at, l)
  /\ \A c : C!Return(c) <=> Goto(c, "idle", NoLocals)
  /\ \A h, f : C!OpenSession(h, f) <=> OpenSession(h, f)
  /\ \A T : C!EndSessions(T) <=> EndSessions(T)
  /\ C!Tick <=> Tick
BY DEF C!Pairs, C!Sessions, C!NoLocals, C!NoFactor, C!NoLock, C!SessionOf, C!Current,
   C!Goto, C!Return, C!OpenSession, C!EndSessions, C!Tick, C!NewPair, C!tables,
   C!history, Pairs, Sessions, NoLocals, NoFactor, NoLock, SessionOf, Current, Goto,
   Return, OpenSession, EndSessions, Tick, NewPair, tables, history

OnCloudflare == adapter = "cloudflare" /\ UNCHANGED adapter

LEMMA Resting ==
  ASSUME AuthInv
  PROVE  /\ CallSound("idle", NoLocals)
         /\ \A n : ~HoldsCode("idle", NoLocals, n)
  BY AtRest DEF CallSound, HoldsCode

LEMMA CallOf ==
  ASSUME AuthInv, NEW c \in Calls
  PROVE  /\ loc[c] \in Locals /\ loc[c].factor \in Factors /\ CallSound(pc[c], loc[c])
         /\ loc[c].factor[1] # "bootstrap"
  BY DEF AuthInv, TypeInv, Locals, CallsSound, CallSound

LEMMA BootstrapMoves ==
  ASSUME AuthInv, OnCloudflare, NEW c \in Calls, C!Bootstrap(c)
  PROVE  AuthInv'
<1>1. Goto(c, "bootstrap", NoLocals)
  BY CloudflareNames DEF C!Bootstrap
<1>2. CallSound("bootstrap", NoLocals) /\ \A n : ~HoldsCode("bootstrap", NoLocals, n)
  BY AtRest DEF CallSound, HoldsCode
<1> QED BY <1>1, <1>2, AtRest, MoveKeeps
       DEF C!Bootstrap, C!tables, C!history, tables, OnCloudflare, Places

LEMMA LoginMoves ==
  ASSUME AuthInv, OnCloudflare, NEW c \in Calls, NEW f,
         f \in {NoFactor, <<"totp", 0>>} \cup ({"recovery"} \X (1 .. MaxEnrolments)),
         C!Login(c, f)
  PROVE  AuthInv'
<1> DEFINE l == [NoLocals EXCEPT !.hash = admin.hash, !.totp = admin.totp,
                   !.enabled = admin.enabled,
                   !.factor = IF admin.enabled THEN f ELSE NoFactor]
<1>1. Goto(c, "login", l) /\ admin.hash # 0
  <2>1. /\ admin.hash # 0
        /\ C!Goto(c, "login", [C!NoLocals EXCEPT !.hash = admin.hash,
                   !.totp = admin.totp, !.enabled = admin.enabled,
                   !.factor = IF admin.enabled THEN f ELSE C!NoFactor])
    BY DEF C!Login
  <2>2. C!NoLocals = NoLocals /\ C!NoFactor = NoFactor
    BY CloudflareNames
  <2>3. C!Goto(c, "login", l)
    BY <2>1, <2>2
  <2> HIDE DEF l
  <2> QED BY <2>1, <2>3, CloudflareNames
<1>2. f \in Factors /\ f[1] # "bootstrap"
  BY CloudAuthAssumption, AtRest DEF Factors
<1>3. /\ l \in Locals /\ l.factor[1] # "bootstrap"
      /\ ~l.enabled => l.factor = NoFactor
  BY <1>2, AtRest DEF AuthInv, TypeInv, Administrators, Locals
<1> HIDE DEF l
<1>4. CallSound("login", l) /\ \A n : ~HoldsCode("login", l, n)
  BY <1>1, <1>3 DEF CallSound, HoldsCode
<1>5. UNCHANGED <<adapter, tables, clock, epoch, ended>>
  BY DEF C!Login, C!tables, C!history, tables, OnCloudflare
<1> QED BY <1>1, <1>3, <1>4, <1>5, MoveKeeps DEF Places

LEMMA VerdictMoves ==
  ASSUME AuthInv, OnCloudflare, NEW c \in Calls, NEW right \in BOOLEAN,
         C!IsLoginLocked(c, right)
  PROVE  AuthInv'
<1>1. PICK v \in {"idle", "failure", "recovery", "issue"} :
        /\ v = "issue" => loc[c].factor[1] # "recovery"
        /\ Goto(c, v, IF v \in {"idle", "failure"} THEN NoLocals
                      ELSE [loc[c] EXCEPT !.totp = 0, !.enabled = FALSE])
  <2> DEFINE v == IF lock.until > clock THEN "idle"
                  ELSE IF ~right THEN "failure" ELSE C!FactorVerdict(loc[c])
  <2>1. C!FactorVerdict(loc[c]) \in {"idle", "failure", "recovery", "issue"}
    BY DEF C!FactorVerdict
  <2>2. C!FactorVerdict(loc[c]) = "issue" => loc[c].factor[1] # "recovery"
    <3>1. pc[c] = "login"
      BY DEF C!IsLoginLocked
    <3>2. ~loc[c].enabled => loc[c].factor[1] = "none"
      BY <3>1, CallOf, AtRest DEF CallSound
    <3> QED BY <3>2 DEF C!FactorVerdict
  <2>3. v \in {"idle", "failure", "recovery", "issue"}
    BY <2>1
  <2>4. v = "issue" => loc[c].factor[1] # "recovery"
    BY <2>2
  <2>5. Goto(c, v, IF v \in {"idle", "failure"} THEN NoLocals
                   ELSE [loc[c] EXCEPT !.totp = 0, !.enabled = FALSE])
    BY CloudflareNames DEF C!IsLoginLocked
  <2> QED BY <2>3, <2>4, <2>5
<1>2. admin.hash # 0
  BY CallOf DEF C!IsLoginLocked, CallSound
<1> DEFINE l == IF v \in {"idle", "failure"} THEN NoLocals
                ELSE [loc[c] EXCEPT !.totp = 0, !.enabled = FALSE]
<1>3. /\ l \in Locals /\ l.factor[1] # "bootstrap"
      /\ v = "issue" => l.factor[1] # "recovery"
  BY <1>1, CallOf, AtRest DEF Locals
<1>4. Goto(c, v, l)
  BY <1>1
<1> HIDE DEF l
<1>5. CallSound(v, l) /\ \A n : ~HoldsCode(v, l, n)
  BY <1>2, <1>3 DEF CallSound, HoldsCode
<1> QED BY <1>3, <1>4, <1>5, MoveKeeps
       DEF C!IsLoginLocked, C!tables, C!history, tables, OnCloudflare, Places

LEMMA ReadFailuresMoves ==
  ASSUME AuthInv, OnCloudflare, NEW c \in Calls, C!ReadFailures(c)
  PROVE  AuthInv'
<1> DEFINE l == [NoLocals EXCEPT !.lock = lock]
<1>1. Goto(c, "record", l)
  BY CloudflareNames DEF C!ReadFailures
<1>2. l \in Locals /\ l.factor = NoFactor
  BY AtRest DEF AuthInv, TypeInv, Locals
<1> HIDE DEF l
<1>3. CallSound("record", l) /\ \A n : ~HoldsCode("record", l, n)
  BY <1>2, AtRest DEF CallSound, HoldsCode
<1> QED BY <1>1, <1>2, <1>3, MoveKeeps
       DEF C!ReadFailures, C!tables, C!history, tables, OnCloudflare, Places

\* A step that changes the row of the administrator, its failures or codes
LEMMA RowKeeps ==
  ASSUME AuthInv, NEW c \in Calls, NEW at \in Places, NEW l \in Locals,
         Goto(c, at, l), CallSound(at, l),
         \A n \in Nat : HoldsCode(at, l, n) =>
            HoldsCode(pc[c], loc[c], n) \/ (n \in codes /\ n \notin codes'),
         lock' \in Locks, admin' \in Administrators, admin'.hash = admin.hash,
         admin'.enrolments >= admin.enrolments, codes' \subseteq 1 .. admin'.enrolments,
         \A n \in codes' : n \in codes \/ n > admin.enrolments,
         UNCHANGED <<adapter, sessions, pairs, spent, clock, epoch, ended>>
  PROVE  AuthInv'
<1>1. /\ pc' \in [Calls -> Places] /\ loc' \in [Calls -> Locals]
      /\ pc'[c] = at /\ loc'[c] = l /\ OnlyMoves(c)
  BY Going
<1>2. admin.enrolments \in Nat /\ admin'.enrolments \in Nat
  BY DEF AuthInv, TypeInv, Administrators
<1>3. TypeInv'
  BY <1>1, <1>2 DEF AuthInv, TypeInv, Pairs
<1>4. SamePairs /\ SessionsOnlyEnd /\ CurrentLogins'
  BY DEF AuthInv, SamePairs, SessionsOnlyEnd, CurrentLogins, PasswordCurrent, Sessions,
     Pairs, SessionOf
<1>5. CodesOnlyUsed
  BY <1>2 DEF CodesOnlyUsed, Used
<1>6. \A n \in codes : n \in Nat /\ n <= admin'.enrolments /\ n >= 1
  BY <1>2 DEF AuthInv, CodesSound
<1>7. \A n \in Nat : HoldsCode(pc'[c], loc'[c], n) =>
        HoldsCode(pc[c], loc[c], n) \/ (n \in codes /\ Used(n)')
  BY <1>1, <1>2, <1>6 DEF Used
<1>8. CallSound(pc[c], loc[c])'
  BY <1>1 DEF CallSound, Pairs
<1> QED BY <1>1, <1>3, <1>4, <1>5, <1>7, <1>8, StepKeeps

LEMMA ConsumeKeeps ==
  ASSUME AuthInv, OnCloudflare, NEW c \in Calls, C!ConsumeRecoveryCode(c)
  PROVE  AuthInv'
<1>1. /\ pc[c] = "recovery" /\ codes' = codes \ {loc[c].factor[2]}
      /\ UNCHANGED <<adapter, admin, lock, sessions, pairs, spent, clock, epoch, ended>>
  BY DEF C!ConsumeRecoveryCode, C!Spend, C!history, OnCloudflare
<1>2. loc[c] \in Locals /\ CallSound(pc[c], loc[c])
  BY CallOf
<1>3. /\ lock' \in Locks /\ admin' \in Administrators /\ admin.enrolments \in Nat
      /\ codes' \subseteq 1 .. admin'.enrolments
  BY <1>1 DEF AuthInv, TypeInv, Administrators, CodesSound
<1>4. CASE loc[c].factor[2] \in codes
  <2>1. Goto(c, "issue", loc[c])
    BY <1>4, CloudflareNames DEF C!ConsumeRecoveryCode
  <2>2. CallSound("issue", loc[c])
    BY <1>1, <1>2 DEF CallSound
  <2>3. \A n \in Nat : HoldsCode("issue", loc[c], n) => n \in codes /\ n \notin codes'
    BY <1>1, <1>4 DEF HoldsCode
  <2> QED BY <1>1, <1>2, <1>3, <2>1, <2>2, <2>3, RowKeeps DEF Places
<1>5. CASE loc[c].factor[2] \notin codes
  <2>1. Goto(c, "failure", NoLocals)
    BY <1>5, CloudflareNames DEF C!ConsumeRecoveryCode
  <2>2. CallSound("failure", NoLocals) /\ \A n : ~HoldsCode("failure", NoLocals, n)
    BY AtRest DEF CallSound, HoldsCode
  <2> QED BY <1>1, <1>3, <2>1, <2>2, AtRest, RowKeeps DEF Places
<1> QED BY <1>4, <1>5

LEMMA RecordFailureKeeps ==
  ASSUME AuthInv, OnCloudflare, NEW c \in Calls, C!RecordLoginFailure(c)
  PROVE  AuthInv'
<1>1. /\ Goto(c, "idle", NoLocals)
      /\ UNCHANGED <<adapter, admin, sessions, pairs, spent, codes, clock, epoch, ended>>
  BY CloudflareNames DEF C!RecordLoginFailure, C!history, OnCloudflare
<1>2. lock' \in Locks
  <2>1. /\ loc[c].lock \in Locks /\ clock \in Nat /\ MaxFailures \in Nat /\ Lockout \in Nat
    BY CallOf, CloudAuthAssumption DEF AuthInv, TypeInv, Locals
  <2> DEFINE old == loc[c].lock
             inWindow == old.count > 0 /\ clock - old.since < Lockout
             count == IF ~inWindow THEN 1
                      ELSE IF old.count < MaxFailures THEN old.count + 1 ELSE MaxFailures
  <2>2. lock' = [count |-> count, since |-> IF inWindow THEN old.since ELSE clock,
                 until |-> IF count >= MaxFailures THEN clock + Lockout ELSE 0]
    BY DEF C!RecordLoginFailure
  <2>3. count \in Nat /\ old.since \in Int
    BY <2>1 DEF Locks
  <2> HIDE DEF count, inWindow, old
  <2> QED BY <2>1, <2>2, <2>3 DEF Locks
<1>3. /\ admin' \in Administrators /\ admin'.hash = admin.hash
      /\ admin'.enrolments >= admin.enrolments
      /\ codes' \subseteq 1 .. admin'.enrolments /\ codes' = codes
  BY <1>1 DEF AuthInv, TypeInv, Administrators, CodesSound
<1> QED BY <1>1, <1>2, <1>3, Resting, AtRest, RowKeeps DEF Places

LEMMA RowOf ==
  ASSUME AuthInv
  PROVE  /\ admin \in Administrators /\ lock \in Locks
         /\ admin.enrolments \in Nat /\ admin.secrets \in Nat /\ admin.pending \in Nat
         /\ codes \subseteq 1 .. admin.enrolments
BY DEF AuthInv, TypeInv, Administrators, CodesSound

LEMMA PrepareKeeps ==
  ASSUME AuthInv, OnCloudflare, NEW c \in Calls, C!PrepareTotp(c)
  PROVE  AuthInv'
<1>1. PICK n \in Nat, t \in Int : n = admin.secrets + 1 /\ t = clock + PendingLife
  BY SMTT(60), RowOf, CloudAuthAssumption DEF AuthInv, TypeInv
<1>2. /\ Goto(c, "idle", NoLocals)
      /\ admin' = [admin EXCEPT !.secrets = n, !.pending = n, !.pending_until = t]
      /\ UNCHANGED <<adapter, lock, codes, sessions, pairs, spent, clock, epoch, ended>>
  BY <1>1, CloudflareNames DEF C!PrepareTotp, C!history, OnCloudflare
<1>3. /\ admin' \in Administrators /\ admin'.hash = admin.hash
      /\ admin'.enrolments = admin.enrolments
  <2>1. admin \in Administrators
    BY RowOf
  <2>2. admin' \in Administrators
    BY <1>1, <1>2, <2>1 DEF Administrators
  <2> QED BY <1>2, <2>1, <2>2 DEF Administrators
<1> QED BY <1>2, <1>3, RowOf, Resting, AtRest, RowKeeps DEF Places

LEMMA ClearKeeps ==
  ASSUME AuthInv, OnCloudflare, NEW c \in Calls, C!ClearPendingTotp(c)
  PROVE  AuthInv'
<1>1. PICK n \in Nat : n = 0 /\ n \in Int
  OBVIOUS
<1>2. /\ Goto(c, "idle", NoLocals)
      /\ admin' = [admin EXCEPT !.pending = n, !.pending_until = n]
      /\ UNCHANGED <<adapter, lock, codes, sessions, pairs, spent, clock, epoch, ended>>
  BY <1>1, CloudflareNames DEF C!ClearPendingTotp, C!history, OnCloudflare
<1>3. /\ admin' \in Administrators /\ admin'.hash = admin.hash
      /\ admin'.enrolments = admin.enrolments
  <2>1. admin \in Administrators
    BY RowOf
  <2>2. admin' \in Administrators
    BY <1>1, <1>2, <2>1 DEF Administrators
  <2> QED BY <1>2, <2>1, <2>2 DEF Administrators
<1> QED BY <1>2, <1>3, RowOf, Resting, AtRest, RowKeeps DEF Places

LEMMA EnableKeeps ==
  ASSUME AuthInv, OnCloudflare, NEW c \in Calls, C!EnableTotp(c)
  PROVE  AuthInv'
<1>1. PICK z \in Nat, n \in Nat : z = 0 /\ z \in Int /\ n = admin.enrolments + 1
  BY RowOf
<1>2. /\ Goto(c, "idle", NoLocals)
      /\ admin' = [admin EXCEPT !.totp = admin.pending, !.enabled = TRUE, !.pending = z,
                               !.pending_until = z, !.enrolments = n]
      /\ codes' = {n}
      /\ UNCHANGED <<adapter, lock, sessions, pairs, spent, clock, epoch, ended>>
  BY <1>1, CloudflareNames DEF C!EnableTotp, C!history, OnCloudflare
<1>3. /\ admin' \in Administrators /\ admin'.hash = admin.hash
      /\ admin'.enrolments = n
  <2>1. admin \in Administrators
    BY RowOf
  <2>2. admin' \in Administrators
    BY <1>1, <1>2, <2>1 DEF Administrators
  <2> QED BY <1>2, <2>1, <2>2 DEF Administrators
<1> QED BY <1>1, <1>2, <1>3, RowOf, Resting, AtRest, RowKeeps DEF Places

LEMMA PairOf ==
  ASSUME AuthInv, NEW p \in Pairs
  PROVE  /\ pairs[p] \in PairRows /\ p \in 1 .. MaxPairs /\ p \in Nat
         /\ SessionOf(p) \in Pairs /\ SessionOf(p) \in 1 .. MaxPairs
         /\ Current(p) <=> p \notin spent
         /\ pairs[p].factor[1] = "bootstrap" => pairs[p].factor = <<"bootstrap", 0>>
<1>1. p \in 1 .. Len(pairs) /\ pairs \in Seq(PairRows) /\ Len(pairs) <= MaxPairs
      /\ MaxPairs \in Nat /\ Len(pairs) \in Nat
  BY CloudAuthAssumption DEF AuthInv, TypeInv, Pairs
<1>2. \A q \in Pairs : q \in 1 .. MaxPairs /\ q \in Nat
  BY <1>1 DEF Pairs
<1>3. pairs[p] \in PairRows
  BY <1>1
<1>4. /\ SessionOf(p) \in Pairs /\ (Current(p) <=> p \notin spent)
      /\ pairs[p].factor[1] = "bootstrap" => pairs[p].factor = <<"bootstrap", 0>>
  BY DEF AuthInv, TokensSound, AdminSound
<1> QED BY <1>1, <1>2, <1>3, <1>4

LEMMA Opened ==
  ASSUME AuthInv, NEW hash \in Nat, NEW factor \in Factors, OpenSession(hash, factor)
  PROVE  /\ pairs' \in Seq(PairRows) /\ Len(pairs') = Len(pairs) + 1
         /\ Len(pairs') <= MaxPairs
         /\ sessions' \in [1 .. MaxPairs -> [current : Nat, revoked : BOOLEAN]]
         /\ epoch' \in [1 .. MaxPairs -> Nat]
<1>1. /\ pairs \in Seq(PairRows) /\ Len(pairs) \in Nat /\ MaxPairs \in Nat
      /\ clock + AccessLife \in Int /\ clock + RefreshLife \in Int
      /\ Len(pairs) < MaxPairs
  BY CloudAuthAssumption DEF AuthInv, TypeInv, OpenSession
<1> DEFINE new == [session |-> IF 0 = 0 THEN Len(pairs) + 1 ELSE 0, parent |-> 0,
                   factor |-> factor, revoked |-> FALSE,
                   access_until |-> clock + AccessLife, until |-> clock + RefreshLife]
<1>2. new \in PairRows
  BY <1>1 DEF PairRows
<1>3. pairs' = Append(pairs, new)
  BY DEF OpenSession, NewPair
<1> HIDE DEF new
<1>4. pairs' \in Seq(PairRows) /\ Len(pairs') = Len(pairs) + 1
  BY <1>1, <1>2, <1>3
<1>5. PICK s \in Nat : s = Len(pairs) + 1
  BY <1>1
<1>6. sessions' = [sessions EXCEPT ![s] = [current |-> s, revoked |-> FALSE]]
      /\ epoch' = [epoch EXCEPT ![s] = hash]
  BY <1>5 DEF OpenSession
<1>7. sessions' \in [1 .. MaxPairs -> [current : Nat, revoked : BOOLEAN]]
      /\ epoch' \in [1 .. MaxPairs -> Nat]
  BY <1>5, <1>6 DEF AuthInv, TypeInv
<1>8. Len(pairs') <= MaxPairs
  BY <1>1, <1>4
<1> QED BY <1>4, <1>7, <1>8

\* A session is opened, with the types.
LEMMA LoginKeeps ==
  ASSUME AuthInv, NEW c \in Calls, OnlyMoves(c), pc'[c] = "idle",
         pc' \in [Calls -> Places], loc' \in [Calls -> Locals],
         loc'[c].factor[1] # "bootstrap", NEW hash \in Nat, NEW factor \in Factors,
         OpenSession(hash, factor),
         \A n \in Nat : factor = <<"recovery", n>> => HoldsCode(pc[c], loc[c], n),
         factor[1] = "bootstrap" => factor = <<"bootstrap", 0>> /\ admin.hash = 0,
         admin' \in Administrators, lock' \in Locks, admin'.hash # 0,
         admin'.hash = admin.hash \/ admin.hash = 0,
         adapter = "supabase" => hash = admin'.hash,
         UNCHANGED <<adapter, spent, codes, ended, clock, admin.enrolments>>
  PROVE  AuthInv'
<1>1. /\ pairs' \in Seq(PairRows) /\ Len(pairs') = Len(pairs) + 1
      /\ Len(pairs') <= MaxPairs
      /\ sessions' \in [1 .. MaxPairs -> [current : Nat, revoked : BOOLEAN]]
      /\ epoch' \in [1 .. MaxPairs -> Nat]
  BY Opened
<1>2. Pairs \subseteq Pairs'
  BY <1>1 DEF AuthInv, TypeInv, Pairs
<1>3. TypeInv'
  BY <1>1, <1>2 DEF AuthInv, TypeInv
<1> QED BY <1>3, OpeningKeeps

LEMMA CommitBootstrapKeeps ==
  ASSUME AuthInv, OnCloudflare, NEW c \in Calls, C!CommitBootstrap(c)
  PROVE  AuthInv'
<1>1. /\ Goto(c, "idle", NoLocals)
      /\ UNCHANGED <<adapter, lock, spent, codes, clock, ended>>
  BY CloudflareNames DEF C!CommitBootstrap, OnCloudflare
<1>2. CASE C!CreateAdmin(c) /\ admin' = [admin EXCEPT !.hash = 1]
  <2>1. OpenSession(1, <<"bootstrap", 0>>) /\ admin.hash = 0
    BY <1>2, CloudflareNames DEF C!CreateAdmin
  <2>2. /\ admin' \in Administrators /\ admin'.hash = 1
        /\ admin'.enrolments = admin.enrolments
    BY <1>2, RowOf DEF Administrators
  <2>3. <<"bootstrap", 0>> \in Factors /\ 1 \in Nat
    BY DEF Factors
  <2> QED BY <1>1, <2>1, <2>2, <2>3, Going, AtRest, RowOf, LoginKeeps
         DEF Places, OnCloudflare
<1>3. CASE UNCHANGED <<admin, pairs, sessions, epoch>>
  BY <1>1, <1>3, Resting, AtRest, MoveKeeps DEF Places, tables, C!CommitBootstrap
<1> QED BY <1>2, <1>3 DEF C!CommitBootstrap

LEMMA CommitLoginKeeps ==
  ASSUME AuthInv, OnCloudflare, NEW c \in Calls, C!CommitLogin(c)
  PROVE  AuthInv'
<1>1. /\ Goto(c, "idle", NoLocals) /\ OpenSession(loc[c].hash, loc[c].factor)
      /\ pc[c] = "issue" /\ lock' = NoLock
      /\ UNCHANGED <<adapter, admin, spent, codes, clock, ended>>
  BY CloudflareNames DEF C!CommitLogin, OnCloudflare
<1>2. /\ loc[c].hash \in Nat /\ loc[c].factor \in Factors /\ admin.hash # 0
      /\ loc[c].factor[1] # "bootstrap"
  BY <1>1, CallOf DEF Locals, CallSound
<1>3. \A n \in Nat : loc[c].factor = <<"recovery", n>> => HoldsCode(pc[c], loc[c], n)
  BY <1>1 DEF HoldsCode
<1>4. admin' \in Administrators /\ lock' \in Locks
  BY <1>1, RowOf, AtRest
<1> QED BY <1>1, <1>2, <1>3, <1>4, Going, AtRest, LoginKeeps DEF Places, OnCloudflare

LEMMA RefreshMoves ==
  ASSUME AuthInv, OnCloudflare, NEW c \in Calls, NEW p \in Pairs, C!Refresh(c, p)
  PROVE  AuthInv'
<1> DEFINE l == [NoLocals EXCEPT !.pair = p]
<1>1. /\ Goto(c, IF Current(p) THEN "rotate" ELSE "reuse", l)
      /\ UNCHANGED <<adapter, tables, clock, epoch, ended>>
  BY CloudflareNames DEF C!Refresh, C!tables, C!history, tables, OnCloudflare
<1>2. l \in Locals /\ l.pair = p /\ l.factor = NoFactor
  BY AtRest, PairOf DEF Locals
<1> HIDE DEF l
<1>3. PICK at \in {"rotate", "reuse"} : Goto(c, at, l) /\ (at = "reuse" => ~Current(p))
  BY <1>1
<1>4. CallSound(at, l) /\ \A n : ~HoldsCode(at, l, n)
  BY <1>2, <1>3, AtRest, PairOf DEF CallSound, HoldsCode
<1> QED BY <1>1, <1>2, <1>3, <1>4, MoveKeeps DEF Places

\* The pair that takes the place of p
LEMMA Exchanged ==
  ASSUME AuthInv, NEW p \in Pairs, NEW row \in PairRows, NEW old,
         \A q \in Pairs : old[q] \in PairRows,
         pairs' = [q \in 1 .. Len(pairs) + 1 |-> IF q \in Pairs THEN old[q] ELSE row]
  PROVE  /\ pairs' \in Seq(PairRows) /\ Len(pairs') = Len(pairs) + 1
         /\ \A q \in Pairs : pairs'[q] = old[q]
         /\ pairs'[Len(pairs) + 1] = row
<1>1. PICK n \in Nat : n = Len(pairs) + 1
  BY DEF AuthInv, TypeInv
<1>2. Pairs = 1 .. Len(pairs) /\ Len(pairs) \in Nat /\ n \notin Pairs
      /\ \A q \in 1 .. n : q \in Pairs \/ q = n
  BY <1>1 DEF Pairs, AuthInv, TypeInv
<1> DEFINE e(q) == IF q \in Pairs THEN old[q] ELSE row
<1>3. \A q \in 1 .. n : e(q) \in PairRows
  OBVIOUS
<1>4. pairs' = [q \in 1 .. n |-> e(q)]
  BY <1>1
<1>5. (\A q \in Pairs : e(q) = old[q]) /\ e(n) = row
  BY <1>2
<1> HIDE DEF e
<1>6. pairs' \in Seq(PairRows) /\ Len(pairs') = n /\ \A q \in 1 .. n : pairs'[q] = e(q)
  BY <1>3, <1>4
<1>7. \A q \in Pairs : q \in 1 .. n
  BY <1>1, <1>2
<1> QED BY <1>1, <1>5, <1>6, <1>7

LEMMA RotateKeeps ==
  ASSUME AuthInv, OnCloudflare, NEW c \in Calls, C!Rotate(c)
  PROVE  AuthInv'
<1>1. /\ Goto(c, "idle", NoLocals) /\ pc[c] = "rotate"
      /\ UNCHANGED <<adapter, admin, lock, codes, clock, epoch, ended>>
  BY CloudflareNames DEF C!Rotate, C!history, OnCloudflare
<1>2. PICK p \in Pairs : p = loc[c].pair
  BY <1>1, CallOf DEF CallSound
<1>3. PICK s \in Pairs : s = SessionOf(p) /\ s \in 1 .. MaxPairs
  BY PairOf
<1>4. /\ p \notin spent /\ spent' = spent \cup {p} /\ Len(pairs) < MaxPairs
      /\ sessions' = [sessions EXCEPT ![s].current = Len(pairs) + 1]
  BY <1>2, <1>3, CloudflareNames DEF C!Rotate, C!CanRetire
<1> DEFINE row == [session |-> IF s = 0 THEN Len(pairs) + 1 ELSE s, parent |-> p,
                   factor |-> pairs[p].factor, revoked |-> FALSE,
                   access_until |-> clock + AccessLife, until |-> pairs[p].until]
           old == [q \in Pairs |-> IF SessionOf(q) = s
                                   THEN [pairs[q] EXCEPT !.revoked = TRUE] ELSE pairs[q]]
<1>5. /\ Len(pairs) \in Nat /\ pairs \in Seq(PairRows) /\ clock + AccessLife \in Int
      /\ s # 0 /\ p \in Nat /\ s \in Nat /\ pairs[p] \in PairRows
  <2>1. /\ Len(pairs) \in Nat /\ pairs \in Seq(PairRows) /\ clock + AccessLife \in Int
    BY CloudAuthAssumption DEF AuthInv, TypeInv
  <2>2. p \in Nat /\ s \in Nat /\ pairs[p] \in PairRows
    BY PairOf
  <2> QED BY <1>3, <2>1, <2>2
<1>6. /\ row \in PairRows /\ row.session = s /\ row.parent = p
      /\ row.factor = pairs[p].factor
  BY <1>5 DEF PairRows
<1>7. \A q \in Pairs : /\ old[q] \in PairRows /\ old[q].session = pairs[q].session
                       /\ old[q].parent = pairs[q].parent
                       /\ old[q].factor = pairs[q].factor
  <2> TAKE q \in Pairs
  <2>1. pairs[q] \in PairRows
    BY PairOf
  <2>2. old[q] = IF SessionOf(q) = s THEN [pairs[q] EXCEPT !.revoked = TRUE] ELSE pairs[q]
    OBVIOUS
  <2> HIDE DEF old
  <2> QED BY <2>1, <2>2 DEF PairRows
<1>8. pairs' = [q \in 1 .. Len(pairs) + 1 |-> IF q \in Pairs THEN old[q] ELSE row]
  <2>1. pairs' = [q \in 1 .. Len(pairs) + 1 |->
                    IF q \in Pairs /\ SessionOf(q) = s
                    THEN [pairs[q] EXCEPT !.revoked = TRUE]
                    ELSE Append(pairs, row)[q]]
    <3>1. C!NewPair(s, p, pairs[p].factor, pairs[p].until) = Append(pairs, row)
      BY DEF C!NewPair
    <3>2. C!Pairs = Pairs /\ \A q : C!SessionOf(q) = SessionOf(q)
      BY CloudflareNames
    <3> HIDE DEF row
    <3> QED BY <1>2, <1>3, <3>1, <3>2 DEF C!Rotate
  <2>2. \A q \in 1 .. Len(pairs) + 1 :
          Append(pairs, row)[q] = IF q \in Pairs THEN pairs[q] ELSE row
    <3> HIDE DEF row
    <3> QED BY <1>5, <1>6 DEF Pairs
  <2> HIDE DEF row
  <2> QED BY <2>1, <2>2
<1> HIDE DEF old, row
<1>9. /\ pairs' \in Seq(PairRows) /\ Len(pairs') = Len(pairs) + 1
      /\ \A q \in Pairs : pairs'[q] = old[q]
      /\ pairs'[Len(pairs) + 1] = row
  BY <1>6, <1>7, <1>8, Exchanged
<1>10. TypeInv'
  <2>1. /\ Len(pairs') <= MaxPairs /\ Pairs \subseteq Pairs' /\ spent' \subseteq Pairs'
        /\ ended' \subseteq Pairs'
    BY SMTT(60), <1>1, <1>4, <1>5, <1>9, CloudAuthAssumption DEF AuthInv, TypeInv, Pairs
  <2>2. sessions' \in [1 .. MaxPairs -> [current : Nat, revoked : BOOLEAN]]
    BY <1>3, <1>4, <1>5 DEF AuthInv, TypeInv
  <2>3. pc' \in [Calls -> Places] /\ loc' \in [Calls -> Locals]
    BY <1>1, AtRest, Going DEF Places
  <2> QED BY <1>1, <1>9, <2>1, <2>2, <2>3 DEF AuthInv, TypeInv
<1>11. OnlyMoves(c) /\ pc'[c] = "idle" /\ loc'[c].factor[1] # "bootstrap"
  BY <1>1, AtRest, Going DEF Places
<1>12. /\ \A q \in Pairs : /\ pairs'[q].session = pairs[q].session
                           /\ pairs'[q].parent = pairs[q].parent
                           /\ pairs'[q].factor = pairs[q].factor
       /\ pairs'[Len(pairs) + 1].session = SessionOf(p)
       /\ pairs'[Len(pairs) + 1].parent = p
       /\ pairs'[Len(pairs) + 1].factor = pairs[p].factor
  BY <1>3, <1>6, <1>7, <1>9
<1>13. sessions' = [sessions EXCEPT ![SessionOf(p)].current = Len(pairs) + 1]
  BY <1>3, <1>4
<1> QED BY <1>1, <1>4, <1>9, <1>10, <1>11, <1>12, <1>13, RotationKeeps

LEMMA OvertakenMoves ==
  ASSUME AuthInv, OnCloudflare, NEW c \in Calls, C!RotateOvertaken(c)
  PROVE  AuthInv'
<1>1. /\ Goto(c, "reuse", loc[c]) /\ pc[c] = "rotate" /\ loc[c].pair \in spent
      /\ UNCHANGED <<adapter, tables, clock, epoch, ended>>
  BY CloudflareNames DEF C!RotateOvertaken, C!CanRetire, C!tables, C!history, tables,
     OnCloudflare
<1>2. CallSound("reuse", loc[c]) /\ \A n : ~HoldsCode("reuse", loc[c], n)
  BY <1>1, CallOf DEF CallSound, HoldsCode
<1> QED BY <1>1, <1>2, CallOf, MoveKeeps DEF Places

\* Sessions end on Cloudflare, with their access tokens.
LEMMA CutKeeps ==
  ASSUME AuthInv, OnCloudflare, NEW c \in Calls, C!Return(c),
         NEW Over \in SUBSET Pairs, C!EndSessions(Over), NEW T, C!RevokeAccess(T),
         admin' \in Administrators, admin'.enrolments = admin.enrolments,
         admin.hash # 0 => admin'.hash # 0,
         epoch' \in [1 .. MaxPairs -> Nat],
         UNCHANGED <<lock, spent, codes, clock>>
  PROVE  AuthInv'
<1>1. Goto(c, "idle", NoLocals) /\ EndSessions(Over)
  BY CloudflareNames
<1>2. pairs' \in Seq(PairRows) /\ SamePairs
  <2>1. pairs' = [p \in Pairs |->
                   [pairs[p] EXCEPT !.revoked = pairs[p].revoked \/ SessionOf(p) \in T]]
    BY CloudflareNames DEF C!RevokeAccess
  <2> QED BY <2>1, Taken
<1>3. /\ pc' \in [Calls -> Places] /\ loc' \in [Calls -> Locals] /\ OnlyMoves(c)
      /\ pc'[c] = "idle" /\ loc'[c].factor[1] # "bootstrap"
  BY <1>1, AtRest, Going DEF Places
<1>4. CurrentLogins' /\ UNCHANGED adapter
  BY DEF OnCloudflare, CurrentLogins
<1> QED BY <1>1, <1>2, <1>3, <1>4, EndingKeeps

LEMMA RevokesKeep ==
  ASSUME AuthInv, OnCloudflare, NEW c \in Calls,
         C!RevokeReusedRefreshFamily(c) \/ C!RevokeSession(c)
  PROVE  AuthInv'
<1>1. /\ admin' \in Administrators /\ admin' = admin
      /\ epoch' \in [1 .. MaxPairs -> Nat]
      /\ UNCHANGED <<lock, spent, codes, clock>> /\ C!Return(c)
  BY RowOf DEF C!RevokeReusedRefreshFamily, C!RevokeSession, AuthInv, TypeInv
<1>2. CASE C!RevokeReusedRefreshFamily(c)
  <2>1. /\ C!EndSessions(C!ReuseEnds(loc[c].pair)) /\ C!RevokeAccess(C!ReuseEnds(loc[c].pair))
        /\ pc[c] = "reuse"
    BY <1>2 DEF C!RevokeReusedRefreshFamily
  <2>2. loc[c].pair \in Pairs
    BY <2>1, CallOf DEF CallSound
  <2>3. PICK Over \in SUBSET Pairs : Over = C!ReuseEnds(loc[c].pair)
    BY <2>2, PairOf, CloudflareNames DEF C!ReuseEnds
  <2> QED BY <1>1, <2>1, <2>3, CutKeeps
<1>3. CASE C!RevokeSession(c)
  <2>1. /\ C!EndSessions({loc[c].session}) /\ C!RevokeAccess({loc[c].session})
        /\ pc[c] = "revoking"
    BY <1>3 DEF C!RevokeSession
  <2>2. PICK Over \in SUBSET Pairs : Over = {loc[c].session}
    BY <2>1, CallOf DEF CallSound
  <2> QED BY <1>1, <2>1, <2>2, CutKeeps
<1> QED BY <1>2, <1>3

LEMMA PasswordKeeps ==
  ASSUME AuthInv, OnCloudflare, NEW c \in Calls, C!ChangePassword(c)
  PROVE  AuthInv'
<1>1. PICK s \in Pairs : s = loc[c].session
  BY CallOf DEF C!ChangePassword, CallSound
<1>2. /\ C!EndSessions({x \in Sessions \ {s} : ~sessions[x].revoked})
      /\ C!RevokeAccess(Sessions \ {s}) /\ C!Return(c)
      /\ admin' = [admin EXCEPT !.hash = @ + 1]
      /\ epoch' = [epoch EXCEPT ![s] = admin.hash + 1]
      /\ UNCHANGED <<lock, spent, codes, clock>>
  BY <1>1, CloudflareNames DEF C!ChangePassword
<1>3. PICK Over \in SUBSET Pairs : Over = {x \in Sessions \ {s} : ~sessions[x].revoked}
  BY PairOf DEF Sessions
<1>4. PICK n \in Nat : n = admin.hash + 1
  BY RowOf DEF Administrators
<1>5. /\ admin' \in Administrators /\ admin'.enrolments = admin.enrolments
      /\ admin.hash # 0 => admin'.hash # 0
  BY <1>2, <1>4, RowOf DEF Administrators
<1>6. epoch' \in [1 .. MaxPairs -> Nat]
  BY <1>2, <1>4 DEF AuthInv, TypeInv
<1> QED BY <1>2, <1>3, <1>5, <1>6, CutKeeps

LEMMA RequireAdminMoves ==
  ASSUME AuthInv, OnCloudflare, NEW c \in Calls, NEW p \in Pairs,
         NEW h \in {"revoke", "password", "prepare", "enable"}, NEW s \in Nat,
         h \in {"revoke", "password"} => s \in Pairs,
         C!RequireAdmin(c, p, h, s)
  PROVE  AuthInv'
<1> DEFINE l == [NoLocals EXCEPT !.session = s]
<1>1. /\ Goto(c, h, l) /\ UNCHANGED <<adapter, tables, clock, epoch, ended>>
  BY CloudflareNames DEF C!RequireAdmin, C!tables, C!history, tables, OnCloudflare
<1>2. l \in Locals /\ l.session = s /\ l.factor = NoFactor
  BY AtRest DEF Locals
<1> HIDE DEF l
<1>3. CallSound(h, l) /\ \A n : ~HoldsCode(h, l, n)
  BY <1>2, AtRest DEF CallSound, HoldsCode
<1> QED BY <1>1, <1>2, <1>3, MoveKeeps DEF Places

LEMMA FindActiveMoves ==
  ASSUME AuthInv, OnCloudflare, NEW c \in Calls, C!FindActive(c)
  PROVE  AuthInv'
<1>1. /\ Goto(c, "idle", NoLocals) \/ Goto(c, "revoking", loc[c])
      /\ pc[c] = "revoke" /\ UNCHANGED <<adapter, tables, clock, epoch, ended>>
  BY CloudflareNames DEF C!FindActive, C!tables, C!history, tables, OnCloudflare
<1>2. CallSound("revoking", loc[c]) /\ \A n : ~HoldsCode("revoking", loc[c], n)
  BY <1>1, CallOf DEF CallSound, HoldsCode
<1>3. CASE Goto(c, "idle", NoLocals)
  BY <1>1, <1>3, Resting, AtRest, MoveKeeps DEF Places
<1>4. CASE Goto(c, "revoking", loc[c])
  BY <1>1, <1>2, <1>4, CallOf, MoveKeeps DEF Places
<1> QED BY <1>1, <1>3, <1>4

LEMMA CheckPasswordMoves ==
  ASSUME AuthInv, OnCloudflare, NEW c \in Calls, C!CheckPassword(c)
  PROVE  AuthInv'
<1>1. /\ Goto(c, "change", loc[c]) /\ pc[c] = "password"
      /\ UNCHANGED <<adapter, tables, clock, epoch, ended>>
  BY CloudflareNames DEF C!CheckPassword, C!tables, C!history, tables, OnCloudflare
<1>2. CallSound("change", loc[c]) /\ \A n : ~HoldsCode("change", loc[c], n)
  BY <1>1, CallOf DEF CallSound, HoldsCode
<1> QED BY <1>1, <1>2, CallOf, MoveKeeps DEF Places

LEMMA ReadPendingMoves ==
  ASSUME AuthInv, OnCloudflare, NEW c \in Calls, C!ReadPendingTotp(c)
  PROVE  AuthInv'
<1>1. UNCHANGED <<adapter, tables, clock, epoch, ended>>
  BY DEF C!ReadPendingTotp, C!tables, tables, OnCloudflare
<1>2. PICK at \in {"idle", "enabling", "expire"} :
        Goto(c, at, IF at = "idle" THEN NoLocals ELSE loc[c])
  BY CloudflareNames DEF C!ReadPendingTotp
<1>3. PICK l \in Locals :
        Goto(c, at, l) /\ l.factor[1] # "bootstrap"
  BY <1>2, CallOf, AtRest
<1>4. CallSound(at, l) /\ \A n : ~HoldsCode(at, l, n)
  BY <1>3 DEF CallSound, HoldsCode
<1> QED BY <1>1, <1>3, <1>4, MoveKeeps DEF Places

LEMMA CloudflareStep ==
  ASSUME AuthInv, OnCloudflare, C!Next
  PROVE  AuthInv'
<1>1. Sessions \subseteq Pairs /\ Pairs \subseteq Nat
  BY PairOf DEF Sessions
<1>2. CASE C!Tick
  BY <1>2, TickKeeps, CloudflareNames DEF OnCloudflare
<1>3. ASSUME NEW c \in Calls, C!Bootstrap(c) \/ C!CommitBootstrap(c)
      PROVE  AuthInv'
  BY <1>3, BootstrapMoves, CommitBootstrapKeeps
<1>4. ASSUME NEW c \in Calls,
             NEW f \in {C!NoFactor, <<"totp", 0>>}
                         \cup ({"recovery"} \X (1 .. MaxEnrolments)), C!Login(c, f)
      PROVE  AuthInv'
  BY <1>4, LoginMoves, CloudflareNames
<1>5. ASSUME NEW c \in Calls, NEW right \in BOOLEAN, C!IsLoginLocked(c, right)
      PROVE  AuthInv'
  BY <1>5, VerdictMoves
<1>6. ASSUME NEW c \in Calls,
             \/ C!ConsumeRecoveryCode(c) \/ C!ReadFailures(c) \/ C!RecordLoginFailure(c)
             \/ C!CommitLogin(c) \/ C!Rotate(c) \/ C!RotateOvertaken(c)
             \/ C!RevokeReusedRefreshFamily(c)
      PROVE  AuthInv'
  BY <1>6, ConsumeKeeps, ReadFailuresMoves, RecordFailureKeeps, CommitLoginKeeps,
     RotateKeeps, OvertakenMoves, RevokesKeep
<1>7. ASSUME NEW c \in Calls,
             \/ C!FindActive(c) \/ C!RevokeSession(c) \/ C!CheckPassword(c)
             \/ C!ChangePassword(c) \/ C!PrepareTotp(c) \/ C!ReadPendingTotp(c)
             \/ C!ClearPendingTotp(c) \/ C!EnableTotp(c)
      PROVE  AuthInv'
  BY <1>7, FindActiveMoves, RevokesKeep, CheckPasswordMoves, PasswordKeeps, PrepareKeeps,
     ReadPendingMoves, ClearKeeps, EnableKeeps
<1>8. ASSUME NEW c \in Calls, NEW p \in C!Pairs, C!Refresh(c, p)
      PROVE  AuthInv'
  BY <1>8, RefreshMoves, CloudflareNames
<1>9. ASSUME NEW c \in Calls, NEW p \in C!Pairs,
             \/ \E s \in C!Sessions : C!RequireAdmin(c, p, "revoke", s)
             \/ C!RequireAdmin(c, p, "password", C!SessionOf(p))
             \/ \E h \in {"prepare", "enable"} : C!RequireAdmin(c, p, h, 0)
      PROVE  AuthInv'
  <2>1. p \in Pairs /\ C!SessionOf(p) \in Pairs /\ C!Sessions = Sessions
    BY CloudflareNames, PairOf
  <2>2. ASSUME NEW s \in C!Sessions, C!RequireAdmin(c, p, "revoke", s)
        PROVE  AuthInv'
    BY <1>1, <2>1, <2>2, RequireAdminMoves
  <2>3. CASE C!RequireAdmin(c, p, "password", C!SessionOf(p))
    BY <1>1, <2>1, <2>3, RequireAdminMoves
  <2>4. ASSUME NEW h \in {"prepare", "enable"}, C!RequireAdmin(c, p, h, 0)
        PROVE  AuthInv'
    BY <2>1, <2>4, RequireAdminMoves
  <2> QED BY <1>9, <2>2, <2>3, <2>4
<1> QED BY <1>2, <1>3, <1>4, <1>5, <1>6, <1>7, <1>8, <1>9 DEF C!Next

-----------------------------------------------------------------------------
(* The steps of Supabase *)

LEMMA SupabaseNames ==
  /\ S!Pairs = Pairs /\ S!Sessions = Sessions /\ S!NoLocals = NoLocals
  /\ S!NoFactor = NoFactor /\ S!NoLock = NoLock
  /\ \A p : S!SessionOf(p) = SessionOf(p) /\ (S!Current(p) <=> Current(p))
  /\ \A c, at, l : S!Goto(c, at, l) <=> Goto(c, at, l)
  /\ \A c : S!Return(c) <=> Goto(c, "idle", NoLocals)
  /\ \A h, f : S!OpenSession(h, f) <=> OpenSession(h, f)
  /\ \A T : S!EndSessions(T) <=> EndSessions(T)
  /\ \A s, parent, f, until :
       S!NewPair(s, parent, f, until) = NewPair(s, parent, f, until)
  /\ S!Tick <=> Tick
BY DEF S!Pairs, S!Sessions, S!NoLocals, S!NoFactor, S!NoLock, S!SessionOf, S!Current,
   S!Goto, S!Return, S!OpenSession, S!EndSessions, S!Tick, S!NewPair, S!tables,
   S!history, Pairs, Sessions, NoLocals, NoFactor, NoLock, SessionOf, Current, Goto,
   Return, OpenSession, EndSessions, Tick, NewPair, tables, history

OnSupabase == adapter = "supabase" /\ UNCHANGED adapter

\* A step that leaves its call where it is
LEMMA Unmoved ==
  ASSUME AuthInv, NEW c \in Calls, UNCHANGED <<pc, loc>>
  PROVE  /\ pc' \in [Calls -> Places] /\ loc' \in [Calls -> Locals] /\ OnlyMoves(c)
         /\ pc'[c] = pc[c] /\ loc'[c].factor[1] # "bootstrap"
BY CallOf DEF AuthInv, TypeInv, OnlyMoves

LEMMA BootstrapOpens ==
  ASSUME AuthInv, OnSupabase, NEW c \in Calls, S!Bootstrap(c)
  PROVE  AuthInv'
<1>1. /\ OpenSession(1, <<"bootstrap", 0>>) /\ admin.hash = 0 /\ pc[c] = "idle"
      /\ admin' = [admin EXCEPT !.hash = 1]
      /\ UNCHANGED <<adapter, lock, spent, codes, pc, loc, clock, ended>>
  BY SupabaseNames DEF S!Bootstrap, S!Initialized, OnSupabase
<1>2. /\ admin' \in Administrators /\ admin'.hash = 1
      /\ admin'.enrolments = admin.enrolments
  BY <1>1, RowOf DEF Administrators
<1>3. <<"bootstrap", 0>> \in Factors /\ 1 \in Nat
  BY DEF Factors
<1>4. /\ pc' \in [Calls -> Places] /\ loc' \in [Calls -> Locals] /\ OnlyMoves(c)
      /\ pc'[c] = "idle" /\ loc'[c].factor[1] # "bootstrap"
  BY <1>1, Unmoved
<1>5. lock' \in Locks
  BY <1>1, RowOf
<1>6. admin'.hash # 0 /\ \A n \in Nat : <<"bootstrap", 0>> # <<"recovery", n>>
  BY <1>2
<1>7. PICK hash \in Nat, f \in Factors :
        hash = admin'.hash /\ f = <<"bootstrap", 0>> /\ OpenSession(hash, f)
  BY <1>1, <1>2, <1>3
<1> QED BY <1>1, <1>2, <1>4, <1>5, <1>6, <1>7, LoginKeeps

LEMMA AttemptMoves ==
  ASSUME AuthInv, OnSupabase, NEW c \in Calls, S!BeginLoginAttempt(c)
  PROVE  AuthInv'
<1>1. /\ Goto(c, "login", NoLocals) \/ Goto(c, "idle", NoLocals)
      /\ admin.hash # 0
      /\ UNCHANGED <<adapter, admin, lock, sessions, pairs, spent, codes, clock, epoch,
                     ended>>
  BY SupabaseNames DEF S!BeginLoginAttempt, S!history, OnSupabase
<1>2. PICK at \in {"login", "idle"} : Goto(c, at, NoLocals)
  BY <1>1
<1>3. CallSound(at, NoLocals) /\ \A n : ~HoldsCode(at, NoLocals, n)
  BY <1>1, AtRest DEF CallSound, HoldsCode
<1>4. /\ lock' \in Locks /\ admin' \in Administrators /\ admin'.enrolments >= admin.enrolments
      /\ codes' \subseteq 1 .. admin'.enrolments /\ codes' = codes
  BY <1>1, RowOf
<1> QED BY <1>1, <1>2, <1>3, <1>4, AtRest, RowKeeps DEF Places

LEMMA GetAdminMoves ==
  ASSUME AuthInv, OnSupabase, NEW c \in Calls, NEW right \in BOOLEAN,
         S!GetAdminForLogin(c, right)
  PROVE  AuthInv'
<1> DEFINE l == [NoLocals EXCEPT !.hash = admin.hash]
<1>1. /\ Goto(c, "issue", l) \/ Goto(c, "failure", NoLocals)
      /\ pc[c] = "login" /\ UNCHANGED <<adapter, tables, clock, epoch, ended>>
  BY SupabaseNames DEF S!GetAdminForLogin, S!tables, S!history, tables, OnSupabase
<1>2. l \in Locals /\ l.factor = NoFactor
  BY AtRest, RowOf DEF Locals, Administrators
<1> HIDE DEF l
<1>3. admin.hash # 0
  BY <1>1, CallOf DEF CallSound
<1>4. CASE Goto(c, "issue", l)
  <2>1. CallSound("issue", l) /\ \A n : ~HoldsCode("issue", l, n)
    BY <1>2, <1>3, AtRest DEF CallSound, HoldsCode
  <2> QED BY <1>1, <1>2, <1>4, <2>1, MoveKeeps DEF Places
<1>5. CASE Goto(c, "failure", NoLocals)
  <2>1. CallSound("failure", NoLocals) /\ \A n : ~HoldsCode("failure", NoLocals, n)
    BY AtRest DEF CallSound, HoldsCode
  <2> QED BY <1>1, <1>5, <2>1, AtRest, MoveKeeps DEF Places
<1> QED BY <1>1, <1>4, <1>5

LEMMA CountFailureKeeps ==
  ASSUME AuthInv, OnSupabase, NEW c \in Calls, S!RecordLoginFailure(c)
  PROVE  AuthInv'
<1>1. /\ Goto(c, "idle", NoLocals)
      /\ UNCHANGED <<adapter, admin, sessions, pairs, spent, codes, clock, epoch, ended>>
  BY SupabaseNames DEF S!RecordLoginFailure, S!history, OnSupabase
<1>2. lock' \in Locks
  <2>1. /\ lock \in Locks /\ clock \in Nat /\ MaxFailures \in Nat /\ Lockout \in Nat
    BY RowOf, CloudAuthAssumption DEF AuthInv, TypeInv
  <2> DEFINE count == IF lock.count < MaxFailures THEN lock.count + 1 ELSE MaxFailures
  <2>2. lock' = lock \/ lock' = [count |-> count, since |-> 0,
                 until |-> IF count >= MaxFailures THEN clock + Lockout ELSE 0]
    BY DEF S!RecordLoginFailure
  <2>3. count \in Nat
    BY <2>1 DEF Locks
  <2> HIDE DEF count
  <2> QED BY <2>1, <2>2, <2>3 DEF Locks
<1>3. /\ admin' \in Administrators /\ admin'.enrolments >= admin.enrolments
      /\ codes' \subseteq 1 .. admin'.enrolments /\ codes' = codes
  BY <1>1, RowOf
<1> QED BY <1>1, <1>2, <1>3, Resting, AtRest, RowKeeps DEF Places

LEMMA IssueKeeps ==
  ASSUME AuthInv, OnSupabase, NEW c \in Calls, S!IssueSession(c)
  PROVE  AuthInv'
<1>1. /\ Goto(c, "idle", NoLocals) /\ pc[c] = "issue"
      /\ UNCHANGED <<adapter, admin, spent, codes, clock, ended>>
  BY SupabaseNames DEF S!IssueSession, OnSupabase
<1>2. CASE /\ S!StillGood(loc[c]) /\ OpenSession(loc[c].hash, NoFactor)
           /\ lock' = NoLock
  <2>1. loc[c].hash \in Nat /\ admin.hash # 0 /\ admin.hash = loc[c].hash
    BY <1>1, <1>2, CallOf DEF Locals, CallSound, S!StillGood
  <2>2. admin' \in Administrators /\ lock' \in Locks
    BY <1>1, <1>2, RowOf, AtRest
  <2>3. NoFactor \in Factors /\ \A n \in Nat : NoFactor # <<"recovery", n>>
    BY AtRest
  <2> QED BY <1>1, <1>2, <2>1, <2>2, <2>3, Going, AtRest, LoginKeeps
         DEF Places, OnSupabase
<1>3. CASE UNCHANGED <<lock, throttle, sessions, pairs, epoch>>
  BY <1>1, <1>3, Resting, AtRest, MoveKeeps DEF Places, tables
<1> QED BY <1>2, <1>3, SupabaseNames DEF S!IssueSession

\* Ending sessions makes no login out of date.
LEMMA EndingCurrent ==
  ASSUME AuthInv, NEW T, EndSessions(T), UNCHANGED <<adapter, admin, pairs, epoch>>
  PROVE  CurrentLogins'
<1> SUFFICES ASSUME adapter = "supabase", NEW x \in Sessions, ~sessions'[x].revoked
             PROVE  epoch[x] = admin.hash
  BY DEF CurrentLogins, PasswordCurrent, Sessions, SessionOf, Pairs
<1>1. x \in 1 .. MaxPairs
  BY PairOf DEF Sessions
<1>2. ~sessions[x].revoked
  BY <1>1 DEF EndSessions, AuthInv, TypeInv
<1> QED BY <1>2 DEF AuthInv, CurrentLogins, PasswordCurrent

LEMMA RefreshKeeps ==
  ASSUME AuthInv, OnSupabase, NEW c \in Calls, NEW p \in Pairs, S!Refresh(c, p)
  PROVE  AuthInv'
<1>1. /\ pc[c] = "idle"
      /\ UNCHANGED <<adapter, admin, lock, throttle, codes, pc, loc, clock, epoch>>
  BY DEF S!Refresh, OnSupabase
<1>2. /\ pc' \in [Calls -> Places] /\ loc' \in [Calls -> Locals] /\ OnlyMoves(c)
      /\ pc'[c] = "idle" /\ loc'[c].factor[1] # "bootstrap"
  BY <1>1, Unmoved
<1>3. CASE /\ S!Rotates(p) /\ Len(pairs) < MaxPairs /\ spent' = spent \cup {p}
           /\ pairs' = NewPair(SessionOf(p), p, pairs[p].factor, clock + RefreshLife)
           /\ sessions' = [sessions EXCEPT ![SessionOf(p)].current = Len(pairs) + 1]
           /\ UNCHANGED ended
  <2>1. p \notin spent
    BY <1>3, PairOf, SupabaseNames DEF S!Rotates
  <2>2. PICK s \in Pairs : s = SessionOf(p) /\ s \in 1 .. MaxPairs
    BY PairOf
  <2> DEFINE row == [session |-> IF s = 0 THEN Len(pairs) + 1 ELSE s, parent |-> p,
                     factor |-> pairs[p].factor, revoked |-> FALSE,
                     access_until |-> clock + AccessLife,
                     until |-> clock + RefreshLife]
  <2>3. /\ Len(pairs) \in Nat /\ pairs \in Seq(PairRows)
        /\ clock + AccessLife \in Int /\ clock + RefreshLife \in Int
    BY CloudAuthAssumption DEF AuthInv, TypeInv
  <2>4. s # 0 /\ s \in Nat /\ p \in Nat /\ pairs[p] \in PairRows
    <3>1. s # 0 /\ s \in Nat
      BY <2>2, CloudAuthAssumption
    <3>2. p \in Nat /\ pairs[p] \in PairRows
      BY PairOf
    <3> QED BY <3>1, <3>2
  <2>5. /\ row \in PairRows /\ row.session = s /\ row.parent = p
        /\ row.factor = pairs[p].factor
    BY <2>3, <2>4 DEF PairRows
  <2>6. pairs' = Append(pairs, row)
    BY <1>3, <2>2 DEF NewPair
  <2> HIDE DEF row
  <2>7. /\ pairs' \in Seq(PairRows) /\ Len(pairs') = Len(pairs) + 1
        /\ \A q \in Pairs : pairs'[q] = pairs[q]
        /\ pairs'[Len(pairs) + 1] = row
    BY <2>3, <2>5, <2>6 DEF Pairs
  <2>8. TypeInv'
    <3>1. /\ Len(pairs') <= MaxPairs /\ Pairs \subseteq Pairs' /\ spent' \subseteq Pairs'
          /\ ended' \subseteq Pairs'
      BY SMTT(60), <1>3, <2>3, <2>7, CloudAuthAssumption DEF AuthInv, TypeInv, Pairs
    <3>2. sessions' \in [1 .. MaxPairs -> [current : Nat, revoked : BOOLEAN]]
      BY <1>3, <2>2, <2>3 DEF AuthInv, TypeInv
    <3> QED BY <1>1, <1>2, <2>7, <3>1, <3>2 DEF AuthInv, TypeInv
  <2>9. /\ \A q \in Pairs : /\ pairs'[q].session = pairs[q].session
                            /\ pairs'[q].parent = pairs[q].parent
                            /\ pairs'[q].factor = pairs[q].factor
        /\ pairs'[Len(pairs) + 1].session = SessionOf(p)
        /\ pairs'[Len(pairs) + 1].parent = p
        /\ pairs'[Len(pairs) + 1].factor = pairs[p].factor
    BY <2>2, <2>5, <2>7
  <2> QED BY <1>1, <1>2, <1>3, <2>1, <2>7, <2>8, <2>9, RotationKeeps
<1>4. CASE /\ EndSessions(S!ReuseEnds(p)) /\ UNCHANGED <<spent, pairs>>
  <2>1. PICK T \in SUBSET Pairs : T = S!ReuseEnds(p)
    BY PairOf, SupabaseNames DEF S!ReuseEnds
  <2>2. /\ SamePairs /\ pairs' \in Seq(PairRows) /\ admin' \in Administrators
        /\ epoch' \in [1 .. MaxPairs -> Nat]
    BY <1>1, <1>4, RowOf DEF SamePairs, AuthInv, TypeInv
  <2>3. CurrentLogins'
    BY <1>1, <1>4, EndingCurrent
  <2> QED BY <1>1, <1>2, <1>4, <2>1, <2>2, <2>3, EndingKeeps
<1> QED BY <1>3, <1>4, SupabaseNames DEF S!Refresh

LEMMA AdminMoves ==
  ASSUME AuthInv, OnSupabase, NEW c \in Calls, NEW p \in Pairs,
         NEW h \in {"revoke", "password"}, NEW s \in Pairs, S!AdminOrResponse(c, p, h, s)
  PROVE  AuthInv'
<1> DEFINE l == [NoLocals EXCEPT !.session = s]
<1>1. /\ Goto(c, h, l) /\ UNCHANGED <<adapter, tables, clock, epoch, ended>>
  BY SupabaseNames DEF S!AdminOrResponse, S!tables, S!history, tables, OnSupabase
<1>2. l \in Locals /\ l.session = s /\ l.factor = NoFactor
  <2>1. s \in Nat
    BY PairOf
  <2> QED BY <2>1, AtRest DEF Locals
<1> HIDE DEF l
<1>3. CallSound(h, l) /\ \A n : ~HoldsCode(h, l, n)
  BY <1>2, AtRest DEF CallSound, HoldsCode
<1> QED BY <1>1, <1>2, <1>3, MoveKeeps DEF Places

LEMMA RevokeKeeps ==
  ASSUME AuthInv, OnSupabase, NEW c \in Calls, S!RevokeSession(c)
  PROVE  AuthInv'
<1>1. /\ Goto(c, "idle", NoLocals) /\ pc[c] = "revoke" /\ EndSessions({loc[c].session})
      /\ UNCHANGED <<adapter, admin, lock, pairs, spent, codes, clock, epoch>>
  BY SupabaseNames DEF S!RevokeSession, S!OfRevokeSession, OnSupabase
<1>2. PICK T \in SUBSET Pairs : T = {loc[c].session}
  BY <1>1, CallOf DEF CallSound
<1>3. /\ SamePairs /\ pairs' \in Seq(PairRows) /\ admin' \in Administrators
      /\ epoch' \in [1 .. MaxPairs -> Nat]
  BY <1>1, RowOf DEF SamePairs, AuthInv, TypeInv
<1>4. CurrentLogins'
  BY <1>1, EndingCurrent
<1>5. /\ pc' \in [Calls -> Places] /\ loc' \in [Calls -> Locals] /\ OnlyMoves(c)
      /\ pc'[c] = "idle" /\ loc'[c].factor[1] # "bootstrap"
  BY <1>1, AtRest, Going DEF Places
<1> QED BY <1>1, <1>2, <1>3, <1>4, <1>5, EndingKeeps

LEMMA CheckMoves ==
  ASSUME AuthInv, OnSupabase, NEW c \in Calls, S!CheckPassword(c)
  PROVE  AuthInv'
<1> DEFINE l == [loc[c] EXCEPT !.hash = admin.hash]
<1>1. /\ Goto(c, "change", l) /\ pc[c] = "password"
      /\ UNCHANGED <<adapter, tables, clock, epoch, ended>>
  BY SupabaseNames DEF S!CheckPassword, S!tables, S!history, tables, OnSupabase
<1>2. /\ l \in Locals /\ l.session = loc[c].session /\ l.factor[1] # "bootstrap"
  BY CallOf, RowOf DEF Locals, Administrators
<1> HIDE DEF l
<1>3. CallSound("change", l) /\ \A n : ~HoldsCode("change", l, n)
  BY <1>1, <1>2, CallOf DEF CallSound, HoldsCode
<1> QED BY <1>1, <1>2, <1>3, MoveKeeps DEF Places

LEMMA ChangeKeeps ==
  ASSUME AuthInv, OnSupabase, NEW c \in Calls, S!ChangePassword(c)
  PROVE  AuthInv'
<1>1. /\ Goto(c, "idle", NoLocals) /\ pc[c] = "change"
      /\ UNCHANGED <<adapter, lock, pairs, spent, codes, clock>>
  BY SupabaseNames DEF S!ChangePassword, OnSupabase
<1>2. PICK s \in Pairs : s = loc[c].session
  BY <1>1, CallOf DEF CallSound
<1>3. CASE UNCHANGED <<admin, sessions, ended, epoch>>
  <2>1. UNCHANGED throttle
    BY DEF S!ChangePassword
  <2> QED BY <1>1, <1>3, <2>1, Resting, AtRest, MoveKeeps DEF Places, tables
<1>4. CASE /\ admin' = [admin EXCEPT !.hash = @ + 1]
           /\ EndSessions({x \in Sessions \ {s} : ~sessions[x].revoked})
           /\ epoch' = [epoch EXCEPT ![s] = admin.hash + 1]
  <2>1. PICK T \in SUBSET Pairs : T = {x \in Sessions \ {s} : ~sessions[x].revoked}
    BY PairOf DEF Sessions
  <2>2. PICK n \in Nat : n = admin.hash + 1
    BY RowOf DEF Administrators
  <2>3. /\ admin' \in Administrators /\ admin'.enrolments = admin.enrolments
        /\ admin'.hash = n /\ n # 0
    BY <1>4, <2>2, RowOf DEF Administrators
  <2>4. epoch' \in [1 .. MaxPairs -> Nat] /\ epoch'[s] = n
    BY <1>4, <2>2, PairOf DEF AuthInv, TypeInv
  <2>5. SamePairs /\ pairs' \in Seq(PairRows) /\ Sessions' = Sessions
    BY <1>1 DEF SamePairs, AuthInv, TypeInv, Sessions, SessionOf, Pairs
  <2>6. CurrentLogins'
    <3> SUFFICES ASSUME NEW x \in Sessions, ~sessions'[x].revoked
                 PROVE  epoch'[x] = admin'.hash
      BY <2>5 DEF CurrentLogins, PasswordCurrent
    <3>1. x \in 1 .. MaxPairs
      BY PairOf DEF Sessions
    <3>2. ~sessions[x].revoked /\ x \notin T
      BY <1>4, <2>1, <3>1 DEF EndSessions, AuthInv, TypeInv
    <3>3. x = s
      BY <2>1, <3>2
    <3> QED BY <2>3, <2>4, <3>3
  <2>7. /\ pc' \in [Calls -> Places] /\ loc' \in [Calls -> Locals] /\ OnlyMoves(c)
        /\ pc'[c] = "idle" /\ loc'[c].factor[1] # "bootstrap"
    BY <1>1, AtRest, Going DEF Places
  <2> QED BY <1>1, <1>4, <2>1, <2>3, <2>4, <2>5, <2>6, <2>7, EndingKeeps
<1> QED BY <1>2, <1>3, <1>4, SupabaseNames DEF S!ChangePassword, S!OfChangePassword

LEMMA SupabaseStep ==
  ASSUME AuthInv, OnSupabase, S!Next
  PROVE  AuthInv'
<1>1. CASE S!Tick
  BY <1>1, TickKeeps, SupabaseNames DEF OnSupabase
<1>2. ASSUME NEW c \in Calls,
             \/ S!Bootstrap(c) \/ S!BeginLoginAttempt(c) \/ S!RecordLoginFailure(c)
             \/ S!IssueSession(c) \/ S!RevokeSession(c) \/ S!CheckPassword(c)
             \/ S!ChangePassword(c)
      PROVE  AuthInv'
  BY <1>2, BootstrapOpens, AttemptMoves, CountFailureKeeps, IssueKeeps, RevokeKeeps,
     CheckMoves, ChangeKeeps
<1>3. ASSUME NEW c \in Calls, NEW right \in BOOLEAN, S!GetAdminForLogin(c, right)
      PROVE  AuthInv'
  BY <1>3, GetAdminMoves
<1>4. ASSUME NEW c \in Calls, NEW p \in S!Pairs,
             \/ S!Refresh(c, p)
             \/ \E s \in S!Sessions : S!AdminOrResponse(c, p, "revoke", s)
             \/ S!AdminOrResponse(c, p, "password", S!SessionOf(p))
      PROVE  AuthInv'
  <2>1. p \in Pairs /\ S!SessionOf(p) \in Pairs /\ S!Sessions \subseteq Pairs
    BY SupabaseNames, PairOf DEF Sessions
  <2>2. CASE S!Refresh(c, p)
    BY <2>1, <2>2, RefreshKeeps
  <2>3. ASSUME NEW s \in S!Sessions, S!AdminOrResponse(c, p, "revoke", s)
        PROVE  AuthInv'
    BY <2>1, <2>3, AdminMoves
  <2>4. CASE S!AdminOrResponse(c, p, "password", S!SessionOf(p))
    BY <2>1, <2>4, AdminMoves
  <2> QED BY <1>4, <2>2, <2>3, <2>4
<1> QED BY <1>1, <1>2, <1>3, <1>4 DEF S!Next

-----------------------------------------------------------------------------
LEMMA AuthInvariant == MCSpec => []AuthInv
<1>1. AuthInv /\ [MCNext]_<<vars, adapter>> => AuthInv'
  <2> SUFFICES ASSUME AuthInv, [MCNext]_<<vars, adapter>> PROVE AuthInv'
    OBVIOUS
  <2>1. CASE UNCHANGED <<vars, adapter>>
    BY <2>1, StutterKeeps
  <2>2. CASE adapter = "cloudflare" /\ C!Next /\ UNCHANGED adapter
    BY <2>2, CloudflareStep DEF OnCloudflare
  <2>3. CASE adapter = "supabase" /\ S!Next /\ UNCHANGED adapter
    BY <2>3, SupabaseStep DEF OnSupabase
  <2> QED BY <2>1, <2>2, <2>3 DEF MCNext
<1> QED BY <1>1, InitAuth, PTL DEF MCSpec

LEMMA AtMostOne ==
  ASSUME NEW T, \A x, y \in T : x = y
  PROVE  Cardinality(T) <= 1
<1>1. CASE T = {}
  BY <1>1, FS_EmptySet
<1>2. CASE T # {}
  <2>1. PICK x \in T : T = {x}
    BY <1>2
  <2>2. Cardinality({x}) = 1
    BY FS_Singleton
  <2> QED BY <2>1, <2>2
<1> QED BY <1>1, <1>2

(* On either adapter and for any number of calls: a refresh token is         *)
(* exchanged for one pair at most, a recovery code opens one session at      *)
(* most, and of the bootstrap requests that race one opens a session.        *)
THEOREM EachGoodOnceHolds == MCSpec => []EachGoodOnce
<1>1. AuthInv => EachGoodOnce
  <2> SUFFICES ASSUME AuthInv PROVE EachGoodOnce
    OBVIOUS
  <2>1. RotatedOnce
    <3> SUFFICES ASSUME NEW p \in Pairs
                 PROVE  Cardinality({q \in Pairs : pairs[q].parent = p}) <= 1
      BY DEF RotatedOnce
    <3>1. p # 0
      BY DEF Pairs
    <3>2. \A x, y \in {q \in Pairs : pairs[q].parent = p} : x = y
      BY <3>1 DEF AuthInv, ReplacedOnce
    <3> QED BY <3>2, AtMostOne
  <2>2. RecoveryCodeOnce
    <3>1. C!RecoveryCodeOnce =
            \A n \in 1 .. MaxEnrolments :
              Cardinality({p \in Pairs : pairs[p].factor = <<"recovery", n>>
                                         /\ pairs[p].parent = 0}) <= 1
      BY DEF C!RecoveryCodeOnce, C!Pairs, Pairs, C!Cardinality, Cardinality
    <3>2. SUFFICES ASSUME NEW n \in 1 .. MaxEnrolments
                   PROVE  Cardinality({p \in Pairs : pairs[p].factor = <<"recovery", n>>
                                                     /\ pairs[p].parent = 0}) <= 1
      BY <3>1 DEF RecoveryCodeOnce
    <3>3. n \in Nat
      BY CloudAuthAssumption
    <3>4. \A x, y \in {p \in Pairs : pairs[p].factor = <<"recovery", n>>
                                     /\ pairs[p].parent = 0} : x = y
      BY <3>3 DEF AuthInv, CodesSound, OpenedBy
    <3> QED BY <3>4, AtMostOne
  <2>3. BootstrapOnce
    <3> DEFINE T == {p \in Pairs : pairs[p].factor[1] = "bootstrap"
                                   /\ pairs[p].parent = 0}
    <3>1. \A x, y \in T : x = y
      BY DEF AuthInv, AdminSound, OpenedBy
    <3> QED BY <3>1, AtMostOne DEF BootstrapOnce
  <2> QED BY <2>1, <2>2, <2>3 DEF EachGoodOnce
<1> QED BY <1>1, AuthInvariant, PTL

\* On Cloudflare only revokeReusedRefreshFamily takes a call out of "reuse".
LEMMA ReuseIsLeft ==
  ASSUME AuthInv, C!Next, NEW c \in Calls, pc[c] = "reuse", pc'[c] # "reuse"
  PROVE  C!RevokeReusedRefreshFamily(c)
<1> DEFINE Other(d) == pc' = [pc EXCEPT ![d] = pc'[d]] /\ (pc[d] = "reuse" => pc'[d] = "reuse")
<1>1. \A d, at, l : C!Goto(d, at, l) /\ d \in Calls =>
        pc' = [pc EXCEPT ![d] = pc'[d]]
  BY DEF C!Goto, AuthInv, TypeInv
<1>2. ASSUME NEW d \in Calls, Other(d) PROVE FALSE
  BY <1>2 DEF AuthInv, TypeInv
<1>3. ~C!Tick
  BY DEF C!Tick
<1>4. ASSUME NEW d \in Calls,
             \/ C!Bootstrap(d) \/ C!CommitBootstrap(d) \/ C!ConsumeRecoveryCode(d)
             \/ C!ReadFailures(d) \/ C!RecordLoginFailure(d) \/ C!CommitLogin(d)
             \/ C!Rotate(d) \/ C!RotateOvertaken(d)
      PROVE  FALSE
  BY <1>1, <1>2, <1>4 DEF C!Bootstrap, C!CommitBootstrap, C!ConsumeRecoveryCode,
     C!ReadFailures, C!RecordLoginFailure, C!CommitLogin, C!Rotate, C!RotateOvertaken,
     C!Return
<1>5. ASSUME NEW d \in Calls,
             \/ C!FindActive(d) \/ C!RevokeSession(d) \/ C!CheckPassword(d)
             \/ C!ChangePassword(d) \/ C!PrepareTotp(d) \/ C!ReadPendingTotp(d)
             \/ C!ClearPendingTotp(d) \/ C!EnableTotp(d)
      PROVE  FALSE
  BY <1>1, <1>2, <1>5 DEF C!FindActive, C!RevokeSession, C!CheckPassword,
     C!ChangePassword, C!PrepareTotp, C!ReadPendingTotp, C!ClearPendingTotp,
     C!EnableTotp, C!Return
<1>6. ASSUME NEW d \in Calls, NEW f, C!Login(d, f)
      PROVE  FALSE
  BY <1>1, <1>2, <1>6 DEF C!Login
<1>7. ASSUME NEW d \in Calls, NEW right, C!IsLoginLocked(d, right)
      PROVE  FALSE
  BY <1>1, <1>2, <1>7 DEF C!IsLoginLocked
<1>8. ASSUME NEW d \in Calls, NEW p, C!Refresh(d, p)
      PROVE  FALSE
  BY <1>1, <1>2, <1>8 DEF C!Refresh
<1>9. ASSUME NEW d \in Calls, NEW p, NEW h, NEW s, C!RequireAdmin(d, p, h, s)
      PROVE  FALSE
  BY <1>1, <1>2, <1>9 DEF C!RequireAdmin
<1>10. PICK d \in Calls : C!RevokeReusedRefreshFamily(d)
  BY <1>3, <1>4, <1>5, <1>6, <1>7, <1>8, <1>9 DEF C!Next
<1>11. d = c
  BY <1>1, <1>10 DEF C!RevokeReusedRefreshFamily, C!Return, AuthInv, TypeInv
<1> QED BY <1>10, <1>11

(* A session that was revoked never authenticates a request or exchanges a   *)
(* token again, and a refresh token that is presented again leaves its       *)
(* session revoked.                                                          *)
THEOREM SessionsEndForGoodHolds == MCSpec => SessionsEndForGood
<1>1. AuthInv => EndedStaysEnded
  <2> SUFFICES ASSUME AuthInv PROVE C!EndedStaysEnded /\ S!EndedStaysEnded
    BY DEF EndedStaysEnded
  <2>1. \A p \in Pairs : /\ SessionOf(p) \in ended => sessions[SessionOf(p)].revoked
                         /\ p \in spent => ~Current(p)
    BY PairOf DEF AuthInv, EndedSound
  <2>2. C!EndedStaysEnded
    BY <2>1, CloudflareNames DEF C!EndedStaysEnded, C!VerifyAccess
  <2>3. S!EndedStaysEnded
    BY <2>1, SupabaseNames DEF S!EndedStaysEnded, S!AuthenticateAccess, S!Rotates
  <2> QED BY <2>2, <2>3
<1>2. AuthInv /\ [MCNext]_<<vars, adapter>> => [ReuseEndsSession]_<<vars, adapter>>
  <2> SUFFICES ASSUME AuthInv, MCNext, adapter = "cloudflare", NEW c \in Calls,
                      pc[c] = "reuse", pc'[c] = "idle"
               PROVE  sessions'[C!SessionOf(loc[c].pair)].revoked
    BY DEF ReuseEndsSession, C!ReuseEndsSession
  <2>1. C!RevokeReusedRefreshFamily(c)
    BY ReuseIsLeft DEF MCNext
  <2>2. loc[c].pair \in Pairs /\ loc[c].pair \in spent
    BY CallOf DEF CallSound
  <2>3. PICK s \in 1 .. MaxPairs : s = C!SessionOf(loc[c].pair)
    BY <2>2, PairOf, CloudflareNames
  <2>4. EndSessions({s})
    BY <2>1, <2>2, <2>3, CloudflareNames DEF C!RevokeReusedRefreshFamily, C!ReuseEnds
  <2> QED BY <2>3, <2>4 DEF EndSessions, AuthInv, TypeInv
<1> QED BY <1>1, <1>2, AuthInvariant, PTL DEF MCSpec, SessionsEndForGood

(* On Supabase no usable session stands for a replaced password, and nothing *)
(* but time ends a lockout.                                                  *)
THEOREM SupabaseLoginIsCurrentHolds == MCSpec => SupabaseLoginIsCurrent
<1>1. AuthInv => (adapter = "supabase" => PasswordCurrent)
  BY DEF AuthInv, CurrentLogins
<1>2. AuthInv /\ [MCNext]_<<vars, adapter>>
      => [adapter = "supabase" => S!LockHolds]_<<vars, adapter>>
  <2> SUFFICES ASSUME AuthInv, S!Next, lock.until > clock, clock' = clock
               PROVE  lock'.until >= lock.until
    BY DEF MCNext, S!LockHolds
  <2>1. lock.until \in Int /\ clock \in Nat
    BY DEF AuthInv, TypeInv, Locks
  <2>2. lock' = lock
    <3>1. ASSUME NEW c \in Calls, S!RecordLoginFailure(c)
          PROVE  lock' = lock
      BY <2>1, <3>1 DEF S!RecordLoginFailure, S!CountsFailure
    <3>2. ASSUME NEW c \in Calls, S!IssueSession(c)
          PROVE  lock' = lock
      BY <2>1, <3>2 DEF S!IssueSession, S!StillGood
    <3>3. ASSUME NEW c \in Calls,
                 \/ S!Bootstrap(c) \/ S!BeginLoginAttempt(c) \/ S!RevokeSession(c)
                 \/ S!CheckPassword(c) \/ S!ChangePassword(c)
          PROVE  lock' = lock
      BY <3>3 DEF S!Bootstrap, S!BeginLoginAttempt, S!RevokeSession, S!CheckPassword,
         S!ChangePassword, S!tables
    <3>4. ASSUME NEW c \in Calls, NEW right, S!GetAdminForLogin(c, right)
          PROVE  lock' = lock
      BY <3>4 DEF S!GetAdminForLogin, S!tables
    <3>5. ASSUME NEW c \in Calls, NEW p, S!Refresh(c, p)
          PROVE  lock' = lock
      BY <3>5 DEF S!Refresh
    <3>6. ASSUME NEW c \in Calls, NEW p, NEW h, NEW s, S!AdminOrResponse(c, p, h, s)
          PROVE  lock' = lock
      BY <3>6 DEF S!AdminOrResponse, S!tables
    <3>7. S!Tick => lock' = lock
      BY DEF S!Tick, S!tables
    <3> QED BY <3>1, <3>2, <3>3, <3>4, <3>5, <3>6, <3>7 DEF S!Next
  <2> QED BY <2>1, <2>2
<1> QED BY <1>1, <1>2, AuthInvariant, PTL
        DEF MCSpec, SupabaseLoginIsCurrent, SupabaseLockHolds
=============================================================================
