--------------------------- MODULE NodeAuthProofs ---------------------------
(***************************************************************************)
(* Proofs about the administrator's sessions and second factor on Node,    *)
(* for any number of calls, any lifetimes and any bounds.                  *)
(***************************************************************************)
EXTENDS NodeAuth, TLAPS

AdminRow == [hash : Nat, failed : Nat, locked_until : Nat, totp : Nat,
             pending : Nat]
BootRow  == [token : Nat, expires_at : Nat, consumed : BOOLEAN]
TokenRow == [session : Nat, parent : Nat, factor : Factors,
             access_expires : Nat, refresh_expires : Nat,
             access_revoked : BOOLEAN, refresh_revoked : BOOLEAN,
             used : BOOLEAN]
Locals   == [hash : Nat, now : Nat, factor : Factors, pair : Nat,
             session : Nat, target : Nat, secret : Nat]
Stages   == {"idle", "bootstrap", "login", "recovery", "failure", "rotate",
             "reuse", "logout", "revoke", "password", "change", "prepare",
             "enable", "enabling"}

AuthTypes ==
  /\ admin \in AdminRow
  /\ boot \in BootRow
  /\ rows \in Seq(TokenRow)
  /\ Len(rows) <= MaxPairs
  /\ secrets \in Nat
  /\ pc \in [Calls -> Stages]
  /\ loc \in [Calls -> Locals]
  /\ chain \in Seq(Calls)
  /\ clock \in Nat
  /\ epoch \in [1 .. MaxPairs -> Nat]

(* A session is numbered after a pair that exists, a parent has been spent,*)
(* and before the bootstrap there is no session at all.                    *)
RowsInv ==
  /\ \A p \in Pairs :
       /\ rows[p].session \in Pairs
       /\ rows[p].parent # 0 => rows[p].parent \in Pairs /\ rows[rows[p].parent].used
  /\ ended \subseteq 0 .. Len(rows)
  /\ admin.hash = 0 => Len(rows) = 0

(* Codes that were drawn: neither free nor about to be handed out.         *)
Taken == (1 .. secrets) \ (codes \cup {admin.pending})

HoldsCode(c) == pc[c] = "login" /\ loc[c].factor[1] = "recovery"

OpenedByCode(p) == rows[p].parent = 0 /\ rows[p].factor[1] = "recovery"

(* What a call in progress still knows of the tables. *)
CallInv(c) ==
  /\ loc[c].session <= Len(rows) /\ loc[c].target <= Len(rows)
  /\ loc[c].now <= clock
  /\ pc[c] = "rotate" =>
       loc[c].pair \in Pairs /\ loc[c].session = rows[loc[c].pair].session
  /\ pc[c] \in {"login", "recovery"} => loc[c].hash # 0
  /\ HoldsCode(c) => loc[c].factor[2] \in Taken
  /\ pc[c] = "enabling" =>
       /\ HasChain(c)
       /\ admin.pending = loc[c].secret /\ admin.pending # 0
       /\ loc[c].secret \in verified

CallsInv == \A c \in Calls : CallInv(c)

(* A drawn code belongs to one login in progress or to one session.        *)
CodesInv ==
  /\ codes \subseteq (1 .. secrets) \ {admin.pending}
  /\ admin.pending <= secrets
  /\ \A p \in Pairs : OpenedByCode(p) => rows[p].factor[2] \in Taken
  /\ \A c, d \in Calls :
       /\ HoldsCode(c) /\ HoldsCode(d) /\ loc[c].factor[2] = loc[d].factor[2]
       => c = d
  /\ \A c \in Calls, p \in Pairs :
       HoldsCode(c) /\ OpenedByCode(p) => loc[c].factor[2] # rows[p].factor[2]
  /\ \A p, q \in Pairs :
       OpenedByCode(p) /\ OpenedByCode(q) /\ rows[p].factor[2] = rows[q].factor[2]
       => p = q

AuthInv ==
  /\ AuthTypes
  /\ RowsInv
  /\ CallsInv
  /\ CodesInv
  /\ EnrolledIsVerified
  /\ EndedSessionsStayEnded
  /\ RotatedOnce
  /\ PasswordCurrent
-----------------------------------------------------------------------------
(* Nothing has been issued and nobody has asked. *)
LEMMA InitAuth == Init => AuthInv
<1> SUFFICES ASSUME Init PROVE AuthInv
  OBVIOUS
<1> USE DEF Init
<1>1. NoLocals \in Locals
  BY DEF NoLocals, Locals, Factors
<1>2. AuthTypes
  BY <1>1, AuthAssumption DEF AuthTypes, AdminRow, BootRow, Stages
<1>3. CallsInv
  BY DEF CallsInv, CallInv, HoldsCode, NoLocals, Pairs
<1>4. RowsInv /\ CodesInv
  BY DEF RowsInv, CodesInv, HoldsCode, NoLocals, Pairs
<1>5. EndedSessionsStayEnded /\ RotatedOnce /\ PasswordCurrent /\ EnrolledIsVerified
  BY DEF EndedSessionsStayEnded, RotatedOnce, PasswordCurrent, EnrolledIsVerified,
         Pairs
<1> QED BY <1>2, <1>3, <1>4, <1>5 DEF AuthInv

-----------------------------------------------------------------------------
(* How the rows change *)

(* Every pair keeps whose it is and where it came from; use is for ever.   *)
Grown ==
  /\ rows' \in Seq(TokenRow)
  /\ Len(rows) <= Len(rows')
  /\ \A p \in Pairs : /\ rows'[p].session = rows[p].session
                      /\ rows'[p].parent = rows[p].parent
                      /\ rows'[p].factor = rows[p].factor
                      /\ rows[p].used => rows'[p].used

(* Revocation changes the flags of the sessions it ends, and nothing else. *)
LEMMA RevokedRows ==
  ASSUME rows \in Seq(TokenRow), NEW S, rows' = Revoked(S)
  PROVE  /\ Grown /\ Len(rows') = Len(rows)
         /\ \A p \in Pairs : /\ rows[p].session \notin S => rows'[p] = rows[p]
                             /\ rows[p].session \in S => ~Live(p)'
<1>1. \A p \in Pairs : rows[p] \in TokenRow
  BY DEF Pairs
<1>2. \A p \in Pairs : /\ Revoked(S)[p] \in TokenRow
                       /\ Revoked(S)[p].session = rows[p].session
                       /\ Revoked(S)[p].parent = rows[p].parent
                       /\ Revoked(S)[p].factor = rows[p].factor
                       /\ Revoked(S)[p].used = rows[p].used
                       /\ rows[p].session \in S => /\ Revoked(S)[p].access_revoked
                                                   /\ Revoked(S)[p].refresh_revoked
                       /\ rows[p].session \notin S => Revoked(S)[p] = rows[p]
  BY <1>1 DEF Revoked, TokenRow
<1>3. Revoked(S) \in [1 .. Len(rows) -> TokenRow]
  BY <1>2 DEF Revoked, Pairs
<1>4. rows' \in Seq(TokenRow) /\ Len(rows') = Len(rows)
  BY <1>3
<1> QED BY <1>2, <1>4 DEF Grown, Live, Pairs

(* Issuing a pair leaves the others as they are. *)
LEMMA AppendedRow ==
  ASSUME rows \in Seq(TokenRow), NEW r \in TokenRow, rows' = Append(rows, r)
  PROVE  /\ Grown /\ Len(rows') = Len(rows) + 1
         /\ rows'[Len(rows) + 1] = r
         /\ \A p \in Pairs : rows'[p] = rows[p]
         /\ Pairs' = Pairs \cup {Len(rows) + 1}
BY DEF Grown, Pairs

(* A rotation spends the refresh token of its pair and issues the next.    *)
LEMMA RotatedRows ==
  ASSUME rows \in Seq(TokenRow), NEW q \in Pairs, NEW r \in TokenRow,
         rows' = Append([rows EXCEPT ![q] = [@ EXCEPT !.used = TRUE,
                                                      !.refresh_revoked = TRUE]], r)
  PROVE  /\ Grown /\ Len(rows') = Len(rows) + 1
         /\ rows'[Len(rows) + 1] = r
         /\ rows'[q].used
         /\ \A p \in Pairs : Live(p)' => Live(p)
         /\ Pairs' = Pairs \cup {Len(rows) + 1}
<1> DEFINE spent == [rows[q] EXCEPT !.used = TRUE, !.refresh_revoked = TRUE]
           mid   == [rows EXCEPT ![q] = spent]
<1>1. rows[q] \in TokenRow
  BY DEF Pairs
<1>2. /\ spent \in TokenRow
      /\ spent.session = rows[q].session /\ spent.parent = rows[q].parent
      /\ spent.factor = rows[q].factor /\ spent.used
      /\ spent.access_revoked = rows[q].access_revoked /\ spent.refresh_revoked
  BY <1>1 DEF TokenRow
<1>3. rows' = Append(mid, r)
  OBVIOUS
<1> HIDE DEF spent
<1>4. /\ mid \in Seq(TokenRow) /\ Len(mid) = Len(rows) /\ mid[q] = spent
      /\ \A p \in Pairs : p # q => mid[p] = rows[p]
  BY <1>2 DEF Pairs
<1> HIDE DEF mid
<1>5. /\ rows' \in Seq(TokenRow) /\ Len(rows') = Len(rows) + 1
      /\ rows'[Len(rows) + 1] = r /\ \A p \in Pairs : rows'[p] = mid[p]
  BY <1>3, <1>4 DEF Pairs
<1>6. Pairs' = Pairs \cup {Len(rows) + 1}
  BY <1>5 DEF Pairs
<1>7. \A p \in Pairs : /\ rows'[p].session = rows[p].session
                       /\ rows'[p].parent = rows[p].parent
                       /\ rows'[p].factor = rows[p].factor
                       /\ rows[p].used => rows'[p].used
                       /\ Live(p)' => Live(p)
  BY <1>2, <1>4, <1>5 DEF Live
<1>8. rows'[q] = spent
  BY <1>4, <1>5
<1>9. rows'[q].used
  BY <1>2, <1>8
<1>10. Len(rows) <= Len(rows')
  BY <1>5
<1>11. Grown
  BY <1>5, <1>7, <1>10, Zenon DEF Grown
<1> QED BY <1>5, <1>6, <1>7, <1>9, <1>11

(* The pair a login or a rotation issues. *)
LEMMA NewPairRow ==
  ASSUME rows \in Seq(TokenRow), NEW s \in Nat, NEW parent \in Nat,
         NEW factor \in Factors, NEW t \in Nat
  PROVE  LET r == NewPair(s, parent, factor, t) IN
         /\ r \in TokenRow
         /\ r.session = IF s = 0 THEN Len(rows) + 1 ELSE s
         /\ r.parent = parent /\ r.factor = factor
         /\ ~r.used
BY AuthAssumption DEF NewPair, PairOf, TokenRow
-----------------------------------------------------------------------------
(* How the calls change *)

LEMMA GotoFacts ==
  ASSUME AuthTypes, NEW c \in Calls, NEW stage \in Stages, NEW l \in Locals,
         Goto(c, stage, l)
  PROVE  /\ pc' \in [Calls -> Stages] /\ loc' \in [Calls -> Locals]
         /\ pc'[c] = stage /\ loc'[c] = l
         /\ \A d \in Calls \ {c} : pc'[d] = pc[d] /\ loc'[d] = loc[d]
BY DEF AuthTypes, Goto

LEMMA NoFactorType == NoFactor \in Factors /\ NoFactor[1] = "none"
BY DEF NoFactor, Factors

LEMMA NoLocalsType ==
  /\ NoLocals \in Locals
  /\ NoLocals.session = 0 /\ NoLocals.target = 0 /\ NoLocals.now = 0
BY NoFactorType DEF NoLocals, Locals

LEMMA ReturnFacts ==
  ASSUME AuthTypes, NEW c \in Calls, Return(c)
  PROVE  /\ pc' \in [Calls -> Stages] /\ loc' \in [Calls -> Locals]
         /\ pc'[c] = "idle" /\ loc'[c] = NoLocals
         /\ \A d \in Calls \ {c} : pc'[d] = pc[d] /\ loc'[d] = loc[d]
<1>1. "idle" \in Stages
  BY DEF Stages
<1> QED BY <1>1, GotoFacts, NoLocalsType DEF Return

(* An idle call holds nothing that could become stale. *)
LEMMA IdleCall ==
  ASSUME NEW c \in Calls, pc'[c] = "idle", loc'[c] = NoLocals,
         Len(rows') \in Nat, clock' \in Nat
  PROVE  CallInv(c)'
BY NoLocalsType DEF CallInv, HoldsCode

(* A call that does not move keeps what it knows, as long as the tables    *)
(* only grow and a running enrolment is left alone.                        *)
LEMMA CallKept ==
  ASSUME AuthTypes, NEW d \in Calls, CallInv(d),
         pc'[d] = pc[d], loc'[d] = loc[d],
         Grown, clock' \in Nat, clock <= clock',
         Taken \subseteq Taken', verified \subseteq verified',
         pc[d] = "enabling" => HasChain(d)' /\ admin'.pending = admin.pending
  PROVE  CallInv(d)'
<1>1. loc[d] \in Locals
  BY DEF AuthTypes
<1>2. loc[d].session \in Nat /\ loc[d].target \in Nat /\ loc[d].now \in Nat
  BY <1>1 DEF Locals
<1>3. Len(rows) \in Nat /\ Len(rows') \in Nat /\ Pairs \subseteq Pairs'
  BY DEF AuthTypes, Grown, Pairs
<1>4. HoldsCode(d)' = HoldsCode(d)
  BY DEF HoldsCode
<1>5. clock \in Nat
  BY DEF AuthTypes
<1> QED BY <1>2, <1>3, <1>4, <1>5 DEF CallInv, Grown

(* A step of call c alone, by which the tables at most grow. *)
LEMMA CallsKept ==
  ASSUME AuthTypes, CallsInv, NEW c \in Calls,
         \A d \in Calls \ {c} : pc'[d] = pc[d] /\ loc'[d] = loc[d],
         Grown, clock' \in Nat, clock <= clock',
         Taken \subseteq Taken', verified \subseteq verified',
         \A d \in Calls \ {c} : pc[d] = "enabling" =>
            HasChain(d)' /\ admin'.pending = admin.pending,
         CallInv(c)'
  PROVE  CallsInv'
<1> SUFFICES ASSUME NEW d \in Calls, d # c PROVE CallInv(d)'
  BY DEF CallsInv
<1> QED BY CallKept DEF CallsInv

(* A step that draws no code: no call comes to hold one, and no session is *)
(* opened with one.                                                        *)
LEMMA CodesKept ==
  ASSUME AuthTypes, CodesInv, Grown, NEW c \in Calls,
         \A d \in Calls \ {c} : pc'[d] = pc[d] /\ loc'[d] = loc[d],
         HoldsCode(c)' => HoldsCode(c) /\ loc'[c].factor = loc[c].factor,
         \A p \in Pairs' \ Pairs : ~OpenedByCode(p)',
         UNCHANGED <<codes, secrets>>, admin'.pending = admin.pending
  PROVE  CodesInv' /\ Taken' = Taken
<1>1. Taken' = Taken
  BY DEF Taken
<1>2. \A d \in Calls : HoldsCode(d)' => HoldsCode(d) /\ loc'[d].factor = loc[d].factor
  BY DEF HoldsCode
<1>3. \A p \in Pairs' : OpenedByCode(p)' =>
         p \in Pairs /\ OpenedByCode(p) /\ rows'[p].factor = rows[p].factor
  BY DEF OpenedByCode, Grown
<1> QED BY <1>1, <1>2, <1>3 DEF CodesInv
(* A step of call c that leaves the tables of the sessions as they are.    *)
LEMMA MovesKeep ==
  ASSUME AuthInv, NEW c \in Calls,
         pc' \in [Calls -> Stages], loc' \in [Calls -> Locals],
         \A d \in Calls \ {c} : pc'[d] = pc[d] /\ loc'[d] = loc[d],
         UNCHANGED <<admin, boot, rows, codes, secrets, clock, epoch, ended>>,
         verified \subseteq verified', chain' \in Seq(Calls),
         \A d \in Calls \ {c} : pc[d] = "enabling" => HasChain(d)',
         CallInv(c)',
         HoldsCode(c)' => HoldsCode(c) /\ loc'[c].factor = loc[c].factor
  PROVE  AuthInv'
<1> USE DEF AuthInv
<1>1. Grown
  BY DEF Grown, AuthTypes, Pairs
<1>2. Taken' = Taken
  BY DEF Taken
<1>3. AuthTypes'
  BY DEF AuthTypes
<1>4. CallsInv'
  BY SMTT(60), <1>1, <1>2, CallsKept DEF AuthTypes
<1>5. RowsInv'
  BY DEF RowsInv, Pairs
<1>6. CodesInv'
  BY <1>1, CodesKept DEF Pairs
<1>7. EnrolledIsVerified' /\ EndedSessionsStayEnded' /\ RotatedOnce' /\ PasswordCurrent'
  BY DEF EnrolledIsVerified, EndedSessionsStayEnded, RotatedOnce, PasswordCurrent,
         Pairs, Live
<1> QED BY <1>3, <1>4, <1>5, <1>6, <1>7

(* What each read takes along is what the tables say. *)
LEMMA BootstrapReadKeeps ==
  ASSUME AuthInv, NEW c \in Calls, NEW token \in 1 .. boot.token,
         BootstrapRead(c, token)
  PROVE  AuthInv'
<1> DEFINE l == [NoLocals EXCEPT !.secret = token, !.now = clock]
<1>1. AuthTypes /\ "bootstrap" \in Stages
  BY DEF AuthInv, Stages
<1>2. boot.token \in Nat
  BY <1>1 DEF AuthTypes, BootRow
<1>3. l \in Locals /\ l.session = 0 /\ l.target = 0 /\ l.now = clock
  <2> DEFINE m == [NoLocals EXCEPT !.secret = token]
  <2>1. l = [m EXCEPT !.now = clock]
    BY DEF NoLocals
  <2>2. m \in Locals /\ m.session = 0 /\ m.target = 0
    BY <1>2, NoLocalsType DEF Locals
  <2>3. clock \in Nat
    BY <1>1 DEF AuthTypes
  <2> HIDE DEF l, m
  <2> QED BY <2>1, <2>2, <2>3 DEF Locals
<1>4. Goto(c, "bootstrap", l)
  BY DEF BootstrapRead
<1> HIDE DEF l
<1>5. /\ pc' \in [Calls -> Stages] /\ loc' \in [Calls -> Locals]
      /\ pc'[c] = "bootstrap" /\ loc'[c] = l
      /\ \A d \in Calls \ {c} : pc'[d] = pc[d] /\ loc'[d] = loc[d]
  BY <1>1, <1>3, <1>4, GotoFacts
<1>6. UNCHANGED <<admin, boot, rows, codes, secrets, chain, clock, epoch, ended, verified>>
  BY DEF BootstrapRead, tables, history
<1>7. CallInv(c)' /\ ~HoldsCode(c)'
  BY <1>1, <1>3, <1>5, <1>6 DEF CallInv, HoldsCode, AuthTypes
<1>8. \A d \in Calls \ {c} : pc[d] = "enabling" => HasChain(d)'
  BY <1>6 DEF AuthInv, CallsInv, CallInv, HasChain
<1> QED BY <1>1, <1>5, <1>6, <1>7, <1>8, MovesKeep DEF AuthTypes

LEMMA LoginReadKeeps ==
  ASSUME AuthInv, NEW c \in Calls, NEW password, NEW factor \in Factors,
         LoginRead(c, password, factor)
  PROVE  AuthInv'
<1> DEFINE verdict == LoginVerdict(password, factor)
           kept    == IF admin.totp = 0 THEN NoFactor ELSE factor
           l       == IF verdict = "idle" THEN NoLocals
                      ELSE [NoLocals EXCEPT !.hash = admin.hash, !.now = clock,
                              !.factor = kept]
<1>1. AuthTypes
  BY DEF AuthInv
<1>2. /\ verdict \in Stages /\ verdict # "rotate" /\ verdict # "enabling"
      /\ verdict \in {"login", "recovery"} => admin.hash # 0
      /\ verdict = "login" => admin.totp = 0 \/ factor[1] # "recovery"
  BY DEF LoginVerdict, Stages
<1>3. kept \in Factors /\ (verdict = "login" => kept[1] # "recovery")
  BY <1>2, NoFactorType
<1>4. /\ l \in Locals /\ l.session = 0 /\ l.target = 0 /\ l.now <= clock
      /\ verdict # "idle" => l.hash = admin.hash /\ l.factor = kept
  <2>1. admin.hash \in Nat /\ clock \in Nat
    BY <1>1 DEF AuthTypes, AdminRow
  <2> HIDE DEF verdict, kept
  <2>2. CASE verdict # "idle"
    <3> DEFINE m == [NoLocals EXCEPT !.hash = admin.hash]
               n == [m EXCEPT !.now = clock]
    <3>1. l = [n EXCEPT !.factor = kept]
      BY <2>2 DEF NoLocals
    <3>2. m \in Locals /\ m.session = 0 /\ m.target = 0 /\ m.hash = admin.hash
      BY <2>1, NoLocalsType DEF Locals
    <3> HIDE DEF l, m
    <3>3. /\ n \in Locals /\ n.session = 0 /\ n.target = 0 /\ n.now = clock
          /\ n.hash = admin.hash
      BY <2>1, <3>2 DEF Locals
    <3> HIDE DEF n
    <3> QED BY <1>3, <2>1, <3>1, <3>3 DEF Locals
  <2>3. CASE verdict = "idle"
    BY <2>1, <2>3, NoLocalsType
  <2> QED BY <2>2, <2>3
<1>5. Goto(c, verdict, l)
  BY DEF LoginRead
<1> HIDE DEF l, verdict, kept
<1>6. /\ pc' \in [Calls -> Stages] /\ loc' \in [Calls -> Locals]
      /\ pc'[c] = verdict /\ loc'[c] = l
      /\ \A d \in Calls \ {c} : pc'[d] = pc[d] /\ loc'[d] = loc[d]
  BY <1>1, <1>2, <1>4, <1>5, GotoFacts
<1>7. UNCHANGED <<admin, boot, rows, codes, secrets, chain, clock, epoch, ended, verified>>
  BY DEF LoginRead, tables, history
<1>8. ~HoldsCode(c)'
  BY <1>3, <1>4, <1>6 DEF HoldsCode
<1>9. CallInv(c)'
  BY <1>1, <1>2, <1>4, <1>6, <1>7, <1>8 DEF CallInv, AuthTypes
<1>10. \A d \in Calls \ {c} : pc[d] = "enabling" => HasChain(d)'
  BY <1>7 DEF AuthInv, CallsInv, CallInv, HasChain
<1> QED BY <1>1, <1>6, <1>7, <1>8, <1>9, <1>10, MovesKeep DEF AuthTypes
LEMMA RefreshReadKeeps ==
  ASSUME AuthInv, NEW c \in Calls, NEW p \in Pairs, RefreshRead(c, p)
  PROVE  AuthInv'
<1> DEFINE stage == IF rows[p].refresh_revoked \/ rows[p].used THEN "reuse" ELSE "rotate"
           l == [NoLocals EXCEPT !.pair = p, !.session = rows[p].session, !.now = clock]
<1>1. AuthTypes /\ stage \in Stages \ {"enabling", "login", "recovery"}
  BY DEF AuthInv, Stages
<1>2. /\ rows[p].session \in Nat /\ rows[p].session <= Len(rows)
      /\ clock \in Nat /\ p \in Nat
  BY <1>1 DEF AuthInv, RowsInv, Pairs, AuthTypes
<1>3. /\ l \in Locals /\ l.session = rows[p].session /\ l.target = 0
      /\ l.now = clock /\ l.pair = p
  <2> DEFINE s == rows[p].session
             m == [NoLocals EXCEPT !.pair = p]
             n == [m EXCEPT !.session = s]
  <2>1. l = [n EXCEPT !.now = clock]
    BY DEF NoLocals
  <2>2. m \in Locals /\ m.target = 0 /\ m.pair = p
    BY <1>2, NoLocalsType DEF Locals
  <2>3. s \in Nat
    BY <1>2
  <2> HIDE DEF l, m, s
  <2>4. n \in Locals /\ n.target = 0 /\ n.pair = p /\ n.session = s
    BY <2>2, <2>3 DEF Locals
  <2> HIDE DEF n
  <2>5. /\ l \in Locals /\ l.session = s /\ l.target = 0
        /\ l.now = clock /\ l.pair = p
    BY <1>2, <2>1, <2>4 DEF Locals
  <2> QED BY <2>5 DEF s
<1>4. Goto(c, stage, l)
  BY DEF RefreshRead
<1> HIDE DEF l, stage
<1>5. /\ pc' \in [Calls -> Stages] /\ loc' \in [Calls -> Locals]
      /\ pc'[c] = stage /\ loc'[c] = l
      /\ \A d \in Calls \ {c} : pc'[d] = pc[d] /\ loc'[d] = loc[d]
  BY <1>1, <1>3, <1>4, GotoFacts
<1>6. UNCHANGED <<admin, boot, rows, codes, secrets, chain, clock, epoch, ended, verified>>
  BY DEF RefreshRead, tables, history
<1>7. CallInv(c)' /\ ~HoldsCode(c)'
  BY <1>1, <1>2, <1>3, <1>5, <1>6 DEF CallInv, HoldsCode, AuthTypes, Pairs
<1>8. \A d \in Calls \ {c} : pc[d] = "enabling" => HasChain(d)'
  BY <1>6 DEF AuthInv, CallsInv, CallInv, HasChain
<1> QED BY <1>1, <1>5, <1>6, <1>7, <1>8, MovesKeep DEF AuthTypes

LEMMA LogoutReadKeeps ==
  ASSUME AuthInv, NEW c \in Calls, NEW p \in Pairs, LogoutRead(c, p)
  PROVE  AuthInv'
<1> DEFINE s == rows[p].session
           l == [NoLocals EXCEPT !.session = s]
<1>1. AuthTypes /\ "logout" \in Stages
  BY DEF AuthInv, Stages
<1>2. s \in Nat /\ s <= Len(rows) /\ clock \in Nat
  BY <1>1 DEF AuthInv, RowsInv, Pairs, AuthTypes
<1>3. Goto(c, "logout", l)
  BY DEF LogoutRead
<1> HIDE DEF s
<1>4. l \in Locals /\ l.session = s /\ l.target = 0 /\ l.now = 0
  BY <1>2, NoLocalsType DEF Locals
<1> HIDE DEF l
<1>5. /\ pc' \in [Calls -> Stages] /\ loc' \in [Calls -> Locals]
      /\ pc'[c] = "logout" /\ loc'[c] = l
      /\ \A d \in Calls \ {c} : pc'[d] = pc[d] /\ loc'[d] = loc[d]
  BY <1>1, <1>3, <1>4, GotoFacts
<1>6. UNCHANGED <<admin, boot, rows, codes, secrets, chain, clock, epoch, ended, verified>>
  BY DEF LogoutRead, tables, history
<1>7. CallInv(c)' /\ ~HoldsCode(c)'
  BY <1>1, <1>2, <1>4, <1>5, <1>6 DEF CallInv, HoldsCode, AuthTypes
<1>8. \A d \in Calls \ {c} : pc[d] = "enabling" => HasChain(d)'
  BY <1>6 DEF AuthInv, CallsInv, CallInv, HasChain
<1> QED BY <1>1, <1>5, <1>6, <1>7, <1>8, MovesKeep DEF AuthTypes

(* Joining the queue of enrolments does not displace its head. *)
LEMMA ChainGrows ==
  ASSUME chain \in Seq(Calls), NEW c \in Calls, chain' = Append(chain, c),
         NEW d \in Calls, HasChain(d)
  PROVE  chain' \in Seq(Calls) /\ HasChain(d)'
BY DEF HasChain

LEMMA AuthenticateKeeps ==
  ASSUME AuthInv, NEW c \in Calls, NEW p \in Pairs, NEW locals \in Locals,
         NEW handler \in {"revoke", "password", "prepare", "enable"},
         locals.target <= Len(rows), locals.now = 0,
         Authenticate(c, p, handler, locals)
  PROVE  AuthInv'
<1> DEFINE s == rows[p].session
           l == [locals EXCEPT !.session = s]
<1>1. AuthTypes /\ handler \in Stages
  BY DEF AuthInv, Stages
<1>2. s \in Nat /\ s <= Len(rows) /\ clock \in Nat /\ chain \in Seq(Calls)
  BY <1>1 DEF AuthInv, RowsInv, Pairs, AuthTypes
<1>3. Goto(c, handler, l)
  BY DEF Authenticate
<1> HIDE DEF s
<1>4. l \in Locals /\ l.session = s /\ l.target <= Len(rows) /\ l.now = 0
  BY <1>2 DEF Locals
<1> HIDE DEF l
<1>5. /\ pc' \in [Calls -> Stages] /\ loc' \in [Calls -> Locals]
      /\ pc'[c] = handler /\ loc'[c] = l
      /\ \A d \in Calls \ {c} : pc'[d] = pc[d] /\ loc'[d] = loc[d]
  BY <1>1, <1>3, <1>4, GotoFacts
<1>6. UNCHANGED <<admin, boot, rows, codes, secrets, clock, epoch, ended, verified>>
  BY DEF Authenticate, tables, history
<1>7. CallInv(c)' /\ ~HoldsCode(c)'
  BY <1>1, <1>2, <1>4, <1>5, <1>6 DEF CallInv, HoldsCode, AuthTypes
<1>8. chain' = chain \/ chain' = Append(chain, c)
  BY DEF Authenticate
<1>9. chain' \in Seq(Calls) /\ \A d \in Calls : HasChain(d) => HasChain(d)'
  BY <1>2, <1>8, ChainGrows DEF HasChain
<1>10. \A d \in Calls \ {c} : pc[d] = "enabling" => HasChain(d)'
  BY <1>9 DEF AuthInv, CallsInv, CallInv
<1> QED BY <1>5, <1>6, <1>7, <1>9, <1>10, MovesKeep

(* A call that returns without a write, leaving the queue when it heads it.*)
LEMMA ReturnKeeps ==
  ASSUME AuthInv, NEW c \in Calls, Return(c),
         chain' = chain \/ (HasChain(c) /\ chain' = Tail(chain)),
         UNCHANGED <<admin, boot, rows, codes, secrets, clock, epoch, ended, verified>>
  PROVE  AuthInv'
<1>1. AuthTypes
  BY DEF AuthInv
<1>2. /\ pc' \in [Calls -> Stages] /\ loc' \in [Calls -> Locals]
      /\ pc'[c] = "idle" /\ loc'[c] = NoLocals
      /\ \A d \in Calls \ {c} : pc'[d] = pc[d] /\ loc'[d] = loc[d]
  BY <1>1, ReturnFacts
<1>3. CallInv(c)' /\ ~HoldsCode(c)'
  BY <1>1, <1>2, IdleCall DEF AuthTypes, HoldsCode
<1>4. chain' \in Seq(Calls)
  BY SMTT(60), <1>1 DEF AuthTypes, HasChain
<1>5. \A d \in Calls \ {c} : pc[d] = "enabling" => HasChain(d)'
  BY DEF AuthInv, CallsInv, CallInv, HasChain
<1> QED BY <1>2, <1>3, <1>4, <1>5, MovesKeep
(* A call that goes on with what it knows, or with a newer time, and does  *)
(* not come to hold a code.                                                *)
LEMMA GoesOnKeeps ==
  ASSUME AuthInv, NEW c \in Calls, NEW l \in Locals,
         NEW stage \in Stages \ {"login", "recovery", "rotate", "enabling"},
         Goto(c, stage, l),
         l.session = loc[c].session, l.target = loc[c].target,
         l.now \in {loc[c].now, clock},
         UNCHANGED <<admin, boot, rows, codes, secrets, chain, clock, epoch, ended,
                     verified>>
  PROVE  AuthInv'
<1>1. AuthTypes
  BY DEF AuthInv
<1>2. /\ pc' \in [Calls -> Stages] /\ loc' \in [Calls -> Locals]
      /\ pc'[c] = stage /\ loc'[c] = l
      /\ \A d \in Calls \ {c} : pc'[d] = pc[d] /\ loc'[d] = loc[d]
  BY <1>1, GotoFacts
<1>3. clock \in Nat
  BY <1>1 DEF AuthTypes
<1>4. CallInv(c)' /\ ~HoldsCode(c)'
  BY <1>2, <1>3 DEF AuthInv, CallsInv, CallInv, HoldsCode
<1>5. \A d \in Calls \ {c} : pc[d] = "enabling" => HasChain(d)'
  BY DEF AuthInv, CallsInv, CallInv, HasChain
<1> QED BY <1>1, <1>2, <1>4, <1>5, MovesKeep DEF AuthTypes

LEMMA OvertakenKeep ==
  ASSUME AuthInv, NEW c \in Calls, NEW password,
         \/ LoginOvertaken(c) \/ RotateOvertaken(c) \/ ChangeRead(c, password)
  PROVE  AuthInv'
<1>1. AuthTypes /\ loc[c] \in Locals /\ clock \in Nat /\ admin.hash \in Nat
  BY DEF AuthInv, AuthTypes, AdminRow
<1>2. {"failure", "reuse", "change"}
        \subseteq Stages \ {"login", "recovery", "rotate", "enabling"}
  BY DEF Stages
<1>3. CASE LoginOvertaken(c)
  <2> DEFINE l == [loc[c] EXCEPT !.now = clock]
  <2>1. /\ l \in Locals /\ l.now = clock /\ l.session = loc[c].session
        /\ l.target = loc[c].target
    BY <1>1 DEF Locals
  <2>2. Goto(c, "failure", l)
    BY <1>3 DEF LoginOvertaken
  <2> HIDE DEF l
  <2> QED BY <1>2, <1>3, <2>1, <2>2, GoesOnKeeps DEF LoginOvertaken, tables, history
<1>4. CASE RotateOvertaken(c)
  BY <1>1, <1>2, <1>4, GoesOnKeeps DEF RotateOvertaken, tables, history
<1>5. CASE ChangeRead(c, password)
  <2>1. CASE password = admin.hash
    <3> DEFINE h == admin.hash
               l == [loc[c] EXCEPT !.hash = h]
    <3>1. Goto(c, "change", l)
      BY <1>5, <2>1 DEF ChangeRead
    <3>2. h \in Nat
      BY <1>1
    <3> HIDE DEF h
    <3>3. /\ l \in Locals /\ l.now = loc[c].now /\ l.session = loc[c].session
          /\ l.target = loc[c].target
      BY <1>1, <3>2 DEF Locals
    <3> HIDE DEF l
    <3> QED BY <1>2, <1>5, <3>1, <3>3, GoesOnKeeps DEF ChangeRead, tables, history
  <2>2. CASE password # admin.hash
    BY <1>5, <2>2, ReturnKeeps DEF ChangeRead, tables, history
  <2> QED BY <2>1, <2>2
<1> QED BY <1>3, <1>4, <1>5

LEMMA LeavesKeep ==
  ASSUME AuthInv, NEW c \in Calls, NEW t,
         \/ BootstrapOvertaken(c, t) \/ ChangeOvertaken(c) \/ EnableRefused(c) \/ Fail(c)
  PROVE  AuthInv'
BY ReturnKeeps DEF BootstrapOvertaken, ChangeOvertaken, EnableRefused, Fail, LeaveChain,
                   tables, history

(* A code was shown for the pending secret, and the call heads the queue.  *)
LEMMA EnableReadKeeps ==
  ASSUME AuthInv, NEW c \in Calls, EnableRead(c)
  PROVE  AuthInv'
<1>1. AuthTypes /\ loc[c] \in Locals /\ "enabling" \in Stages
  BY DEF AuthInv, AuthTypes, Stages
<1>2. /\ pc' \in [Calls -> Stages] /\ loc' \in [Calls -> Locals]
      /\ pc'[c] = "enabling" /\ loc'[c] = loc[c]
      /\ \A d \in Calls \ {c} : pc'[d] = pc[d] /\ loc'[d] = loc[d]
  BY <1>1, GotoFacts DEF EnableRead
<1>3. UNCHANGED <<admin, boot, rows, codes, secrets, chain, clock, epoch, ended>>
      /\ verified' = verified \cup {loc[c].secret}
  BY DEF EnableRead, tables
<1>4. CallInv(c)' /\ ~HoldsCode(c)'
  BY <1>2, <1>3 DEF AuthInv, CallsInv, CallInv, HoldsCode, EnableRead, HasChain
<1>5. \A d \in Calls \ {c} : pc[d] = "enabling" => HasChain(d)'
  BY <1>3 DEF AuthInv, CallsInv, CallInv, HasChain
<1> QED BY <1>1, <1>2, <1>3, <1>4, <1>5, MovesKeep DEF AuthTypes

(* The start of the process, the clock and a restart change no session.    *)
LEMMA ProcessKeeps ==
  ASSUME AuthInv, EnsureBootstrap \/ Tick \/ Restart
  PROVE  AuthInv'
<1>1. /\ UNCHANGED <<admin, rows, codes, secrets, epoch, ended, verified>>
      /\ clock' \in Nat /\ clock <= clock'
  BY DEF AuthInv, AuthTypes, EnsureBootstrap, FindAdministrator, FindActiveBootstrap,
         WriteBootstrap, Tick, Restart, tables, history
<1>2. boot' \in BootRow
  <2>1. CASE WriteBootstrap
    BY <2>1, AuthAssumption DEF WriteBootstrap, AuthInv, AuthTypes, BootRow
  <2>2. CASE ~WriteBootstrap
    BY <2>2 DEF AuthInv, AuthTypes, EnsureBootstrap, FindAdministrator,
                FindActiveBootstrap, Tick, Restart, tables
  <2> QED BY <2>1, <2>2
<1>3. Pairs' = Pairs /\ Taken' = Taken /\ Grown
  BY <1>1 DEF Pairs, Taken, Grown, AuthInv, AuthTypes
<1>4. RowsInv' /\ EnrolledIsVerified' /\ EndedSessionsStayEnded' /\ RotatedOnce'
      /\ PasswordCurrent'
  BY <1>1, <1>3 DEF AuthInv, RowsInv, EnrolledIsVerified, EndedSessionsStayEnded,
                    RotatedOnce, PasswordCurrent, Live
<1>5. CASE UNCHANGED <<pc, loc, chain>>
  <2>1. AuthTypes'
    BY <1>1, <1>2, <1>5 DEF AuthInv, AuthTypes
  <2>2. CallsInv'
    <3> SUFFICES ASSUME NEW d \in Calls PROVE CallInv(d)'
      BY DEF CallsInv
    <3> QED BY <1>1, <1>3, <1>5, CallKept DEF AuthInv, CallsInv, CallInv, HasChain
  <2>3. CodesInv'
    BY <1>1, <1>3, <1>5 DEF AuthInv, CodesInv, HoldsCode, OpenedByCode
  <2> QED BY <1>4, <2>1, <2>2, <2>3 DEF AuthInv
<1>6. CASE Restart
  <2>1. /\ pc' = [c \in Calls |-> "idle"] /\ loc' = [c \in Calls |-> NoLocals]
        /\ chain' = <<>>
    BY <1>6 DEF Restart
  <2>2. AuthTypes'
    BY <1>1, <1>2, <2>1, NoLocalsType DEF AuthInv, AuthTypes, Stages
  <2>3. CallsInv'
    BY <1>1, <2>1, IdleCall DEF AuthInv, AuthTypes, CallsInv
  <2>4. CodesInv'
    BY <1>1, <1>3, <2>1 DEF AuthInv, CodesInv, HoldsCode, OpenedByCode
  <2> QED BY <1>4, <2>2, <2>3, <2>4 DEF AuthInv
<1> QED BY <1>5, <1>6 DEF EnsureBootstrap, FindAdministrator, FindActiveBootstrap,
                         WriteBootstrap, Tick
-----------------------------------------------------------------------------
(* Sessions end *)

(* Revoking sessions in S ends them for good, and the pairs stay who they  *)
(* are.                                                                    *)
LEMMA EndedRows ==
  ASSUME AuthInv, NEW S \in SUBSET (0 .. Len(rows)), NEW audit, EndSessions(S, audit),
         admin'.hash = 0 => admin.hash = 0
  PROVE  /\ Grown /\ Len(rows') = Len(rows) /\ Pairs' = Pairs
         /\ RowsInv' /\ EndedSessionsStayEnded' /\ RotatedOnce'
         /\ \A p \in Pairs : Live(p)' => rows[p].session \notin S /\ Live(p)
<1>1. rows' = Revoked(S) /\ ended' = ended \cup S /\ rows \in Seq(TokenRow)
  BY DEF EndSessions, AuthInv, AuthTypes
<1>2. /\ Grown /\ Len(rows') = Len(rows)
      /\ \A p \in Pairs : /\ rows[p].session \notin S => rows'[p] = rows[p]
                          /\ rows[p].session \in S => ~Live(p)'
  BY <1>1, RevokedRows
<1>3. Pairs' = Pairs
  BY <1>2 DEF Pairs
<1>4. \A p \in Pairs : rows[p].session \notin S => Live(p)' = Live(p)
  BY <1>2 DEF Live
<1>5. RowsInv'
  BY <1>1, <1>2, <1>3 DEF AuthInv, RowsInv, Grown
<1>6. EndedSessionsStayEnded'
  BY <1>1, <1>2, <1>3, <1>4 DEF AuthInv, EndedSessionsStayEnded, Grown
<1>7. RotatedOnce'
  BY <1>2, <1>3 DEF AuthInv, RotatedOnce, Grown
<1> QED BY <1>2, <1>3, <1>4, <1>5, <1>6, <1>7

LEMMA EndsKeep ==
  ASSUME AuthInv, NEW c \in Calls,
         RejectRefreshReuse(c) \/ CommitLogout(c) \/ RevokeSession(c)
  PROVE  AuthInv'
<1>1. AuthTypes /\ loc[c] \in Locals
  BY DEF AuthInv, AuthTypes
<1>2. PICK s \in {loc[c].session, loc[c].target}, audit \in BOOLEAN :
        EndSessions({s}, audit)
  BY DEF RejectRefreshReuse, CommitLogout, RevokeSession
<1>3. {s} \in SUBSET (0 .. Len(rows))
  BY <1>1 DEF AuthInv, AuthTypes, CallsInv, CallInv, Locals
<1>4. Return(c) /\ UNCHANGED <<admin, boot, codes, secrets, chain, clock, epoch, verified>>
  BY DEF RejectRefreshReuse, CommitLogout, RevokeSession
<1>5. /\ Grown /\ Len(rows') = Len(rows) /\ Pairs' = Pairs
      /\ RowsInv' /\ EndedSessionsStayEnded' /\ RotatedOnce'
      /\ \A p \in Pairs : Live(p)' => Live(p)
  BY <1>2, <1>3, <1>4, EndedRows
<1>6. /\ pc' \in [Calls -> Stages] /\ loc' \in [Calls -> Locals]
      /\ pc'[c] = "idle" /\ loc'[c] = NoLocals
      /\ \A d \in Calls \ {c} : pc'[d] = pc[d] /\ loc'[d] = loc[d]
  BY <1>1, <1>4, ReturnFacts
<1>7. AuthTypes'
  BY <1>1, <1>4, <1>5, <1>6 DEF AuthTypes, Grown
<1>8. CodesInv' /\ Taken' = Taken
  BY <1>1, <1>4, <1>5, <1>6, CodesKept DEF AuthInv, HoldsCode
<1>9. CallInv(c)'
  BY <1>1, <1>4, <1>5, <1>6, IdleCall DEF AuthTypes
<1>10. \A d \in Calls \ {c} : pc[d] = "enabling" => HasChain(d)'
  BY <1>4 DEF AuthInv, CallsInv, CallInv, HasChain
<1>11. CallsInv'
  BY <1>1, <1>4, <1>5, <1>6, <1>8, <1>9, <1>10, CallsKept DEF AuthInv, AuthTypes
<1>12. PasswordCurrent' /\ EnrolledIsVerified'
  BY <1>4, <1>5 DEF AuthInv, PasswordCurrent, EnrolledIsVerified, Grown
<1> QED BY <1>5, <1>7, <1>8, <1>11, <1>12 DEF AuthInv

(* A password change leaves its caller alone with the new password.        *)
LEMMA ChangeKeeps ==
  ASSUME AuthInv, NEW c \in Calls, CommitChange(c)
  PROVE  AuthInv'
<1> DEFINE s == loc[c].session
           h == admin.hash + 1
<1>1. AuthTypes /\ s \in Nat /\ h \in Nat /\ h # 0
  <2>1. AuthTypes
    BY DEF AuthInv
  <2>2. loc[c] \in Locals /\ admin \in AdminRow
    BY <2>1 DEF AuthTypes
  <2>3. admin.hash \in Nat
    BY <2>2 DEF AdminRow
  <2> QED BY <2>1, <2>2, <2>3 DEF Locals
<1>2. Others(s) \in SUBSET (0 .. Len(rows))
  BY DEF AuthInv, RowsInv, Others, Sessions, Pairs
<1>3. /\ EndSessions(Others(s), TRUE) /\ Return(c)
      /\ admin' = [admin EXCEPT !.hash = h]
      /\ epoch' = [epoch EXCEPT ![s] = h]
      /\ UNCHANGED <<boot, codes, secrets, chain, clock, verified>>
  BY DEF CommitChange
<1> HIDE DEF s, h
<1>4. /\ admin' \in AdminRow /\ admin'.hash = h
      /\ admin'.pending = admin.pending /\ admin'.totp = admin.totp
  BY <1>1, <1>3 DEF AuthTypes, AdminRow
<1>5. /\ Grown /\ Len(rows') = Len(rows) /\ Pairs' = Pairs
      /\ RowsInv' /\ EndedSessionsStayEnded' /\ RotatedOnce'
      /\ \A p \in Pairs : Live(p)' => rows[p].session \notin Others(s)
  BY <1>1, <1>2, <1>3, <1>4, EndedRows
<1>6. /\ pc' \in [Calls -> Stages] /\ loc' \in [Calls -> Locals]
      /\ pc'[c] = "idle" /\ loc'[c] = NoLocals
      /\ \A d \in Calls \ {c} : pc'[d] = pc[d] /\ loc'[d] = loc[d]
  BY <1>1, <1>3, ReturnFacts
<1>7. AuthTypes'
  BY <1>1, <1>3, <1>4, <1>5, <1>6 DEF AuthTypes, Grown
<1>8. CodesInv' /\ Taken' = Taken
  BY <1>1, <1>3, <1>4, <1>5, <1>6, CodesKept DEF AuthInv, HoldsCode
<1>9. CallInv(c)'
  BY <1>1, <1>3, <1>5, <1>6, IdleCall DEF AuthTypes
<1>10. \A d \in Calls \ {c} : pc[d] = "enabling" => HasChain(d)'
  BY <1>3 DEF AuthInv, CallsInv, CallInv, HasChain
<1>11. CallsInv'
  <2>1. clock' \in Nat /\ clock <= clock' /\ verified \subseteq verified'
    BY <1>1, <1>3 DEF AuthTypes
  <2>2. CallsInv /\ Taken \subseteq Taken' /\ Grown
    BY <1>5, <1>8 DEF AuthInv
  <2> QED BY <1>1, <1>4, <1>6, <1>9, <1>10, <2>1, <2>2, CallsKept
<1>12. EnrolledIsVerified'
  BY <1>3, <1>4 DEF AuthInv, EnrolledIsVerified
<1>13. PasswordCurrent'
  <2>1. \A p \in Pairs : rows[p].session \in 1 .. MaxPairs
    BY <1>1, AuthAssumption DEF AuthInv, RowsInv, AuthTypes, Pairs
  <2>2. \A p \in Pairs : Live(p)' => rows[p].session = s
    BY <1>5 DEF Others, Sessions
  <2>3. \A p \in Pairs : rows'[p].session = rows[p].session
    BY <1>5 DEF Grown
  <2> QED BY <1>1, <1>3, <1>4, <1>5, <2>1, <2>2, <2>3 DEF PasswordCurrent, AuthTypes
<1> QED BY <1>5, <1>7, <1>8, <1>11, <1>12, <1>13 DEF AuthInv
-----------------------------------------------------------------------------
(* Sessions begin and are rotated *)

(* A new session has a number nobody was given before. *)
LEMMA OpenedRows ==
  ASSUME AuthInv, NEW factor \in Factors, NEW t \in Nat,
         rows' = Append(rows, NewPair(0, 0, factor, t)),
         ended' = ended, admin'.hash # 0, NEW n \in Nat, n = Len(rows) + 1
  PROVE  /\ Grown /\ Len(rows') = n
         /\ Pairs' = Pairs \cup {n} /\ n \notin Pairs
         /\ \A p \in Pairs : rows'[p] = rows[p]
         /\ rows'[n].session = n /\ rows'[n].parent = 0 /\ rows'[n].factor = factor
         /\ RowsInv' /\ EndedSessionsStayEnded' /\ RotatedOnce'
<1> DEFINE r == NewPair(0, 0, factor, t)
<1>1. rows \in Seq(TokenRow) /\ Len(rows) \in Nat
  BY DEF AuthInv, AuthTypes
<1>2. r \in TokenRow /\ r.session = n /\ r.parent = 0 /\ r.factor = factor
  BY <1>1, NewPairRow
<1>3. rows' = Append(rows, r)
  OBVIOUS
<1> HIDE DEF r
<1>4. /\ Grown /\ Len(rows') = n /\ rows'[n] = r
      /\ \A p \in Pairs : rows'[p] = rows[p]
      /\ Pairs' = Pairs \cup {n} /\ n \notin Pairs
  BY <1>1, <1>2, <1>3, AppendedRow DEF Pairs
<1>5. RowsInv'
  <2>1. \A p \in Pairs' : rows'[p].session \in Pairs'
    BY ZenonT(60), <1>2, <1>4 DEF AuthInv, RowsInv
  <2>2. \A p \in Pairs' : rows'[p].parent # 0 =>
          rows'[p].parent \in Pairs' /\ rows'[rows'[p].parent].used
    <3> SUFFICES ASSUME NEW p \in Pairs', rows'[p].parent # 0
                 PROVE  rows'[p].parent \in Pairs' /\ rows'[rows'[p].parent].used
      OBVIOUS
    <3>1. p \in Pairs /\ rows'[p] = rows[p]
      BY <1>2, <1>4
    <3>2. rows[p].parent \in Pairs /\ rows[rows[p].parent].used
      BY <3>1 DEF AuthInv, RowsInv
    <3> QED BY <1>4, <3>1, <3>2
  <2>3. ended' \subseteq 0 .. Len(rows')
    BY <1>1, <1>4 DEF AuthInv, RowsInv
  <2> QED BY <2>1, <2>2, <2>3 DEF RowsInv
<1>6. EndedSessionsStayEnded'
  <2>1. n \notin ended
    BY <1>1 DEF AuthInv, RowsInv
  <2> QED BY ZenonT(60), <1>2, <1>4, <2>1 DEF AuthInv, EndedSessionsStayEnded, Live
<1>7. RotatedOnce'
  <2> SUFFICES ASSUME NEW p \in Pairs', NEW q \in Pairs', rows'[p].parent # 0,
                      rows'[p].parent = rows'[q].parent
               PROVE  p = q
    BY DEF RotatedOnce
  <2>1. p \in Pairs /\ q \in Pairs /\ rows'[p] = rows[p] /\ rows'[q] = rows[q]
    BY <1>2, <1>4
  <2> QED BY <2>1 DEF AuthInv, RotatedOnce
<1> QED BY <1>2, <1>4, <1>5, <1>6, <1>7

LEMMA LoginKeeps ==
  ASSUME AuthInv, NEW c \in Calls, NEW t \in loc[c].now .. clock, CommitLogin(c, t)
  PROVE  AuthInv'
<1> DEFINE f == loc[c].factor
<1>0. PICK n \in Nat : n = Len(rows) + 1
  BY DEF AuthInv, AuthTypes
<1>1. AuthTypes /\ f \in Factors /\ t \in Nat /\ admin \in AdminRow
  <2>1. AuthTypes /\ loc[c] \in Locals
    BY DEF AuthInv, AuthTypes
  <2> QED BY <2>1 DEF Locals, AuthTypes
<1>2. /\ pc[c] = "login" /\ admin.hash = loc[c].hash /\ Len(rows) < MaxPairs
      /\ admin' = [admin EXCEPT !.failed = 0, !.locked_until = 0]
      /\ rows' = Append(rows, NewPair(0, 0, f, t))
      /\ epoch' = [epoch EXCEPT ![n] = admin.hash]
      /\ Return(c)
      /\ UNCHANGED <<boot, codes, secrets, chain, clock, ended, verified>>
  BY <1>0 DEF CommitLogin, LoginStillGood
<1>3. /\ admin' \in AdminRow /\ admin'.hash = admin.hash
      /\ admin'.pending = admin.pending /\ admin'.totp = admin.totp
  <2> DEFINE m == [admin EXCEPT !.failed = 0]
  <2>1. admin' = [m EXCEPT !.locked_until = 0]
    BY <1>1, <1>2 DEF AdminRow
  <2>2. /\ m \in AdminRow /\ m.hash = admin.hash
        /\ m.pending = admin.pending /\ m.totp = admin.totp
    BY <1>1 DEF AdminRow
  <2> HIDE DEF m
  <2> QED BY <2>1, <2>2 DEF AdminRow
<1>4. admin.hash # 0
  BY <1>2 DEF AuthInv, CallsInv, CallInv
<1> HIDE DEF f
<1>5. /\ Grown /\ Len(rows') = n
      /\ Pairs' = Pairs \cup {n} /\ n \notin Pairs
      /\ \A p \in Pairs : rows'[p] = rows[p]
      /\ rows'[n].session = n /\ rows'[n].parent = 0 /\ rows'[n].factor = f
      /\ RowsInv' /\ EndedSessionsStayEnded' /\ RotatedOnce'
  BY <1>0, <1>1, <1>2, <1>3, <1>4, OpenedRows
<1>6. /\ pc' \in [Calls -> Stages] /\ loc' \in [Calls -> Locals]
      /\ pc'[c] = "idle" /\ loc'[c] = NoLocals
      /\ \A d \in Calls \ {c} : pc'[d] = pc[d] /\ loc'[d] = loc[d]
  BY <1>1, <1>2, ReturnFacts
<1>7. n \in 1 .. MaxPairs /\ Len(rows) \in Nat /\ admin.hash \in Nat
  <2>1. Len(rows) \in Nat /\ MaxPairs \in Nat
    BY <1>1, AuthAssumption DEF AuthTypes
  <2> QED BY <1>0, <1>1, <1>2, <2>1 DEF AdminRow
<1>8. AuthTypes'
  <2>1. epoch' \in [1 .. MaxPairs -> Nat]
    BY <1>1, <1>2, <1>7 DEF AuthTypes
  <2>2. rows' \in Seq(TokenRow) /\ Len(rows') <= MaxPairs
    BY <1>5, <1>7 DEF Grown
  <2> QED BY <1>1, <1>2, <1>3, <1>6, <2>1, <2>2 DEF AuthTypes
<1>9. Taken' = Taken
  BY <1>2, <1>3 DEF Taken
<1>10. CallInv(c)'
  BY <1>1, <1>2, <1>5, <1>6, <1>7, IdleCall DEF AuthTypes
<1>11. \A d \in Calls \ {c} : pc[d] = "enabling" => HasChain(d)'
  BY <1>2 DEF AuthInv, CallsInv, CallInv, HasChain
<1>12. CallsInv'
  <2>1. clock' \in Nat /\ clock <= clock' /\ verified \subseteq verified'
    BY <1>1, <1>2 DEF AuthTypes
  <2>2. CallsInv /\ Taken \subseteq Taken'
    BY <1>9 DEF AuthInv
  <2> QED BY <1>1, <1>3, <1>5, <1>6, <1>10, <1>11, <2>1, <2>2, CallsKept
<1>13. PasswordCurrent' /\ EnrolledIsVerified'
  <2>1. \A p \in Pairs : rows[p].session # n
    BY <1>5 DEF AuthInv, RowsInv
  <2>2. \A p \in Pairs : Live(p)' = Live(p)
    BY <1>5 DEF Live
  <2>3. \A s \in 1 .. MaxPairs : epoch'[s] = IF s = n THEN admin.hash ELSE epoch[s]
    BY <1>1, <1>2 DEF AuthTypes
  <2>4. \A p \in Pairs : rows[p].session \in 1 .. MaxPairs
    BY <1>1, AuthAssumption DEF AuthInv, RowsInv, AuthTypes, Pairs
  <2>5. PasswordCurrent'
    BY <1>3, <1>5, <1>7, <2>1, <2>2, <2>3, <2>4 DEF AuthInv, PasswordCurrent
  <2> QED BY <1>2, <1>3, <2>5 DEF AuthInv, EnrolledIsVerified
<1>14. CodesInv'
  <2>1. \A d \in Calls : HoldsCode(d)' =>
          d # c /\ HoldsCode(d) /\ loc'[d].factor = loc[d].factor
    BY <1>6 DEF HoldsCode
  <2>2. \A p \in Pairs : /\ OpenedByCode(p)' = OpenedByCode(p)
                         /\ rows'[p].factor = rows[p].factor
    BY <1>5 DEF OpenedByCode
  <2>3. OpenedByCode(n)' => HoldsCode(c) /\ rows'[n].factor = loc[c].factor
    BY <1>2, <1>5 DEF OpenedByCode, HoldsCode, f
  <2>4. HoldsCode(c) => loc[c].factor[2] \in Taken
    BY DEF AuthInv, CallsInv, CallInv
  <2>5. /\ codes' \subseteq (1 .. secrets') \ {admin'.pending}
        /\ admin'.pending <= secrets'
    BY <1>2, <1>3 DEF AuthInv, CodesInv
  <2>6. \A p \in Pairs' : OpenedByCode(p)' => rows'[p].factor[2] \in Taken'
    BY <1>5, <1>9, <2>2, <2>3, <2>4 DEF AuthInv, CodesInv
  <2>7. \A d, e \in Calls :
          HoldsCode(d)' /\ HoldsCode(e)' /\ loc'[d].factor[2] = loc'[e].factor[2] => d = e
    BY <2>1 DEF AuthInv, CodesInv
  <2>8. \A d \in Calls, p \in Pairs' :
          HoldsCode(d)' /\ OpenedByCode(p)' => loc'[d].factor[2] # rows'[p].factor[2]
    BY <1>5, <2>1, <2>2, <2>3 DEF AuthInv, CodesInv
  <2>9. \A p, q \in Pairs' :
          OpenedByCode(p)' /\ OpenedByCode(q)'
          /\ rows'[p].factor[2] = rows'[q].factor[2] => p = q
    BY <1>5, <2>2, <2>3 DEF AuthInv, CodesInv
  <2> QED BY <2>5, <2>6, <2>7, <2>8, <2>9 DEF CodesInv
<1> QED BY <1>5, <1>8, <1>12, <1>13, <1>14 DEF AuthInv
LEMMA BootstrapKeeps ==
  ASSUME AuthInv, NEW c \in Calls, NEW t \in loc[c].now .. clock, CommitBootstrap(c, t)
  PROVE  AuthInv'
<1>0. PICK n \in Nat : n = Len(rows) + 1
  BY DEF AuthInv, AuthTypes
<1>1. AuthTypes /\ t \in Nat /\ admin \in AdminRow
  <2>1. AuthTypes /\ loc[c] \in Locals
    BY DEF AuthInv, AuthTypes
  <2> QED BY <2>1 DEF Locals, AuthTypes
<1>2. /\ admin.hash = 0 /\ Len(rows) < MaxPairs
      /\ admin' = [admin EXCEPT !.hash = 1]
      /\ boot' = [boot EXCEPT !.consumed = TRUE]
      /\ rows' = Append(rows, NewPair(0, 0, NoFactor, t))
      /\ epoch' = [epoch EXCEPT ![n] = 1]
      /\ Return(c)
      /\ UNCHANGED <<codes, secrets, chain, clock, ended, verified>>
  BY <1>0 DEF CommitBootstrap
<1>3. /\ admin' \in AdminRow /\ admin'.hash = 1
      /\ admin'.pending = admin.pending /\ admin'.totp = admin.totp
  BY <1>1, <1>2 DEF AdminRow
<1>4. boot' \in BootRow
  BY <1>1, <1>2 DEF AuthTypes, BootRow
<1>5. /\ Grown /\ Len(rows') = n
      /\ Pairs' = Pairs \cup {n} /\ n \notin Pairs
      /\ rows'[n].session = n /\ rows'[n].parent = 0 /\ rows'[n].factor = NoFactor
      /\ RowsInv' /\ EndedSessionsStayEnded' /\ RotatedOnce'
  BY <1>0, <1>1, <1>2, <1>3, NoFactorType, OpenedRows
<1>6. /\ pc' \in [Calls -> Stages] /\ loc' \in [Calls -> Locals]
      /\ pc'[c] = "idle" /\ loc'[c] = NoLocals
      /\ \A d \in Calls \ {c} : pc'[d] = pc[d] /\ loc'[d] = loc[d]
  BY <1>1, <1>2, ReturnFacts
<1>7. n \in 1 .. MaxPairs /\ Len(rows) \in Nat /\ Pairs = {}
  <2>1. Len(rows) \in Nat /\ MaxPairs \in Nat
    BY <1>1, AuthAssumption DEF AuthTypes
  <2>2. Len(rows) = 0
    BY <1>2 DEF AuthInv, RowsInv
  <2> QED BY <1>0, <1>2, <2>1, <2>2 DEF Pairs
<1>8. AuthTypes'
  <2>1. epoch' \in [1 .. MaxPairs -> Nat]
    BY <1>1, <1>2, <1>7 DEF AuthTypes
  <2>2. rows' \in Seq(TokenRow) /\ Len(rows') <= MaxPairs
    BY <1>5, <1>7 DEF Grown
  <2> QED BY <1>1, <1>2, <1>3, <1>4, <1>6, <2>1, <2>2 DEF AuthTypes
<1>9. CodesInv' /\ Taken' = Taken
  <2>1. \A p \in Pairs' \ Pairs : ~OpenedByCode(p)'
    BY <1>5, NoFactorType DEF OpenedByCode
  <2>2. ~HoldsCode(c)'
    BY <1>6 DEF HoldsCode
  <2> QED BY <1>1, <1>2, <1>3, <1>5, <1>6, <2>1, <2>2, CodesKept DEF AuthInv
<1>10. CallInv(c)'
  BY <1>1, <1>2, <1>5, <1>6, <1>7, IdleCall DEF AuthTypes
<1>11. \A d \in Calls \ {c} : pc[d] = "enabling" => HasChain(d)'
  BY <1>2 DEF AuthInv, CallsInv, CallInv, HasChain
<1>12. CallsInv'
  <2>1. clock' \in Nat /\ clock <= clock' /\ verified \subseteq verified'
    BY <1>1, <1>2 DEF AuthTypes
  <2>2. CallsInv /\ Taken \subseteq Taken'
    BY <1>9 DEF AuthInv
  <2> QED BY <1>1, <1>3, <1>5, <1>6, <1>10, <1>11, <2>1, <2>2, CallsKept
<1>13. PasswordCurrent'
  BY <1>1, <1>2, <1>3, <1>5, <1>7 DEF PasswordCurrent, AuthTypes
<1>14. EnrolledIsVerified'
  BY <1>2, <1>3 DEF AuthInv, EnrolledIsVerified
<1> QED BY <1>5, <1>8, <1>9, <1>12, <1>13, <1>14 DEF AuthInv

(* A rotation continues a session that is alive when it commits.           *)
LEMMA RotateKeeps ==
  ASSUME AuthInv, NEW c \in Calls, Rotate(c)
  PROVE  AuthInv'
<1> DEFINE l == loc[c]
<1>0. PICK n \in Nat : n = Len(rows) + 1
  BY DEF AuthInv, AuthTypes
<1>1. PICK p \in Pairs : p = l.pair
  BY DEF AuthInv, CallsInv, CallInv, Rotate
<1>2. AuthTypes /\ l \in Locals /\ rows[p] \in TokenRow
  BY DEF AuthInv, AuthTypes, Pairs
<1> DEFINE r == NewPair(l.session, p, rows[p].factor, l.now)
<1>3. /\ ~rows[p].used /\ ~rows[p].refresh_revoked /\ Len(rows) < MaxPairs
      /\ rows' = Append([rows EXCEPT ![p] = [@ EXCEPT !.used = TRUE,
                                                      !.refresh_revoked = TRUE]], r)
      /\ Return(c)
      /\ UNCHANGED <<admin, boot, codes, secrets, chain, clock, epoch, ended, verified>>
  BY <1>1 DEF Rotate, Unspent, history
<1>4. l.session = rows[p].session /\ l.session \in Pairs
  BY <1>1 DEF AuthInv, CallsInv, CallInv, RowsInv, Rotate
<1>5. /\ r \in TokenRow /\ r.session = rows[p].session /\ r.parent = p
      /\ r.factor = rows[p].factor
  <2>1. l.session \in Nat \ {0} /\ p \in Nat /\ rows[p].factor \in Factors /\ l.now \in Nat
    BY <1>2, <1>4 DEF Locals, TokenRow, Pairs
  <2>2. rows \in Seq(TokenRow)
    BY <1>2 DEF AuthTypes
  <2> DEFINE f == rows[p].factor
             s == l.session
             t == l.now
  <2>3. s \in Nat /\ s # 0 /\ p \in Nat /\ f \in Factors /\ t \in Nat
    BY <2>1
  <2> HIDE DEF f, s, t, l
  <2>4. NewPair(s, p, f, t) \in TokenRow
        /\ NewPair(s, p, f, t).session = s /\ NewPair(s, p, f, t).parent = p
        /\ NewPair(s, p, f, t).factor = f
    BY <2>2, <2>3, NewPairRow
  <2> QED BY <1>4, <2>4 DEF f, s, t
<1> HIDE DEF l, r
<1>6. /\ Grown /\ Len(rows') = n /\ rows'[n] = r /\ rows'[p].used
      /\ \A q \in Pairs : Live(q)' => Live(q)
      /\ Pairs' = Pairs \cup {n} /\ n \notin Pairs
  <2>1. rows \in Seq(TokenRow) /\ Len(rows) \in Nat
    BY <1>2 DEF AuthTypes
  <2>2. /\ Grown /\ Len(rows') = Len(rows) + 1 /\ rows'[Len(rows) + 1] = r
        /\ rows'[p].used
        /\ \A q \in Pairs : Live(q)' => Live(q)
        /\ Pairs' = Pairs \cup {Len(rows) + 1}
    BY <1>3, <1>5, <2>1, RotatedRows
  <2> QED BY <1>0, <2>1, <2>2 DEF Pairs
<1>7. /\ pc' \in [Calls -> Stages] /\ loc' \in [Calls -> Locals]
      /\ pc'[c] = "idle" /\ loc'[c] = NoLocals
      /\ \A d \in Calls \ {c} : pc'[d] = pc[d] /\ loc'[d] = loc[d]
  BY <1>2, <1>3, ReturnFacts
<1>8. AuthTypes'
  <2>1. rows' \in Seq(TokenRow) /\ Len(rows') <= MaxPairs
    BY <1>0, <1>2, <1>3, <1>6, AuthAssumption DEF Grown, AuthTypes
  <2> QED BY <1>2, <1>3, <1>7, <2>1 DEF AuthTypes
<1>9. CodesInv' /\ Taken' = Taken
  <2>1. p # 0
    BY DEF Pairs
  <2>2. \A q \in Pairs' \ Pairs : ~OpenedByCode(q)'
    BY <1>5, <1>6, <2>1 DEF OpenedByCode
  <2>3. ~HoldsCode(c)'
    BY <1>7 DEF HoldsCode
  <2> QED BY <1>2, <1>3, <1>6, <1>7, <2>2, <2>3, CodesKept DEF AuthInv
<1>10. CallInv(c)'
  BY <1>2, <1>3, <1>6, <1>7, IdleCall DEF AuthTypes
<1>11. \A d \in Calls \ {c} : pc[d] = "enabling" => HasChain(d)'
  BY <1>3 DEF AuthInv, CallsInv, CallInv, HasChain
<1>12. CallsInv'
  <2>1. clock' \in Nat /\ clock <= clock' /\ verified \subseteq verified'
    BY <1>2, <1>3 DEF AuthTypes
  <2>2. CallsInv /\ Taken \subseteq Taken'
    BY <1>9 DEF AuthInv
  <2> QED BY <1>2, <1>3, <1>6, <1>7, <1>10, <1>11, <2>1, <2>2, CallsKept
<1>13. Live(p)
  BY <1>3 DEF Live
<1>14. RowsInv'
  <2>1. \A q \in Pairs' : rows'[q].session \in Pairs'
    BY <1>5, <1>6 DEF AuthInv, RowsInv, Grown
  <2>2. \A q \in Pairs' : rows'[q].parent # 0 =>
          rows'[q].parent \in Pairs' /\ rows'[rows'[q].parent].used
    <3> SUFFICES ASSUME NEW q \in Pairs', rows'[q].parent # 0
                 PROVE  rows'[q].parent \in Pairs' /\ rows'[rows'[q].parent].used
      OBVIOUS
    <3>1. CASE q = n
      BY <1>5, <1>6, <3>1
    <3>2. CASE q \in Pairs
      BY <1>6, <3>2 DEF AuthInv, RowsInv, Grown
    <3> QED BY <1>6, <3>1, <3>2
  <2>3. ended' \subseteq 0 .. Len(rows')
    BY <1>0, <1>2, <1>3, <1>6 DEF AuthInv, RowsInv, AuthTypes
  <2>4. admin'.hash # 0
    BY <1>3, <1>0 DEF AuthInv, RowsInv, Pairs
  <2> QED BY <2>1, <2>2, <2>3, <2>4 DEF RowsInv
<1>15. EndedSessionsStayEnded'
  <2>1. rows[p].session \notin ended
    BY <1>13 DEF AuthInv, EndedSessionsStayEnded
  <2> SUFFICES ASSUME NEW q \in Pairs', rows'[q].session \in ended PROVE ~Live(q)'
    BY <1>3 DEF EndedSessionsStayEnded
  <2>2. q \in Pairs /\ rows'[q].session = rows[q].session
    BY <1>5, <1>6, <2>1 DEF Grown
  <2> QED BY <1>6, <2>2 DEF AuthInv, EndedSessionsStayEnded
<1>16. RotatedOnce'
  <2> SUFFICES ASSUME NEW q \in Pairs', NEW s \in Pairs', rows'[q].parent # 0,
                      rows'[q].parent = rows'[s].parent
               PROVE  q = s
    BY DEF RotatedOnce
  <2>1. \A m \in Pairs : rows'[m].parent = rows[m].parent
    BY <1>6 DEF Grown
  <2>2. \A m \in Pairs : rows[m].parent # p
    BY <1>3 DEF AuthInv, RowsInv, Pairs
  <2>3. CASE q \in Pairs /\ s \in Pairs
    BY <2>1, <2>3 DEF AuthInv, RotatedOnce
  <2> QED BY <1>5, <1>6, <2>1, <2>2, <2>3
<1>17. PasswordCurrent'
  <2>1. epoch[rows[p].session] = admin.hash
    BY <1>13 DEF AuthInv, PasswordCurrent
  <2> SUFFICES ASSUME NEW q \in Pairs', Live(q)' PROVE epoch[rows'[q].session] = admin.hash
    BY <1>3 DEF PasswordCurrent
  <2>2. CASE q = n
    BY <1>5, <1>6, <2>1, <2>2
  <2>3. CASE q \in Pairs
    BY <1>6, <2>3 DEF AuthInv, PasswordCurrent, Grown
  <2> QED BY <1>6, <2>2, <2>3
<1>18. EnrolledIsVerified'
  BY <1>3 DEF AuthInv, EnrolledIsVerified
<1> QED BY <1>8, <1>9, <1>12, <1>14, <1>15, <1>16, <1>17, <1>18 DEF AuthInv
-----------------------------------------------------------------------------
(* Steps that touch the administrator's row or the codes *)

(* A failure counts and may lock; it is nothing to the sessions. *)
LEMMA FailureKeeps ==
  ASSUME AuthInv, NEW c \in Calls, RecordLoginFailure(c)
  PROVE  AuthInv'
<1>1. AuthTypes /\ loc[c].now \in Nat /\ admin \in AdminRow
  <2>1. AuthTypes /\ loc[c] \in Locals
    BY DEF AuthInv, AuthTypes
  <2> QED BY <2>1 DEF Locals, AuthTypes
<1>2. /\ Return(c)
      /\ UNCHANGED <<boot, rows, codes, secrets, chain, clock, epoch, ended, verified>>
  BY DEF RecordLoginFailure, history
<1>3. /\ admin' \in AdminRow /\ admin'.hash = admin.hash
      /\ admin'.pending = admin.pending /\ admin'.totp = admin.totp
  <2> DEFINE now   == loc[c].now
             count == IF admin.failed < MaxFailures THEN admin.failed + 1 ELSE MaxFailures
             until == IF admin.locked_until > now THEN admin.locked_until
                      ELSE IF count >= MaxFailures THEN now + Lockout ELSE 0
             m     == [admin EXCEPT !.failed = count]
  <2>1. admin' = admin \/ admin' = [m EXCEPT !.locked_until = until]
    BY <1>1 DEF RecordLoginFailure, AfterFailure, AdminRow
  <2>2. count \in Nat
    BY <1>1, AuthAssumption DEF AdminRow
  <2>3. until \in Nat
    BY <1>1, AuthAssumption DEF AdminRow
  <2> HIDE DEF count, until
  <2>4. /\ m \in AdminRow /\ m.hash = admin.hash
        /\ m.pending = admin.pending /\ m.totp = admin.totp
    BY <1>1, <2>2 DEF AdminRow
  <2> HIDE DEF m
  <2> QED BY <1>1, <2>1, <2>3, <2>4 DEF AdminRow
<1>4. /\ pc' \in [Calls -> Stages] /\ loc' \in [Calls -> Locals]
      /\ pc'[c] = "idle" /\ loc'[c] = NoLocals
      /\ \A d \in Calls \ {c} : pc'[d] = pc[d] /\ loc'[d] = loc[d]
  BY <1>1, <1>2, ReturnFacts
<1>5. Grown /\ Pairs' = Pairs
  BY <1>1, <1>2 DEF Grown, AuthTypes, Pairs
<1>6. AuthTypes'
  BY <1>1, <1>2, <1>3, <1>4 DEF AuthTypes
<1>7. CodesInv' /\ Taken' = Taken
  BY <1>1, <1>2, <1>3, <1>4, <1>5, CodesKept DEF AuthInv, HoldsCode
<1>8. CallInv(c)'
  BY <1>1, <1>2, <1>4, IdleCall DEF AuthTypes
<1>9. \A d \in Calls \ {c} : pc[d] = "enabling" => HasChain(d)'
  BY <1>2 DEF AuthInv, CallsInv, CallInv, HasChain
<1>10. CallsInv'
  <2>1. clock' \in Nat /\ clock <= clock' /\ verified \subseteq verified'
    BY <1>1, <1>2 DEF AuthTypes
  <2>2. CallsInv /\ Taken \subseteq Taken'
    BY <1>7 DEF AuthInv
  <2> QED BY <1>1, <1>3, <1>4, <1>5, <1>8, <1>9, <2>1, <2>2, CallsKept
<1>11. RowsInv' /\ EndedSessionsStayEnded' /\ RotatedOnce' /\ PasswordCurrent'
       /\ EnrolledIsVerified'
  BY <1>2, <1>3, <1>5 DEF AuthInv, RowsInv, EndedSessionsStayEnded, RotatedOnce,
                          PasswordCurrent, EnrolledIsVerified, Live
<1> QED BY <1>6, <1>7, <1>10, <1>11 DEF AuthInv

(* A code that is found is spent in the same statement, so that nobody     *)
(* else can find it.                                                       *)
LEMMA RecoveryKeeps ==
  ASSUME AuthInv, NEW c \in Calls, UseRecoveryCode(c)
  PROVE  AuthInv'
<1> DEFINE code  == loc[c].factor[2]
           stage == IF code \in codes THEN "login" ELSE "failure"
<1>1. AuthTypes /\ loc[c] \in Locals /\ {"login", "failure"} \subseteq Stages
  BY DEF AuthInv, AuthTypes, Stages
<1>2. /\ pc[c] = "recovery" /\ Goto(c, stage, loc[c]) /\ codes' = codes \ {code}
      /\ UNCHANGED <<admin, boot, rows, secrets, chain, clock, epoch, ended, verified>>
  BY DEF UseRecoveryCode, TakesCode, history
<1>3. /\ pc' \in [Calls -> Stages] /\ loc' \in [Calls -> Locals]
      /\ pc'[c] = stage /\ loc' = loc
      /\ \A d \in Calls \ {c} : pc'[d] = pc[d]
  <2>1. /\ pc' \in [Calls -> Stages] /\ loc' \in [Calls -> Locals]
        /\ pc'[c] = stage /\ loc'[c] = loc[c]
        /\ \A d \in Calls \ {c} : pc'[d] = pc[d] /\ loc'[d] = loc[d]
    BY <1>1, <1>2, GotoFacts
  <2> QED BY <1>1, <2>1 DEF AuthTypes
<1>4. Grown /\ Pairs' = Pairs
  BY <1>1, <1>2 DEF Grown, AuthTypes, Pairs
<1>5. AuthTypes'
  BY <1>1, <1>2, <1>3 DEF AuthTypes
<1>6. Taken \subseteq Taken' /\ (code \in codes => code \in Taken' /\ code \notin Taken)
  BY <1>2 DEF Taken, AuthInv, CodesInv
<1>7. CallInv(c)'
  BY <1>2, <1>3, <1>4, <1>6 DEF AuthInv, CallsInv, CallInv, HoldsCode
<1>8. \A d \in Calls \ {c} : pc[d] = "enabling" => HasChain(d)'
  BY <1>2 DEF AuthInv, CallsInv, CallInv, HasChain
<1>9. CallsInv'
  <2>1. clock' \in Nat /\ clock <= clock' /\ verified \subseteq verified'
    BY <1>1, <1>2 DEF AuthTypes
  <2>2. CallsInv
    BY DEF AuthInv
  <2> QED BY <1>1, <1>2, <1>3, <1>4, <1>6, <1>7, <1>8, <2>1, <2>2, CallsKept
<1>10. CodesInv'
  <2>1. \A d \in Calls : HoldsCode(d)' =>
          \/ d # c /\ HoldsCode(d)
          \/ d = c /\ code \in codes
    BY <1>3 DEF HoldsCode
  <2>2. \A p \in Pairs : OpenedByCode(p)' = OpenedByCode(p)
    BY <1>2 DEF OpenedByCode
  <2>3. \A d \in Calls : HoldsCode(d) => loc[d].factor[2] \in Taken
    BY DEF AuthInv, CallsInv, CallInv
  <2>4. \A p \in Pairs : OpenedByCode(p) => rows[p].factor[2] \in Taken
    BY DEF AuthInv, CodesInv
  <2>5. \A d, e \in Calls :
          HoldsCode(d)' /\ HoldsCode(e)' /\ loc[d].factor[2] = loc[e].factor[2] => d = e
    BY <1>6, <2>1, <2>3 DEF AuthInv, CodesInv
  <2>6. \A d \in Calls, p \in Pairs :
          HoldsCode(d)' /\ OpenedByCode(p) => loc[d].factor[2] # rows[p].factor[2]
    BY <1>6, <2>1, <2>4 DEF AuthInv, CodesInv
  <2> QED BY <1>2, <1>3, <1>4, <1>6, <2>2, <2>4, <2>5, <2>6 DEF AuthInv, CodesInv
<1>11. RowsInv' /\ EndedSessionsStayEnded' /\ RotatedOnce' /\ PasswordCurrent'
       /\ EnrolledIsVerified'
  BY <1>2, <1>4 DEF AuthInv, RowsInv, EndedSessionsStayEnded, RotatedOnce,
                    PasswordCurrent, EnrolledIsVerified, Live
<1> QED BY <1>5, <1>9, <1>10, <1>11 DEF AuthInv
(* Only the head of the queue prepares or enables, so that no enrolment    *)
(* under way loses its secret.                                             *)
LEMMA PrepareKeeps ==
  ASSUME AuthInv, NEW c \in Calls, PrepareTotp(c)
  PROVE  AuthInv'
<1>1. AuthTypes /\ admin \in AdminRow /\ secrets \in Nat
  BY DEF AuthInv, AuthTypes
<1>2. /\ pc[c] = "prepare" /\ HasChain(c) /\ secrets' = secrets + 1
      /\ admin' = [admin EXCEPT !.pending = secrets + 1]
      /\ chain' = Tail(chain) /\ Return(c)
      /\ UNCHANGED <<boot, rows, codes, clock, epoch, ended, verified>>
  BY DEF PrepareTotp, LeaveChain, history
<1>3. /\ admin' \in AdminRow /\ admin'.hash = admin.hash
      /\ admin'.pending = secrets + 1 /\ admin'.totp = admin.totp
  <2> DEFINE k == secrets + 1
  <2>1. k \in Nat /\ admin' = [admin EXCEPT !.pending = k]
    BY <1>1, <1>2
  <2> HIDE DEF k
  <2>2. /\ admin' \in AdminRow /\ admin'.hash = admin.hash
        /\ admin'.pending = k /\ admin'.totp = admin.totp
    BY <1>1, <2>1 DEF AdminRow
  <2> QED BY <2>2 DEF k
<1>4. /\ pc' \in [Calls -> Stages] /\ loc' \in [Calls -> Locals]
      /\ pc'[c] = "idle" /\ loc'[c] = NoLocals
      /\ \A d \in Calls \ {c} : pc'[d] = pc[d] /\ loc'[d] = loc[d]
  BY <1>1, <1>2, ReturnFacts
<1>5. Grown /\ Pairs' = Pairs
  BY <1>1, <1>2 DEF Grown, AuthTypes, Pairs
<1>6. AuthTypes'
  <2>1. chain' \in Seq(Calls)
    BY <1>1, <1>2 DEF AuthTypes, HasChain
  <2> QED BY <1>1, <1>2, <1>3, <1>4, <2>1 DEF AuthTypes
<1>7. Taken \subseteq Taken'
  BY <1>1, <1>2, <1>3 DEF Taken
<1>8. CallInv(c)'
  BY <1>1, <1>2, <1>4, IdleCall DEF AuthTypes
<1>9. \A d \in Calls \ {c} : pc[d] # "enabling"
  BY <1>2 DEF AuthInv, CallsInv, CallInv, HasChain
<1>10. CallsInv'
  <2>1. clock' \in Nat /\ clock <= clock' /\ verified \subseteq verified'
    BY <1>1, <1>2 DEF AuthTypes
  <2>2. CallsInv
    BY DEF AuthInv
  <2> QED BY <1>1, <1>4, <1>5, <1>7, <1>8, <1>9, <2>1, <2>2, CallsKept
<1>11. CodesInv'
  <2>1. \A d \in Calls : HoldsCode(d)' => HoldsCode(d) /\ loc'[d] = loc[d]
    BY <1>4 DEF HoldsCode
  <2>2. \A p \in Pairs : OpenedByCode(p)' = OpenedByCode(p)
    BY <1>2 DEF OpenedByCode
  <2>3. codes' \subseteq (1 .. secrets') \ {admin'.pending} /\ admin'.pending <= secrets'
    BY <1>1, <1>2, <1>3 DEF AuthInv, CodesInv
  <2> QED BY <1>2, <1>5, <1>7, <2>1, <2>2, <2>3 DEF AuthInv, CodesInv
<1>12. RowsInv' /\ EndedSessionsStayEnded' /\ RotatedOnce' /\ PasswordCurrent'
       /\ EnrolledIsVerified'
  BY <1>2, <1>3, <1>5 DEF AuthInv, RowsInv, EndedSessionsStayEnded, RotatedOnce,
                          PasswordCurrent, EnrolledIsVerified, Live
<1> QED BY <1>6, <1>10, <1>11, <1>12 DEF AuthInv

LEMMA EnableKeeps ==
  ASSUME AuthInv, NEW c \in Calls, CommitEnable(c)
  PROVE  AuthInv'
<1>1. AuthTypes /\ admin \in AdminRow /\ secrets \in Nat
  BY DEF AuthInv, AuthTypes
<1>2. /\ pc[c] = "enabling" /\ HasChain(c)
      /\ admin' = [admin EXCEPT !.totp = admin.pending, !.pending = 0]
      /\ codes' = {admin.pending}
      /\ chain' = Tail(chain) /\ Return(c)
      /\ UNCHANGED <<boot, rows, secrets, clock, epoch, ended, verified>>
  BY DEF CommitEnable, LeaveChain, history
<1>3. /\ admin' \in AdminRow /\ admin'.hash = admin.hash
      /\ admin'.pending = 0 /\ admin'.totp = admin.pending
  <2> DEFINE k == admin.pending
             m == [admin EXCEPT !.totp = k]
  <2>1. k \in Nat /\ admin' = [m EXCEPT !.pending = 0]
    BY <1>1, <1>2 DEF AdminRow
  <2> HIDE DEF k
  <2>2. m \in AdminRow /\ m.hash = admin.hash /\ m.totp = k
    BY <1>1, <2>1 DEF AdminRow
  <2> HIDE DEF m
  <2>3. /\ admin' \in AdminRow /\ admin'.hash = admin.hash
        /\ admin'.pending = 0 /\ admin'.totp = k
    BY <2>1, <2>2 DEF AdminRow
  <2> QED BY <2>3 DEF k
<1>4. /\ pc' \in [Calls -> Stages] /\ loc' \in [Calls -> Locals]
      /\ pc'[c] = "idle" /\ loc'[c] = NoLocals
      /\ \A d \in Calls \ {c} : pc'[d] = pc[d] /\ loc'[d] = loc[d]
  BY <1>1, <1>2, ReturnFacts
<1>5. Grown /\ Pairs' = Pairs
  BY <1>1, <1>2 DEF Grown, AuthTypes, Pairs
<1>6. AuthTypes'
  <2>1. chain' \in Seq(Calls)
    BY <1>1, <1>2 DEF AuthTypes, HasChain
  <2> QED BY <1>1, <1>2, <1>3, <1>4, <2>1 DEF AuthTypes
<1>7. Taken \subseteq Taken'
  BY <1>1, <1>2, <1>3 DEF Taken
<1>8. CallInv(c)'
  BY <1>1, <1>2, <1>4, IdleCall DEF AuthTypes
<1>9. \A d \in Calls \ {c} : pc[d] # "enabling"
  BY <1>2 DEF AuthInv, CallsInv, CallInv, HasChain
<1>10. CallsInv'
  <2>1. clock' \in Nat /\ clock <= clock' /\ verified \subseteq verified'
    BY <1>1, <1>2 DEF AuthTypes
  <2>2. CallsInv
    BY DEF AuthInv
  <2> QED BY <1>1, <1>4, <1>5, <1>7, <1>8, <1>9, <2>1, <2>2, CallsKept
<1>11. admin.pending \in verified /\ admin.pending # 0
  BY <1>2 DEF AuthInv, CallsInv, CallInv
<1>12. CodesInv'
  <2>1. \A d \in Calls : HoldsCode(d)' => HoldsCode(d) /\ loc'[d] = loc[d]
    BY <1>4 DEF HoldsCode
  <2>2. \A p \in Pairs : OpenedByCode(p)' = OpenedByCode(p)
    BY <1>2 DEF OpenedByCode
  <2>3. admin.pending \in 1 .. secrets
    BY <1>1, <1>11 DEF AuthInv, CodesInv, AdminRow
  <2>4. codes' \subseteq (1 .. secrets') \ {admin'.pending} /\ admin'.pending <= secrets'
    BY <1>1, <1>2, <1>3, <2>3
  <2> QED BY <1>2, <1>5, <1>7, <2>1, <2>2, <2>4 DEF AuthInv, CodesInv
<1>13. EnrolledIsVerified'
  BY <1>2, <1>3, <1>11 DEF EnrolledIsVerified
<1>14. RowsInv' /\ EndedSessionsStayEnded' /\ RotatedOnce' /\ PasswordCurrent'
  BY <1>2, <1>3, <1>5 DEF AuthInv, RowsInv, EndedSessionsStayEnded, RotatedOnce,
                          PasswordCurrent, Live
<1> QED BY <1>6, <1>10, <1>12, <1>13, <1>14 DEF AuthInv

-----------------------------------------------------------------------------
(* The invariant and what follows from it *)

LEMMA RequestKeeps ==
  ASSUME AuthInv, NEW c \in Calls, Request(c)
  PROVE  AuthInv'
<1>1. ASSUME NEW token \in 1 .. boot.token, BootstrapRead(c, token) PROVE AuthInv'
  BY <1>1, BootstrapReadKeeps
<1>2. ASSUME NEW password \in 0 .. MaxHash, NEW factor \in Factors,
             LoginRead(c, password, factor)
      PROVE  AuthInv'
  BY <1>2, LoginReadKeeps
<1>3. ASSUME NEW p \in Pairs, RefreshRead(c, p) \/ LogoutRead(c, p) PROVE AuthInv'
  BY <1>3, RefreshReadKeeps, LogoutReadKeeps
<1>4. ASSUME NEW p \in Pairs, NEW target \in Sessions,
             Authenticate(c, p, "revoke", [NoLocals EXCEPT !.target = target])
      PROVE  AuthInv'
  <2> DEFINE l == [NoLocals EXCEPT !.target = target]
  <2>1. target \in Nat /\ target <= Len(rows)
    BY DEF AuthInv, RowsInv, Sessions, Pairs, AuthTypes
  <2>2. l \in Locals /\ l.target <= Len(rows) /\ l.now = 0
    BY <2>1, NoLocalsType DEF Locals
  <2> HIDE DEF l
  <2>3. Authenticate(c, p, "revoke", l)
    BY <1>4 DEF l
  <2> QED BY <2>2, <2>3, AuthenticateKeeps
<1>5. ASSUME NEW p \in Pairs, NEW handler \in {"password", "prepare"},
             Authenticate(c, p, handler, NoLocals)
      PROVE  AuthInv'
  <2>1. NoLocals.target <= Len(rows)
    BY NoLocalsType DEF AuthInv, AuthTypes
  <2> QED BY <1>5, <2>1, NoLocalsType, AuthenticateKeeps
<1>6. ASSUME NEW p \in Pairs, NEW secret \in 1 .. MaxSecrets,
             Authenticate(c, p, "enable", [NoLocals EXCEPT !.secret = secret])
      PROVE  AuthInv'
  <2> DEFINE l == [NoLocals EXCEPT !.secret = secret]
  <2>1. secret \in Nat /\ Len(rows) \in Nat
    BY AuthAssumption DEF AuthInv, AuthTypes
  <2>2. l \in Locals /\ l.target <= Len(rows) /\ l.now = 0
    BY <2>1, NoLocalsType DEF Locals
  <2> HIDE DEF l
  <2>3. Authenticate(c, p, "enable", l)
    BY <1>6 DEF l
  <2> QED BY <2>2, <2>3, AuthenticateKeeps
<1> QED BY <1>1, <1>2, <1>3, <1>4, <1>5, <1>6 DEF Request

LEMMA ContinueKeeps ==
  ASSUME AuthInv, NEW c \in Calls, Continue(c)
  PROVE  AuthInv'
BY BootstrapKeeps, LoginKeeps, RecoveryKeeps, FailureKeeps, RotateKeeps, EndsKeep,
   ChangeKeeps, PrepareKeeps, EnableReadKeeps, EnableKeeps, OvertakenKeep, LeavesKeep
   DEF Continue

LEMMA StutterKeeps ==
  ASSUME AuthInv, UNCHANGED vars
  PROVE  AuthInv'
BY DEF vars, tables, history, AuthInv, AuthTypes, RowsInv, CallsInv, CallInv, CodesInv,
       HoldsCode, OpenedByCode, HasChain, Taken, Pairs, Live, EnrolledIsVerified,
       EndedSessionsStayEnded, RotatedOnce, PasswordCurrent

LEMMA NextKeepsAuth == AuthInv /\ [Next]_vars => AuthInv'
BY RequestKeeps, ContinueKeeps, ProcessKeeps, StutterKeeps DEF Next

(* Every step keeps the invariant. *)
THEOREM AuthInvariant == Spec => []AuthInv
BY InitAuth, NextKeepsAuth, PTL DEF Spec
(* The state of the service is well typed, whatever interleaves.           *)
THEOREM TypeCorrect == Spec => []AuthTypes
BY AuthInvariant, PTL DEF AuthInv

(* logout, revokeSession, rejectRefreshReuse and changePassword end a      *)
(* session for good, also against a rotation that had read it before.      *)
THEOREM EndedSessionsStayEndedHolds == Spec => []EndedSessionsStayEnded
BY AuthInvariant, PTL DEF AuthInv

(* The conditional UPDATE of a rotation exchanges a refresh token once.    *)
THEOREM RotatedOnceHolds == Spec => []RotatedOnce
BY AuthInvariant, PTL DEF AuthInv

(* A recovery code opens one session, and what CommitEnable enrols is the  *)
(* secret whose code was checked.                                          *)
THEOREM SecondFactorSoundHolds == Spec => []SecondFactorSound
<1>1. AuthInv => SecondFactorSound
  <2> SUFFICES ASSUME AuthInv PROVE RecoveryCodeOnce
    BY DEF AuthInv, SecondFactorSound
  <2> QED BY DEF AuthInv, CodesInv, OpenedByCode, RecoveryCodeOnce
<1> QED BY <1>1, AuthInvariant, PTL

(* A pair that opens a session is issued by a login or by the bootstrap.   *)
LEMMA LockedOut ==
  ASSUME AuthInv, [Next]_vars
  PROVE  NoLoginWhileLocked
<1> SUFFICES ASSUME Len(rows') > Len(rows), rows'[Len(rows')].parent = 0, admin.hash # 0
             PROVE  admin.locked_until <= clock
  BY DEF NoLoginWhileLocked
<1>1. rows \in Seq(TokenRow) /\ Len(rows) \in Nat /\ rows' # rows
  BY DEF AuthInv, AuthTypes
<1>2. ASSUME NEW c \in Calls, NEW t \in loc[c].now .. clock, CommitLogin(c, t)
      PROVE  admin.locked_until <= clock
  <2>1. loc[c] \in Locals /\ admin \in AdminRow /\ clock \in Nat
    BY DEF AuthInv, AuthTypes
  <2>2. loc[c].now \in Nat /\ admin.locked_until \in Nat
    BY <2>1 DEF Locals, AdminRow
  <2>3. admin.locked_until <= loc[c].now /\ loc[c].now <= clock
    BY <1>2 DEF CommitLogin, LoginStillGood, AuthInv, CallsInv, CallInv
  <2> QED BY <2>1, <2>2, <2>3
<1>3. ASSUME NEW c \in Calls, Rotate(c) PROVE FALSE
  <2> DEFINE l == loc[c]
  <2>1. PICK p \in Pairs : p = l.pair
    BY <1>3 DEF AuthInv, CallsInv, CallInv, Rotate
  <2> DEFINE r == NewPair(l.session, p, rows[p].factor, l.now)
  <2>2. /\ l.session \in Nat /\ p \in Nat /\ p # 0 /\ rows[p].factor \in Factors
        /\ l.now \in Nat
    <3>1. l \in Locals /\ rows[p] \in TokenRow
      BY DEF AuthInv, AuthTypes, Pairs
    <3> QED BY SMTT(60), <3>1 DEF Locals, TokenRow, Pairs
  <2> DEFINE f == rows[p].factor
             s == l.session
             t == l.now
  <2>3. r \in TokenRow /\ r.parent = p
    <3>1. s \in Nat /\ p \in Nat /\ f \in Factors /\ t \in Nat
      BY <2>2
    <3> HIDE DEF s, f, t
    <3>2. NewPair(s, p, f, t) \in TokenRow /\ NewPair(s, p, f, t).parent = p
      BY SMTT(60), <1>1, <3>1, NewPairRow
    <3> QED BY <3>2 DEF s, f, t
  <2>4. rows' = Append([rows EXCEPT ![p] = [@ EXCEPT !.used = TRUE,
                                                     !.refresh_revoked = TRUE]], r)
    BY <1>3, <2>1 DEF Rotate
  <2> HIDE DEF l, r
  <2>5. Len(rows') = Len(rows) + 1 /\ rows'[Len(rows) + 1] = r
    BY <1>1, <2>3, <2>4, RotatedRows
  <2> QED BY <2>2, <2>3, <2>5
<1>4. ASSUME NEW c \in Calls, NEW S, NEW audit, EndSessions(S, audit) PROVE FALSE
  BY <1>1, <1>4, RevokedRows DEF EndSessions
<1>5. ASSUME NEW c \in Calls, Request(c) PROVE FALSE
  BY <1>1, <1>5 DEF Request, BootstrapRead, LoginRead, RefreshRead, LogoutRead,
                    Authenticate, tables
<1>6. ASSUME NEW c \in Calls, Continue(c) PROVE admin.locked_until <= clock
  <2>1. ASSUME NEW t \in loc[c].now .. clock,
               CommitBootstrap(c, t) \/ BootstrapOvertaken(c, t) \/ CommitLogin(c, t)
        PROVE  admin.locked_until <= clock
    BY <1>1, <1>2, <2>1 DEF CommitBootstrap, BootstrapOvertaken, tables
  <2>2. CASE UseRecoveryCode(c) \/ LoginOvertaken(c) \/ RecordLoginFailure(c)
             \/ RotateOvertaken(c) \/ ChangeOvertaken(c) \/ PrepareTotp(c)
             \/ EnableRead(c) \/ EnableRefused(c) \/ CommitEnable(c) \/ Fail(c)
    BY <1>1, <2>2 DEF UseRecoveryCode, LoginOvertaken, RecordLoginFailure,
         RotateOvertaken, ChangeOvertaken, PrepareTotp, EnableRead, EnableRefused,
         CommitEnable, Fail, tables
  <2>3. CASE \E password \in 0 .. MaxHash : ChangeRead(c, password)
    BY <1>1, <2>3 DEF ChangeRead, tables
  <2>4. CASE RejectRefreshReuse(c) \/ CommitLogout(c) \/ RevokeSession(c) \/ CommitChange(c)
    BY <1>4, <2>4 DEF RejectRefreshReuse, CommitLogout, RevokeSession, CommitChange
  <2> QED BY <1>3, <1>6, <2>1, <2>2, <2>3, <2>4 DEF Continue
<1>7. CASE EnsureBootstrap \/ Tick \/ Restart \/ UNCHANGED vars
  BY <1>1, <1>7 DEF EnsureBootstrap, FindAdministrator, FindActiveBootstrap,
                    WriteBootstrap, Tick, Restart, vars, tables
<1> QED BY <1>5, <1>6, <1>7 DEF Next

(* No login or rotation outlives a password change or a lock that came     *)
(* after it had read the administrator's row.                              *)
THEOREM LoginIsCurrentHolds == Spec => LoginIsCurrent
<1>1. AuthInv /\ [Next]_vars => PasswordCurrent' /\ NoLoginWhileLocked
  BY NextKeepsAuth, LockedOut DEF AuthInv
<1> QED BY <1>1, AuthInvariant, PTL DEF Spec, LoginIsCurrent
=============================================================================
