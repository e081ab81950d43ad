----------------------- MODULE ExecutionTokensProofs -----------------------
(***************************************************************************)
(* Proofs about execution tokens, for every set of tokens, DELETE requests *)
(* and callers, and any number of faults, in each of the three adapters.   *)
(***************************************************************************)
EXTENDS ExecutionTokens, TLAPS

(* A DELETE that was answered with 200 or 404 left nothing to present: no  *)
(* such token, or a revoked one; a refusal under way already knows it.     *)
AnswersAreTrue ==
  \A r \in Revokes :
    revoke[r].answer \in {200, 404} \/ revoke[r].pc = "refuse" =>
      \A t \in Tokens : revoke[r].token = t => ~token[t].exists \/ Revoked(t)

(* A request whose token was good was asked before any such answer, and    *)
(* stays so while it waits for its touch or its report.                    *)
GoodWereAskedBefore ==
  \A c \in Callers :
    use[c].pc \in {"touch", "report"} \/ use[c].verdict = "accepted" => ~use[c].after

(* Each row and its events agree, also before the row exists.              *)
EventsAgree ==
  \A t \in Tokens :
    /\ events[t].created = IF token[t].exists THEN 1 ELSE 0
    /\ Revoked(t) => events[t].revoked > 0

(* The records TypeOK speaks of.                                           *)
TokenRow == [exists : BOOLEAN, expired : BOOLEAN, revokedBy : Revokes \cup {NoRevoke}]
EventRow == [created : Nat, revoked : Nat]
RevokeRow == [pc : {"idle", "commit", "refuse", "done", "failed"},
              token : Tokens \cup {NoRevoke}, answer : {0, 200, 404, 500}]
UseRow == [pc : {"idle", "touch", "report", "done"}, token : Tokens \cup {NoRevoke},
           asks : BOOLEAN, after : BOOLEAN,
           verdict : {"none", "accepted", "refused", "failed"}]

LEMMA Rows ==
  TypeOK <=> /\ token \in [Tokens -> TokenRow] /\ events \in [Tokens -> EventRow]
             /\ revoke \in [Revokes -> RevokeRow] /\ use \in [Callers -> UseRow]
BY DEF TypeOK, TokenRow, EventRow, RevokeRow, UseRow

TokenInv ==
  TypeOK /\ AnswersAreTrue /\ GoodWereAskedBefore /\ EventsAgree

(* Nothing was created, asked or answered yet. *)
LEMMA InitTokens == Init => TokenInv
BY DEF Init, TokenInv, TypeOK, AnswersAreTrue, GoodWereAskedBefore,
       EventsAgree, Revoked

-----------------------------------------------------------------------------
(* An event adds one to the count of its kind, for its token alone. *)
LEMMA CreatedEvent ==
  ASSUME TypeOK, NEW t \in Tokens, Audits(t, "created")
  PROVE  /\ events' \in [Tokens -> EventRow]
         /\ \A u \in Tokens : u # t => events'[u] = events[u]
         /\ events'[t].created = events[t].created + 1
         /\ events'[t].revoked = events[t].revoked
<1>1. events \in [Tokens -> EventRow]
  BY Rows
<1>2. events' = [events EXCEPT ![t].created = @ + 1]
  BY DEF Audits
<1> QED BY <1>1, <1>2 DEF EventRow

LEMMA RevokedEvent ==
  ASSUME TypeOK, NEW t \in Tokens, Audits(t, "revoked")
  PROVE  /\ events' \in [Tokens -> EventRow]
         /\ \A u \in Tokens : u # t => events'[u] = events[u]
         /\ events'[t].revoked = events[t].revoked + 1
         /\ events'[t].created = events[t].created
<1>1. events \in [Tokens -> EventRow]
  BY Rows
<1>2. events' = [events EXCEPT ![t].revoked = @ + 1]
  BY DEF Audits
<1> QED BY <1>1, <1>2 DEF EventRow

(* A token is created only under an id nobody asked to revoke. *)
LEMMA CreatesKeeps ==
  ASSUME TokenInv, NEW t \in Tokens, Creates(t)
  PROVE  TokenInv'
<1> USE DEF TokenInv, Creates
<1>1. TypeOK' /\ events'[t].created = 1 /\ events'[t].revoked = events[t].revoked
  <2>1. token' \in [Tokens -> TokenRow]
    BY Rows DEF TokenRow
  <2>2. events' \in [Tokens -> EventRow]
        /\ events'[t].created = 1 /\ events'[t].revoked = events[t].revoked
    BY CreatedEvent DEF EventsAgree
  <2> QED BY <2>1, <2>2, Rows DEF TypeOK, TokenRow, EventRow
<1>2. AnswersAreTrue'
  BY DEF TypeOK, AnswersAreTrue, Revoked
<1>3. GoodWereAskedBefore'
  BY DEF GoodWereAskedBefore
<1>4. EventsAgree'
  <2>1. \A u \in Tokens : u # t => token'[u] = token[u] /\ events'[u] = events[u]
    BY CreatedEvent, Rows
  <2>2. token'[t].exists /\ token'[t].revokedBy = token[t].revokedBy
    BY Rows DEF TokenRow
  <2> QED BY <1>1, <2>1, <2>2 DEF EventsAgree, Revoked
<1> QED BY <1>1, <1>2, <1>3, <1>4

(* The clock changes no answer. *)
LEMMA ExpireKeeps ==
  ASSUME TokenInv, NEW t \in Tokens, Expire(t)
  PROVE  TokenInv'
<1>1. token' \in [Tokens -> TokenRow]
  BY Rows DEF TokenInv, Expire, TokenRow
<1>2. \A u \in Tokens : /\ token'[u].exists = token[u].exists
                        /\ token'[u].revokedBy = token[u].revokedBy
  BY Rows DEF TokenInv, Expire, TokenRow
<1>3. TypeOK'
  BY <1>1, Rows DEF TokenInv, TypeOK, Expire, TokenRow
<1> QED BY <1>2, <1>3 DEF TokenInv, Expire, AnswersAreTrue, GoodWereAskedBefore,
                         EventsAgree, Revoked

(* What a DELETE does that stamps its token, writes its event and answers. *)
LEMMA StampKeeps ==
  ASSUME TokenInv, NoRevoke \notin Revokes,
         NEW r \in Revokes, NEW t \in Tokens,
         token' = Stamped(t, r), Audits(t, "revoked"),
         revoke' \in [Revokes -> [pc : {"idle", "commit", "refuse", "done", "failed"},
                                  token : Tokens \cup {NoRevoke},
                                  answer : {0, 200, 404, 500}]],
         \A s \in Revokes : s # r => revoke'[s] = revoke[s],
         revoke'[r].token = t, revoke'[r].pc = "done",
         UNCHANGED use
  PROVE  TokenInv'
<1>1. \A u \in Tokens : /\ token'[u].exists = token[u].exists
                        /\ Revoked(u) => Revoked(u)'
                        /\ u # t => token'[u] = token[u] /\ events'[u] = events[u]
  BY DEF TokenInv, TypeOK, Stamped, Audits, Revoked
<1>2. Revoked(t)'
  BY DEF TokenInv, TypeOK, Stamped, Revoked
<1>3. TypeOK'
  <2>1. token' \in [Tokens -> TokenRow]
    BY Rows DEF TokenInv, TokenRow, Stamped
  <2>2. events' \in [Tokens -> EventRow]
    BY RevokedEvent DEF TokenInv
  <2> QED BY <2>1, <2>2 DEF TokenInv, TypeOK, TokenRow, EventRow
<1>4. AnswersAreTrue'
  BY <1>1, <1>2 DEF TokenInv, AnswersAreTrue
<1>5. GoodWereAskedBefore'
  BY DEF TokenInv, GoodWereAskedBefore
<1>6. EventsAgree'
  <2>1. events'[t].revoked > 0 /\ events'[t].created = events[t].created
    BY DEF TokenInv, TypeOK, Audits
  <2> QED BY <1>1, <2>1 DEF TokenInv, EventsAgree, Revoked
<1> QED BY <1>3, <1>4, <1>5, <1>6 DEF TokenInv

(* A DELETE that only moves on, without touching a token: it may answer    *)
(* 200 or 404 only what AnswersAreTrue allows.                             *)
LEMMA AskKeeps ==
  ASSUME TokenInv, NEW r \in Revokes, TypeOK',
         \A s \in Revokes : s # r => revoke'[s] = revoke[s],
         revoke'[r].answer \in {200, 404} \/ revoke'[r].pc = "refuse" =>
           \A t \in Tokens : revoke'[r].token = t => ~token[t].exists \/ Revoked(t),
         UNCHANGED <<token, events, use>>
  PROVE  TokenInv'
BY DEF TokenInv, AnswersAreTrue, GoodWereAskedBefore, EventsAgree, Revoked

(* The rows of requests and callers after the updates the actions make. *)
LEMMA RequestMoves ==
  ASSUME TypeOK, NEW r \in Revokes, NEW row \in RevokeRow,
         revoke' = [revoke EXCEPT ![r] = row]
  PROVE  /\ revoke' \in [Revokes -> RevokeRow] /\ revoke'[r] = row
         /\ \A s \in Revokes : s # r => revoke'[s] = revoke[s]
BY Rows

LEMMA RequestAnswers ==
  ASSUME TypeOK, NEW r \in Revokes, NEW code \in {0, 200, 404, 500},
         NEW stage \in {"idle", "commit", "refuse", "done", "failed"},
         Answer(r, stage, code)
  PROVE  /\ revoke' \in [Revokes -> RevokeRow]
         /\ revoke'[r] = [pc |-> stage, token |-> revoke[r].token, answer |-> code]
         /\ \A s \in Revokes : s # r => revoke'[s] = revoke[s]
<1>1. revoke \in [Revokes -> RevokeRow]
  BY Rows
<1> DEFINE row == [pc |-> stage, token |-> revoke[r].token, answer |-> code]
<1>2. row \in RevokeRow
  BY <1>1 DEF RevokeRow
<1>3. revoke' = [revoke EXCEPT ![r] = row]
  BY DEF Answer
<1> HIDE DEF row
<1>4. /\ revoke' \in [Revokes -> RevokeRow] /\ revoke'[r] = row
      /\ \A s \in Revokes : s # r => revoke'[s] = revoke[s]
  BY <1>1, <1>2, <1>3
<1> QED BY <1>4 DEF row

LEMMA OnlyRequestsMove ==
  ASSUME TypeOK, revoke' \in [Revokes -> RevokeRow], UNCHANGED <<token, events, use>>
  PROVE  TypeOK'
BY DEF TypeOK, RevokeRow

LEMMA RevokesKeep ==
  ASSUME TokenInv, NoRevoke \notin Revokes, NEW r \in Revokes,
         \/ \E t \in Tokens : NodeRevokeReads(r, t) \/ CloudflareRevokeReads(r, t)
         \/ \E t \in Tokens : SupabaseRevokes(r, t)
         \/ RevokeCommits(r)
         \/ SupabaseRefuses(r) \/ RevokeFails(r) \/ AnswerLost(r)
  PROVE  TokenInv'
<1> USE DEF TokenInv
<1>1. ASSUME NEW t \in Tokens, NodeRevokeReads(r, t) \/ CloudflareRevokeReads(r, t)
      PROVE  TokenInv'
  <2>1. PICK row \in RevokeRow :
          /\ revoke' = [revoke EXCEPT ![r] = row]
          /\ row.token = t /\ row.pc # "refuse"
          /\ row.answer \in {200, 404} => ~token[t].exists \/ Revoked(t)
    <3> DEFINE found(code) == [pc |-> "done", token |-> t, answer |-> code]
               goes == [pc |-> "commit", token |-> t, answer |-> 0]
    <3>1. found(200) \in RevokeRow /\ found(404) \in RevokeRow /\ goes \in RevokeRow
      BY DEF RevokeRow
    <3> QED BY <1>1, <3>1 DEF NodeRevokeReads, CloudflareRevokeReads
  <2>2. UNCHANGED <<token, events, use>>
    BY <1>1 DEF NodeRevokeReads, CloudflareRevokeReads
  <2>3. revoke'[r] = row /\ \A s \in Revokes : s # r => revoke'[s] = revoke[s]
    BY <2>1, RequestMoves
  <2>4. TypeOK'
    BY <2>1, <2>2, RequestMoves, OnlyRequestsMove
  <2> QED BY <2>1, <2>2, <2>3, <2>4, AskKeeps
<1>2. ASSUME NEW t \in Tokens, SupabaseRevokes(r, t)
      PROVE  TokenInv'
  <2> DEFINE done == [pc |-> "done", token |-> t, answer |-> 200]
             refuse == [pc |-> "refuse", token |-> t, answer |-> 0]
  <2>1. done \in RevokeRow /\ refuse \in RevokeRow
    BY DEF RevokeRow
  <2>2. CASE token[t].exists
    <3>1. /\ revoke' = [revoke EXCEPT ![r] = done]
          /\ token' = Stamped(t, r) /\ Audits(t, "revoked") /\ UNCHANGED use
      BY <1>2, <2>2 DEF SupabaseRevokes
    <3>2. /\ revoke' \in [Revokes -> RevokeRow] /\ revoke'[r] = done
          /\ \A s \in Revokes : s # r => revoke'[s] = revoke[s]
      BY <2>1, <3>1, RequestMoves
    <3> QED BY <3>1, <3>2, StampKeeps DEF RevokeRow
  <2>3. CASE ~token[t].exists
    <3>1. revoke' = [revoke EXCEPT ![r] = refuse] /\ UNCHANGED <<token, events, use>>
      BY <1>2, <2>3 DEF SupabaseRevokes
    <3>2. /\ revoke' \in [Revokes -> RevokeRow] /\ revoke'[r] = refuse
          /\ \A s \in Revokes : s # r => revoke'[s] = revoke[s]
      BY <2>1, <3>1, RequestMoves
    <3> QED BY <2>3, <3>1, <3>2, OnlyRequestsMove, AskKeeps
  <2> QED BY <2>2, <2>3
<1>3. ASSUME RevokeCommits(r)
      PROVE  TokenInv'
  <2> DEFINE t == revoke[r].token
  <2>1. /\ revoke' \in [Revokes -> RevokeRow]
        /\ revoke'[r] = [pc |-> "done", token |-> t, answer |-> 200]
        /\ \A s \in Revokes : s # r => revoke'[s] = revoke[s]
    BY ZenonT(60), <1>3, RequestAnswers DEF RevokeCommits, Answer
  <2>2. token' = Stamped(t, r) /\ Audits(t, "revoked") /\ UNCHANGED use
    BY <1>3 DEF RevokeCommits
  <2> HIDE DEF t
  <2>3. CASE t \in Tokens
    BY <2>1, <2>2, <2>3, StampKeeps DEF RevokeRow
  <2>4. CASE t \notin Tokens
    <3>1. token' = token /\ events' = events
      BY <2>2, <2>4, Rows DEF Stamped, Audits
    <3>2. TypeOK'
      BY <2>1, <2>2, <3>1, OnlyRequestsMove
    <3> QED BY <2>1, <2>2, <2>4, <3>1, <3>2, AskKeeps
  <2> QED BY <2>3, <2>4
<1>4. ASSUME SupabaseRefuses(r) \/ RevokeFails(r) \/ AnswerLost(r)
      PROVE  TokenInv'
  <2>1. UNCHANGED <<token, events, use>>
    BY <1>4 DEF SupabaseRefuses, RevokeFails, AnswerLost
  <2>2. CASE SupabaseRefuses(r)
    <3>1. /\ revoke' \in [Revokes -> RevokeRow]
          /\ revoke'[r] = [pc |-> "done", token |-> revoke[r].token, answer |-> 404]
          /\ \A s \in Revokes : s # r => revoke'[s] = revoke[s]
      BY ZenonT(60), <2>2, RequestAnswers DEF SupabaseRefuses, Answer
    <3>2. TypeOK'
      BY <2>1, <3>1, OnlyRequestsMove
    <3>3. \A t \in Tokens : revoke[r].token = t => ~token[t].exists \/ Revoked(t)
      BY <2>2 DEF SupabaseRefuses, AnswersAreTrue
    <3> QED BY <2>1, <3>1, <3>2, <3>3, AskKeeps
  <2>3. CASE RevokeFails(r)
    <3>1. /\ revoke' \in [Revokes -> RevokeRow]
          /\ revoke'[r] = [pc |-> "failed", token |-> revoke[r].token, answer |-> 500]
          /\ \A s \in Revokes : s # r => revoke'[s] = revoke[s]
      BY ZenonT(60), <2>3, RequestAnswers DEF RevokeFails, Answer
    <3>2. TypeOK'
      BY <2>1, <3>1, OnlyRequestsMove
    <3> QED BY <2>1, <3>1, <3>2, AskKeeps
  <2>4. CASE AnswerLost(r)
    <3>1. revoke' = [revoke EXCEPT ![r] = [pc |-> "done", token |-> @.token, answer |-> 0]]
      BY <2>4 DEF AnswerLost, Answer
    <3>2. /\ revoke' \in [Revokes -> RevokeRow]
          /\ revoke'[r] = [pc |-> "done", token |-> revoke[r].token, answer |-> 0]
          /\ \A s \in Revokes : s # r => revoke'[s] = revoke[s]
      BY ZenonT(60), <3>1, RequestAnswers DEF Answer
    <3>3. TypeOK'
      BY <2>1, <3>2, OnlyRequestsMove
    <3> QED BY <2>1, <3>2, <3>3, AskKeeps
  <2> QED BY <1>4, <2>2, <2>3, <2>4
<1> QED BY <1>1, <1>2, <1>3, <1>4

-----------------------------------------------------------------------------
(* A token that authenticates was not settled: who presents it comes first. *)
LEMMA UsableIsUnsettled ==
  ASSUME TokenInv, NEW t \in Tokens, Usable(t)
  PROVE  ~Settled(t)
BY DEF TokenInv, AnswersAreTrue, Usable, Settled

LEMMA PresentsKeeps ==
  ASSUME TokenInv, NEW c \in Callers, NEW t \in Tokens,
         NEW asks \in BOOLEAN,
         NEW stage \in {"touch", "report", "done"},
         use[c].pc = "idle", Presents(c, t, asks, stage),
         UNCHANGED <<token, events, revoke>>
  PROVE  TokenInv'
<1>1. Settled(t) \in BOOLEAN
  BY DEF Settled
<1>2. TypeOK'
  <2> DEFINE u == use[c]
             pc == IF Usable(t) THEN stage ELSE "done"
             verdict == IF Usable(t) /\ stage = "done" THEN "accepted"
                        ELSE IF Usable(t) THEN "none" ELSE "refused"
             row == [u EXCEPT !.token = t, !.asks = asks, !.after = Settled(t),
                              !.pc = pc, !.verdict = verdict]
  <2>1. use' = [use EXCEPT ![c] = row]
    BY DEF Presents
  <2>2. /\ pc \in {"idle", "touch", "report", "done"}
        /\ verdict \in {"none", "accepted", "refused", "failed"}
    OBVIOUS
  <2>3. u \in UseRow
    BY Rows DEF TokenInv
  <2> HIDE DEF pc, verdict
  <2>4. row \in UseRow
    BY <1>1, <2>2, <2>3 DEF UseRow
  <2>5. use' \in [Callers -> UseRow]
    BY <2>1, <2>4, Rows DEF TokenInv
  <2> QED BY <2>5 DEF TokenInv, TypeOK, UseRow
<1>3. GoodWereAskedBefore'
  <2>1. \A d \in Callers : d # c => use'[d] = use[d]
    BY DEF TokenInv, TypeOK, Presents
  <2>2. Usable(t) => ~use'[c].after
    BY UsableIsUnsettled DEF TokenInv, TypeOK, Presents
  <2>3. ~Usable(t) => use'[c].pc = "done" /\ use'[c].verdict = "refused"
    BY DEF TokenInv, TypeOK, Presents
  <2> QED BY <2>1, <2>2, <2>3 DEF TokenInv, GoodWereAskedBefore
<1>4. AnswersAreTrue' /\ EventsAgree'
  BY DEF TokenInv, AnswersAreTrue, EventsAgree, Revoked
<1> QED BY <1>2, <1>3, <1>4 DEF TokenInv

LEMMA CallersKeep ==
  ASSUME TokenInv, NEW c \in Callers,
         \/ \E t \in Tokens, asks \in BOOLEAN :
              \/ NodeAuthenticates(c, t, asks) \/ CloudflareVerifies(c, t, asks)
              \/ SupabaseAuthenticates(c, t, asks)
         \/ CloudflareTouches(c) \/ ReadsReport(c)
  PROVE  TokenInv'
<1>1. ASSUME NEW t \in Tokens, NEW asks \in BOOLEAN,
             \/ NodeAuthenticates(c, t, asks) \/ CloudflareVerifies(c, t, asks)
             \/ SupabaseAuthenticates(c, t, asks)
      PROVE  TokenInv'
  <2>1. NextStage(asks) \in {"touch", "report", "done"}
    BY DEF NextStage
  <2> QED BY <1>1, <2>1, PresentsKeeps
          DEF NodeAuthenticates, CloudflareVerifies, SupabaseAuthenticates
<1>2. ASSUME CloudflareTouches(c) \/ ReadsReport(c)
      PROVE  TokenInv'
  <2>1. UNCHANGED <<token, events, revoke>>
    BY <1>2 DEF CloudflareTouches, ReadsReport
  <2>2. PICK row \in UseRow :
          /\ use' = [use EXCEPT ![c] = row]
          /\ row.after = use[c].after /\ row.token = use[c].token
          /\ use[c].pc \in {"touch", "report"}
    <3> DEFINE u == use[c]
    <3>1. u \in UseRow
      BY Rows DEF TokenInv
    <3>2. CASE CloudflareTouches(c)
      <4>1. \/ use' = [use EXCEPT ![c] = [u EXCEPT
                         !.pc = NextStage(u.asks),
                         !.verdict = IF u.asks THEN "none" ELSE "accepted"]]
            \/ use' = [use EXCEPT ![c] = [u EXCEPT !.pc = "done", !.verdict = "failed"]]
        BY <3>2, Rows DEF TokenInv, CloudflareTouches
      <4> QED BY <3>1, <3>2, <4>1 DEF UseRow, NextStage, CloudflareTouches
    <3>3. CASE ReadsReport(c)
      <4> DEFINE row == [u EXCEPT !.pc = "done", !.verdict = "accepted"]
      <4>1. use' = [use EXCEPT ![c] = row]
        BY <3>3, Rows DEF TokenInv, ReadsReport
      <4>2. row \in UseRow /\ row.after = u.after /\ row.token = u.token
        BY <3>1 DEF UseRow
      <4>3. use[c].pc = "report"
        BY <3>3 DEF ReadsReport
      <4> HIDE DEF row
      <4> QED BY <4>1, <4>2, <4>3
    <3> QED BY <1>2, <3>2, <3>3
  <2>3. /\ use' \in [Callers -> UseRow] /\ use'[c] = row
        /\ \A d \in Callers : d # c => use'[d] = use[d]
    BY <2>2, Rows DEF TokenInv
  <2>4. TypeOK'
    BY <2>1, <2>3 DEF TokenInv, TypeOK, UseRow
  <2>5. GoodWereAskedBefore'
    BY <2>2, <2>3 DEF TokenInv, GoodWereAskedBefore
  <2>6. AnswersAreTrue' /\ EventsAgree'
    BY <2>1 DEF TokenInv, AnswersAreTrue, EventsAgree, Revoked
  <2> QED BY <2>4, <2>5, <2>6 DEF TokenInv
<1> QED BY <1>1, <1>2

-----------------------------------------------------------------------------
LEMMA NextTokens ==
  ASSUME NoRevoke \notin Revokes
  PROVE  TokenInv /\ [Next]_tokenVars => TokenInv'
<1> SUFFICES ASSUME TokenInv, [Next]_tokenVars PROVE TokenInv'
  OBVIOUS
<1>1. ASSUME NEW t \in Tokens,
             NodeCreate(t) \/ CloudflareCreate(t) \/ SupabaseCreate(t)
      PROVE  TokenInv'
  BY <1>1, CreatesKeeps DEF NodeCreate, CloudflareCreate, SupabaseCreate
<1>2. ASSUME NEW t \in Tokens, Expire(t)
      PROVE  TokenInv'
  BY <1>2, ExpireKeeps
<1>3. CASE UNCHANGED tokenVars
  BY <1>3 DEF tokenVars, TokenInv, TypeOK, AnswersAreTrue, GoodWereAskedBefore,
              EventsAgree, Revoked
<1> QED BY <1>1, <1>2, <1>3, RevokesKeep, CallersKeep
        DEF Next, NodeRevokeCommits, CloudflareRevokeCommits,
            NodeReport, CloudflareReport, SupabaseReport

(* Every row, request and event has its shape, whatever interleaves.       *)
THEOREM TypeCorrect ==
  ASSUME NoRevoke \notin Revokes
  PROVE  Spec => []TypeOK
<1>1. TokenInv => TypeOK
  BY DEF TokenInv
<1> QED BY <1>1, InitTokens, NextTokens, PTL DEF Spec

(* A token whose DELETE was answered is accepted from nobody who asks      *)
(* afterwards, whatever races, fails or is lost: the rows that             *)
(* authenticate reads are never behind the answers of the control service. *)
THEOREM DeletedIsRefusedHolds ==
  ASSUME NoRevoke \notin Revokes
  PROVE  Spec => []DeletedIsRefused
<1>1. TokenInv => DeletedIsRefused
  BY DEF TokenInv, GoodWereAskedBefore, DeletedIsRefused
<1> QED BY <1>1, InitTokens, NextTokens, PTL DEF Spec

(* Every token that exists has exactly one event of its creation and every *)
(* revoked one at least one of its revocation.                             *)
THEOREM ChangesAreAuditedHolds ==
  ASSUME NoRevoke \notin Revokes
  PROVE  Spec => []ChangesAreAudited
<1>1. TokenInv => ChangesAreAudited
  BY DEF TokenInv, EventsAgree, ChangesAreAudited
<1> QED BY <1>1, InitTokens, NextTokens, PTL DEF Spec

-----------------------------------------------------------------------------
(* Whoever revokes first stays the one whose time the row bears. *)
LEMMA StampIsFinal ==
  ASSUME TypeOK, [Next]_tokenVars, NEW u \in Tokens, Revoked(u)
  PROVE  token'[u].revokedBy = token[u].revokedBy
<1>1. ASSUME NEW t \in Tokens, Creates(t) \/ Expire(t)
      PROVE  token'[u].revokedBy = token[u].revokedBy
  BY <1>1 DEF TypeOK, Creates, Expire
<1>2. ASSUME NEW r \in Revokes, NEW t, token' = Stamped(t, r)
      PROVE  token'[u].revokedBy = token[u].revokedBy
  BY <1>2 DEF TypeOK, Stamped, Revoked
<1>3. ASSUME UNCHANGED token
      PROVE  token'[u].revokedBy = token[u].revokedBy
  BY <1>3
<1>4. ASSUME NEW r \in Revokes,
             \/ \E t \in Tokens : \/ NodeRevokeReads(r, t) \/ CloudflareRevokeReads(r, t)
                                  \/ SupabaseRevokes(r, t)
             \/ RevokeCommits(r) \/ SupabaseRefuses(r) \/ RevokeFails(r) \/ AnswerLost(r)
      PROVE  token'[u].revokedBy = token[u].revokedBy
  BY <1>2, <1>3, <1>4
     DEF NodeRevokeReads, CloudflareRevokeReads, SupabaseRevokes, RevokeCommits,
         SupabaseRefuses, RevokeFails, AnswerLost
<1>5. ASSUME NEW c \in Callers,
             \/ \E t \in Tokens, asks \in BOOLEAN :
                  \/ NodeAuthenticates(c, t, asks) \/ CloudflareVerifies(c, t, asks)
                  \/ SupabaseAuthenticates(c, t, asks)
             \/ CloudflareTouches(c) \/ ReadsReport(c)
      PROVE  token'[u].revokedBy = token[u].revokedBy
  BY <1>3, <1>5
     DEF NodeAuthenticates, CloudflareVerifies, SupabaseAuthenticates,
         CloudflareTouches, ReadsReport
<1>6. CASE UNCHANGED tokenVars
  BY <1>3, <1>6 DEF tokenVars
<1> QED BY <1>1, <1>4, <1>5, <1>6
        DEF Next, NodeCreate, CloudflareCreate, SupabaseCreate,
            NodeRevokeCommits, CloudflareRevokeCommits,
            NodeReport, CloudflareReport, SupabaseReport

(* No later DELETE, however it races, moves the time of a revocation.      *)
THEOREM RevokedForGoodHolds ==
  ASSUME NoRevoke \notin Revokes
  PROVE  Spec => RevokedForGood
<1>1. TypeOK /\ [Next]_tokenVars =>
        [\A t \in Tokens : Revoked(t) => token'[t].revokedBy = token[t].revokedBy]_tokenVars
  BY StampIsFinal
<1> QED BY <1>1, TypeCorrect, PTL DEF Spec, RevokedForGood
=============================================================================
