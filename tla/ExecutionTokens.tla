-------------------------- MODULE ExecutionTokens --------------------------
(***************************************************************************)
(* The life of execution tokens in the three adapters: created and revoked *)
(* by the administrator through the control service, presented by callers  *)
(* of the gateway and by clients that ask for an execution report.         *)
(* Requests interleave at every await; an answer may be lost; a process    *)
(* may be killed between two awaits.  There is one administrator per       *)
(* instance, as bootstrap creates it.                                      *)
(***************************************************************************)
EXTENDS Naturals

CONSTANTS
  Tokens,      \* token ids
  Revokes,     \* DELETE requests
  Callers,     \* requests that present a token
  MaxFaults    \* transactions that fail, processes that are killed

VARIABLES
  adapter,     \* node, cloudflare or supabase
  token,       \* the row of each token: exists, expired, revokedBy
  events,      \* its audit events: created, revoked (how many)
  revoke,      \* the state of each DELETE request
  use,         \* the state of each request that presents a token
  faulted      \* how often MaxFaults was used

tokenVars == <<adapter, token, events, revoke, use, faulted>>

NoRevoke == "none"

TypeOK ==
  /\ token \in [Tokens -> [exists : BOOLEAN, expired : BOOLEAN,
                           revokedBy : Revokes \cup {NoRevoke}]]
  /\ events \in [Tokens -> [created : Nat, revoked : Nat]]
  /\ revoke \in [Revokes -> [pc : {"idle", "commit", "refuse", "done", "failed"},
                             token : Tokens \cup {NoRevoke},
                             answer : {0, 200, 404, 500}]]
  /\ use \in [Callers -> [pc : {"idle", "touch", "report", "done"},
                          token : Tokens \cup {NoRevoke},
                          asks : BOOLEAN, after : BOOLEAN,
                          verdict : {"none", "accepted", "refused", "failed"}]]

Init ==
  /\ adapter \in {"node", "cloudflare", "supabase"}
  /\ token = [t \in Tokens |->
                [exists |-> FALSE, expired |-> FALSE, revokedBy |-> NoRevoke]]
  /\ events = [t \in Tokens |-> [created |-> 0, revoked |-> 0]]
  /\ revoke = [r \in Revokes |-> [pc |-> "idle", token |-> NoRevoke, answer |-> 0]]
  /\ use = [c \in Callers |->
              [pc |-> "idle", token |-> NoRevoke, asks |-> FALSE, after |-> FALSE,
               verdict |-> "none"]]
  /\ faulted = 0

Revoked(t) == token[t].revokedBy # NoRevoke

(* Someone was answered that t is revoked, or that there is no such token. *)
Settled(t) == \E r \in Revokes : revoke[r].token = t /\ revoke[r].answer \in {200, 404}

Answer(r, pc, code) ==
  revoke' = [revoke EXCEPT ![r] = [pc |-> pc, token |-> @.token, answer |-> code]]

-----------------------------------------------------------------------------
(* Row and audit event are one transaction (Node), one batch (Cloudflare), *)
(* one function (Supabase).                                                *)
Audits_Later(t, kind) ==
  \/ events' = [events EXCEPT ![t][kind] = @ + 1] /\ UNCHANGED faulted
  \/ faulted < MaxFaults /\ faulted' = faulted + 1 /\ UNCHANGED events
Audits(t, kind) ==
  events' = [events EXCEPT ![t][kind] = @ + 1] /\ UNCHANGED faulted

(* The id is fresh: nobody can have asked for its revocation yet.          *)
Creates(t) ==
  /\ ~token[t].exists
  /\ \A r \in Revokes : revoke[r].token # t
  /\ token' = [token EXCEPT ![t].exists = TRUE]
  /\ Audits(t, "created")
  /\ UNCHANGED <<adapter, revoke, use>>

NodeCreate(t) == adapter = "node" /\ Creates(t)
CloudflareCreate(t) == adapter = "cloudflare" /\ Creates(t)
SupabaseCreate(t) == adapter = "supabase" /\ Creates(t)

Expire(t) ==
  /\ token[t].exists /\ ~token[t].expired
  /\ token' = [token EXCEPT ![t].expired = TRUE]
  /\ UNCHANGED <<adapter, events, revoke, use, faulted>>

-----------------------------------------------------------------------------
(* UPDATE ... WHERE revoked_at IS NULL, or coalesce(revoked_at, now).      *)
Stamped(t, r) ==
  [token EXCEPT ![t].revokedBy = IF Revoked(t) THEN @ ELSE r]

(* Node: an unknown id is 404, a revoked token answers its stored time, a  *)
(* live one goes on to the transaction.                                    *)
NodeRevokeReads(r, t) ==
  /\ adapter = "node" /\ revoke[r].pc = "idle"
  /\ revoke' = [revoke EXCEPT
       ![r] = IF ~token[t].exists THEN [pc |-> "done", token |-> t, answer |-> 404]
              ELSE IF Revoked(t) THEN [pc |-> "done", token |-> t, answer |-> 200]
              ELSE [pc |-> "commit", token |-> t, answer |-> 0]]
  /\ UNCHANGED <<adapter, token, events, use, faulted>>

(* Cloudflare: an unknown or already revoked token is 404.                 *)
CloudflareRevokeReads(r, t) ==
  /\ adapter = "cloudflare" /\ revoke[r].pc = "idle"
  /\ revoke' = [revoke EXCEPT
       ![r] = IF ~token[t].exists \/ Revoked(t)
              THEN [pc |-> "done", token |-> t, answer |-> 404]
              ELSE [pc |-> "commit", token |-> t, answer |-> 0]]
  /\ UNCHANGED <<adapter, token, events, use, faulted>>

(* Node and Cloudflare: the conditional UPDATE may find that another       *)
(* request was faster; the event is written in any case.                   *)
RevokeCommits(r) ==
  /\ revoke[r].pc = "commit"
  /\ LET t == revoke[r].token IN
     /\ token' = Stamped(t, r)
     /\ Audits(t, "revoked")
     /\ Answer(r, "done", 200)
  /\ UNCHANGED <<adapter, use>>

NodeRevokeCommits(r) == adapter = "node" /\ RevokeCommits(r)
CloudflareRevokeCommits(r) == adapter = "cloudflare" /\ RevokeCommits(r)

(* Supabase: of_revoke_execution_token updates and appends at once; for an *)
(* unknown id the route appends an event of the failure before it answers. *)
SupabaseRevokes(r, t) ==
  /\ adapter = "supabase" /\ revoke[r].pc = "idle"
  /\ IF token[t].exists
     THEN /\ token' = Stamped(t, r)
          /\ Audits(t, "revoked")
          /\ revoke' = [revoke EXCEPT ![r] = [pc |-> "done", token |-> t, answer |-> 200]]
     ELSE /\ revoke' = [revoke EXCEPT ![r] = [pc |-> "refuse", token |-> t, answer |-> 0]]
          /\ UNCHANGED <<token, events, faulted>>
  /\ UNCHANGED <<adapter, use>>

SupabaseRefuses(r) ==
  /\ revoke[r].pc = "refuse"
  /\ Answer(r, "done", 404)
  /\ UNCHANGED <<adapter, token, events, use, faulted>>

(* The transaction fails and is rolled back, or the process is killed.     *)
RevokeFails(r) ==
  /\ faulted < MaxFaults /\ faulted' = faulted + 1
  /\ revoke[r].pc \in {"commit", "refuse"}
  /\ Answer(r, "failed", 500)
  /\ UNCHANGED <<adapter, token, events, use>>

(* The answer of a DELETE that was carried out never arrives.              *)
AnswerLost(r) ==
  /\ faulted < MaxFaults /\ faulted' = faulted + 1
  /\ revoke[r].pc = "done" /\ revoke[r].answer # 0
  /\ Answer(r, "done", 0)
  /\ UNCHANGED <<adapter, token, events, use>>

-----------------------------------------------------------------------------
(* A token that authenticates: its row, not the copy in credential_json.   *)
Usable_AsCreated(t) == token[t].exists /\ ~token[t].expired
Usable(t) == token[t].exists /\ ~token[t].expired /\ ~Revoked(t)

(* A caller presents t, to run a request or, if it asks, to read the       *)
(* report of one.                                                          *)
Presents(c, t, asks, accepted) ==
  use' = [use EXCEPT
    ![c] = [@ EXCEPT !.token = t, !.asks = asks, !.after = Settled(t),
              !.pc = IF Usable(t) THEN accepted ELSE "done",
              !.verdict = IF Usable(t) /\ accepted = "done" THEN "accepted"
                          ELSE IF Usable(t) THEN "none" ELSE "refused"]]

NextStage(asks) == IF asks THEN "report" ELSE "done"

(* Node: one read.                                                         *)
NodeAuthenticates(c, t, asks) ==
  /\ adapter = "node" /\ use[c].pc = "idle"
  /\ Presents(c, t, asks, NextStage(asks))
  /\ UNCHANGED <<adapter, token, events, revoke, faulted>>

(* Cloudflare: the read, then an UPDATE of last_used_at, which may fail.   *)
CloudflareVerifies(c, t, asks) ==
  /\ adapter = "cloudflare" /\ use[c].pc = "idle"
  /\ Presents(c, t, asks, "touch")
  /\ UNCHANGED <<adapter, token, events, revoke, faulted>>

CloudflareTouches(c) ==
  /\ use[c].pc = "touch"
  /\ \/ /\ use' = [use EXCEPT
             ![c].pc = NextStage(use[c].asks),
             ![c].verdict = IF use[c].asks THEN "none" ELSE "accepted"]
        /\ UNCHANGED faulted
     \/ /\ faulted < MaxFaults /\ faulted' = faulted + 1
        /\ use' = [use EXCEPT ![c].pc = "done", ![c].verdict = "failed"]
  /\ UNCHANGED <<adapter, token, events, revoke>>

(* Supabase: UPDATE ... RETURNING.                                         *)
SupabaseAuthenticates(c, t, asks) ==
  /\ adapter = "supabase" /\ use[c].pc = "idle"
  /\ Presents(c, t, asks, NextStage(asks))
  /\ UNCHANGED <<adapter, token, events, revoke, faulted>>

(* The report's row is looked up by its own id and the id of the caller's  *)
(* token; whose report a row holds is the gateways' affair (NodeGateway).  *)
ReadsReport(c) ==
  /\ use[c].pc = "report"
  /\ use' = [use EXCEPT ![c].pc = "done", ![c].verdict = "accepted"]
  /\ UNCHANGED <<adapter, token, events, revoke, faulted>>

NodeReport(c) == adapter = "node" /\ ReadsReport(c)
CloudflareReport(c) == adapter = "cloudflare" /\ ReadsReport(c)
SupabaseReport(c) == adapter = "supabase" /\ ReadsReport(c)

-----------------------------------------------------------------------------
Next ==
  \/ \E t \in Tokens :
       \/ NodeCreate(t) \/ CloudflareCreate(t) \/ SupabaseCreate(t)
       \/ Expire(t)
  \/ \E r \in Revokes, t \in Tokens :
       NodeRevokeReads(r, t) \/ CloudflareRevokeReads(r, t) \/ SupabaseRevokes(r, t)
  \/ \E r \in Revokes :
       \/ NodeRevokeCommits(r) \/ CloudflareRevokeCommits(r)
       \/ SupabaseRefuses(r) \/ RevokeFails(r) \/ AnswerLost(r)
  \/ \E c \in Callers, t \in Tokens, asks \in BOOLEAN :
       \/ NodeAuthenticates(c, t, asks) \/ CloudflareVerifies(c, t, asks)
       \/ SupabaseAuthenticates(c, t, asks)
  \/ \E c \in Callers :
       \/ CloudflareTouches(c)
       \/ NodeReport(c) \/ CloudflareReport(c) \/ SupabaseReport(c)

Spec == Init /\ [][Next]_tokenVars

-----------------------------------------------------------------------------
(* Once a DELETE was answered, with 200 or with the 404 that Cloudflare    *)
(* gives for a repeated one, the token opens nothing that is asked later,  *)
(* whatever other DELETE requests were racing it or failed.                *)
DeletedIsRefused ==
  \A c \in Callers : use[c].verdict = "accepted" => ~use[c].after

(* A token that works was recorded as created, a token that stopped        *)
(* working as revoked: the ledger never misses a change of the table.      *)
ChangesAreAudited ==
  \A t \in Tokens :
    /\ token[t].exists => events[t].created = 1
    /\ Revoked(t) => events[t].revoked > 0

(* The time of a revocation is the first one's, however many follow.       *)
RevokedForGood ==
  [][\A t \in Tokens : Revoked(t) => token'[t].revokedBy = token[t].revokedBy]_tokenVars
=============================================================================
