---------------------------- MODULE NodeUpstream ----------------------------
(***************************************************************************)
(* How the Node gateway reaches a target: resolution and approval of every *)
(* hop, the pinned connection, and the redirect loop                       *)
(* (adapters/node/src/upstream.ts, with approve of gateway.ts).            *)
(*                                                                         *)
(* The policy, the credential and the rule against relaying to the gateway *)
(* itself are one relation here: the origins and addresses approve accepts *)
(* for this request.  DNS may answer differently each time it is asked,    *)
(* and targets redirect anywhere.  Connections belong to the process, not  *)
(* to the request: Node's global agent keeps them alive between requests.  *)
(***************************************************************************)
EXTENDS Naturals, Sequences

CONSTANTS
  Origins, Addresses,
  Home,          \* the target origin of the request
  Allowed,       \* pairs <<origin, address>> that approve accepts
  Inherited,     \* pairs other requests leave open in the agent, approved
                 \* for them: by another token, policy or answer of DNS
  MaxRedirects   \* the limit on redirects, 20 in the code

VARIABLES
  pc,
  current,     \* current URL: its origin
  method, sensitive, sendBody,   \* of the request to send next
  redirects,
  resolution,  \* the approved address
  redirect,    \* fetchOptions.redirect
  sent         \* requests that left the gateway

vars == <<pc, current, method, sensitive, sendBody, redirects, resolution,
          redirect, sent>>

NoAddress == "none"

Init ==
  /\ pc = "resolve"
  /\ current = Home
  /\ method \in {"GET", "POST", "PUT"}
  /\ sensitive \in BOOLEAN
  /\ sendBody \in (IF method = "GET" THEN {FALSE} ELSE BOOLEAN)
  /\ redirects = 0
  /\ resolution = NoAddress
  /\ redirect \in {"follow", "manual", "error"}
  /\ sent = <<>>

-----------------------------------------------------------------------------
Approve(origin, address) == <<origin, address>> \in Allowed

\* resolveApprovedTarget: DNS answers with some addresses, and the first of
\* them that is approved is kept.
ResolveApprovedTarget(answer) ==
  /\ pc = "resolve"
  /\ IF \E a \in answer : Approve(current, a)
     THEN /\ pc' = "request"
          /\ \E a \in answer : Approve(current, a) /\ resolution' = a
     ELSE /\ pc' = "denied"
          /\ UNCHANGED resolution
  /\ UNCHANGED <<current, method, sensitive, sendBody, redirects, redirect,
                 sent>>

\* pinnedLookup: where a new connection to the current host goes
PinnedLookup_AsksAgain == Addresses
PinnedLookup == {resolution}

\* The hops of this request may have left connections of their own.
Idle(origin) ==
  {a \in Addresses :
     \/ <<origin, a>> \in Inherited
     \/ \E i \in 1 .. Len(sent) : sent[i].origin = origin /\ sent[i].address = a}

\* No agent is named, so the global one takes an idle connection to the same
\* origin if one is still alive, and only a new one asks pinnedLookup.
SingleRequest ==
  /\ pc = "request"
  /\ \E reused \in BOOLEAN, address \in Addresses :
       /\ address \in (IF reused THEN Idle(current) ELSE PinnedLookup)
       /\ sent' = Append(sent, [origin |-> current, address |-> address,
                                reused |-> reused, method |-> method,
                                sensitive |-> sensitive, body |-> sendBody])
  /\ pc' = "wait"
  /\ UNCHANGED <<current, method, sensitive, sendBody, redirects, resolution,
                 redirect>>

\* An answer that is no redirect, or one the caller wants to see; or none.
Answer ==
  /\ pc = "wait"
  /\ pc' \in {"answered", "failed"}
  /\ UNCHANGED <<current, method, sensitive, sendBody, redirects, resolution,
                 redirect, sent>>

LimitReached(n) == n > MaxRedirects

RedirectRefused ==
  /\ pc = "wait"
  /\ \/ redirect = "error"
     \/ redirect = "follow" /\ LimitReached(redirects + 1)
  /\ pc' = "failed"
  /\ UNCHANGED <<current, method, sensitive, sendBody, redirects, resolution,
                 redirect, sent>>

\* The statuses after which the next request is a GET
BecomesGet(status) ==
  \/ status = 303
  \/ status \in {301, 302} /\ method = "POST"

KeepsSensitive(next) == sensitive /\ next = current

KeepsBody(status) == sendBody /\ ~BecomesGet(status)

FollowRedirect(status, next) ==
  /\ pc = "wait"
  /\ redirect = "follow"
  /\ ~LimitReached(redirects + 1)
  /\ redirects' = redirects + 1
  /\ current' = next
  /\ sensitive' = KeepsSensitive(next)
  /\ sendBody' = KeepsBody(status)
  /\ method' = IF BecomesGet(status) THEN "GET" ELSE method
  /\ pc' = "resolve"
  /\ resolution' = NoAddress
  /\ UNCHANGED <<redirect, sent>>

Next ==
  \/ \E answer \in SUBSET Addresses : ResolveApprovedTarget(answer)
  \/ SingleRequest
  \/ Answer
  \/ RedirectRefused
  \/ \E status \in {301, 302, 303, 307, 308}, next \in Origins :
       FollowRedirect(status, next)

Spec == Init /\ [][Next]_vars

-----------------------------------------------------------------------------
(* Properties *)

Hops == 1 .. Len(sent)

\* Every hop, the redirected ones included, goes to an origin approved for
\* this request at some address.  A connection opened for it goes to such an
\* address, whatever DNS says in the meantime; one that is reused goes where
\* it was opened to go, which this request or the one that opened it approved.
OnlyApprovedContacted ==
  \A i \in Hops :
    LET hop == sent[i] IN
    /\ \E a \in Addresses : Approve(hop.origin, a)
    /\ \/ Approve(hop.origin, hop.address)
       \/ hop.reused /\ <<hop.origin, hop.address>> \in Inherited

\* Authorization and cookies never reach another origin than the request's,
\* and once a redirect has left it they are not sent again on the way back.
SensitiveStaysHome ==
  \A i \in Hops :
    sent[i].sensitive => \A j \in 1 .. i : sent[j].origin = Home

\* A request that a redirect turned into a GET carries no body from then on.
NoBodyAfterGet ==
  \A i, j \in Hops : i <= j /\ sent[i].method = "GET" => ~sent[j].body

\* No chain of redirects makes the gateway send more than one request per
\* permitted redirect and the first.
RedirectsBounded == Len(sent) <= MaxRedirects + 1
=============================================================================
