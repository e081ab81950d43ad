------------------------- MODULE CloudflareUpstream -------------------------
(***************************************************************************)
(* The redirect loop of the Cloudflare gateway (gateway/upstream.ts, with  *)
(* the target check of control-service.ts, gateway/policy.ts and           *)
(* gateway/headers.ts).  The first request was checked by the caller; each *)
(* redirect is checked by the Control Worker, which reads the pause and    *)
(* the token again, and by the policies the gateway already has.           *)
(***************************************************************************)
EXTENDS Naturals, Sequences

CONSTANTS
  Origins,
  Insecure,      \* the origins that are not https
  Home,          \* the target origin of the request
  Scope,         \* the origins in the scope of the token
  Denied,        \* pairs <<origin, method>> that a policy denies
  MaxRedirects   \* maxRedirects of the configuration

VARIABLES
  pc,
  current,                       \* target: its origin
  method, sensitive, sendBody,   \* of the request to send next
  redirects,                     \* hops
  redirect,                      \* fetchOptions.redirect
  pending,                       \* the redirect that is being checked
  revoked,                       \* token revoked, or gateway paused
  sent                           \* requests that left the gateway

vars == <<pc, current, method, sensitive, sendBody, redirects, redirect,
          pending, revoked, sent>>

NoRedirect == [origin |-> "none", toGet |-> FALSE]

Init ==
  /\ pc = "fetch"
  /\ current = Home
  /\ method \in {"GET", "HEAD", "POST", "PUT"}
  /\ <<Home, method>> \notin Denied
  /\ sensitive \in BOOLEAN
  /\ sendBody \in (IF method \in {"GET", "HEAD"} THEN {FALSE} ELSE BOOLEAN)
  /\ redirects = 0
  /\ redirect \in {"follow", "manual", "error"}
  /\ pending = NoRedirect
  /\ revoked = FALSE
  /\ sent = <<>>

-----------------------------------------------------------------------------
\* fetch with redirect: manual; a GET or HEAD never carries the body
Fetch ==
  /\ pc = "fetch"
  /\ sent' = Append(sent, [origin |-> current, method |-> method,
                           sensitive |-> sensitive, body |-> sendBody,
                           revoked |-> revoked])
  /\ pc' = "wait"
  /\ UNCHANGED <<current, method, sensitive, sendBody, redirects, redirect,
                 pending, revoked>>

\* No redirect, one without a location, one the caller wants to see; or none
Answer ==
  /\ pc = "wait"
  /\ pc' \in {"answered", "failed"}
  /\ UNCHANGED <<current, method, sensitive, sendBody, redirects, redirect,
                 pending, revoked, sent>>

LimitReached == redirects >= MaxRedirects

\* The mode is error, the limit is reached or the next target is not https
RedirectRefused(next) ==
  /\ pc = "wait"
  /\ \/ redirect = "error"
     \/ redirect = "follow" /\ (LimitReached \/ next \in Insecure)
  /\ pc' = "failed"
  /\ UNCHANGED <<current, method, sensitive, sendBody, redirects, redirect,
                 pending, revoked, sent>>

\* bodyCanSwitchToGet
SwitchesToGet(status) ==
  \/ status = 303
  \/ status \in {301, 302} /\ method = "POST"

\* A body that would have to be sent again is not: the redirect is the answer
RedirectReturned(status, next) ==
  /\ pc = "wait" /\ redirect = "follow"
  /\ ~LimitReached /\ next \notin Insecure
  /\ sendBody /\ ~SwitchesToGet(status)
  /\ pc' = "answered"
  /\ UNCHANGED <<current, method, sensitive, sendBody, redirects, redirect,
                 pending, revoked, sent>>

\* Any other redirect waits for checkTarget
Redirected(status, next) ==
  /\ pc = "wait" /\ redirect = "follow"
  /\ ~LimitReached /\ next \notin Insecure
  /\ ~(sendBody /\ ~SwitchesToGet(status))
  /\ pending' = [origin |-> next, toGet |-> SwitchesToGet(status)]
  /\ pc' = "check"
  /\ UNCHANGED <<current, method, sensitive, sendBody, redirects, redirect,
                 revoked, sent>>

\* checkTarget: pause and token are read anew, then the scope
TargetAllowed(next) == ~revoked /\ next \in Scope

\* evaluatePolicies with the method of the request that would follow
NextMethod == IF pending.toGet THEN "GET" ELSE method
PolicyDenies(next) == <<next, NextMethod>> \in Denied

\* stripCrossOriginCredentials
KeepsCredentials_InScope(next) == sensitive /\ next \in Scope
KeepsCredentials(next) == sensitive /\ next = current

CheckTarget ==
  /\ pc = "check"
  /\ IF TargetAllowed(pending.origin) /\ ~PolicyDenies(pending.origin)
       THEN /\ current' = pending.origin
            /\ sensitive' = KeepsCredentials(pending.origin)
            /\ method' = NextMethod
            /\ sendBody' = (sendBody /\ ~pending.toGet)
            /\ redirects' = redirects + 1
            /\ pc' = "fetch"
       ELSE /\ pc' = "failed"
            /\ UNCHANGED <<current, sensitive, method, sendBody, redirects>>
  /\ pending' = NoRedirect
  /\ UNCHANGED <<redirect, revoked, sent>>

\* An administrator pauses the gateway or revokes the token meanwhile
Revoke ==
  /\ ~revoked
  /\ revoked' = TRUE
  /\ UNCHANGED <<pc, current, method, sensitive, sendBody, redirects, redirect,
                 pending, sent>>

Next ==
  \/ Fetch \/ Answer \/ CheckTarget \/ Revoke
  \/ \E next \in Origins :
       \/ RedirectRefused(next)
       \/ \E status \in {301, 302, 303, 307, 308} :
            RedirectReturned(status, next) \/ Redirected(status, next)

Spec == Init /\ [][Next]_vars

-----------------------------------------------------------------------------
Hops == 1 .. Len(sent)

(* Every redirect that is followed leads to an https origin in the token's  *)
(* scope, with a method no policy denies for it: the method of the request  *)
(* that is sent, not of the one that was redirected.                        *)
OnlyPermittedFollowed ==
  \A i \in Hops \ {1} :
    /\ sent[i].origin \in Scope \ Insecure
    /\ <<sent[i].origin, sent[i].method>> \notin Denied

(* Once the token is revoked or the gateway paused, at most one more        *)
(* request leaves: the one whose check had already been answered.           *)
RevocationStops ==
  \A i, j \in Hops : sent[i].revoked /\ sent[j].revoked => i = j

(* Credentials are gone after the first redirect to another origin, also    *)
(* when a later one leads back.                                             *)
SensitiveStaysHome ==
  \A i \in Hops :
    sent[i].sensitive => \A j \in 1 .. i : sent[j].origin = Home

(* A request with a body is the first one: a body is never sent twice.      *)
BodySentOnce == \A i \in Hops : sent[i].body => i = 1

(* One request per permitted redirect and the first.                        *)
RedirectsBounded == Len(sent) <= MaxRedirects + 1
=============================================================================
