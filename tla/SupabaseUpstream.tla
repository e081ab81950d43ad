-------------------------- MODULE SupabaseUpstream --------------------------
(***************************************************************************)
(* The redirect loop of the Supabase gateway (executeBoundHttp in          *)
(* one-fetch-gateway/executor.ts, with policy.ts, request.ts and           *)
(* _shared/upstream.ts).  Every request, the first included, is judged at  *)
(* the top of the loop.  The headers that are sent and the header entries  *)
(* the policy judges are two values, which must be kept in step.           *)
(***************************************************************************)
EXTENDS Naturals, Sequences

CONSTANTS
  Origins,
  Services,      \* origins whose path is one of this installation's functions
  Home,          \* the target origin of the request
  Scope,         \* the origins in the scope of the token
  Denied,        \* pairs <<origin, method>> that a policy denies
  MaxRedirects   \* ONE_FETCH_LIMITS_V1.redirects

VARIABLES
  pc,
  current,                      \* currentUrl: its origin
  method, sensitive, sendBody,  \* of the request to send next
  policySensitive,              \* policyHeaders holds a sensitive entry
  judged,                       \* what the last evaluation was about
  redirects, redirect,
  sent

vars == <<pc, current, method, sensitive, sendBody, policySensitive, judged,
          redirects, redirect, sent>>

NotJudged == [origin |-> "none", method |-> "none", sensitive |-> FALSE,
              body |-> FALSE]

Init ==
  /\ pc = "judge"
  /\ current = Home
  /\ method \in {"GET", "HEAD", "POST", "PUT"}
  /\ sensitive \in BOOLEAN
  /\ sendBody \in (IF method \in {"GET", "HEAD"} THEN {FALSE} ELSE BOOLEAN)
  /\ policySensitive = sensitive
  /\ judged = NotJudged
  /\ redirects = 0
  /\ redirect \in {"follow", "manual", "error"}
  /\ sent = <<>>

-----------------------------------------------------------------------------
\* isRecursiveServiceTarget
IsRecursive(origin) == origin \in Services

\* tokenAllows
TokenAllows(origin) == origin \in Scope

\* evaluateRequestPolicy: the system's rules, then the user's
PolicyDenies(origin, verb) == <<origin, verb>> \in Denied

Judge ==
  /\ pc = "judge"
  /\ judged' = [origin |-> current, method |-> method,
                sensitive |-> policySensitive, body |-> sendBody]
  /\ pc' = IF \/ IsRecursive(current)
              \/ PolicyDenies(current, method)
              \/ ~TokenAllows(current)
             THEN "denied" ELSE "fetch"
  /\ UNCHANGED <<current, method, sensitive, sendBody, policySensitive,
                 redirects, redirect, sent>>

\* fetch with redirect: manual
Fetch ==
  /\ pc = "fetch"
  /\ sent' = Append(sent, [origin |-> current, method |-> method,
                           sensitive |-> sensitive, body |-> sendBody,
                           judged |-> judged])
  /\ pc' = "wait"
  /\ UNCHANGED <<current, method, sensitive, sendBody, policySensitive, judged,
                 redirects, redirect>>

\* No redirect, one without a location, one the caller wants to see; or none
Answer ==
  /\ pc = "wait"
  /\ pc' \in {"answered", "failed"}
  /\ UNCHANGED <<current, method, sensitive, sendBody, policySensitive, judged,
                 redirects, redirect, sent>>

LimitReached == redirects >= MaxRedirects

\* The mode is error, the limit is reached or the scheme is not of the web
RedirectRefused ==
  /\ pc = "wait"
  /\ redirect \in {"error", "follow"}
  /\ pc' = "failed"
  /\ UNCHANGED <<current, method, sensitive, sendBody, policySensitive, judged,
                 redirects, redirect, sent>>

\* The statuses after which the next request is a GET without a body
BecomesGet(status) ==
  \/ status = 303 /\ method \notin {"GET", "HEAD"}
  \/ status \in {301, 302} /\ method = "POST"

\* stripSensitiveRedirectHeaderEntries, on the entries the policy judges
PolicyKeeps(next) == policySensitive /\ next = current

\* stripSensitiveRedirectHeaders, on the headers that are sent
HeadersKeep(next) == sensitive /\ next = current

FollowRedirect(status, next) ==
  /\ pc = "wait" /\ redirect = "follow" /\ ~LimitReached
  /\ sensitive' = HeadersKeep(next)
  /\ policySensitive' = PolicyKeeps(next)
  /\ method' = IF BecomesGet(status) THEN "GET" ELSE method
  /\ sendBody' = (sendBody /\ ~BecomesGet(status))
  /\ current' = next
  /\ redirects' = redirects + 1
  /\ pc' = "judge"
  /\ UNCHANGED <<judged, redirect, sent>>

Next ==
  \/ Judge \/ Fetch \/ Answer \/ RedirectRefused
  \/ \E status \in {301, 302, 303, 307, 308}, next \in Origins :
       FollowRedirect(status, next)

Spec == Init /\ [][Next]_vars

-----------------------------------------------------------------------------
Hops == 1 .. Len(sent)

(* The policy judged exactly the request that left: origin, method, body    *)
(* and whether it carries sensitive headers, on every hop.                  *)
PolicySawRequest ==
  \A i \in Hops :
    sent[i].judged = [origin |-> sent[i].origin, method |-> sent[i].method,
                      sensitive |-> sent[i].sensitive, body |-> sent[i].body]

(* No hop reaches one of the installation's own functions, an origin        *)
(* outside the token's scope or one a policy denies for the method sent.    *)
OnlyPermittedFollowed ==
  \A i \in Hops :
    /\ sent[i].origin \in Scope \ Services
    /\ <<sent[i].origin, sent[i].method>> \notin Denied

(* Sensitive headers are gone after the first redirect to another origin,   *)
(* also when a later one leads back.                                        *)
SensitiveStaysHome ==
  \A i \in Hops :
    sent[i].sensitive => \A j \in 1 .. i : sent[j].origin = Home

(* A request that a redirect turned into a GET has no body from then on.    *)
NoBodyAfterGet ==
  \A i, j \in Hops : i <= j /\ sent[i].method = "GET" => ~sent[j].body

(* One request per permitted redirect and the first.                        *)
RedirectsBounded == Len(sent) <= MaxRedirects + 1
=============================================================================
