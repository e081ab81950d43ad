---------------------------- MODULE MCUpstreams ----------------------------
(***************************************************************************)
(* The redirect loops of the three adapters for TLC.  A behaviour is a     *)
(* request of one of them, chosen in Init; the variables they have in      *)
(* common are shared, the others stay as they began.                       *)
(***************************************************************************)
EXTENDS Naturals, Sequences

CONSTANTS
  Origins, Addresses, Home, MaxRedirects,
  Allowed,            \* Node: the pairs <<origin, address>> approve accepts
  Inherited,          \* Node: those of connections other requests left open
  Insecure,           \* Cloudflare: the origins that are not https
  Services,           \* Supabase: the origins of the installation's functions
  Scope, Denied       \* both: scope of the token, <<origin, method>> denied

ASSUME UpstreamsAssumption == MaxRedirects \in Nat /\ Home \in Origins

VARIABLES
  subject,
  pc, current, method, sensitive, sendBody, redirects, redirect, sent,
  resolution, pending, revoked, policySensitive, judged

Node == INSTANCE NodeUpstream
Cloudflare == INSTANCE CloudflareUpstream
Supabase == INSTANCE SupabaseUpstream

upstreamsVars ==
  <<subject, pc, current, method, sensitive, sendBody, redirects, redirect, sent,
    resolution, pending, revoked, policySensitive, judged>>
cloudflareOnly == <<pending, revoked>>
supabaseOnly == <<policySensitive, judged>>

Adapters == {"node", "cloudflare", "supabase"}

UpstreamsInit ==
  \/ /\ subject = "node" /\ Node!Init
     /\ pending = Cloudflare!NoRedirect /\ revoked = FALSE
     /\ policySensitive = FALSE /\ judged = Supabase!NotJudged
  \/ /\ subject = "cloudflare" /\ Cloudflare!Init /\ resolution = Node!NoAddress
     /\ policySensitive = FALSE /\ judged = Supabase!NotJudged
  \/ /\ subject = "supabase" /\ Supabase!Init /\ resolution = Node!NoAddress
     /\ pending = Cloudflare!NoRedirect /\ revoked = FALSE

UpstreamsNext ==
  \/ /\ subject = "node" /\ Node!Next
     /\ UNCHANGED <<subject, cloudflareOnly, supabaseOnly>>
  \/ /\ subject = "cloudflare" /\ Cloudflare!Next
     /\ UNCHANGED <<subject, resolution, supabaseOnly>>
  \/ /\ subject = "supabase" /\ Supabase!Next
     /\ UNCHANGED <<subject, resolution, cloudflareOnly>>

UpstreamsSpec == UpstreamsInit /\ [][UpstreamsNext]_upstreamsVars

-----------------------------------------------------------------------------
NodeApprovedOnly == subject = "node" => Node!OnlyApprovedContacted

OnlyPermittedFollowed ==
  /\ subject = "cloudflare" => Cloudflare!OnlyPermittedFollowed
  /\ subject = "supabase" => Supabase!OnlyPermittedFollowed

RevocationStops == subject = "cloudflare" => Cloudflare!RevocationStops

PolicySawRequest == subject = "supabase" => Supabase!PolicySawRequest

HopsBounded == subject \in Adapters => Node!RedirectsBounded

(* Every request of a chain of redirects was permitted as it was sent: on   *)
(* Node its origin was, and a new connection goes to the address that was   *)
(* approved, whatever DNS answers later, while one kept alive goes where    *)
(* the request that opened it was allowed to; in the cloud adapters by      *)
(* scope, policy and the installation's own rules.                          *)
(* The limit ends a chain, and so, on Cloudflare, does a revocation or      *)
(* pause, after at most one more request.                                   *)
OnlyPermittedContacted ==
  /\ NodeApprovedOnly
  /\ OnlyPermittedFollowed
  /\ PolicySawRequest
  /\ RevocationStops
  /\ HopsBounded

CredentialsStayHome == subject \in Adapters => Node!SensitiveStaysHome

BodyNotResent ==
  /\ subject \in Adapters => Node!NoBodyAfterGet
  /\ subject = "cloudflare" => Cloudflare!BodySentOnce

(* All three: neither credentials that were stripped at another origin nor  *)
(* a body that was dropped come back later in the chain.                    *)
NothingComesBack == CredentialsStayHome /\ BodyNotResent
=============================================================================
