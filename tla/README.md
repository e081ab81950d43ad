# one-fetch: TLA+ models, checks and proofs

one-fetch is a relay: a client presents an execution token, the *gateway*
checks it against a policy and a quota, contacts the target and streams the
answer back with signed metadata; an administrator runs the instance through
the *control* API. The same contract is implemented three times, by the Node,
Cloudflare and Supabase adapters. This directory holds models of the parts of
that system whose correctness depends on interleaving, failure, ordering or
limits, the TLC runs that check them on small instances, and TLAPS proofs of
what matters most for every instance.

Paths below are relative to the repository. `PROJECT.json` lists components,
runs, mutants, the lines each definition models, findings, hazards and
theorems.

## 1. Inventory

| Component | State | Operations | Hard behaviour | Module |
|---|---|---|---|---|
| Node quota (`adapters/node/src/quota.ts`) | active counters in memory; bucket and daily rows in SQLite | `acquire`, `chargeBytes`, `release` on a promise chain | lost updates, counters dropped while in use, clock steps, crash, answers lost after the commit | NodeQuota, ExecutionQuota |
| Node administrator authentication (`auth-administrator.ts`, `auth-sessions.ts`, `second-factor.ts`) | `administrators`, `auth_tokens`, `recovery_codes` | bootstrap, login, refresh, logout, revoke, password, TOTP | rows read before bcrypt and used after it | NodeAuth |
| Cloudflare authentication (`auth-*-repository.ts`, `durable-objects/auth.ts`) | D1 tables | the same | every statement is an await; few batches are conditional | CloudflareAuth |
| Supabase authentication (`auth-routes.ts`, `account-routes.ts`, migrations 0002, 0005, 0006, 0008) | tables behind SQL functions | the same without TOTP | a route is several remote transactions | SupabaseAuth |
| Execution tokens (three adapters) | `execution_tokens`, audit events | create, revoke, present, read a report | two revocations, a lost answer, revocation while a caller is checked | ExecutionTokens |
| Audit ledger (three adapters) | `audit_events` | append, list by page, purge, verify | events written in another order than built; pages of a growing table | AuditLedger |
| Configuration (three adapters) | one row with policy, pause flag and version | read, update policy, pause | two administrators, the first request creating the row | *Configuration |
| Node gateway (`gateway.ts`, `gateway-stream.ts`, `body-spool.ts`, `execution-reports.ts`) | per request: lease, timer, spooled body, stream | one handler | timeout, abort and end of stream race; each of several writes may fail after the response is gone | NodeGateway |
| Cloudflare gateway, recording, quota, tunnel (`gateway-handler.ts`, `gateway/`, `execution-recording.ts`, `durable-objects/quota.ts`) | leases with expiry, buckets, alarm; terminal event and report | one handler per transport, service binding to control | a lease that runs out while its request runs; eviction; recording after the response | Cloudflare{Execution,Recording,Quota,Tunnel} |
| Supabase execution (`functions/one-fetch-gateway`, migrations 0004, 0007) | windows, leases, reports | acquire, reconcile, finalize | finalize retried after a lost answer, not after an unreadable one; lease expired | SupabaseExecution |
| Upstream (three adapters) | the redirect chain; on Node the connections the global agent keeps | approve, fetch, redirect | names that change address; connections opened for another request; headers and body across origins; rights withdrawn meanwhile | *Upstream |
| Node database (`database.ts`, `database-worker.ts`) | pending calls, worker, migration ledger | execute, close, fatal error, migrate | worker dying with calls outstanding; close racing calls; crash in a migration | NodeDatabase |
| Node server (`server.ts`, `cli.ts`) | listeners, connections and handlers, database | start, stop | stop during start, fatal error while serving, handlers that go on after their response | NodeServer |
| Client (`packages/client/src`) | a response and its report | request, read, cancel, watch the report | late reads, foreign reports, everybody silent | GatewayClient |
| Admin console (`apps/admin/src/control`) | refresh token, markers and profiles in browser storage | restore, login, logout, change profile | several tabs with one token; reload in the middle | AdminSession |
| Deployment helpers (`tools/deploy`, `adapters/supabase/scripts`) | lock, journal, pointer; coordination row and checkpoints; lease and state files | install, apply, verify, resume, rollback, cleanup, adopt | death or a lost answer between any two steps; two operators; a lease that runs out under a command | NodeDeployment, CloudflareDeployment, SupabaseDeployment |
| Node tunnel (`tunnel-*.ts`) | two sockets, lease, timer, the bridge's totals | open, forward, close | timer, client and target may each end it at any await; charges are answered late; a listener that throws | NodeTunnel |
| Core policy (`packages/core/src/policy*.ts`, `ip.ts`) | none | evaluate | a pure function | |
| Signing, codecs, schemas, release tools, conformance suite | none of their own | | | |

Interaction: gateway handlers call the quota, the token service, the
configuration, the upstream module and the audit and report tables; control
handlers call authentication, tokens and configuration. On Node all of them
reach SQLite through the one database worker, which runs a batch as a
transaction, so between two awaits of a handler any other handler may run. On
Cloudflare the gateway Worker calls the Control Worker, which owns D1 and the
Durable Objects; on Supabase both functions call SQL functions.

What makes each part correct:

- *quota and executions*: limits hold at every moment; nothing charged is
  forgotten; work in progress is leased; a lease is given back exactly once;
  an execution ends once on record;
- *authentication*: an ended session stays ended; a refresh token, a recovery
  code and a bootstrap are each good once; the current password governs;
- *tokens and audit*: a revoked token opens nothing; every change is in the
  ledger; a walk through the ledger misses nothing and shows nothing altered;
- *configuration*: no update replaces what its author has not seen;
- *gateway and client*: the recorded outcome is what happened; a failure to
  record is visible; resources come back; a stream ends once;
- *server*: what was answered as done is in the file; a shutdown refuses no request
  that is still connected;
- *upstream*: only approved targets are contacted; credentials stay at home;
- *deployment*: what is active can open the database, an interrupted change is
  on record and has a way back, two operators do not mix their builds.

## 2. Modules

Data is abstracted: a token, secret, hash or version is a number or a model
value, bytes are counted in units, time in ticks. A step is the code between two
awaits, with the database statement or remote call it ends in.

**NodeQuota** models `quota.ts`. `queue` is the promise chain of `#exclusive`;
`PlanAcquire`/`CommitAcquire`, `PlanCharge`/`CommitCharge`, `DoRelease` are the
code between awaits of the call at its head. `entry`, `cell` and `cellOf` are the
`ActiveState` objects and the map that finds them. `LoseAcquire` is a commit
whose answer was lost because the worker died, `Crash` a restart over the same
tables, `ClockBack` a correction of the wall clock. **ExecutionQuota** is the
promise without the mechanism: admission is one atomic step under the limits.

**NodeAuth** models administrator authentication on Node. Conditional writes
have their WHERE clause as a named operator (`LoginStillGood`, `Unspent`,
`TakesCode`). `ensureBootstrap` is three steps because it runs after the
listeners are up. **CloudAuthTables** holds the tables of the two cloud
adapters; **CloudflareAuth** steps statement by statement (only recovery code,
rotation and bootstrap are conditional when they write), **SupabaseAuth** SQL
function by SQL function.

**NodeConfiguration**, **CloudflareConfiguration**, **SupabaseConfiguration**
have the steps of their adapters: on Node a check in the handler and an
unconditional transaction, on Cloudflare a batch whose audit event and row both
depend on the version read, on Supabase a function that locks the row and
compares the revision. **SharedConfiguration** is what an administrator may
assume: a register that changes only from the contents its author has seen. The
eight hexadecimal digits of a Supabase version are taken to tell contents apart.

**NodeGateway** is one HTTP request through `gateway.ts` and
`gateway-stream.ts`. **SupabaseExecution** and **CloudflareExecution** are the
same for the cloud adapters, down to the quota and the recording of the end;
**CloudflareQuota** is the Durable Object, **CloudflareRecording** the end that
HTTP requests and tunnels share, **CloudflareTunnel** a tunnel with its renewal.
Every remote call can fail to arrive, be applied and lose its answer, or be
refused.

**NodeTunnel** is one upgraded connection through `handleTunnel`: first frame,
admission, connection, bridge, record. No server of this version attaches that
listener (`gateway.ts` answers an upgrade with 501); its test does, and the
model takes it as it stands. `flow` counts the frames of each direction that
came, wait for their charge, and passed; `told` is what the bridge resolved
with. `ProcessEnds` is a listener that throws.

**NodeUpstream**, **CloudflareUpstream**, **SupabaseUpstream** are the three
redirect loops: on Node with a resolver that may answer differently each time and
with the global agent, which may hand a request a connection that was opened
before (`Inherited`: by other requests, under their approval), on Cloudflare with a target check by the Control Worker that sees the token and
the pause as they are now, on Supabase with headers kept twice.

**NodeDatabase** has the two message queues between client and worker, the
migration ledger and builds with other migrations; **NodeServer** extends it with
the life of the process. A statement stands for a request: `Accept` opens its
connection, `Serve` is its handler reaching the database, before or after
`Disconnect` (`response.end()`, or a client that left), and `closeListener` waits
for the connections alone (`ListenersClosed`).

**GatewayClient** is one `executeHttp`, from its composed abort signal to the end
of its stream, with the report watch. **ExecutionTokens** and **AuditLedger**
have the actions of the three adapters side by side; `adapter` and `platform`
choose.

**NodeDeployment**, **CloudflareDeployment**, **SupabaseDeployment** are the
helpers, a step per effect, with the state they leave on disk and in the
database; `Crash` may come anywhere. On Cloudflare a recovery is fixed when its
process starts: `recover` is the owner and revision given on the command line,
and all helpers have stopped then. A checkpoint names the database it belongs
to (`db`), and `past` remembers which builds were deployed on it. On Supabase
listing, inspecting and each command of the CLI are steps of their own; a command
may fail before or after its write, and `Expire` ends the lease at any moment, under
a running command too (`late`, which only the properties read). A command ends
with the run that started it. **AdminSession** is the browser: storage shared by
tabs, the Web Lock, the channel, and calls that wait while the profile changes.

The MC modules compose: **MCServing** (extends **MCUpstreams**),
**MCAdministration** (extends **MCConfigurations**), **MCExecutions** and
**MCCloudAuth** give each subject its instance; a behaviour is about one subject,
chosen in Init, and the variables of the others stand still. Subjects of a run
share no state in the code, so nothing is lost; those that do are composed in
their modules (NodeServer over NodeDatabase, CloudflareExecution over
recording and quota, the deployments with server and administrator).

## 3. Runs

Counters are bounded; a bound is a named constant in a guard.
`CHECK_DEADLOCK FALSE` is set everywhere since a behaviour may simply use up its
bounds: every request made, no restart left.

| Run | Instance | Shows |
|---|---|---|
| `NodeQuotaSlots` | 3 requests, each released up to twice, one crash | `ConcurrencyBound`; `CallsSettle`: every acquire is answered and every release takes effect. Three requests are what it takes to drop a map entry while a lease still counts on it and then admit another. |
| `NodeQuotaRates` | 2 requests of 1 or 2 tokens, clock 0–3 with one step back, two days, one crash | `TypeOK`, `RateBound`, `DailyAccounting`, `ImplementsExecutionQuota`. |
| `NodeAuthSessions` | 2 calls over bootstrap, login, refresh, logout, revoke, password, one restart | `EndedSessionsStayEnded`, `RotatedOnce`, `LoginIsCurrent` (`PasswordCurrent` and `NoLoginWhileLocked`). |
| `NodeAuthSecondFactor` | 2 calls over bootstrap, login, prepare, enable, two secrets | `SecondFactorSound` (`RecoveryCodeOnce` and `EnrolledIsVerified`), `CallsReturn`. |
| `Serving` | see below | what serves a request |
| `Executions` | 2 executions of each kind, 2 faults, lease lives of a few ticks | see below |
| `CloudAuth` | 2 calls, 3 token pairs, lock after 2 failures, one enrolment | see below |
| `Administration` | see below | what administrators do |
| `NodeAuthAudit` | refresh and logout | *violation* of `SessionEndsAudited` |
| `NodeConfigurationOverlap` | 2 administrators | *violation* of `NothingUnseenReplaced` |
| `NodeGatewayReports` | 2 requests with 2 tokens and one id | *violation* of `ReadByItsOwnToken` |
| `CloudflareTotp` | 2 calls, 2 secrets | *violation* of `EnrolledIsVerified` |

A run's property may be a conjunction of named parts, given in parentheses below;
each part has its own comment where it is defined.

**Serving**, by subject:

- *upstreams*: 4 origins, 2 addresses, limit 3. `OnlyPermittedContacted`
  (`NodeApprovedOnly`, `OnlyPermittedFollowed`, `PolicySawRequest`,
  `RevocationStops`, `HopsBounded`), `NothingComesBack` (`CredentialsStayHome`,
  `BodyNotResent`). Leaving home and coming back takes two hops, the limit a
  third.
- *Node gateway*: 1 request, bodies around a limit of 2, 2 failing writes, one
  crash. `OutcomeHonest`, `OneFaultIsVisible`, `LeaseIsReturned`. Requests share
  only tables keyed by their id, so one covers the handler.
- *Node tunnel*: 1 tunnel of either kind, 2 frames from each side, an allowance
  of one. `TrafficIsCounted` (in `OutcomeHonest`); in `LeaseIsReturned`, that a
  tunnel that was settled or lost its client gives its lease back and that a
  connection attempt that hears the abort signal ends. A second frame comes
  while the first still waits for its charge, which the allowance refuses.
- *Node server and database*: 2 requests (one of them, `Later`, may also come after
  a restart), builds of three schemas (old, one that extends it, one that forks), 2
  starts, 1 fault. `FileIsTrusted` (`ResolvedIsCommitted`, `ServedSchemaExact`),
  `StopsGracefully` (`GracefulShutdown`, `SentIsAnswered`, `EveryCallSettles`,
  `ShutdownEnds`). Two requests are one whose handler goes on after its response
  and one that still holds a connection, or comes on it while listeners close. A
  shutdown ends unless a connection stays open (`HeldUp`): nobody owes its end.
- *client*: 1 call, 3 polls for the code's 60. `StreamEndIsFinal`
  (`IncompleteIsOwn`, `StreamEndsOnce`), `CallEndsQuietly` (`SettledIsQuiet`,
  `CallEnds`).
- *tokens*: 2 tokens, 2 revocations, 1 caller, 1 fault. `DeletedIsRefused`,
  `ChangesAreAudited`.
- *audit*: 3 events with two times, pages of one, one alteration.
  `WalkIsFaithful` (`WalkIsWhole`, `ShownIsGenuine`), `ChainUnbroken`. Three
  events with equal times put a tie on both sides of a page boundary.

**Executions**: `WorkIsLeased` (a request relayed, a tunnel bridged or a
Supabase fetch under way holds its lease, and no more leases count than the
limits allow), `EndsOnceOnRecord` (`FinalizedOnce`,
`DegradedStays`, `TerminalOnce`), `ChargedInFull` (Cloudflare HTTP),
`LeftoverOnlyByFault` (`LeakOnlyByFault` of all three, `UnfinalizedIsRare`).
Two executions compete for a concurrency of one; two faults are a lost answer
and one more during the repair. The clock of a Cloudflare request stops at 3: there
a lease taken at 0 has run out, its release comes late, another request may take the
place, and the next day's allowance begins; a tunnel's stops at 4, so that a renewal
confirmed at 1 may be followed by a whole lease of missed ones. The Cloudflare clients
ask for more time than the gateway allows, so only its own limit stops a request that
nobody aborts before the lease runs out. One byte a day on Supabase is enough for a reconciliation and
an acquisition to be refused for the day's bytes.

**CloudAuth**: `EachGoodOnce` (`RotatedOnce`, `RecoveryCodeOnce`,
`BootstrapOnce`), `SessionsEndForGood` (`EndedStaysEnded`, `ReuseEndsSession`),
`SupabaseLoginIsCurrent` (`PasswordCurrent`, `LockHolds`). The last is asked of
Supabase only; see below.

**Administration**, by subject:

- *configurations*: 2 administrators, 3 changes: `ImplementsSharedConfiguration`
  (Cloudflare), `SupabaseImplementsShared`, `NodeConfigurationSafe`
  (`LedgerCurrent`, `SafeUnlessOverlapped`).
- *Node helper*: 2 invocations, 4 versions of which one keeps the schema, one
  extends and one replaces it: `NodeHasWayBack` (`PointerRuns`,
  `UpdateIsRecoverable`, `IntentRecorded`).
- *Cloudflare helper*: 2 operators on 2 machines, 2 builds, 1 fault:
  `CloudflareHasWayBack` (`FreeMeansWhole`, `MixedHasWayBack`, `NoDeadEnd`,
  `DatabaseOutlivesWorkers`).
- *Supabase script*: 2 operators, 3 builds, 1 fault: `DegradedIsRecorded`. A fault is
  a kill, a failed command or a lost answer; the lease runs out beside it, as often
  as it is taken, and refusals by a lease, an inspection or a list that no longer
  fits are no faults, so one operator may fail by a fault while the other fails by
  what the first left.
- *the three helpers*: `ActsOnWhatItChecked` (`ReplacesExpected`,
  `ResumesActiveBuild`, `ResumesWhole`, `CompletedIsWhole`, `StartsFromListed`). The
  last two except a lease that ran out under a running command, see below.
- *console*: 2 tabs, 2 calls, 2 profiles, 3 loads, 1 move of a profile:
  `PresentedOnce`, `SignedInWhereAsked`.

Each property has a mutant: a plausible slip in the code it depends on (a
dropped condition, a swapped order, an off-by-one) written as an operator before
the original, under which TLC finds the property violated.

### Fairness

Weak fairness is asked of what the process does by itself, never of peers:

- `NodeQuota`, `NodeAuth`: a call that started continues. The event loop resumes
  a settled promise, and `database.ts` rejects whatever a dead worker leaves
  pending (`EveryCallSettles`, a part of `StopsGracefully`, checks that); it may continue by failing.
- `NodeGateway`: the handler continues, timers fire, and the client's upload
  settles (Node's `requestTimeout` bounds it). Nothing is asked of the target or
  of the reading client.
- `NodeTunnel`: the handler continues and the set-up timer fires. The client, the
  target and the answers to charges owe nothing.
- `NodeServer`: worker, main thread and termination of the worker go on; no
  crash, signal or request is owed, and no connection has to end (`Disconnect` has
  no fairness: an upload may stall, a client may stop reading).
- `GatewayClient`: timers fire and settled promises resume. Gateway, reader and
  control service owe nothing.

### What the violations show

- `NodeAuthAudit`: a reused refresh token revokes its family without an audit
  event (`auth-sessions.ts:289`), which `docs/audit.md` lists as required.
- `NodeConfigurationOverlap`: the version check and the write are apart
  (`control-management-routes.ts:127`, `configuration.ts:84`), so two updates from
  the same version both succeed and the first is lost.
- `NodeGatewayReports`: saving a report under a used request id replaces the
  report and keeps the old token (`execution-reports.ts:59`).
- `CloudflareTotp`: `enableTotp` copies whatever pending secret the row holds when
  its batch runs (`auth-security-repository.ts:211`), not the one it verified.

### Met while modelling, not the subject of a run

- *Node gateway*: an accepted request that fails before its response starts leaves
  no event about its end (`gateway.ts:442`, against `docs/audit.md:8-9`); a failed
  *accepted* event degrades the metadata without an alert (`gateway-stream.ts:82`).
- *Node upstream*: `singleRequest` names no agent, so Node's global one keeps
  connections alive by host, port and TLS options and takes one that is idle before
  it opens another (`upstream.ts:79` reports it as reused). `pinnedLookup` is not
  asked then: the request goes to an address that was approved when the connection
  was opened, possibly for another token, policy or answer of DNS, and not to the
  one approved for this hop. `docs/support-matrix.md:19` says "All A/AAAA checked,
  selected IP pinned". `OnlyApprovedContacted` therefore says of a reused connection
  only that this request or the one that left it open approved its address.
- *Node shutdown*: `closeListener` waits for connections, and a handler writes its
  report, its outcome event and its quota release after `response.end()`
  (`gateway-stream.ts:133`) or after its client left. When the last connection has
  gone the database is closed, and what such a handler still asks is refused with
  "Database client is closed" (`database.ts:184`): an execution may stay without
  its end on record. The other way round, one client that does not read holds up
  the shutdown for as long as it likes.
- *Node tunnel*: a connection attempt begun after the client left or the timer
  fired adds its listener to a signal that has already aborted and hears
  nothing; with a silent target its lease stays (`tunnel-socket.ts:58`). When
  the client is gone before the hello can be sent, the target's socket stays
  open. A TCP target may end while the charge of its last chunk is unanswered: the
  chunk is dropped and the tunnel recorded as completed. A WebSocket that
  closes without a code is reported with 1005, which `close` refuses to send on:
  the exception ends the process (`tunnel-websocket.ts:186`).
- *Cloudflare*: a 303 turns HEAD into GET; policies judge later hops on the
  original headers; the cross-origin flag compares with the previous hop, on
  Supabase with the first origin. A Supabase redirect chain does not read token
  and pause again. HTTP completion is not retried, and bytes are charged again
  when a lease ran out before its release (`late` in `ChargedInFull`). An upload
  that announces no length is accounted with zero bytes: what was relayed of it
  before the request failed (`gateway-handler.ts:366`), or after the head of the
  answer came (`gateway-handler.ts:321`), is charged to nobody and counts against
  no daily limit. `ChargedInFull` says that no other upload escapes. A
  target socket accepted after the client closed, before the hello, is not closed.
- *Cloudflare login*: the login batch has no condition, so `PasswordCurrent` and
  `NoLoginWhileLocked` do not hold there; two concurrent failures may overwrite
  a lock. No doc of that adapter promises otherwise.
- *Supabase login*: the failed count survives the end of a lock; a replaced refresh
  token used after its own expiry counts as invalid, not as reuse.
- *Tokens*: two racing revocations on Node or Cloudflare write two events and may
  answer with a time that is not the stored one; Supabase answers its own time
  although the first is kept. Cloudflare answers a repeated revocation with 404.
- *Audit*: Node and Cloudflare do not verify signatures when listing. A Supabase
  sequence number is drawn before its commit, so a walk may miss an event that
  commits behind it; `WalkIsWhole` speaks of events committed when it began.
- *Cloudflare helper*: verify, rollback and adopt read their checkpoint before
  they take the lock. When a build identifier is deployed a second time, the
  build in the coordination row does not tell such a checkpoint from a current
  one, and it may replace the only one that names the way back (a run with three
  builds and 11 revisions shows it). The helper asks operators never to reuse a
  build identifier and compares it with the current build only
  (`cloudflare.mjs:75`); `MixedHasWayBack` therefore excepts `past.reused`.
- *Supabase execution*: `finalize` retries transport failures and timeouts alone
  (`recording.ts:60-66`). An error of the platform in front of the database, a body
  that is no JSON or no result after the commit makes the client hear that the
  execution could not be recorded although it was; `UnfinalizedIsRare` excepts it.
- *Supabase script*: nothing bounds a command of the CLI, and the machine it runs on
  may sleep, so the lease can run out under a deploy or a restore (`late`). The
  write then lands over the pair of whoever took the lease meanwhile, and no
  condition of the database or the CLI prevents it; `CompletedIsWhole` and
  `StartsFromListed` fail without their exception, `DegradedIsRecorded` holds
  without one. Preflight lists the Functions before it inspects them, so a pair
  that is replaced in between is not the one that was inspected; an update starts
  from the pair that was listed. `gatewayPaused` is recorded as true although the pause may
  have failed; `--resume` follows the end of the lease, so another deployment
  may have begun; the backup precedes the lease.
- *Admin console*: a login under way applies to whichever profile is active when it
  is answered; a tab that times out while joining clears the stored token, to the
  safe side.

## 4. Proofs

**NodeQuotaProofs** proves, for all requests, tokens, quotas, clocks, numbers of
crashes and clock corrections, from `QuotaAssumption`:

| Theorem | Property |
|---|---|
| `TypeCorrect` | `TypeOK` |
| `DailyAccountingHolds` | `DailyAccounting` |
| `RateBoundHolds` | `RateBound` |
| `ConcurrencyBoundHolds` | `ConcurrencyBound` |
| `ImplementsExecutionQuotaHolds` | `ImplementsExecutionQuota` |

None is inductive alone. `BaseInv` is `TypeOK` with `ChainInv`: queue entries
are distinct, and only the head of the chain has a plan. That is what makes a
plan current when it is committed, so `DailyInv` (plan and rows agree, rows
equal `charged`) and `RateInv` follow. `RateInv` says of each bucket that what
was granted and what the bucket still holds are *covered* by burst and refill
up to the time stored in it; a clock that steps back moves neither. `SlotInv`
relates the counters to the leases: every live lease holds the very object the
map has for its token, that object counts the token's leases, no object serves
two tokens, and the instance counter is the number of leases.

The refinement needs all of them and `AskedInv`: a call that waits was made with
a size there is, and only a holder of a lease charges bytes. The commit of an
acquire is `Admit`: what its plan found allowed is still allowed, since only the
head of the chain has a plan (`SlotAllowed`, `RateAllowed`, `PayAllowed`). A commit
whose answer is lost is an admission that is over at once; the commit of a charge is
`Charge`; a release, or a crash with leases held, is `End`; a tick is `TimePasses`;
every other step, `ClockBack` among them, changes nothing the atomic quota sees
(`StepRefines`).

**ExecutionTokensProofs** proves `TypeCorrect`, `DeletedIsRefusedHolds`,
`ChangesAreAuditedHolds` and `RevokedForGoodHolds` for any tokens, DELETE requests, callers and number of faults, assuming only that
`NoRevoke` is not the name of a request. `DeletedIsRefused` needs two facts about
requests under way: an answer of 200 or 404, or a refusal that is being written,
means that there is nothing left to present (`AnswersAreTrue`), and who was found
good and still waits for its touch or report asked before any such answer
(`GoodWereAskedBefore`). `RevokedForGood` (the time of a revocation is never
moved) is proved and not checked by a run. Whose report a caller reads is no part of
it: on Node that is the violation of `ReadByItsOwnToken`.

**NodeAuthProofs** proves `TypeCorrect`, `EndedSessionsStayEndedHolds`,
`RotatedOnceHolds`, `SecondFactorSoundHolds` and the action property
`LoginIsCurrentHolds`, for any calls, sessions, passwords and restarts, from
`AuthAssumption`. None of them is inductive without the others, so `AuthInv`
carries them together with what they rest on: of the rows, that a session is
numbered after a pair that exists, that a parent has been spent, and that there
is no session before the bootstrap; of each call in progress, what it still
knows of the tables (the pair it read is one of the session it names; one that
is enabling TOTP holds the pending secret it verified, which is why no other
secret can be enrolled); and of recovery codes that a code drawn from the table
belongs to one login in progress or to one session.

**ServingProofs** proves, for any requests, tunnels, statements, builds, writers
and any bounds:

| Theorem | Argument |
|---|---|
| `OutcomeHonestHolds` | `GatewayInv`: a request has no outcome until its response is decided, and then the one its connection shows. `TunnelInv`: no more passes in a direction than came in it; a settled bridge has the totals of what came, and drops what is paid for later. |
| `OneFaultIsVisibleHolds` | `GatewayInv` too: at each place of the handler, what ledger, report and alerts must already say if at most one write failed. |
| `FileIsTrustedHolds` | `ServerInv`: what the worker has posted is sound while it waits in the queue (an answer comes after its commit, "startup-ready" after the last migration), and a process that starts has empty queues. |
| `ChainUnbrokenHolds` | `Contiguous`: the numbers given out are exactly those of the rows, so the subquery of the INSERT reads the row before. |
| `WalkIsFaithfulHolds` | `Parted`: what the walk has shown and what is still before its cursor part the events it must show, whatever is written. A page shows the first of what remains in an order in which no two events are equal, which rests on the rank of an event (`RankFalls`, `PageParts`). |
| `StreamEndIsFinalHolds` | An ended stream has no reader waiting that could end it again. |

Its last part is about **MCUpstreams** and proves `OnlyPermittedContactedHolds`
and `NothingComesBackHolds` for any origins, addresses, policies and redirect
limit. `ChainInv` relates the list of requests sent to what the loop carries; each
adapter adds why a request may leave in the step it leaves in: on Node the
origin was approved for that hop at some address, and the address for that hop, for
an earlier one or, on a connection that was inherited, for another request; on
Cloudflare the check that read the
revocation came after the previous hop, on Supabase the entries judged are in
step with the headers.

**AdministrationProofs**, and **CloudflareDeploymentProofs** which extends it, prove,
for any administrators, tabs, runs, builds and faults:

| Theorem | Argument |
|---|---|
| `NoChangeLost`, `ConfigurationImplementsShared` | For the specification of `CloudflareConfiguration`, no unseen change is replaced and `SharedConfiguration` is implemented. `ConfigInv`: versions are *stamped* with the revision they name, what a client has fetched is the row itself while the revisions agree (`VersionTellsRow`), and a prepared batch was computed from what its author fetched. |
| `NodeConfigurationSafeHolds` | Until two PUTs overlap revisions go up by one, and a fetched row with the revision in force is that row. |
| `SupabaseImplementsSharedHolds` | The refinement of `SharedConfiguration`, step by step: a PUT whose revision is the next one was prepared from the row in force. |
| `PresentedOnceHolds`, `SignedInWhereAskedHolds` | A refresh token is used under one profile only (`owner`), so its scope, which is marked as consumed before the token is sent, is the same for every tab that holds it. |
| `DegradedIsRecordedHolds` | `EdgeKept`, below. |
| `NodeHasWayBackHolds` | `HelperKept`, below. |
| `CloudflareHasWayBackHolds` | Its parts `FreeMeansWhole`, `NoDeadEnd` and `DatabaseOutlivesWorkers` from `RunsKept`, `MixedHasWayBack` from `WayKept`, below. |
| `ActsOnWhatItCheckedHolds` | Its five parts follow from the invariants of the three helpers. |

`EdgeKept` has two arguments, and only the second needs the lease. The first is about
the record: whoever writes a Function has said so in its state file before, and
closes the file only after it found both Functions alike, as "verified" or as
recovered (`MixedIsAnswered`). A write that comes late is on record for the same
reason, so `DegradedIsRecorded` holds however the lease runs out. The second is about
what a run read (`KnowsPair`): a command begins under the lease, so as long as no lease
ran out under one (`Overrun`) only its holder writes, and what the holder listed,
deployed and inspected is still so when it acts or completes. A run that lost its lease outside a
command writes nothing more: the next renewal, or `of_complete_deployment`, refuses
it.

`HelperKept` is about the Node helper: a process that works holds the lock, and
current.json names the version it read until it replaces it; its journal is the
list of what it did. A version can open the database when the migrations of the
database begin with its own, and that relation is an order (`PrefixOrder`), which
carries it from one replaced version to the next.

`RunsKept` is about the Cloudflare helper. A process past `acquire` owns the row,
and while it does nobody else changes the Workers, the schema, the database or a
checkpoint, so what it checked still holds when it acts. Without a row nobody
can act at all, which is what makes an adoption safe, and between CREATE TABLE
and INSERT there is one process at most. A checkpoint of a deleted database never
reaches a later one, because the database has another identity. `Machines` must
not be empty: with no machine a free row has no checkpoint.

`WayKept` carries the way back over any number of updates, rollbacks and
recoveries. A rollback acts on a checkpoint that it read before it took the row,
and another machine may have written its own since, so what the two say of the
same build must agree. They do while no build is deployed twice: there is a
function from every build to the one it replaced (`Lineage`), to which the first
deployment of a build adds one value and which nothing changes, and every
checkpoint of a build, on disk or in memory, returns to that predecessor or to the
build itself. An operation that finds the row free then has a checkpoint of the
same lineage beside it (`RollbackHasWay`); one that recovers the row began when
nobody was at work, and the revision it found is still the one in the row, so its
checkpoint is the one on disk (`RecoveriesFresh`). A checkpoint that may be needed
is replaced only while both Workers run one build (`CheckpointWay`). Without the
exception of `past.reused` it fails, as §3 says.

**CloudAuthProofs** proves `EachGoodOnceHolds`, `SessionsEndForGoodHolds` and
`SupabaseLoginIsCurrentHolds` for both cloud adapters and any calls, lifetimes
and bounds, from `CloudAuthAssumption` (the numbers are natural). One invariant
of the tables, `AuthInv`, serves both: the refresh tokens that are not spent are
exactly those the sessions stand at, every token that replaced another names a
spent one, and no two name the same; a recovery code is unused, or consumed by one
login that has not opened its session yet, or has opened one session; before
there is an administrator there is no session; on Supabase no usable session
stands for a replaced password. It rests on what a call knows at each place, on
Cloudflare between two statements: one about to revoke a reused family holds a
pair that is spent. That a call leaves that place by the revocation alone
(`ReuseIsLeft`) gives the action property. What Cloudflare does not promise
(`PasswordCurrent`, `EnrolledIsVerified`) is no part of it.

**ExecutionsProofs** proves `WorkIsLeasedHolds`, `EndsOnceOnRecordHolds`,
`ChargedInFullHolds` and `LeftoverOnlyByFaultHolds` for any number of executions
of each kind, any response limit, timeouts and number of faults, from
`ExecutionsAssumption` (the limits and the clients' timeouts are natural numbers).
Each kind has an invariant per execution, and a step of another execution can take
nothing from it but a lease that has run out (`GatewayRests`, `WorkerRests`,
`TunnelRests`).

- *Supabase*, `GatewayInv`. Nothing renews a lease there, so that work is leased is
  arithmetic of the clock (`Timely`): a lease lasts eight ticks, and with the timer,
  one call under way when it fires and the audit of the acceptance at most seven
  pass before the target is called. Report, event and charge come together, after
  the lease has gone (`Settled`); what the caller was told agrees with the report,
  and only two lost calls, or an answer that came and could not be read, leave a
  recorded one unfinalized (`Told`); without a fault nothing is
  leased before the acquisition or at the end (`Returned`).
- *Cloudflare HTTP*, `WorkerInv`. The lease is taken when the timer of the request
  already runs: it lasts at least three ticks from the start of the request, and
  the second `armTimeout`, with the configured limit, stops what would stream
  after two (`Covered`). The row carries what was charged in
  advance, so its release balances the charge (`Charged`); a body that was announced
  is read whole before any of it is relayed, so its relayed part never exceeds what
  is charged. Event and report come
  together and after the release (`Closed`).
- *Cloudflare tunnel*, `TunnelInv`. An open bridge whose lease was confirmed has as
  many ticks of it left as a whole lease less the renewals due since the last
  answer (`Due`), or a whole lease of them is due, which is what `WorkIsLeased`
  allows (`Bridged`).
- *Leases and limits*, `LeasesInv`. The leases that have not run out are finitely
  many and within the limits of the token: only an acquisition that was allowed adds
  one, after it counted them, and a renewal extends none that has run out
  (`GatewayLeases`, `WorkerLeases`, `TunnelLeases`). No assumption is made on the
  number of executions. With the lease of each, this bounds what works at once.

Only model-checked: liveness (fairness and ENABLED are outside the prover's
reach), so `CallsSettle`, `CallsReturn`, `LeaseIsReturned`, `StopsGracefully` and
`CallEndsQuietly`. Every other property of a passing run is stated by a theorem.
No theorem is about a recursive definition.

## 5. Not modelled

Cryptography, encodings, schemas and signing (functions on bytes without state);
list filters and exports (they change nothing); the views and the cached data of
the admin console; release, acceptance and conformance tools (scripts and
tests). The policy engine is a pure function, whose decision the models take as a
relation on origin and method.

## 6. Plan

The evaluation order of the policy engine as operators against a declarative
definition.
