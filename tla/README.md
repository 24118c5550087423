# A verification development of fastapi_template

TLA+ models of the parts of this application that are hard to test — authorization
changes that travel between a database, Redis and several workers, refresh-token
rotation and the browser client in front of it, cached permission masks and the catalog
they are read by, grant delegation, accounts and their e-mail links, a rate limiter shared
by all workers, a circuit breaker — checked by TLC on small instances, and proved by TLAPS
for every instance where that is within reach.

Every definition is translated from the code under `app/` and `frontend/`; the properties come from
what the code, its docstrings and `docs/` promise. Where the two disagree there is a run
that shows it (see *Findings*).

## 1. The system

One FastAPI process per worker, Postgres (SQLAlchemy async sessions, one per request,
`expire_on_commit=False`, no row locks), Redis (authorization cache, rate limiter, Celery
broker), a Celery worker with a beat schedule, and a browser client.

| Component | State it keeps | Operations | Hard behaviour |
|---|---|---|---|
| Authorization cache (`core/authz_cache`) | three Redis keys (the *mirror*), per worker three in-process structures and a Pub/Sub connection | `publish_events`, `_subscribe_loop`, `_resync_loop`, `is_stale`, `is_*_inactive` | publish after commit can fail or be overtaken; resync reads across awaits; workers restart cold |
| Refresh tokens (`services/auth/actions`, `repositories/auth/token.py`) | table `refreshtoken`, the browser's cookie | login, refresh, logout, cleanup task | two commits per refresh, no lock between SELECT and UPDATE, reuse detection, crashes between commits |
| Roles and permissions (`services/rbac`, `repositories/rbac`) | `roles` with a cached `permission_mask`, `role_permissions`, `user_roles`, `user_permissions`, `users.perm_version` | add/remove permission, assign/remove role, grant/revoke, delete role, synchronise the root role | masks and versions computed from what was loaded, multi-commit operations |
| Access tokens (`services/auth/mint.py`, `current_user.py`) | the token's `perm_mask` and `perm_version` | mint (several SELECTs), accept | the token outlives what it says |
| Rate limiter (`core/ratelimit`) | one sorted set per key in Redis | `is_allowed`, `get_remaining` | timestamp and pipeline are apart, TTL, fail-open, second round trip for refused calls |
| Delegation, tenants and users (`services/rbac`, `services/tenant`, `services/users`, `core/rbac/delegation.py`) | `role_grantable_roles`, `role_grantable_permissions`, the tenants' ceilings, owners of roles and users | create role/user/tenant, edit roles and what they may grant, change a ceiling | checks against what was loaded before the awaits, several commits per operation, chains of legal grants |
| Accounts (`services/auth/actions`, `services/verify`, `cli/seed.py`) | users' names, addresses, passwords, verification flags; signed links in mailboxes | register, create by an admin, seed, Google callback, follow a verification or reset link | checks and inserts are apart, mails leave after the commit and may be lost, links can be followed more than once |
| Resilience (`core/resilience`) | a circuit breaker's state, counter and `_open_until`; each caller's attempt | `call`, `async_retry` | late answers of calls that started in another state, cancellation |
| Permission catalog (`core/rbac/registry.py`, `cli/sync_permissions.py`) | `permissions` rows, the registry of the running release | start-up synchronisation, `mask_for`, `expand_implied` | several workers start at once, crash half-way, run different releases |
| SPA session (`frontend/src/lib/api.ts`, `auth-store.ts`) | tokens in a tab's memory, the shared refresh promise | single-flight refresh, retry, login, logout | lost requests and answers, calls answered 401 together, refresh racing logout |

How they interact: services call repositories; repositories that change authorization
call `publish_events` after their commit; every request's `_authenticate` reads the
worker's cache synchronously; minting reads the RBAC tables; the middleware and the login
service call the limiter; a worker synchronises the catalog before it serves; the SPA
calls the API and exchanges its refresh token when it is answered 401. There are no callbacks besides Redis messages.

What makes each correct: see the property lists in section 3. `PROJECT.json` lists the
hazards with the line where each bites and the properties aimed at it.

## 2. Modules

| Module | Models | Proofs |
|---|---|---|
| `AuthzCache` | the cache, its publisher, Redis and the mutations that feed it | `AuthzCacheProofs` |
| `Sessions` | what a login promises, whatever the tables do (abstract) | |
| `RefreshTokens` | refresh-token sessions, which implement `Sessions` | `RefreshTokensProofs` |
| `PermVersions` | masks, membership, direct grants, `perm_version`, minted tokens | `PermVersionsProofs` |
| `Delegation` | tenants, ceilings, roles, users, what may be granted, and the requests that change them | `DelegationProofs` |
| `RateLimiter` | the sliding-window limiter for one key | `ResilienceProofs` |
| `CircuitBreaker` | the circuit breaker and the retry loops around it | `ResilienceProofs` |
| `Catalog` | the start-up synchronisation and the masks of several releases | `CatalogProofs` |
| `Accounts` | creation of accounts, e-mail links | `AccountsProofs` |
| `SpaSession` | the browser client composed with `RefreshTokens`, which it implements | `SpaSessionProofs` |

`MC*.tla` instantiate them for TLC. `SpaSession` instantiates `RefreshTokens` over its own
variables, and `RefreshTokens` maps its state to that of `Sessions`; the other modules share
no variables. `AuthzCache` takes
the values that are published as given and asks how they travel; `PermVersions` takes
their delivery as instantaneous (a token is compared with the committed version) and asks
whether the values are right; `Delegation` asks whether the handler may make the change
at all. Together they cover a permission change from the check to the request that is
refused because of it. `Catalog` says why the bits they speak of mean the same everywhere,
and `SpaSession` what the client does when a request is refused with 401.

### AuthzCache

A *subject* is one datum that travels: a user's `perm_version`, a user's or a tenant's
active status. Database, mirror, caches and half-read resync snapshots are all *views*, a
number per subject, 0 meaning "absent from the key". A request loads a row (`LoadRow`) or
bumps versions in SQL (`BumpPermVersion`, which locks the rows until the commit), commits
(`CommitBump`, `GrantPermission`, `SetActive`) and then executes its pipeline command by
command (`PipelinePublish`, `PipelineWrite`) because the pipeline is not transactional.
`Rollback` is a request that ends before its commit. `PublishFails` drops what is left to
publish, with Redis down or up: the refresh of the row between the commit and
`publish_events` may raise (`user.py:142`, `tenant.py:41`, `role.py:143`), the pipeline may
run into the socket's one-second timeout (`redis_db.py:14`), and a request may be cancelled
anywhere. `RestartWorker` takes any of the requests with the worker that dies: which worker
serves which request is not modelled, so every set of them is possible. A worker's two tasks are `SubscribeLoop` and `ResyncLoop`; the resync reads the three keys in three
steps and installs them in one. The flush writes an attribute only when its value differs
from the loaded one, so `SetActive` can announce a status that it did not write.

History variables `committed` and `suspect` exist for the properties. A subject becomes
suspect when its publish is lost before the mirror was written, for whatever reason, races
another, contradicts what was flushed, or its key is lost, and stops being suspect with the
next undisturbed mutation.

* `NeverAnnounceUncommitted` – nothing uncommitted reaches channel, mirror, snapshot or cache.
* `MirrorFollowsDatabase` – for a subject that nobody is publishing and that is not
  suspect the mirror says what the database says: lost, overtaken and contradicted publishes
  and lost keys are the only ways in which the two can part.
* `CachesConvergeToMirror` (liveness) – once Redis stays up, every worker's cache ends up
  equal to the mirror, whatever was lost or applied late.

### RefreshTokens

Tokens are numbers in order of creation (the `jti` makes each unique). A row is absent,
valid, expired or revoked; an expired row that was revoked is treated as revoked, as the
code tests `is_revoked` first. A refresh goes through `ReadRow`, then one of
`EndAllSessions`, `DeleteExpired`, `RevokeHeld`, `RevokeFails`, then `Rotate` or
`MintRefused`; `Crash` can end it before any commit. `Logout` deletes the cookie's row, and
the cookie is written only by a login: it holds the first token of its family.

* `RotatedTokenIsDead` – a token with a successor is gone or revoked, for ever.
* `OneSessionPerLogin` – a login is worth one unrevoked token or one refresh about to
  insert one, never both, unless two refreshes revoked the same row (`forked`).
* `RowLifecycle` (action property) – no interleaving of cleanup, breach, logout and rotation
  makes an old row valid again, and a valid row goes only by its own refresh or logout or by
  a breach of its own user.
* `ImplementsSessions` (refinement) – seen from outside, a login is one session that starts,
  turns (its token is revoked), is renewed (the successor is inserted) and ends; `Sessions`
  says so in two variables, the `status` of each login and whether it was `wiped`. The
  refinement mapping reads the status off the tables (`SessionOf`): "live" while a row of the
  family is not revoked, "turning" while only a refresh between its two commits carries it,
  "over" when neither does. Logout, cleanup, expiry and crashes are `End`, some of them of
  many sessions at once. A breach is a step of its own (`Breach`): it leaves none of the
  user's sessions live and marks them all `wiped`. What `Sessions` has no step for is what
  must not happen: a session that is over being renewed, or a wiped one being live by
  anything but the end of a refresh that had revoked its token before. That last exception is
  a defect: a session that a breach or a logout finds "turning" is not ended by it, `Renew`
  takes it up again (see *Findings*). A `forked` family is excepted.
* `DeadRowsAreReclaimed` (liveness) – revoked and expired rows are eventually removed.

### PermVersions

A mask is the set of its bits' permissions. A service action loads rows and leaves in
`job[r]` the constants it will commit; a repository action commits them later.
`CommitEdit` repeats for each implied permission (`NextImplied`), each in a transaction of
its own. Role mutations bump `perm_version` relative to the committed row; direct grants
write the loaded version plus one. A mint reads the user's row, then the roles, then the
direct grants. Whether an ORM delete of a row that is already gone fails depends on the
driver's row counts; both outcomes are in the model (`Rollback` and the commit).

* `MaskMatchesUnlessOverlapped` – overlapping edits of one role are the only way a mask
  and the role's permissions can part.
* `TokenIsHonest` – a token that is not older than the user's version carries exactly the
  current mask, although it was assembled from several SELECTs, unless the user lost a
  role by its deletion or was granted a permission by an overtaken handler (`missed`).

### Delegation

The tables are sets of pairs in `rows`; roles and users carry their tenant, a tenant its
`ceiling`. A request is a worker's turn: `Begin` is `get_current_user`, which loads the
actor's roles and ceiling into `session[w]`; one of sixteen handlers checks and leaves in
`work[w]` what it will commit; the commits follow, one step each, and a request with
several (a tenant is four: `CommitTenant`, `CommitRoot`, `CommitUser`, `InsertRow`; a role
and its links; a permission and what it implies; a ceiling and the root role's
synchronisation) can be overtaken or end (`GiveUp`) between any two. `GiveUp` also stands
for every refusal and every violated constraint. A handler's checks read the tables in one
step: they only read, and a commit between two of them gives what an earlier or later
handler step gives, as far as the properties go. `Passes` tests the access token, which may
be as old as any permission its user ever had (`held`): `PermVersions` and `AuthzCache` say
when it stops being accepted, and nothing here relies on that. Names are abstracted to
the one that matters, "tenant-admin" (`root`); masks are left to `PermVersions`.
`Expand` is the least closed superset that `expand_implied`'s worklist computes.

Histories: `endowed[t]` collects what superusers put within tenant `t`'s reach (ceilings
and their own additions to its roles and users); `crossed` holds the tenants that were
ever linked with a role or user that is not theirs, which the code allows (global roles
are editable by every tenant, and a superuser may assign any role to anybody); `drift`
holds the tenants whose last ceiling update was disturbed or undone by a superuser's
addition or a rename to "tenant-admin".

* `NoEscalation` – no sequence of requests of a tenant's users brings an uncrossed tenant
  a permission that no superuser ever gave it.
* `RootWithinCeiling` – after an undisturbed ceiling update the tenant-admin role stays
  within the ceiling; two updates at once, or a request that was checked against the old
  ceiling, are the disturbances.
* `NewPermissionsRespectCeiling` (action property) – whatever a tenant's user adds to
  any role is within the tenant's ceiling, in each commit of the request, unless the
  ceiling changed after the request loaded it.

### RateLimiter

One key: the sets of different keys do not interact. `Stamp` reads the clock, `Check` is
the MULTI/EXEC pipeline, `Undo` the ZREM of a refused call, `FailOpen` the exception
handler, `Tick` advances time and lets Redis drop the key at its TTL. A reply can be lost
after the pipeline ran (`answered = FALSE`). Workers' clocks are taken to agree; a worker
whose clock is behind looks like one whose pipeline is late, which is modelled.

* `WithinLimit` – no trailing window holds more than `Limit` admitted calls, leaving
  aside calls whose pipeline ran behind a later trim and entries Redis lost
  (`unaccounted`).
* `RefusalsAreEarned` – whoever is refused had `Limit` other calls counted within its
  window: with the bound above this fixes the trim's boundary from both sides.

### CircuitBreaker

Callers run `async_retry` around `call` of one breaker. The two locked sections hold no
await, so each is one step: `Admit`/`Reject` before the service is called, `Succeed` or
`RecordFailure` (within `FailForGood`, `FailAndSleep`) after it; in between the state may
have changed any number of times. Time is relative: `cooldown` is `_open_until` minus the
clock, `delay` what is left of a sleep; `Elapse` is a unit of time. `failures` stops at the threshold, with which it is
only compared. `Cancel` is a `CancelledError`, which neither handler catches.
`half_open_max` (`recovery.py:105`) is read nowhere: any number of calls passes while the
circuit is half-open, and the model lets them.

* `ClosedBelowThreshold` – a closed circuit is never one failure past its threshold.
* `ServiceRests` (action property) – after a trip no call reaches the service until the
  recovery time is over or some call has succeeded.
* `OnlyLateAnswersCloseEarly` (action property) – the circuit closes past half-open only by
  a call that was in flight when it tripped.
* `CoolsDown`, `EveryCallReturns` (liveness) – nothing puts the end of the recovery time
  off; every retry loop ends.

### Catalog

A release is a registry (name and bit, in the order of the dict) and the permissions its
routes require; what the modules assert or look up at import is `Imports`, a guard of
`Boot`. A worker walks its registry: `CheckPresent`, `CheckMismatch`, or `CheckAbsent` and
then `Insert` or `InsertRefused`, since another worker may commit in between. A failed
start leaves the worker down until somebody restarts it, with this or another release
(`Stop`). `WriteRole` stores a mask as a serving worker computes it. A row can be older than
the bit column (`Legacy`, migration 4ad43bc4d43b): it fails every start that looks for it.
`mask_for` and `names_for_mask` are `MaskFor` and `NamesForMask`; `expand_implied` is a
recursive function over the rounds of its frontier, checked against the least closed
superset by an `ASSUME` of `MCCatalog`.

* `MasksTravel` – a stored mask means the same permissions to every serving worker, even if
  releases renumber a permission or reuse a bit: the synchronisation stops them first.
* `OnlyRacesFailAStart` – a worker whose registry agreed with the table when it started
  fails only if another one inserted meanwhile. The code retries nothing there; the
  container does.

### Accounts

A request checks (`CheckUsername`, `CheckEmail`, `TryName`), inserts (`CreateUser`, or
`CreateRefused` by a unique column) and, when it is a registration or a reset, has its mail
sent after the response (`SendMail`, `MailLost`). The four ways to create an account that
test a name first differ only in who vouches for the address; the seed script skips the
second test. A link is a kind, an address and an age: nothing about it is stored, so it can
be followed as often as it is fresh. `FollowLink` loads the user, `SetVerified` and
`SetPassword` write one column of what is there by then. `vouched` is a history.

* `OneAccountPerIdentity` – whatever races, a name and an address have one account.
* `VerifiedIsVouched` – an account is verified only if an admin, Google, or somebody who
  reads its mail said so, with a link that was still fresh.
* `NoDanglingLink` – no mail leaves for a registration that loses the race to insert.
* `NothingUndone` (action property) – no request that loaded a row earlier undoes what
  another committed for it, and only a followed reset link changes a password.
* `EveryRequestEnds` (liveness) – the search for a free username ends.

That a reset link works twice within its half hour (`verify/utils.py:45` calls such a link
"already used") and that a lost verification mail is never sent again are in the model;
no property claims otherwise.

### SpaSession

A tab's store, its `refreshPromise` (`promise`: the call whose exchange it is) and its calls.
`Join` and `Refresh` are the two ways the interceptor treats the first 401 of a call, `Fail`
passes every other error on. An exchange is a message to the server (`Serve`,
`ServeUnknown`), a handler of `RefreshTokens` at work, and an answer (`Answer`).
`NotRefreshed` is any failure the client sees, and may happen at any moment: a request that
never arrived, an answer that was lost after the server rotated. A request the client gave
up may still be on its way: it is a `stray`, which the server may take up any time later
(`ServeStray`) or never. `Settle` is what follows for all that waited. `LoginSubmit` …
`LogoutDone` are the two pages that write the store. A logout deletes the row of the cookie
that the browser sent with the click (`carried`), and one that the tab gave up (`left`) may
reach the server later; the model keeps one such request per tab. A tab that is closed or
reloaded is one whose calls fail and that starts empty. `Statuses` are those that
`error/register.py` gives the exceptions a call can meet; the interceptor only tells 401
from the others.

* `NoFalseBreach` – this client never presents a token it exchanged before, so reuse
  detection never ends the sessions of a user who only used it.
* `SingleUse` – behind these clients no token has two successors, and no family forks: the
  race of two refreshes that the server alone allows (`refresh.py:41`) needs another client.
* `ImplementsRefreshTokens` – the composition implements `RefreshTokens!Spec`; the
  refinement mapping is the identity on the server's variables.
* `EveryCallIsAnswered` (liveness) – no call is retried without end or left waiting.

## 3. Runs

| Run | Result | Instance |
|---|---|---|
| `authz_cache` | holds | 1 user, 1 tenant, 1 worker, 2 concurrent requests, 2 mutations, 2 faults |
| `authz_cache_lost_publish` | `ResyncRecoversLostPublish` violated | 1 mutation, 1 outage |
| `refresh_tokens` | holds | 2 users, 2 handlers, 3 tokens |
| `refresh_tokens_logout` | `LogoutEndsSession` violated | 1 user, 1 handler, 2 tokens |
| `perm_versions` | holds | 1 user, 1 role (a root role), 2 permissions one implying the other, 2 handlers, versions to 3 |
| `delegation` | holds | a superuser, 2 users, 1 tenant, 2 roles, 3 permissions, 2 workers, 3 requests |
| `rate_limiter` | holds | 4 calls, limit 2, window 2 ticks, time to 5, 1 fault |
| `circuit_breaker` | holds | 3 callers, threshold 2, recovery 3 ticks, 2 retries, delays 0 to 2 |
| `accounts` | holds | 2 requests, 2 addresses with one local part, 3 names, 2 links, a verification link lives one tick longer than a reset link |
| `spa_session` | holds | 2 tabs, one of them with 2 calls, 1 user, 2 handlers, 2 tokens |
| `spa_session_logout` | `OnlyLoginStartsSession` violated | 1 tab with 2 calls, 1 user, 2 handlers, 3 tokens |
| `catalog` | holds | 2 workers, 3 permissions, 5 releases, 3 stops |

Why the bounds are enough to be interesting. *AuthzCache*: two requests give every
overtaking of two pipelines, each of which may be lost at any point; two faults give an outage during a publish or a resync
followed by a restart or a second outage; subjects of all three kinds exist; workers do not
interact, so one stands for all. *RefreshTokens*: two handlers can read one row together,
three tokens allow a rotation next to another login or a fork; two users let a breach hit
the wrong one. *PermVersions*: two handlers overlap in every way; two permissions are what
an implied addition and a removal need; three versions allow two mutations during one mint.
Handlers are symmetric. *Delegation*: one permission opens every route and implies a
second, the third is not a tenant's to have; two roles are what a grant of one by the
other needs; two workers overlap in every way, and three requests are a ceiling update
with two requests around it. The run starts from the seeded database or from one with a
tenant that `create_tenant_with_admin` has completed (`Bootstrapped`), since creating one
takes four of the steps. Role ids, plain users and workers are symmetric. *RateLimiter*: with limit 2, four calls can fill a window, have one
refused and one admitted after it slides; time 5 is two windows and a tick. The theorems
below remove all these bounds for the safety properties.

*CircuitBreaker*: with three callers one can be in flight across a trip, a recovery and a
second trip while two others cause them; threshold 2 tells a first failure from the one that
trips; the middle delay is below, the last at `MaxDelay`. *Accounts*: two requests meet in
every pair of steps; a name can be free, taken and taken twice (a third candidate remains);
the second link may be a reset link next to a verification link or to another reset link.
*SpaSession*: two calls share, follow or retry an exchange, two handlers let the
server work on one that the client gave up, two tokens are a login and its rotation or a
login in each tab, and what is presented or rotated again shows before a third is inserted;
the tabs share only the cookie, which the second tab writes and takes away under the first.
The theorems remove these bounds for the safety properties. *Catalog*: two workers
race, one behind the other in every order; two releases follow the rules, one renumbers, one
reuses a bit, one is stopped by the registry's assertion; three stops deploy each worker
and roll one back.

Bounds are constants (`MaxMutations`, `MaxFaults`, `MaxTokens`, `MaxVersion`, `MaxRequests`,
`MaxTime`, `MaxStops`, `MaxLinks`, `Suffixes`) in the guards of the actions that count. Two runs do without the
deadlock check: `delegation` ends when its requests are served, and in `catalog` a start that
failed stays failed.

### Fairness

* `AuthzCache!FairSpec`: a request that has begun to publish goes on until the pipeline is
  executed or fails, and both background tasks of a worker keep being scheduled
  (`AuthzCache.start` creates them; each loop catches every exception and retries). Redis
  is not assumed to come back; the liveness property says what follows if it stays up.
* `RefreshTokens!FairSpec`: Celery beat runs `cleanup_expired_tokens` daily
  (`queue/celery.py`). Nothing else is assumed fair: handlers may stop anywhere.
* `CircuitBreaker!FairSpec`: time passes, and what the event loop can run it runs; a service
  call ends with an answer or an error. Nobody has to start a call.
* `Accounts!FairSpec`: the event loop goes on with a request it has begun. Nobody has to
  follow a link, and none has to fail.
* `SpaSession!FairSpec`: handlers run on, and every request the browser sends ends in an
  answer or a network error. Logging in or out is nobody's duty.
* `Catalog`, `PermVersions`, `Delegation` and `RateLimiter` are checked for safety only.

### Findings

Three have a run in `PROJECT.json` that contradicts a sentence of the repository:

1. A publish that fails after the commit is never repaired (`publisher.py:55`,
   `authz_cache_lost_publish`): the mirror write was in the same pipeline, and the resync
   copies the mirror. It takes no outage: a publish that is lost while Redis is up is not
   repaired either.
2. After a rotation, logout leaves the live refresh token exchangeable (`logout.py:12`,
   `refresh_tokens_logout`): only login sets the cookie. A logout also ends nothing while the
   first refresh is between its two commits: the successor is inserted after it.
3. A refresh that is under way at a logout puts its tokens back into the cleared store
   (`api.ts:28`, `spa_session_logout`).

The others have no run of their own; they show as the exceptions that the invariants name
and that the checks do not let one leave out:

* a breach does not end a session whose refresh is between its two commits: the answer says
  "All sessions invalidated" (`refresh.py:34`), as does `docs/03-authentication.md:100`, but
  the successor is inserted after the user's rows were deleted (`refresh.py:31`; `Renew` of
  a wiped session in `Sessions`). `BreachLeavesNoToken` is what a breach does achieve;
* two concurrent refreshes of one token both succeed (`refresh.py:41`; `forked`). The SPA
  does not do this, see `SpaSession!SingleUse`;
* overlapping edits of a role lose a bit of its mask (`role.py:209`; `overlapped`);
* deleting a role does not move its holders' `perm_version` (`role.py:155`; `missed`);
* a tenant's user can rename or delete its tenant-admin role, after which a new ceiling
  reaches no role (`role.py:113`): the model's `RootWithinCeiling` speaks of root roles that are there;
* a direct grant is bounded by what the actor's role may grant and not by the ceiling, so what
  became grantable before a ceiling was lowered can still be granted (`delegation.py:64`;
  `endowed`);
* a call whose pipeline is late is admitted beyond the limit of its window
  (`sliding_window.py:48`; `unaccounted`);
* two mutations of one subject can reach the mirror in the wrong order (`publisher.py:40`;
  `suspect`);
* two overlapping ceiling updates can leave the ceiling of one and the root role of the
  other (`tenant_service.py:93`; `drift`);
* a late success closes an open circuit before its recovery time (`recovery.py:168`;
  `before` and `heard`), and `half_open_max` bounds nothing (`recovery.py:105`);
* of two workers that start with a new release, one can fail to start on the other's insert
  (`sync_permissions.py:47`; `raced`), though the script is called "safe to run on every
  startup".

## 4. Proofs

All proofs are checked by TLAPS (SMT, Zenon, LS4) with no assumption but the named
`ASSUME`s of the modules, which say that the bounds are naturals, the sets that are
counted are finite, ids of users and tenants do not collide, the implication table is a
function on permissions, and a registry, as a dict, has each name once.

| Theorem | States |
|---|---|
| `AuthzCacheProofs!TypeCorrect`, `AnnouncementsAreCommitted`, `MirrorIsFaithful` | `[]TypeOK`, `[]NeverAnnounceUncommitted`, `[]MirrorFollowsDatabase` |
| `RefreshTokensProofs!TypeCorrect`, `RotationKillsToken`, `OneSession`, `RowsAreOrderly` | `[]TypeOK`, `[]RotatedTokenIsDead`, `[]OneSessionPerLogin`, `RowLifecycle` |
| `RefreshTokensProofs!SessionsKept`, `EndedStaysEnded`, `BreachLeavesNoToken` | `ImplementsSessions`; what it gives, `Promise!OverIsOver`; and what is left after a breach, `[]WipedIsGone` |
| `PermVersionsProofs!TypeCorrect`, `MasksMatch`, `TokensAreHonest` | `[]TypeOK`, `[]MaskMatchesUnlessOverlapped`, `[]TokenIsHonest` |
| `DelegationProofs!TypeCorrect`, `DelegationIsBounded`, `RootBounded`, `CeilingBindsAuthors` | `[]TypeOK`, `[]NoEscalation`, `[]RootWithinCeiling`, `NewPermissionsRespectCeiling` |
| `ResilienceProofs!LimiterTypeCorrect`, `LimitHolds`, `RefusalsEarned` | `RateLimiter`'s `[]TypeOK`, `[]WithinLimit`, `[]RefusalsAreEarned` |
| `ResilienceProofs!BreakerTypeCorrect`, `ClosedIsBelow`, `TrippedServiceRests`, `EarlyClosingIsLate` | `[]BreakerTypeOK`, `[]ClosedBelowThreshold`, `ServiceRests`, `OnlyLateAnswersCloseEarly` |
| `AccountsProofs!TypeCorrect`, `OneAccount`, `VerificationIsEarned`, `LinksHaveAccounts`, `CommittedStays` | `[]TypeOK`, `[]OneAccountPerIdentity`, `[]VerifiedIsVouched`, `[]NoDanglingLink`, `NothingUndone` |
| `CatalogProofs!TypeCorrect`, `MasksMeanTheSame`, `StartsFailByRacesOnly` | `[]TypeOK`, `[]MasksTravel`, `[]OnlyRacesFailAStart` |
| `SpaSessionProofs!TypeCorrect`, `Refinement`, `SessionsBehindTheSpa` | `[]TypeOK`, `ImplementsRefreshTokens`, `[]RotatedTokenIsDead` and `[]OneSessionPerLogin` of the composition |
| `SpaSessionProofs!NeverTakenForThief`, `TokensAreSingleUse` | `[]NoFalseBreach`, `[]SingleUse` |

Each proof module has an inductive invariant, a lemma per action (or per group of actions
with the same effect) and a theorem that it holds in every state. `ResilienceProofs` treats
two components that share nothing, with an invariant each. TLC checked every invariant on the run's instance before it was proved.

* *AuthzCache*: what a request is about to publish was committed by it, and as long as its
  mirror write is pending it is the only one for that subject or the subject is suspect;
  row locks keep the versions of an open bump equal to what its commit writes. A publish can
  be given up at any point (`GiveUpPreserves`): what it leaves unwritten becomes suspect, so
  nothing is assumed of Redis, of cancellation or of the worker that dies.
* *RefreshTokens*: a refresh between its two commits holds a revoked or deleted token of
  its family; a family without a fork has one bearer, a row or a refresh. The refinement
  follows from it action by action: each step is shown to be `Start`, `Turn`, `Renew`,
  `Fork` or `End` of the sessions it touches, or a stutter, and the one bearer is what makes
  revoking a row a `Turn` instead of a second life. That a breach is a `Breach` needs that it
  leaves no row of its user (`WipedIsGone`): a row of a wiped family is there again only after
  the insert that takes the family out of `wiped`. `RowLifecycle` needs one more invariant: the
  row of a refresh that found it expired has not become valid since (`ExpiredForGood`). `EndedStaysEnded` carries the abstract
  specification's own property over: what is over stays over, and after a breach only a
  session that was turning comes back to life.
* *PermVersions*: an edit in flight turns the mask it loaded into the permissions it is
  about to write (`EditsAreExact`); a token's version never exceeds the user's
  (`VersionsLead`), and what a mint has read so far is current while the version stands
  (`ReadsAreCurrent`) because everything that changes a mask moves the version or lands in
  `missed`.
* *Delegation*: what a request is about to commit is right for the actor it loaded
  (`WorkOK`: endowed, within the ceiling it loaded, in a role of its tenant), what it
  loaded is still its tenant's (`SessionOK`), no row outlives its role (`RowsOK`) and a tenant
  has one tenant-admin role at most (`RootsUnique`). `OthersKeep` is the frame lemma: the
  tables only change in ways (`Grows`) that leave the other requests' writes right;
  `TurnKeeps` reduces each commit to what it does to the tables. Both histories that excuse
  a violation are needed: without `crossed` or `drift` the invariant is false.
* *RateLimiter*: the sorted set holds every admitted call that can still share a window
  with a later one (`MembersKept`), because trims never pass the cutoff and no member
  outlives the TTL (`KeyOutlivesMembers`); admitting by a count of the set is then
  admitting by a count of the window. `RefusalsAreEarned` is the other side, and needs
  cardinalities: what a refused call counted was the whole set, itself included, and what
  the trim has left of the set is inside its window.
* *CircuitBreaker*: while nobody has succeeded since the last trip the circuit is open with
  the whole rest of its recovery time to go (`RecoveryRuns`); while it is open whoever is in
  flight was admitted before (`OpenAdmitsNobody`). The two action properties follow.
* *Accounts*: the invariant adds to the properties what each handler has established by the
  time it is where it is (`AllEstablished`): whose address it has vouched for, which link it
  followed, that the account whose mail is due is there. Users are only added and keep their
  name and address, and `vouched` only grows, so no other request takes away what one has
  established. `NothingUndone` needs the same: the row that a handler writes to is found
  again by what it loaded.
* *Catalog*: what a start has been through is in the table, and a serving worker's whole
  registry is (`Covered`); the stored mask is the image of its names under the table
  (`RoleBacked`), so a second worker reads it back through the same one-to-one table; a
  start that nobody disturbed still agrees with the table (`Undisturbed`).
* *SpaSession*: the steps of the composition are matched with steps or stutters of
  `RefreshTokens` (`StepImplements`). The invariant is what this needs: an exchange that is
  sent presents a token, the cookie and what a logout carries of it hold the token of a login
  or none (`LoginTokens`), and
  a call waits for an exchange only while it is under way (`Waits`). The theorems of
  `RefreshTokensProofs` are then instantiated and carried over (`SessionsBehindTheSpa`).
  A second invariant follows each token (`Custody`): it has one keeper among the stores,
  answers, exchanges and strays of all tabs (`OneKeeper`); one that is kept has no successor and is
  not revoked by a rotation (`KeptIsUnspent`); an exchange that is being served has the one
  handler that holds its token (`Serving`, `OneHandler`); and a refresh that is about to
  rotate is the first to do so (`FirstUse`). `NoFalseBreach` and `SingleUse` are among its
  conjuncts.

### What is only model-checked

The liveness properties (`CachesConvergeToMirror`, `DeadRowsAreReclaimed`, `CoolsDown`,
`EveryCallReturns`, `EveryRequestEnds`, `EveryCallIsAnswered`): they rest on fairness, hence
on `ENABLED`, which is outside the prover. That `ExpandImplied` is the least closed superset
is an induction over its rounds, also out of reach, and evaluated by TLC over bounded
inputs. Every safety invariant and action property that a passing run checks is a theorem.

## 5. Not modelled, and why

Token signatures, password hashing, JSON and UUID conversions, the byte codec of masks (no
property depends on them); input sanitisation and schemas (functions of one request); the
health checks, which report and change nothing; headers, error pages, logging (no state);
SMTP and Google's OAuth exchange (external: a mail arrives or is lost, the callback knows an
address); migrations (run once, offline); listings; the pages of the SPA other than login
and logout (rendering). `RedisSlidingWindowLimiter.reset` is called by tests only.

## 6. Plan

All components with state of their own are modelled, and their safety properties proved.
What is left is more to say of them:

1. `AuthzCache` as an implementation of a register per subject, whose readers may lag but
   show no value that was not committed.
2. `Catalog` and `PermVersions` together: the set of permissions that `PermVersions` calls a
   mask is what `Catalog` decodes it to.
3. The four hazards that `PROJECT.json` lists without a property, if the documents ever
   promise something of them: the fail-open answer after a refused request's ZREM failed
   (`sliding_window.py:64`), a tenant whose creation stopped half-way
   (`tenant_service.py:52`), a ceiling without the tenant-admin role it is to reach
   (`role.py:113`), and direct grants under a ceiling that was lowered (`delegation.py:64`).
