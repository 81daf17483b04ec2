# Boundary Layer: TLA+ models and proofs

Boundary Layer is a FastAPI service with deliberately breakable "labs": every lab
has a *vulnerable* and a *hardened* mode, and the hardened mode is supposed to
close a gap that the vulnerable one shows. Around the labs there is a production
shell: profiles, JWT authentication, tenants, audit log, rate limits, metrics and
alerts. This directory models the parts of it that keep state or make decisions,
checks them with TLC on small instances, and proves the central invariants with
TLAPS for instances of any size.

    tlc -workers 2 -config GovernanceLab.cfg MCGovernanceLab
    tlapm GovernanceLabProofs.tla

## 1. Inventory

| component | source | state | operations |
|---|---|---|---|
| governance lab | `labs/governance.py`, `apps/api/db.py` | six PostgreSQL tables | reset, create, verify, delete, count orphans, insert audit; each a transaction |
| write storm lab | `labs/postgres_write_storm.py`, `apps/api/db.py` | table `write_storm_events` | validate, reset, insert, count |
| Redis labs | `labs/redis_state.py`, `labs/prompt_cache_isolation.py` | the Redis keyspace | SETEX, SET, GET; an in-memory variant |
| simulated labs | `labs/circuit_breaker.py`, `sse_exhaustion.py`, `file_upload.py`, `tool_router.py`, `authz.py` | none | a result as a function of the request |
| rate limiting | `apps/api/rate_limit.py`, `middleware.py` | a sorted set per client in Redis, or a deque per process | `allow` |
| request pipeline | `apps/api/main.py`, `middleware.py`, `security.py`, `auth.py`, `tenancy.py` | `audit_events`, `tenant_memberships`, `request.state` | nine layers, token, membership, audit, route |
| metrics | `apps/api/metrics.py`, `_record_lab_metrics` in `main.py` | Prometheus series | inc, set, scrape |
| alert webhook | `apps/alert_webhook/main.py` | one list | POST, GET, DELETE `/alerts` |
| settings | `config.py`, `config_check.py`, `staging_check.py` | none | validators, readiness checks: a decision over an environment |
| start-up and readiness | `lifespan.py`, `readiness.py`, `migrations/env.py` | database version and tables | boot, upgrade, tenancy schema, `/ready` |
| JWKS | `jwks.py` | key set, cache with expiry, time of the last fetch | `get_signing_key`, `refresh` |
| secrets | `secrets.py` | cache with expiry | `get_secret`, `get_json_secret`, `refresh_secret` |
| object storage | `storage.py` | the bucket | put, get, delete, presign, each after key resolution |
| managed service checks | `managed_services.py` | probe key in Redis, probe object in the bucket | five live checks, structural checks |
| audit export, mock LLM, logging, scripts | | none | not modelled, see section 6 |

How they interact. A request passes the middleware stack (trusted hosts and CORS where they are
configured, then rate limiter, body size, headers, lockdown), the dependency `verify_api_access` (token,
membership, audit) and reaches a route. The route calls `_run_lab`, the lab works
on PostgreSQL or Redis, and `_record_lab_metrics` updates the series that
Prometheus scrapes. Alertmanager posts what fires to the webhook. All routes are
synchronous functions: FastAPI runs them in a thread pool, and a deployment runs
several replicas against one PostgreSQL and one Redis. So everything after the
middleware runs concurrently with itself. The middleware runs on the event loop of
its replica; a synchronous Redis call blocks that loop, so a replica has one
request in the limiter at a time.

What is hard here, and why a unit test hardly reaches it:

* a lab run is a *chain* of transactions or commands; other runs of the same
  tenant act between any two of them, and inside a transaction READ COMMITTED
  gives each statement its own snapshot;
* `create` locks the prompt before the downstream rows, `reset` and `delete` in the
  opposite order: deadlocks are possible and PostgreSQL resolves them by aborting;
* a commit or a Redis command can take effect and its answer be lost;
* the limiter checks and adds in two round trips, with a clock read before both;
* the audit insert can fail after the decision has been made, and memberships
  change while a request is under way;
* the webhook computes its room once, before the loop that appends;
* metrics are updated, and scraped, one series after another while other runs record;
* five layers of the middleware answer outside the one that adds the security headers;
* a lab that raises a `TypeError` half way is run a second time, without its tenant;
* a key set is fetched for every token while the provider rotates its keys, and a cached
  secret is judged by a clock reading;
* all service checks share one probe key and one probe object, and a check that
  is cut off leaves them behind;
* replicas that start together migrate the same database, and a start that
  failed half way is repeated on what it left.

The JWKS client and the secret provider have unlocked caches, but the repository builds
a client per token and shares no provider between threads. Their models let threads
share them all the same: those properties are about what the classes allow, not
about something that happens here.

`PROJECT.json` lists these hazards at the lines where they bite, with the
properties that would catch them.

## 2. Modules

A component has a module, an `MC` module that gives its constants values, one or more
`.cfg` files (`MCAccounts` serves three components) and, where something is proved, a `...Proofs` module. Operators whose
comment begins with "Mutant:" are variants with a plausible bug; no action uses
them. They stand before the definition they vary and are there to show that
the properties notice such a bug.

**GovernanceLab** (`db.py`, `governance.py`). `db` is what is committed, `wr[r]` what
the open transaction of run `r` has written and thereby locked, `pc[r]` and `k[r]`
the transaction and the statement it is at. Actions are the SQL statements:
`Reset` (6 statements), `Create` (5), `VerifyPromptTenant`, `Delete` (5, or 1 in
vulnerable mode), `CountOrphans` (4), `InsertDeletionAudit`. `Execute` is what all
writing statements share: wait until nobody else has written the rows, write, and
with the last statement commit. `Fail`, `LoseCommit` and `DeadlockAbort` end a run
with an exception; `Rollback` is the `except`/`finally` of `get_connection`. The rows of
a tenant in one table are one key with a state (absent, live, deleted), since
all statements treat them alike; their number comes back in `RowsIn`. `Like[t]` is the
set of tenants whose rows `'<prefix><t>:%'` matches: `t` itself, ids that begin with `t:`, and
whatever `_` and `%` in `t` match. PostgreSQL itself (visibility,
locks, deadlock detection) is external.

**WriteStormLab** (`postgres_write_storm.py`, `db.py`). `stored` is the set of runs
whose batch is in the table. Reset, insert and count are single-statement
transactions and thus single steps. `Fail` covers both a rollback and a commit
whose answer is lost.

**RateLimiter** (`rate_limit.py`, `RateLimitMiddleware`). One client key, several
replicas. `Begin` reads the clock, `Check` is the first pipeline (prune, count),
`Add` the second (add, expire). `RedisError` fails a pipeline before or after Redis
ran it; `FailOpen` are the replicas for which an error lets the request
through. `Tick` also expires the key. In memory (`memory`, what `build_rate_limiter`
returns for any backend but redis) `AllowInMemory` is the whole call, since nothing
interrupts it on the event loop. **SlidingWindow** is the abstract
specification: a set of granted requests of which no window holds more than
`Budget`. The limiter implements it under two refinement mappings: `SharedWindow`
(all replicas on Redis, budget limit + replicas - 1) and `OwnWindows` (each process in
memory, budget limit).

**RequestPipeline** (`main.py`, `middleware.py`, `security.py`, `auth.py`, `tenancy.py`).
`Layers` is the order in which `add_middleware` puts the layers, of which trusted hosts and
CORS depend on the settings (`Installed`); an answer given in a layer goes out through
the installed ones `Outside` it. `RefuseHost` and `AnswerPreflight` are these two layers'
own answers. The other actions follow a request through rate limit, body size and lockdown, API key or token, membership, audit
and route. A token is abstracted to a verdict: absent, unreadable (its header
cannot be parsed or names an algorithm that is not allowed: a `JwksError`), invalid (any
check that ends in an `AuthError`) or valid. `RunLab` is the lab itself, with
`_run_lab`'s second run after a `TypeError`; `Touched` are the tenants it acts for, `Compared` the
`tenant_b` it looks up as. `ChangeMembership` runs at any moment.

**AlertWebhook** (`alert_webhook/main.py`). One step per list operation: the
capacity check, each append, `len`, `clear`.

**RedisLabs** (`redis_state.py`, `prompt_cache_isolation.py`, `redis_client.py` and the
key helpers of `tenancy.py`). A key is the tuple of its parts. `Strip` is `str.strip` on tenant ids, so that the two
ways of building a tenant's key (normalised in production SaaS, raw elsewhere)
differ as they do in the code. Every command is a step that may fail before or
after it took effect; `Expire` and `Lose` act between any two steps.

**SimulatedLabs** and **LabMetrics** (`labs/*.py`, `main.py`, `metrics.py`). The results as
operators with the code's thresholds (50, 100, 200, 1000), and
`_record_lab_metrics` as the sequence of updates of a run, made one by one. `BeginScrape` and
`ReadSeries` are `GET /metrics`: `generate_latest` reads family after family, in the order of
their registration, while runs record. The model scrapes the four series of the hardened
circuit breaker, the account whose total and parts are read first and last.

**JwksClient** (`jwks.py`, and the way `verify_jwt_token` uses it). The lines of
`get_signing_key` and `refresh` are steps of a thread: cache lookup, decision to
refresh, fetch, and the three assignments `Install`, `Clear`, `Stamp`; then the
membership test, the read and the entry. `perRequest` says whether each call builds
a client of its own, as the API does, or threads share one, as the class allows.
`Rotate` changes what the identity provider publishes. `MaxFetch` is the fetch's
timeout.

**SecretProvider** (`secrets.py`). One secret under several spellings. `Provider` is
the choice of `build_secret_provider`, `lack` what a cloud provider misses (SDK, path,
token). The cache's read, comparison and removal are separate steps, as is the
lookup between them; `Change` rotates or removes the secret. `PoppedName` is the name
`refresh_secret` drops, which for the environment provider is the upper-case one.

**ObjectStorage** and **ManagedServices** (`storage.py`, `managed_services.py`). A key is the
sequence of its segments, so that `ResolveObjectKey`, `ExtractTenant` and
`AssertTenantObjectAccess` work as on the strings, empty segments included;
`KeyInScope` says that the key a request resolves to passes the tenant's own check. The
operations of the S3, R2 and GCS backends share `Perform`. `ManagedServices`
composes this with check runs: each a chain of queries and probes in the code's
order, beside other runs and a tenant's calls, with failing calls (`Fault`) and runs that
are cut off (`Kill`). `residue` is set only where such a mishap can leave a probe: between a
write and its delete, these two included.

**SettingsPolicy** (`config.py`, `config_check.py`, `staging_check.py`, the structural part of
`managed_services.py`). An environment maps each setting to a class of values (blank,
short, https, ...). `Boots` says that `Settings()` does not raise; `ConfigCheckReady`,
`StagingCheckReady` and `ManagedCheckReady` are the three checks, each with its own
defaults. It has no state.

**StartUp** (`lifespan.py`, `readiness.py`, `migrations/env.py`, `init_tenancy_schema`). Replicas of
one deployment, whose `settings` come from an environment through `SettingsPolicy`,
boot, migrate (`ReadVersion`, then `Upgrade` in one transaction that fails if the
version moved), create the tenancy tables, serve and answer `/ready`. Crashes,
outages, a commit whose answer is lost, and restarts are external actions.

Variables called history variables (`met`, `shared`, `active`, `removed`, `granted`, `recorded`,
`overlapped`, `last`, `quiet`, `changedAt`, `heldUntil`, `began`, `alone`, `faulted`, `residue`, `touched`)
are read by no action's guard and exist for the properties.

## 3. What the runs check

| run | instance | shows |
|---|---|---|
| `governance` | 2 runs, 2 tenants, both modes, fairness | `NothingHeldOutside`: locks are held only inside writing transactions. `DanglingIsTransient`: a downstream row without prompt, which no orphan count sees, exists only while a run of the tenant is before its create commits, or after one was cut off. `CleanWhenQuiescent`: when all runs have returned and none was cut off, a tenant that ran only hardened has no live downstream row, however the runs overlapped. `LoneRunIsExact`: a run that met no other reports exactly what it left. `TenantIsolation`. `EveryRunReturns`, in spite of the deadlocks |
| `rate_limiter` | 2 replicas, one failing open, on Redis or in memory, limit 2, window 2, clock to 4, 3 requests each | `GrantedWithinBound`: at most limit + replicas - 1 recorded requests in any window, and a replica that fails closed grants nothing unrecorded. `WindowKept`: neither a prune with an old clock reading nor the TTL loses a request of the window. `DenialsEarned`: a 429 means that the window was full. `SharedWindow`, `OwnWindows`: refinement of `SlidingWindow`, on Redis and in memory |
| `pipeline` | 2 requests, 18 kinds of request, 8 deployments, 1 membership change | `NoLabWithoutEvidence`: in the SaaS a lab runs only with a verified token, a membership that was active during the request, and a committed audit event. `DenialsAudited`. `ActsForVerifiedTenant`: a lab acts for exactly the token's tenant, or the one a platform admin put in `tenant_a`, and after a `TypeError` for the default tenant as well. `BareAnswersAreRefusals`: an answer without security headers is a 500 or was given by a layer further out, before any lab ran: host, preflight, 429, 503, 413 |
| `accounts` | one component at a time. Write storm: 3 runs, 2 tenants, budget 1, up to 2 writes. Webhook: 3 posts, 1 clear, cap 3. Metrics: 2 runs of any lab, units around each threshold, 2 tenants, scrapes without end | Write storm: `StoredBatchesOverlap`, rows never pile up from run to run, even when runs die in the middle; `LoneRunCountsItself`. Webhook: `SolePostKeepsCap`, a post that shares the loop with no other keeps to the cap, whatever clears do; `BatchAccounting`, nothing is lost or made up, and each batch keeps its order. Metrics: `Accounted`, in the registry parts never exceed their total and make it up at rest, the alert counters match the blocked runs, an open breaker has shed work; a scrape may show parts above the total it read earlier, but never above the total of that moment, balances if nobody recorded while it read, and never shows an open breaker without shed work. `GaugesOfLastRun`, after a run that recorded alone every gauge shows that run |
| `redis_labs` | 2 runs, 4 tenant ids, live or not, SaaS or not, fairness | `SessionsEndAsFallback`: a live session run ends as the in-memory lab does. `HardenedReadsOwnTenant`: a hardened lookup reads an entry of its own tenant. `OnlyTamperedStay`: everything but tampered sessions expires |
| `jwks` | 2 threads, 2 keys, shared or own clients, TTL 1, fetches up to 1, clock to 4, 1 rotation, 3 calls | `AcceptedKeyAge`: a withdrawn key is accepted for less than two TTLs and two fetches more. `UnknownKidAge`: a new key is refused for at most a TTL and two fetches. `OwnClientIsFresh`: with a client per token both are zero, and no `KeyError` can happen |
| `secrets` | 2 threads, 2 spellings, TTL 0 or 1, lookups up to 1, clock to 3, 1 change, 3 calls | `ValueAge`: a cached answer is younger than TTL + one lookup, an uncached one than a lookup. `RefreshedValueAge`: a refresh returns what was held during it, or at worst a lookup before if another call overlapped |
| `managed` | 2 checks, 4 tenant ids, 5 keys, 5 prefixes, 2 backends, 1 tenant call, 1 mishap, fairness | `TenantsApart`: no key, tenant id or prefix reaches another tenant's object. `ReportIsRight`: "ready" is right unless the prefix lies inside the folder of the checks' own tenant, "not ready" whenever the run was alone and no call failed. `ProbesSwept`: overlapping runs leave no probe unless one was cut off, or had a call fail, between a write and its delete. `ProbeKeyGoes`: not even after a kill |
| `startup` | 2 replicas, 2 migrations, 1 outage, 1 crash, 9120 environments, fairness | `ServesHardened`: what serves outside the local lab is hardened and on the newest schema. `ReadyIsNotRefused`: no replica refuses what a check called READY. `AllComeToServe`: once PostgreSQL stays up all replicas serve. `OutageIsSeen`: a lasting outage of a live service is reported |
| `pipeline_token`, `pipeline_body`, `pipeline_headers` | as `pipeline` | violations, see section 4 |

The type invariants are theorems, section 5; the runs `accounts` and `managed` check theirs too (`WebhookTypeOK`, `MetricsTypeOK`, `ChecksTypeOK`).

Why these bounds are enough to be interesting. Two governance runs suffice for
every overlap of two chains and for the two-transaction deadlock; a second tenant
is needed for isolation. Three write storms let two overlapping batches meet a later
reset. The limiter needs limit + 1 requests in a window by two replicas, a clock
that outlives window + TTL, and a request that stalls past the window: limit 2,
window 2, clock 4. The cap of 3 with batches of up to three alerts lets two posts
fill the store or overflow it, and a bad alert stand in the middle. The unit
choices 0, 1, 100, 101 and 201 lie on both sides of every threshold. The three components of
`accounts` share no state, so in one behaviour only one of them moves (`part`) and the other
two rest in an initial state: no combination of their steps could show more. The tenant ids
are a plain one, the same with blanks, blanks only, and the literal `global` that the
shared key contains. In `jwks` and `secrets` the clock outlives the bound that is
checked (TTL + 2 fetches + TTL, TTL + lookup), three calls let one call prepare the cache
and two overlap over it. The ids and keys of `managed` are those that could be taken for
another tenant's: an id with a slash, a key that names a tenant, with and without a
slash before it, one whose tenant is empty; the prefixes are the two that work, one that
ends in `tenants` without being it, one that is it after a slash, and one inside the folder of
the checks' tenant. The environments of `startup` differ from
a sound one in profile, environment, one setting that other requirements depend on
and one more setting: every pair on which a requirement of the code is
conditional. Two migrations let an upgrade stop in the middle if it could.
`CHECK_DEADLOCK FALSE` is used where the bounds end a run: the limiter, the keys, the
secrets, the checks and the start-ups (clock, calls, crashes); the other models have an explicit `Done` or `Quiet` step, so that a
deadlock would be one.

Fairness. In `governance`, weak fairness of `Step(r)` says that a thread of the pool
goes on with its run when no lock stops it, and of `DeadlockAbort(r)` that PostgreSQL's
detector wakes up. Nobody must send a request and no connection must fail. In
`redis_labs`, a run's next command returns or fails (the client sets
`socket_timeout`), and Redis expires keys with a TTL. In `managed`, the same of the probe key and
of the read that may stand between it and its expiry; no check needs to be run or to
finish. In `startup`, a process that has begun goes on, an exited container is started
again (`restart: unless-stopped`, `docker-compose.prod.yml:73`), and `/ready` is asked again and
again (its `healthcheck`, `docker-compose.prod.yml:63`). Nothing is assumed of PostgreSQL and
Redis: `AllComeToServe` has their staying up as its premise. The other runs state safety
only.

## 4. Where the code disagrees with its documents

Three runs end in a violation, which is the point of them.

* `pipeline_token`: a token whose header cannot be read, or names a forbidden
  algorithm, is answered 500, not 401, and leaves no audit event (`auth.py:189`;
  `docs/LIVE_STAGING_EVIDENCE_TEMPLATE.md:43`).
* `pipeline_body`: the prompt cache lab checks `tenant_a` of the body against the token and takes
  `tenant_b` as it is (`main.py:677`), so a lab runner has a lookup made as any tenant, with no
  403 and no audit event. `docs/TENANCY_DATA_MODEL.md:85` wants every query to filter by the tenant of
  the authenticated context, "not request body"; `docs/AUTH_TENANCY_DESIGN.md:26` wants a 403.
  `ActsForVerifiedTenant` therefore speaks of the tenant that the lab acts for, not of `tenant_b`.
* `pipeline_headers`: the docstring of `SecurityHeadersMiddleware` promises its headers on
  "every response" (`middleware.py:56`). Hosts, preflights, rate limits and body size are answered
  outside it, and an unhandled exception passes it. `BareAnswersAreRefusals` says which answers
  are bare and which are not.

Further disagreements came up while modelling. The models contain the behaviour, the
properties are stated so that they do not claim the opposite, and no run is
spent on them:

* The governance reset deletes `WHERE id LIKE '<prefix><tenant>:%'` without escaping, so a
  tenant `t` reaches the rows of a tenant `t:x`, and an id with `_` or `%` those of whatever it
  matches (`db.py:157`;
  `docs/TENANCY_DATA_MODEL.md:92` promises isolation). The constant `Like` says which
  tenants a pattern matches; isolation holds, and is proved, where it is exact.
* A complete audit row can be written while downstream rows are live: another run
  revives prompt and rows between delete and count, and the count looks only
  under deleted prompts (`db.py:314`; `docs/GOVERNANCE_MODEL.md:36`). Hence
  `LoneRunIsExact` is about runs that met no other.
* Concurrent posts pass the webhook's cap (`alert_webhook/main.py:63`; `docs/ROADMAP.md:116`).
  Hence `SolePostKeepsCap`.
* The plain SET of the session lab drops the key's TTL, one key per run stays for ever
  (`redis_state.py:164`; `labs/02-redis-state-tampering/README.md:16`). Hence `OnlyTamperedStay`.
* `refresh_secret` of the environment provider drops the upper-case name, the cache is
  keyed by the name as given: any other spelling is answered from the old entry
  (`secrets.py:113`). Hence the condition in `RefreshedValueAge`.
* Under an object prefix other than the empty one and `tenants` every operation of a cloud
  backend refuses its own key (`storage.py:88`), with two exceptions: `/tenants` works for
  all tenants while the live check refuses it, and `tenants/<t>` works for the tenant `t`
  only. So under `tenants/staging-health`, the tenant of the checks, a check says ready
  although no other tenant can use the storage. `ReportIsRight` excludes this one case and
  claims the rest.
* `python -m apps.api.managed_services` and `python -m apps.api.staging_check` evaluate an
  environment of their own and not the process's: they can never say READY
  (`managed_services.py:557`, `staging_check.py:51`; `docs/PRODUCTION_SAAS_READINESS.md:131`,
  `scripts/production-saas-managed-services-live-check.sh:12`). The models take the
  functions with an environment given, as the scripts' example and the tests do.

Smaller observations: the write budget holds per run and not per tenant; the rate
limit can be passed by one request per other replica; a denied membership is
audited without its tenant; outside production SaaS a tenant called `global` has the key of vulnerable mode;
the vulnerable cache lab reports a cross-tenant hit even when the entry is the
tenant's own; the breaker's gauge has no label, so any later run closes it, and two
runs that set gauges together leave values of each; `_run_lab` runs a lab again,
without the tenant, after a `TypeError`; the `TimeoutError` handler of the JWKS client is
unreachable (`jwks.py:108`: a `TimeoutError` is an `OSError`, which the handler before it
takes); the markers of insecure secret keys are all shorter than the
minimum length and never decide; `Settings` accepts only the ssl mode `require` where the live
check accepts stricter ones too; the storage backend `memory` passes `Settings` in
production SaaS but cannot be built; `DATABASE_URL` and `REDIS_URL` are validated while the
connections use `POSTGRES_*` and `REDIS_HOST`; a readiness probe skips PostgreSQL when its
live mode is off; a production-like deployment without `BOUNDARY_LAYER_ENV=production`
boots with a blank API key and then refuses everybody; `upsert_membership` resolves
conflicts on the id although the table is also unique on tenant and user
(`tenancy.py:115`); a denied tenant override counts the denial twice (`tenancy.py:303`);
`tenant_b` of a request becomes a metrics label, so each new value makes a series that
is never removed (`main.py:374`).

## 5. What is proved

All theorems hold for every value of the constants that the `ASSUME`s allow; TLC
evaluates these on every run. A module of proofs extends the modules it is about; three of them
take two components each, whose names therefore differ (`Spec` and `MetricsSpec`, `pc` and
`stage`).

* **GovernanceLabProofs**. `TypeCorrect`, then `HeldOnlyInside` (`NothingHeldOutside` is
  inductive together with `TypeOK`: a statement that writes keeps `pc` inside the
  transaction, a commit, rollback or lost commit empties `wr`). `TenantsIsolated` assumes
  `LikeExact`, no tenant's pattern matches another's rows, and needs `OwnRowsOnly`: what an open
  transaction has written belongs to its tenant. It is necessary because the
  commit writes rows that earlier statements chose. `DanglingRowsPass` and
  `HardenedRunsLeaveNothing` rest on `RowsOwned`: no two transactions have written the same
  rows (`Exclusive`), an open transaction has written exactly what its executed
  statements write (`Writes`), and every live downstream row has somebody
  responsible for it (`LiveOwned`): a run that will delete it, one that was cut off, or
  a vulnerable one. The last is what quiescence alone does not say. `LoneRunsAreExact` (again
  with `LikeExact`) is about a run's two counts, read by four statements after its
  delete: `LoneRows` says, for a run that has met nobody of its tenant, which rows its tenant
  has at each statement it can stand at and what it has counted so far;
  `ActiveMet`, that two active runs of a tenant know of each other, keeps
  the steps of all others away from these rows. Any number of runs
  and tenants, with failures, lost commits and deadlocks.
* **BatchProofs**, for the two components that store batches. Write storm: `WriteStormTypes`,
  `RowsDoNotPileUp`, `LoneRunsCountTheirBatch`. `StoredBatchesOverlap` is not inductive: an
  insert may join any batch that is there. The strengthening says that runs of a
  tenant that are active together have met (`ActiveMeet`), that only runs past
  their insert have a batch (`StoredInserted`), and that what is stored when a run is
  about to insert came after its reset (`AfterReset`). A run that met nobody still has its
  batch when it counts (`StillStored`), so that the sum it reports is over one batch, its own.
  Webhook: `WebhookTypes`, `CapWithoutSharing`, `NothingLostOrMadeUp`. Posts in the loop together
  know of each other (`AppendingMeet`), so a post that met nobody is the only one to fill the room it
  computed; each alert a post has passed is in the list or was cleared (`AppendedKept`,
  `PostProgress`), and the list has each post's alerts in their order (`InOrder`).
* **RateLimiterProofs**. `LimiterTypes`, `LimiterBound`, `LimiterKeepsWindow`,
  `LimiterDenialsEarned`. The bound alone is not inductive, since a replica between its
  pipelines adds without looking again; `Capacity` counts those replicas together with the
  members: `|zset| + |pending| <= limit + replicas - 1`. `Clocks` (no clock reading is ahead of
  the clock; the key outlives the window of each member) and `WindowKept` carry the
  bound from `zset` to the history. `LimiterImplementsWindow` and `MemoryImplementsWindow` are
  the refinements of `SlidingWindow`: each step maps to a grant within the budget
  or to a stutter. The assumption worth noting is in the model: replicas and
  Redis read one clock, and any replica may stall for any time.
* **LabProofs**, for the Redis labs and the metrics of all labs. Redis: `RedisLabsTypes`,
  `HardenedIsolation`, `SessionsDoNotMix`. A lookup reads
  whatever an earlier run left, so the invariant speaks of the whole keyspace: a cache
  entry is at a key of the tenant that wrote it or at the shared key
  (`EntriesInPlace`), and sessions and cache entries are never at each other's keys
  (`FormsInPlace`). For the sessions, a session's key holds only what its own run stored
  (`SessionsMine`) and from the tampering on the tampered blob (`SessionsTampered`).
  Metrics: `MetricsTypes`, `TotalsAddUp`, `GaugesShowLastRun`, from `MetricsInductive`. `Accounted` says nothing
  of what happens between the updates of a run, so it is not inductive: a total may be ahead of its
  parts, by exactly what the runs that record still owe. `AccountsHold` says this of every account.
  There is a share for each run such that the updates left in its queue bring the share to zero
  without going below it (`Brings`), and the balance is the sum of the shares (`Ledger`). The sum over any
  number of runs is given by its two laws, adding one run and all shares zero (`Sums`), so no induction
  is needed: an update changes one share and the sum by the same amount. That a fresh queue brings zero to zero
  is proved lab by lab, from the order of the updates in `_record_lab_metrics`. `ShedBeforeOpen` is about the breaker's
  gauge, which is set after shed work is counted; `OverlapSeen` and `GaugesShown` say that a run that records alone
  has set each gauge or still has it in its queue. A scrape adds `ScrapeKept`: what it has read is no more than
  is counted now, since counters only grow, and while nobody records it is exactly that.
* **RequestPipelineProofs**. `PipelineTypes`, `FailsClosed`, `DenialsOnRecord`, `VerifiedTenantOnly`,
  `HeadersOnAnswers`. What a request may do at its route was decided several steps
  earlier, by calls that others' membership changes may follow. `Progress(q)` says what has
  been established of a request at each `pc`: the token before the membership
  check, the membership (active at some moment since) before the audit event, the
  event before the route. `Shown` ties what has been answered to it.
* **JwksClientProofs**. `JwksTypes`, `OldKeysGoOut`, `NewKeysComeIn`, `OwnClientsAreFresh`. The bounds
  are about the provider's history, so the invariant follows a key set from the
  fetch through its installation to the cache: a payload was published at most a fetch ago
  (`Payloads`), a set that is installed at most a fetch before (`Installed`) its time stamp (`Sets`),
  a key that was found, or read, in such a set (`Judged`, `Stored`) leaves an entry whose expiry bounds its age
  (`Cached`), and a client of one's own holds nothing older than the call (`Own`).
* **SecretProviderProofs**. `SecretTypes`, `ValuesAreYoung`, `RefreshesAreFresh`. `EntriesAge` bounds
  the age of each entry by its expiry, `FoundAge` that of an answer under way by the
  lookup's length, `Overlap` says that two calls under way know that they are not
  alone, and `Refreshes` that the entry a refresh finds was stored after it began.
* **DeploymentProofs**, for what happens before and around serving. Start-up: `StartUpTypes`,
  `ServingIsHardened`, `ReadyNotRefused`. A replica past its upgrade
  relies on a version that others can still write; `Schema` (the tables of each
  version exist) and `Migrated` (somebody past the upgrade means version `HeadRevision`) make it inductive.
  `Hardening` and `Refusals` are facts about all environments, from the definitions of
  `SettingsPolicy`. Object storage: `TenantsStayApart`, over all sequences of segments as key,
  tenant id and prefix. Managed service checks: `ManagedTypes`, `ReportsAreRight`, `ProbesAreSwept`, from
  `ManagedInductive`. A run's report sums up answers it had several calls ago, so the
  invariant says what each answer was worth: a run past its put has a key that
  its backend accepts (`KeyAccepted`), all runs probe one object (`OneHealthObject`), a probe that exists
  has a run on the way to its delete unless one was cut off or failed between write and delete (`SomeoneSweeps`), a run that is alone finds the
  probes it wrote (`LoneRunFinds`), it has failed nothing healthy so far (`NoFalseAlarm`) and
  what a run has passed so far is so (`PassesEarned`).

Only model-checked: liveness (`EveryRunReturns`, `OnlyTamperedStay`, `ProbeKeyGoes`,
`AllComeToServe`, `OutageIsSeen`), which is beyond the prover. Every other property of a
passing run is a theorem.

## 6. What the models leave out

* Wording, events and timing fields of lab results, log lines, response bodies.
* Which tenant ids a LIKE pattern matches: that is the constant `Like`. More than one prompt prefix per
  Redis key (the suffix keeps them apart).
* Clock skew between replicas and steps of the wall clock (the Redis limiter reads it); a Redis that comes back with an older value of a
  key (loss of whole keys is modelled).
* The credentials of `/metrics` and `/ready`, and the metrics counters of authentication and
  audit. A scrape's reading of series other than the circuit breaker's.
* Which headers CORS adds to the answers it lets pass, and how it decides on an origin: a preflight
  is allowed or refused.
* The file `.env`: `Settings()` of a replica reads it (`config.py:45`), the checks pass
  `_env_file=None`. `ReadyIsNotRefused` compares them where the process variables are all there is; a
  replica whose `.env` sets what the variables leave open is not the one that was checked. (The
  image has none: `.dockerignore:11`.)
* The checks inside JWT verification: a token is a verdict. Decoding of a key and what
  is malformed in a key set.
* `InMemoryJwksClient` and `LocalMemoryStorageBackend` (for tests), the disabled
  providers (never built), redaction of secrets in the log.
* The texts of configuration issues; values inside a class of settings.
* `_isolated_env`, which edits the environment of its process for a moment: the checks are
  commands of their own.
* A fetch or lookup that takes longer than its timeout because data keeps trickling in:
  `MaxFetch` and `MaxLookup` bound the whole call.
* Concurrent DDL: `init_db` creates tables that exist already in every run modelled.

**Not modelled.** The audit exporter (no caller in the request path, its external
sinks raise), the mock LLM (canned answers, no state), logging (formatting), shell
scripts and infrastructure files (drivers, no state of their own; the two schema
migrations are what `StartUp` calls migrations).

## 7. What could follow

The order in which the models were built: the labs that work on PostgreSQL and Redis, the
limiter, the pipeline, the webhook and the metrics; then keys, secrets, storage
and service checks, settings and start-up; then the proofs. What is left, in order of
worth: the credentials of `/metrics` and `/ready` in the pipeline; clock skew in the limiter; `.env` in
the settings.
