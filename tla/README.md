# Verification of the CreatorTrust backend

TLA+ models of the parts of CreatorTrust where several actors work on the same
state: audits and the quota they consume, collection from the platforms, scores
and their benchmarks, published reports and their withdrawal, the model registry
and the files of its models, training labels, subscriptions, refresh sessions,
connected accounts and the list of creators. TLC checks each model on small
instances; TLAPS proves the safety properties that matter most for every value of
the constants.

Paths below are relative to `src/services/backend/internal/` unless they start
with `services/`, `migrations/` (of the backend) or `packages/`.

1. [The system](#1-the-system)
2. [Modules](#2-modules)
3. [How each model corresponds to the code](#3-how-each-model-corresponds-to-the-code)
4. [Runs: what is checked, bounds, fairness](#4-runs)
5. [What comments, tests and migrations say and the model refutes](#5-what-comments-tests-and-migrations-say-and-the-model-refutes)
6. [Proofs](#6-proofs)
7. [What is not modelled, and why](#7-what-is-not-modelled-and-why)
8. [Plan](#8-plan)

## 1. The system

A Go API server and a Go worker share Postgres, Redis (OAuth states and the asynq
queue) and an object store. A Python service scores fraud with models that a
trainer, a Python job, writes to a shared directory and registers with the
backend. Web front ends and a mobile shell use the HTTP contract.

| Component | State it keeps | Operations | What is hard | What makes it correct |
|---|---|---|---|---|
| **Audit orchestrator** (`audit`) | `audit_job`, the `audit:run` task in Redis | Submit, the run and its retries, the compensations of both | The unit, the job and the task are in three stores and written by three statements; crashes, lost answers, redelivery, overlapping runs | A unit is charged once for a delivered audit and returned for a failed one; a terminal job stays; every job settles |
| **Collection** (`audit` worker, `connector`, `metrics`, `dataimport`) | the salt, posts, readings, comments, audience, result rows, uploads | boot of the connector registry, fan-out, fetch, hash, ingest, result page | Goroutines share a mutex and a transaction each; a fetch is cut at any call; a poorer pull follows a richer one | One salt for all comments; succeeded means everything; an audit only adds to what is known |
| **Scoring** (`scoring`) | `score`, the benchmark rows | seed at boot, score an audit, read back, nightly recompute | A score is a series of reads and one write; a benchmark is replaced beside it | A cell is never without a band or with two; what is bought or absent does not help |
| **Feature store and labels** (`mlops`, `admin`) | `training_feature_row`, disputes, `fraud_result` | capture, file, review, reveal, resolve, label sink, both exports | Worker, retries, administrators and the sink act on one audit without a lock | Blind examples were blind; only observations are learned; captures lose no label |
| **Quota reservations** (`billing`) | `usage_counter` | Reserve, Commit, Release | The limit is read before the conditional increment; a month or a plan may change in between | The counter counts the reservations; usage stays within an entitlement |
| **Subscriptions and webhooks** (`billing`) | `subscription`, the provider's subscriptions | Subscribe, webhook | Provider first, row afterwards; events late, repeated and reordered; two subscribes of one user | Who pays is served; subscribing never costs a plan |
| **Report publication** (`report`) | `report`, `share_grant`, the PDF in the object store | Publish, Share, Revoke, public reads, the Meta erasure | Object first, row second; find, then grant or withdraw; the erasure runs through two stores | Links are stable; withdrawn is final; the erasure reaches what was shared |
| **Model registry** (`mlops`) | `ml_model_registry`, `ml_canary_set` | RegisterModel, PromoteModel (and rollback), CreateCanary | Roles and evidence are read, checked and written in separate statements; the upsert of a version keeps `promoted_at` | A first champion has a canary with a ground truth; what is promoted was checked; no model loses its champion to a promotion |
| **Model serving and retraining** (`services/ml`) | artifact directory, cached models | retrain, promote, clear the shadow, load, score | Files of a slot are written one at a time while requests load them; promotion is in two systems | A version names the bytes that score (it does not: section 5) |
| **Accounts and sessions** (`auth`) | `users`, `refresh_token` sessions | Register, Login, Refresh with rotation and reuse detection, Logout, provisioning | The check of a token, the status of the account and the rotation are separate; revoking a family races with a rotation in its transaction | One good token for each sign-in; reuse ends what was known; a suspended account gets no session |
| **Connections and sign-up** (`oauth`) | states in Redis, `oauth_token` with sealed tokens | Authorize, callback, disconnect, deletion callbacks | A callback may be delivered twice or to the other endpoint; a sign-up writes four components one after the other | A state is redeemed once and by its own user; a stored token opens for its row only; success means all of the sign-up; one profile for an account |
| **Influencers, handles, tiers** (`influencer`) | `influencer`, `influencer_handle` | create, edit, upsert from a sign-up, handles, tier, keyset list | The tier is read from what is committed, then written; `created_at` is the start of the transaction | A walk of the list repeats and misses nothing; a write that met no other leaves the right tier |
| LLM narrative, ML client | cached answers, cost rows | calls over HTTP | failure is swallowed or retried by callers | – |
| Waitlist, analytics | single rows, appended events | conditional single-row statements | – | – |
| Alerts, bulk audit, campaign, white label | none (stubs) | – | – | – |
| Platform libraries, wiring, generators | none | transactions, object store, cipher, mail | – | – |
| Trainer gates, heuristics, front ends, contracts | none, or client side | pure computation, user interfaces | – | – |

`PROJECT.json` names the sources of each, with the status of its model, and lists the
hazards of the code with the properties that are about them.

**How they interact.** A *submit* at the API takes a unit from billing, creates
the job and enqueues the task; the *run* in a worker fans out to the connectors
with the tokens of the owner (oauth), ingests metrics, asks the ML service, writes
the score, captures a feature row and settles the job, returning the unit to billing
when there was no data. A *publish* reads the latest score. A *sign-up* calls auth,
influencer, oauth and then submits an audit. A Meta *deletion callback* goes through
oauth to report. A *dispute* about an audit is decided by an administrator and labels the
feature row, from which the *trainer* learns; it registers and promotes in the backend,
against canaries that are feature rows too, and writes files that the ML service reads.
All of these are calls between packages or statements on shared tables; the queue and
the webhooks are the only messages, and both may be repeated.

## 2. Modules

| Module | Role |
|---|---|
| `UnitLedger` | abstract: what becomes of a quota unit, and the counter that moves with it |
| `AuditRun` | submits, queue and worker runs, statement by statement; implements `UnitLedger` |
| `PlatformPull` | what a connector brings back: a fetch as its plan of calls, and where it may be cut |
| `Collection` | boot, fan-out, salt, ingest and result page of overlapping audits; extends `PlatformPull` |
| `ScoreEngine` | the scoring engine as operators on integers |
| `Scoring` | seeding, scoring, reading back and the nightly recompute; extends `ScoreEngine` |
| `Labels` | feature rows, disputes, the label sink, the exports |
| `Disclosure` | abstract: what becomes of a public badge |
| `ReportPublication` | publish, share, revoke, erase; implements `Disclosure` |
| `ModelRegistry` | registrations, promotions, rollbacks, canary intake |
| `ModelServing` | trainer and scoring service on one artifact directory |
| `Billing` | subscribe, webhook events, reservations over months |
| `TokenChain` | abstract: a sign-in's chain of refresh tokens |
| `AuthSessions` | requests to the auth endpoints; implements `TokenChain` |
| `Connections` | authorizations of two providers, callbacks, sign-up, connections, profiles and handles |
| `Influencers` | profiles, handles, tiers as overlapping transactions; the list walked by its cursor |
| `MC*` | the instances for TLC: budgets of faults, reports, plans, accounts, symmetry |
| `*Proofs` | theorems and proofs of `AuditRun`, `Collection`, `Labels`, `ReportPublication`, `ModelRegistry`, `Connections`; `BillingAndScoringProofs` those of `Billing`, `ScoreEngine` and `Scoring`, `SessionsAndProfilesProofs` those of `AuthSessions` and `Influencers`; the second specification of each pair is prefixed (`ScoringSpec`, `InfluencersSpec`) so that both can be in scope |

Conventions that all of them share:

* **One action is one statement** sent to Postgres, Redis, the object store or the
  provider together with the code up to the next one, or one transaction where the
  code opens one and no other can see into it. What a handler has read is kept in its
  record (`req[r]`, `call[c]`, `run[w]`), so it may be stale when it is used.
* **A handler is a client-side identity** (`Calls`, `Requests`, `Admins`). It starts
  at most once where it leaves a row behind (its identity then stands for the
  row); an admin starts over any number of times.
* **Locks** appear where the code takes them: a promotion waits for the row lock of
  another (`ModelRegistry`), a revocation for the rotation that holds a row
  (`AuthSessions`), a handle for the transaction that has written it (`Influencers`),
  a goroutine for the salt mutex of its process (`Collection`).
* **Faults** come out of a budget in `AuditRun`, `ReportPublication`, `Collection` and
  `Scoring`, so that a run says which the environment may inject; elsewhere an error is
  a step that is always possible (`Abort`, `Fail`, `Rollback`).
* Variables called *bookkeeping* record history for properties; no guard reads them.
* A definition that begins with "Mutant of" is a plausible mistake in the definition
  after it. No action refers to it; `PROJECT.json` names the property that notices it.

## 3. How each model corresponds to the code

**AuditRun** (`audit/internal/service/service.go`, `worker.go`,
`repository/audit_repository.go`, `app/audit_wiring.go`). `Reserve`, `CreateJob`,
`EnqueueRun` are the three statements of `Submit`; `DeleteJob` and `ReleaseQuiet` its
best-effort compensations; a conflict on the idempotency key replays the job of the
winner, if it is the caller's. `Deliver`, `Complete`, `Fail`, `Requeue` are what asynq
does with the answer of a handler: at most `MaxRetry` retries, then the archive.
`LoadJob`, `SetRunning`, `Resolve`, `FanOut`, `ScoreAndReport`, `Settle`,
`SettleNoData`, `ReleaseNoData` are the statements of a run in the order of the code.
The fan-out is one choice: all, some or none of the platforms answered. An audit whose
evidence is thin (`Scarce`) may fail in `ScoreAndReport` at every attempt, which no fault pays
for. Each call
creates at most one row and one task, so rows and tasks are indexed by calls.
The faults are: an error before the write, a write whose answer is lost, a crash of
either process, and a lease that asynq recovers under a live run (`overlap`).

**Collection** and **PlatformPull** (`audit/internal/service/worker.go`, `connector/`,
`metrics/internal`, `dataimport/internal`, `app/app.go`). The first part is the boot:
`Load` and `Validate` refuse a `connectors.yaml` that is not sound, `Boots` adds what the
registry needs of each enabled platform, and `Init` starts only with what boots.
`StartRun` lists the connections; `FetchPlatform` is one fetch, cut at any of the calls of
its `Plan` by a limit, which leaves a partial snapshot, or by a refusal, which is an error
unless the calls before it were enough (`IsError`, `Incomplete`). A fetch touches nothing
shared and is one step. `AuthorHash`, `SeedSalt`, `RereadSalt` are the salt behind the mutex
of a process; `Ingest` is the transaction with the keys and CHECKs of its tables
(`Storable`); `UpsertResult` and `Join` end the fan-out. `GetInfluencerProfileSummary` is
the result page over those tables: readings keep their time and count, of which the page asks
which is the newest and whether it is positive. An upload is an `ImportRequest`: its rows and
the followers that were named, 0 if none were, which is the reading it brings.

**ScoreEngine** and **Scoring** (`scoring/internal/engine`, `service`, `repository`).
Floating-point numbers become thousandths, rounded down; a signal that was not observed is
`Nothing`, and a composite without enough evidence is `Withheld`. A sort is what it leaves:
`Sorted` counts what lies below a value, `InTime` the readings before one. `Table` is what the indexes of
the benchmark table leave. `EnsureBootstrap` seeds tier by tier; `ResolveNiche`, `ResolveBenchmark`, `Score`,
`Report` are the reads and the write of one audit; `RecomputeCorpus`, `BeginPublish`,
`PublishCorpusBenchmark` the nightly task, whose version is read in one statement and
written in another. A pull carries the follower count twice, in the snapshot and as its newest
reading (`Current`), and a purchase (`Bought`) raises both, in the pull and in the series it was
ingested to; `Earlier` is what audits before these left there.

**Labels** (`mlops/internal/service/feature.go`, `quality.go`, `admin/internal/service`,
`app/mlops_wiring.go`, `ml/client.go`). `RecordFraud`, `Score`, `RecordFeatures` are what a run
writes of fraud, score and features; `EvaluateQuality` gives the reasons that keep a row out of
training. `FileDispute`, `ReviewDispute`, `ReadScore`, `MarkScoreShown`, `ResolveDispute` are the
statements of the dispute endpoints, and `RecordLabel` the sink that copies a decision to
the row, or loses it. `ListFeatureRows` and `ExportLabels` are what a trainer reads.

**ReportPublication** (`report/internal/service/service.go`,
`repository/report_repository.go`, `app/meta_callbacks.go`). `PutObject`,
`UpsertReport`, `MintLink` are `Publish`; `RowAfterPublish` is the restated columns of the
upsert, which keep the slug and a revocation. `InsertShareGrant`, `RevokeByAuditJob` are
single statements or one transaction. An erasure deletes the token
(`ForgetProviderUser`), finds the reports (`ScanReports`), and withdraws them with the
grants (`RevokeGrantsByUser`). `PublicBadge` and `PublicBadgeByHandle` are the public reads.
Scores are versions: `Rescore` is another audit of the influencer.

**ModelRegistry** (`mlops/internal/service/service.go`, `repository/repository.go`,
migration `000024`). `BeginPromote` reads the version and refuses; `ListCanaries` and
`CheckGates` are the reads behind the gates; `BeginPromoteTx`, `CommitPromote` are the two
updates of the transaction under READ COMMITTED with the unique index on the champion.
`CommitRegister` is the upsert, which starts role and evidence over and keeps
`promoted_at`. `earned` is bookkeeping: whether a version ever passed its gates, and with the
report it has now. `GetModelVersion` is the row of a version as a request reads it.
`GetFeatureRow` and `CreateCanary` are the intake: the row of an audit is read
and must carry a ground truth and a data path a canary may rest on. One model is modelled:
the tables share nothing between models.

**ModelServing** (`services/ml/training/artifact.py`, `retrain.py`,
`services/ml/app/serving/supervised.py`). `WriteArtifact` opens and writes the model file and
then its manifest; `AskBackend`, `ClearShadow`, `TrainerCrash` are the rest of a run.
`ResolveChampion`, `PredictChampion` (and the same of the shadow) are a request, `cache` the
models by version that live as long as the process.

**Billing** (`billing/internal/service/billing_service.go`, `quota_service.go`,
`repository/postgres.go`, `provider/razorpay.go`). `CreateSubscription` is the provider's
answer; `CancelExisting` and `InsertSubscription` are the statements of the swap, with the
rollback on the unique index of the live row. `ProviderStep` lets the provider
charge, halt, pause, cancel or complete; its events stay in `mail` until they are
acknowledged and may be applied several times and in any order (`Webhook`).
`BeginReserve` reads the limit, `ReserveUnit` is the conditional upsert, `Release` returns
the unit to the month of the reservation.

**AuthSessions** (`auth/internal/service/service.go`, `provision.go`,
`repository/repository.go`). A request runs through `create`/`issue` (register, login,
provisioning, `StartSession`) or `status`/`rotate`/`insert` (refresh). `RotateRevoke` is the
conditional update in the rotation's transaction: from it to `RotateCommit` the old row is
locked, and others that want it wait. `BeginRevokeUserSessions` fixes the rows that the
statement has seen; `RevokeUserSessions` is when it is through the locks: a replacement
inserted by a rotation that was in its transaction is not among them.

**Connections** (`oauth/internal/service/service.go`, `signup.go`, `provider.go`,
`repository/state_store.go`, `token_store.go`, `platform/crypto/envelope.go`,
`influencer/internal/repository`, `app/audit_wiring.go`). Meta and Google are the providers;
each connects the accounts of its platform. `Redeem` is GETDEL and the comparisons after it.
`Exchange` is the provider's answer: its account, and the person unless it is withheld. A
sign-up then finds or creates the user, looks the handle up and claims or creates the profile
(two statements of one transaction), upserts the token and issues the session; `Fail` may
end it after any of them and nothing is undone. A token is sealed for the row it is put in
and opens for that row only (`Seal`, `Opens`). `Disconnect`, `ForgetProviderUser`,
`AddHandle`, `DeleteHandle` are the other writers. `Fetched` is the account an
audit collects. A handle that is listed without the id of its account (`id = FALSE`) is
what a brand enters by hand.

**Influencers** (`influencer/internal/repository`, `service`, `model`). A write of a handle is a
transaction in three steps: the row, `RecomputeTier` from the counts committed by then and its
own, `Commit` or `Rollback`. `BeginWalk` and `NextPage` are a client that follows the cursor
(`AfterCursor`) to the end; `created_at` is the time its transaction began, and the clock ticks
rarely enough that two rows share a time.

## 4. Runs

Bounds are those of the `.cfg` files; the states are those TLC finds, after symmetry where the
configuration uses it.

| Run | Instance | Distinct states | Shows |
|---|---|---|---|
| `audit_guarded` | 2 calls, 2 users, 2 keys, 2 workers, limit 1, 1 retry, one fault of each kind but `overlap` and `enqueueLost` | 241,780 | Delivered audits are charged, terminal is final, `UnitLedger` is implemented: the counter moves by one as a unit is taken or given back, and no unit is given back twice, or given back and charged |
| `audit_settles` | `FairSpec`, 2 calls of 1 user over 2 keys, limit 2, 1 retry, one `runError`, `createError`, `overlap`, `enqueueLost`; the evidence of one call may be too thin | 597,794 | Every job settles, but for thin evidence and a lost lease; a failed audit returns its unit; one charge for a key; a refused submit leaves no job; the status tells whether there is a score |
| `collection_fanout` | 2 audits of 1 influencer on 2 nodes, Instagram and YouTube or an upload, three configurations that boot and three that do not, every cut of a fetch and 1 fault, 1 retry; an upload that is refused, one of two posts and a poorer one without followers | 527,831 | One salt; succeeded means whole; no fetch costs more than was announced; figures and checklist only grow, except that a reading of no followers takes the engagement rate. Deadlock is checked |
| `scoring_corpus` | 3 audits of 2 influencers, live pulls, an upload and a channel without videos, 1 niche and the baseline, 2 recompute tasks, 2 people to a band, 1 fault; one person with two earlier readings | 179,010 | One band a cell and a baseline always; a corpus band counts people; bought followers help those whose tier and audience count as before by the growth they feign alone; a factor nobody measured has no say |
| `labels_exports` | 2 audits, one with a retry, 2 disputes, 2 requests, three kinds of snapshot | 3,188,250 | Blind examples were decided blind; only observations are learned; captures lose no label |
| `report_faults` | 4 requests, 2 audits, 1 creator, at most one fault of any kind | 1,131,530 | The erasure reaches what was shared; `Disclosure` is implemented: a withdrawn badge stays down and links are stable |
| `registry_overlap` | 2 admins, 3 versions, 1 curator, 1 audit that may be captured again, reports that pass or skip the canaries | 3,139,014 | The first champion has an anchored canary; a champion is archived by its successor; who was ever promoted had passed the gates. Deadlock is checked |
| `billing_orders` | 2 subscribes, 2 reservations, 1 user, 2 months, 3 events of a subscription | 662,780 | The counter counts; usage is entitled; who pays is served |
| `auth_rotation` | 5 requests of one account, suspension, expiry | 74,203 | Reuse ends what was known; the suspended get nothing; `TokenChain` is implemented |
| `connections_signups` | 2 callbacks over 2 authorizations, 2 users, an Instagram account and a YouTube channel of one person, 2 profiles | 753,638 | States are spent once; connections are their user's own and open; sign-ups are whole; one profile for an account |
| `influencers_pages` | 2 profiles, 2 names, 2 writers, 1 reader with pages of 1 or 2, a clock of 2 | 1,085,452 | The walk misses and repeats nothing; a write that overlapped no other leaves the right tier |
| `serving_versions` (violation) | 2 runs that train 2 models, 1 request | – | `VersionPinsModel` fails, section 5 |

**Why the bounds are enough.** Every property relates at most two handlers, and a
third actor that interferes with them. In `audit_guarded` two calls are enough for a key and
a limit to be fought over and for a unit to be freed and taken again; a retry,
a redelivery and a compensation of one call meet the other's there. In `audit_settles` the
second call is a replay or a submit of another key, and the retry is spent on the error or on the
overlap. Four requests on a report are a publish, a share, a withdrawal and one that
interferes. Three versions are a champion, its predecessor and a successor, each of which may
be registered again. Two months are
enough to end one under a reservation. Five auth requests are a sign-in, two racing refreshes,
a third with a token of the chain, and a logout or a new sign-in. Two callbacks are the
original and its replay, or two sign-ups with one account. In `collection_fanout` the pages hold
one post, so that two posts are two pages, two statistics calls and, with a comment sample of
one, both a sample that is filled at once and one whose comments start on the last page; the
account `Lively` takes every call the announcement counts. The poorer upload follows the richer
one in two audits or in two attempts of one. In `scoring_corpus` two people are
the threshold of a corpus band, and the two readings one of them has from before (4000, 4400)
make with that of the audit (4400) a series that 440 bought followers turn into steady growth: one person with two audits is below it, and the retry and the two
tasks compete for the next version. In `labels_exports` two disputes can be of one audit or of
two. In `influencers_pages` a page of one makes two profiles two pages, and two writers are what
a stale tier or a late commit takes; tiers are `nano` and `micro`, moved by one count. The runs
fire every action of every next-state relation but those of `ModelServing`, whose run stops at
its counterexample.

**Deadlock.** Requests are never repeated and budgets run out, so the bounded systems do
stop, except the registry, where an admin can always start over, and the collection, whose
end is a step of its own (`Rest`): deadlock is checked in both.

**Fairness** is used by `audit_settles` alone: weak fairness of a submit that was started
(`Submit`), of each worker's run (`Work`) and of the delivery of each
pending task to some worker. The code justifies it: a handler is a goroutine that runs on
to its answer and asynq's processor takes pending tasks while a worker is idle. Nobody
has to submit, and crashes are not fair. `EveryJobSettles` excepts two ways in which the code
leaves a job `running` (`LeftRunning`): a lease lost under a live run, whose late `SetRunning` has
no condition, and evidence that is too thin at every attempt, after which the task is archived
and nothing settles the job. The latter is an exception only once it has happened, so a job whose
evidence may be thin still settles or is archived.

**Mutants.** For each property of each passing run there is a mutated definition that
violates it in that run: a missing condition in an update, a compensation that does not
return the unit, a lock that is not waited for, a column that is not kept. `PROJECT.json`
lists them.

## 5. What comments, tests and migrations say and the model refutes

One run stops at its counterexample. "a version pins exact model bytes"
(`services/ml/app/serving/supervised.py:111`, the same at `services/ml/training/artifact.py:29`):
a request resolves the manifest (108), a trainer writes the next model file, which comes before
its manifest (`artifact.py:50`), and the request loads the new bytes and caches them under the old
version until the process restarts. `VersionPinsModel` states the claim.

More claims are stated as definitions, at the end of their modules, without a run of their
own. To see the trace name the definition in the configuration given:

| Definition | Configuration | What happens |
|---|---|---|
| `FailedReturnsUnit` | `MCAuditRun_settles.cfg` with `settleError` among the faults of `Retryable` | "A failed audit must not burn the caller's quota" (`audit/internal/service/worker.go:116`). The terminal status is written before the unit is released (331–334), and a redelivered run returns on a terminal job (84): when `Release` fails once, the unit is gone |
| `EveryAuditSettles` | PROPERTY of `MCAuditRun_settles.cfg` | `ErrInsufficientEvidence` (`scoring/internal/service/service.go:87`, returned by `worker.go:302`) is the same at every attempt: the retries are spent, the task is archived, and the job stays `running` with its unit, although "A failed audit must not burn the caller's quota" (`worker.go:116`) |
| `EraseReachesPublished` | INVARIANT of `MCReportPublication_faults.cfg` | "tokens erased, published reports revoked, every share grant withdrawn" (`app/meta_callbacks.go:34`). Only reports with a share grant of the user are found (`report_repository.go:225`): one that was published and not shared stays public |
| `ForgottenIsWithdrawn` | the same | The token was deleted by a disconnect: the callback finds nobody and withdraws nothing |
| `WithdrawnHasNoLiveGrant` | the same | A share found the report, it is revoked, the grant is inserted |
| `PublishIsServed` | PROPERTY of the same | A publish of a withdrawn report answers with a link that is not served |
| `BadgeMatchesPDF` | INVARIANT of the same with `MaxVersion = 2` | Two publishes: the PDF of one and the badge of the other |
| `WaivedGatesWereEarned` | PROPERTY of `MCModelRegistry_overlap.cfg` | "gates cannot be waived for a model that never passed them" (`mlops/internal/service/service.go:291`). A former champion that is registered again with a failing report keeps `promoted_at` and, once archived, comes back as a rollback without a gate |
| `FirstPromotionIsGated`, `RejectedIsNotPromoted` | the same | A registration replaces report or role between the check and the flip |
| `RegisteringKeepsChampion` | the same | Registering the champion's version again makes it a challenger |
| `FamilyIsRevoked` | INVARIANT of `MCAuthSessions_rotation.cfg` | "the entire session family is revoked" (`auth/internal/service/service.go:148`): the replacement inserted by a rotation that was in flight survives |
| `AuditsOwnAccount` | INVARIANT of `MCConnections_signups.cfg` with `PlatformOf <- BothInstagram` | "lets a user hold several accounts on one platform" (`oauth/internal/repository/token_store.go:60`). An audit indexes the connections of the owner by platform (`app/audit_wiring.go:333`), so the audit of the profile of the first account fetches the second |
| `ListedCanBeClaimed` | INVARIANT of `MCConnections_signups.cfg` | The public handle is listed without the id of its account: the insert of the sign-up violates the unique index on (platform, handle) |
| `TierTracksHandles` | INVARIANT of `MCInfluencers_pages.cfg` | Two transactions add a handle each; neither sees the other's count, and the later write of the tier is that of the smaller |
| `NothingBoughtHelps` | INVARIANT of `MCScoring_corpus.cfg` | The follower count "survives only as the TIER ...; it never adds points" (`scoring/internal/engine/engine.go:31`). It is also the newest `followers` reading (`connector/meta/meta.go:335`), and growth is scored by its steadiness: after 4000 and 4400, buying 440 on 4400 makes it 10% twice, and the score rises where the lost engagement rate costs nothing more |
| `ReportIsOwn` | INVARIANT of `MCScoring_corpus.cfg` | The report of an audit reads the newest score of the influencer, which another audit has written |
| `StampsPinTheBand` | the same | A score names niche, tier and version but not that the band came from the fallback cell (`migrations/000010:54`); versions of a niche start at 1 |
| `EveryBootSeeds` | the same with `Inherited <- V1Rows` | Migration `000030` retires the weights of version 1 but not its bands: the bands of version 2 violate `benchmark_one_active` and no boot succeeds (`scoring/internal/service/service.go:171`) |
| `PullsAreStorable` | INVARIANT of `MCCollection_fanout.cfg` with `Deployments <- OnlyLive`, `MaxFaults = 0` | The connector hands on media types as the Graph API spells them (`connector/meta/api.go:313`), the post table accepts lower-case words only (`migrations/000009_content.up.sql:13`): once Instagram is enabled its audits fail at every attempt, the job stays `running` and the unit is not returned. `migrations/000035:4` promises that the label is kept, and `service_test.go:290` ingests `IMAGE` |
| `FiguresStay` | PROPERTY of `MCCollection_fanout.cfg` | "every absent input yields a nil pointer ..., never a fabricated zero" (`metrics/internal/repository/profile_summary.go:26`). An upload may leave its followers out (`dataimport/internal/model/model.go:27`); they are stored as a reading of 0 (`service.go:77`), which is then the newest, and the engagement rate that was shown is gone (`profile_summary.go:71`) |
| `DisclosuresShowAnEstimate` | INVARIANT of `MCLabels_exports.cfg` | "stamping the row ... would enter a disclosure that never happened" (`admin/internal/service/service.go:183`). A fraud row is written also when neither model answered (`worker.go:287`), the reveal takes any row for an estimate and stamps the dispute |

These stronger forms of checked properties fail once the environment does more:
with `overlap` in the budget TLC refutes `TerminalIsFinal` and `RefundedAtMostOnce` (status
and refund have no condition on the row); with `undoError` `OneChargePerKey`; with `createLost`
`RefusedLeavesNoJob`; with `apiCrash` `EveryJobSettles`: the API dies between `CreateJob` and
`EnqueueRun`, and a replay of the key answers with a job that nothing runs. These decide
which budget each run has.

What was met while modelling and no definition states:

* *Audits.* `DeleteByProviderUser` deletes the rows of a person under every user but returns the last
  user only (`token_store.go:173-207`), so the reports of one user are withdrawn. Share grants
  carry an expiry that nothing reads.
* *Collection.* A partial pull upserts zero counters over measured ones, although the strip is
  "never a fabricated zero" (`metrics/internal/repository/profile_summary_repository.go:22`); the
  strip mixes platforms and reads only `followers`, never YouTube's `subscribers`; the page is five
  queries, not one snapshot. `UpsertPosts` sets the influencer of a post, so an upload that names
  the post ids of another creator takes them over. A pull, or an upload, that repeats a key fails
  at every attempt. Two handles of one platform overwrite each other's result row. Comments are
  appended, so a retry repeats them. The daily ledger of `connector/ratelimit` and the announced
  cost have no caller. `connectors.yaml` says that enabling Instagram "would fail the boot by
  design", but `app.go` registers its builder.
* *Labels.* A dispute decided before the feature row is captured, or whose sink write is lost,
  never labels it. Of two disputes of one audit the last sink write wins, whatever the order of
  the decisions, and a heuristic-only decision overwrites an observed label; the blind flag is
  per dispute. Niche and tier of the row come from the newest score of the influencer. The wiring
  never sets `ReachOrganic`, so no reach canary can be created. A clean row whose label is
  heuristic-only is eligible, which `migrations/000028` excludes ("NEVER training-eligible"); it is
  exported without the label. `undbot_signal` always answers a value, so the case "score is null
  and observed false" (`services/ml/app/schemas.py:147`) cannot occur.
* *Scoring.* Crossing a tier floor with bought followers changes the cohort and may raise the
  score, and crossing the floor of 100 followers makes an audience count that was collected below it
  (`engine.go:394`; Meta gives none there): the two properties about purchases are
  about those that leave both as they were (`SameStanding`). Growth smoothness mixes the series of
  platforms; a recompute that was overtaken may publish over a newer band.
* *Auth.* Access tokens are stateless: neither `RequireAuth` nor `Me` looks at the account, so one
  of a suspended account works until it expires. *Connections.* A second grant without a refresh
  token replaces the old refresh token by nothing. *Influencers.* The list of posts pages by OFFSET,
  against which `cursor.go` argues.
* *Billing.* A charge event that arrives after a cancellation brings the canceled row back, and the
  loser of two racing subscribes keeps a subscription at the provider that no row knows.

## 6. Proofs

Eight modules hold theorems; `tlapm` checks each of them to the last leaf. What they assume of
the constants are the named assumptions of the modules, which TLC evaluates on every run:
finiteness where something is counted or sorted, `None` and `Null` outside the sets they are a
default for, numbers that are natural, and in `Collection` the shape of what comes from outside (a
page holds posts, an upload holds rows, an audit has a start). `PlatformPull` asks that a page has
room (`PageSize` is positive), `ScoreEngine` that `Nothing` is no number, and `Scoring` that a pull
is a sequence of snapshots with finitely many readings each, like what audits before left, that `Nothing` is no audit, that the
followers bought are a natural number and that the benchmark rows of an earlier release obey
the indexes of their table (`Table(Inherited)`: one row for a version of a cell, one active, the
newest) and hold percentiles that ascend, as everything that writes them leaves them. No other
relation between constants is used: the number of calls, requests, workers, users, audits,
profiles, versions, months and faults is arbitrary.

| Module | Theorems | Argument |
|---|---|---|
| `AuditRunProofs` | `TypeCorrect`, `InvariantHolds`, `RefundsAreUnique`, `DeliveryIsPaid`, `TerminalStays`, `AuditImplementsLedger` | `AuditInv`: how far a submit or a run has come tells what row, unit and task look like; a run holds its task's lease and is alone on its job; `used[u]` is the number of calls of `u` with a unit not given back, which is also the counter of the ledger |
| | `OneChargeForKey`, `RefusalIsClean` | `ClaimInv`: one row for a key, and a submit that has ended holds a unit only with its row; `RowlessInv`: a submit before its insert, or past a compensation, has no row |
| | `FailureIsRefunded`, `StatusIsHonest` | `ReturnInv`: a failed job's unit is back or the run that failed it is at its last step; `LoneInv`: as long as nothing else acted on a job, its run holds the lease, and a score belongs to a delivered audit or to one about to be |
| `CollectionProofs` | `OneSaltAlways` | `SaltInv`: a goroutine past hashing carries the stored salt, and one that has seeded finds a row; a row that is stored is never replaced, so what a node caches is what every node caches |
| | `CollectionTypes`, `SuccessIsWhole`, `CostIsEnough`, `SummaryOnlyGrows` | `WholeInv`: what a goroutine holds is what some first calls of its plan bring, and if its pull is not partial what all of them bring; `PlanType`: no plan of any length exceeds what was announced; `SummaryInv`: posts and readings are keyed, an upsert keeps every key, and of the captured audiences there is a newest. The newest count stops being positive only by a reading of none, a later one or one that overwrote it (`PositiveUntilNone`) |
| `LabelsProofs` | `BlindExamples`, `Observations`, `DecisionsStay`, `LabelsStay`, `LabelTypes` | `LabelInv`: an observed label on a row was copied from one decided dispute of its audit, label and evidence together (`Grounded`); every estimate that was sent belongs to a dispute stamped as shown (`Seen`); `Forward`, that a decided dispute does not change, keeps both; `FieldInv` for the types |
| `ReportPublicationProofs` | `PublicationTypes`, `LinksAreStable`, `WithdrawalTakesGrants`, `PublicationImplementsDisclosure` | `PublicationInv`: a request past its checks acts for the director of its audit, so the grants on an audit are its director's, and what an erasure has collected is its creator's |
| | `ErasureReachesShared` | `EraseInv`: at each request of an erasure, every report shared before the callback is in the scope it has still to revoke, or is revoked |
| `ModelRegistryProofs` | `RegistryTypes`, `FirstChampionIsCovered`, `ChampionHasSuccessor`, `GatesWerePassed` | `RegistryInv` with `CanariesInv`: canaries never go away and each is anchored when it is inserted, so a count that was positive covers the promotion after it; `RegisterInv`: a registration records a challenger; `PassedInv`: a promotion past its checks is of a version that passed, now or before, which no registration undoes |
| `BillingAndScoringProofs` | `BillingTypeCorrect`, `CounterIsExact`, `UsageStaysEntitled`, `SubscribingKeepsThePlan` | `BillingInv`: the limit a reservation has read was an entitlement when it was read, and entitlements are remembered; the counter is the cardinality of the reservations that hold a unit |
| | `PayersAreServed` | `ServedInv`: no event in the mail tells of an end the provider has not reached, so a row that is no longer live is over, or was replaced by a later one of its user |
| | `CellsAreServed` | `ScoringInv`: a publication under way has taken the version after the newest of its cell, unless another has used that version; so of two that overlap one is refused, and retiring the others with the insert leaves one active row, the newest |
| | `ScoringTypes` | `ScoringInv` with `Graded` and `Usable`: a score is what the engine gave, and a band a run has resolved ascends. Under it, for sequences of any length: a sum of shares is at most their number times one (`Mean`), the deviation cut at a cap exists, a sorted sequence ascends and holds the values it sorts (`Sorted`, `InTime`, `PercentileCont`), and each subscore is a share |
| | `PurchaseGainsByGrowthAlone` | The rate of a post falls as its followers grow, so does the sum and the mean; authenticity falls with the estimated risk; every other factor but consistency reads no follower count beyond the two floors; with consistency as before the purchase, `LowerRateNeverHelps` and `ScoreFollowsFactors` |
| | `CorpusIsPeople` | `ScoringInv`: a `created_at` names one score, and the newest score of a person in a cell is therefore one, so as many observations as people are counted |
| | `AbsentHasNoVote` | A term of the composite is zero in numerator and denominator exactly when its factor has no support, which is what no weight for it would leave |
| | `ScoreFollowsFactors`, `LowerRateNeverHelps` | Truncating division by the same positive number keeps order; the bands' knots and rungs ascend, so interpolation does from one rung to the next (`PercentileGrows`), and each sum of terms with unchanged weights after it |
| `SessionsAndProfilesProofs` | `SessionTypeCorrect`, `OneSessionPerFamily`, `ReuseEndsTheKnown`, `SuspendedGetNothing`, `SessionsAreChains` | `SessionInv`: a rotation in its transaction locks the token it presents and no two share a lock; each session goes back to a sign-in that has issued one; what was known when reuse was noticed is revoked or among the rows the revocation has picked |
| | `InfluencerTypes`, `LoneWritesRepair` | `WriteInv`: two transactions under way hold different names, and two on one profile both know they overlap; what a transaction that overlaps none has computed is still the band of the rows it will leave |
| | `PagesAreWhole` | `WalkInv`: a reader has seen the list down to its cursor, as far as its filter let it through all along; positions in the list never change (`Steadfast`), any finite set of profiles has one order (`CanBeListed`), and the row fetched beyond the page tells whether there is more (`PageIs`) |
| `ConnectionsProofs` | `ConnectionsTypeCorrect`, `StatesAreSpentOnce`, `ConnectionsAreOwn`, `SignupsAreWhole`, `ProfilesAreOne`, `OwnersAreKept` | `Inv`: a callback that works was let past a state that is spent and its user's; each step of a sign-up knows what the steps before have left; a stored token is sealed for the row it is in; the profile it has found is the one its account is listed under |

The strengthenings are needed because no property is inductive: that no unit is
returned twice, say, holds only as the run that returns it is alone and has itself written
`failed`; that the counter covers delivered audits only because each of them still
holds a unit; that the comments share a salt only because a goroutine between its hash and its
ingest carries it; that a page misses nothing only because the cursor is the last row seen and
rows created meanwhile never were in the list before the walk began.

**Hypotheses about faults.** `TypeCorrect` holds under every budget of faults. The other theorems
of `AuditRunProofs` name the faults they exclude, and allow any number of all others:

| Hypothesis | No fault of the kinds | Theorems |
|---|---|---|
| `SingleRun` | `overlap`, `enqueueLost` | `InvariantHolds`, `RefundsAreUnique`, `DeliveryIsPaid`, `TerminalStays`, `AuditImplementsLedger` |
| `SubmitsKnow` | `reserveLost`, `undoError` | `OneChargeForKey` |
| `SubmitsKnowRows` | `reserveLost`, `undoError`, `createLost` | `RefusalIsClean` |
| `FailuresSettle` | `settleError`, `settleLost`, `crash` | `FailureIsRefunded` |
| `ScoresSettle` | `scoreLost`, `settleError`, `crash` | `StatusIsHonest` |

Without them the properties are false, for the reasons section 5 gives, so the hypotheses are
part of what is stated; `audit_guarded` and `audit_settles` are instances of them. The last two
say more than their runs: retries, lost enqueues and overlapping deliveries come in any number.

The theorems that one module implements an abstract one (`AuditImplementsLedger`,
`PublicationImplementsDisclosure`, `SessionsAreChains`) show that initial states map to initial
states and that each step maps to a step or a stutter.

**Induction.** Where an argument is by induction over data (the length of a plan, the size of a
set that is to be sorted, the newest of the readings) it is had from the least
counterexample: the naturals are well founded (`Least`, `LeastNatural`), and a smallest set that
cannot be listed could be listed once its last member is put back. The sums and concatenations
of the engine are folds: each is shown to have a table of its prefixes (`Running`, `Joined`),
and what holds of the first entry and is kept from one to the next holds of the last (`Climb`).
Sorting is stated by counting, so what is needed of it is that the k-th value exists
(`KthExists`) and does not fall with k. No module declares a RECURSIVE operator, and
`NewestFirst` is a choice among the orders of a set, for which that argument shows one exists.

**Only model-checked.** `EveryJobSettles` is liveness under fairness, which is out of the
prover's reach, as is ENABLED. Every other property of a passing run is a theorem.
`ModelServing` has no property that holds: its run shows a disagreement.

## 7. What is not modelled, and why

* Statistics over floating-point numbers (fraud heuristics, clique detection, validation of a
  trained model): TLC has no such numbers. Their results enter as choices. The scoring engine is
  modelled on thousandths, because its properties are about order and absence.
* Input and output without shared state: rendering, mail, parsing of provider answers,
  HTTP clients, the cipher's arithmetic. The PDF is modelled as the version it shows.
* Password hashing and the signed access token: an access token lives on after its
  session is revoked until it expires; nothing of the session table is in it.
* The bulk units of billing and the quota ledger of `connector/ratelimit`: no code uses them.
* Stubs (alerts, bulk audit, campaign, white label), single-row statements (waitlist,
  analytics), the cost dashboard and the queue monitor, which only read, front ends, generated
  clients, deployment.

## 8. Plan

The order puts first what can lose money, consent or a session.

1. *Done*: `AuditRun` with `UnitLedger`; `ReportPublication` with `Disclosure`; `ModelRegistry`
   with the canary intake; `Billing`; `AuthSessions` with `TokenChain`; `Connections` with both
   providers; the proofs of all of them.
2. *Done*: `ModelServing`; `PlatformPull` and `Collection` with the boot, the salt and the result
   page; `ScoreEngine` and `Scoring`; `Influencers`; `Labels`; the proofs of `Collection` and `Labels`.
3. *Done*: the remaining safety properties of the modules with proofs, and `Influencers`; all those
   of `Scoring`, with the arithmetic of the engine for snapshots of any length.
4. Composition of `Connections`, `AuthSessions` and `AuditRun` at the sign-up: the sessions and the
   audit that follow from one callback; `Collection` as a refinement of the step `FanOut`.
