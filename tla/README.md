# HEZO backend: TLA+ models

A verification project for the HEZO website-builder backend (FastAPI, SQLAlchemy async sessions, PostgreSQL,
DynamoDB and S3, several ECS tasks). The modules are translations of `app/`; wherever this text and
a module differ, the module counts.

Tools: `tlc -workers 2 -config X.cfg M` model-checks, `tlapm M_proofs.tla` checks proofs. `PROJECT.json` lists the
runs, the definition-to-source map, the mutants that each property must catch, the hazards and the theorems.

## 1. How the system runs, and what that means for the models

* A request runs on one event loop and one database session (`app/db/session.py:32-38`): it is one PostgreSQL
  transaction at READ COMMITTED, committed by the service (`await session.commit()`) or rolled back. In the models
  a transaction's writes show in the step that commits; every other way out writes nothing.
* `SELECT ... FOR UPDATE` (the repositories' `..._for_update`) waits for the row and then reads its committed
  state. Each lock is a step of its own, so everything may happen between two locks. Who holds a lock is read off
  the request's `pc` (and `held` in Sessions): a lock lives from the step that takes it to the end of the transaction.
* An unlocked read is a step too, and what it read is kept in `job[r]`: the SQLAlchemy identity map does the same.
  It gives a held object back *unchanged* when the row is selected again, which matters in EmailVerification.
* Between one and ten processes serve (`infra/ecs-autoscaling.sh:14-15`), so module-level state is per task (Onboarding).
* Services outside the repository (payment gateway, SMTP server, Step Functions pipeline, DynamoDB status table, S3,
  P3 build worker, chat and report agents, CloudWatch, ECS) are modelled from how `app/` uses them and are marked external in the map.

## 2. Inventory

| component | state | operations | what is hard | what makes it correct |
|---|---|---|---|---|
| Billing and subscriptions (`billing_service`, `subscription_service`, `toss_payments`) | payment_requests, billing_events, subscriptions; money at the gateway | checkout, confirm, development upgrade | two row locks held over a 30 s network call; late and lost answers; failed commits; retries | approved orders are paid in full and once; the audit trail matches; paid plans are earned; locks do not lose a plan change |
| Sessions (`auth_service`, `oauth_service`) | users, refresh_tokens | login, social login, refresh, reuse handling, logout, password change, deletion | refresh locks token then user, deletion user then tokens, reuse token then tokens; an UPDATE locks row by row | rotation yields a chain; deletion ends chains; every request ends |
| E-mail verification (`email_verification_service`, `smtp_email_service`) | users, email_verification_tokens, mails sent | request, confirm | user row locked during SMTP; decision on an object read before the lock; mail before commit | one usable link; stored links are known to the user; deleted or verified users are not served |
| Accounts (`auth_service.signup`, `oauth_service`, `user_service`) | users, social_accounts, subscriptions | sign-up, social sign-up, profile change, deletion, a login's new hash | look up first, insert later, two unique keys; deletion frees keys while sign-ups wait; a login stores a hash without looking at the account | a key has at most one account; no half accounts; the contact data of deleted rows stays erased |
| Sites and publication (`site_service`, `plan_policy_service`, `api/v1/sites.py`) | sites, subscription plan, pipeline executions, status item, `is_published` | create, update, delete, publish (local and pipeline), status polling, sync | unlocked first reads; counting under a lock; asynchronous pipeline; a sync nobody awaits | plan quota; valid type/module pairs; "published" was really deployed and gets synced |
| Onboarding (`api/v1/sites.py`) | answers in process memory, contract in S3 | save handlers, publish's contract part, restart, chat agent | memory of one of several tasks; check-then-put on S3 | a pipeline finds a contract in S3, the one it was started for unless somebody overwrote it |
| Preview (`api/v1/sites.py`) | two S3 objects per site, builds | create_preview with `_build_render_spec` and its parsers, worker | shared keys; a worker that outlives its caller; lists that arrive as one text, with separators inside prices and descriptions | a preview shows no page older than its own upload; one that meets no other says what the owner said; every preview ends |
| Monitoring (`api/v1/monitoring.py`) | report_scores items: measurements, scores, citations | snapshot, response-time, score and citation histories, the report agent | text sort keys of two kinds; days counted by date, query by hours | the histories are complete at every hour |
| Schema migrations and rolling deployment (`alembic/`, `Dockerfile`, `docs/dev-db.md`) | schema, `alembic_version`, tasks and their images | start, migrate, serve, replace, roll back, `downgrade -1` | every task migrates before it serves, together with others, over a database that older tasks use; deaths between steps; deadlocks with requests; rows that a new index forbids | the schema matches the version; where the unique index is, rows are unique; a new image comes to serve |
| Serving (`main.py`, `db/session.py`, `middleware/metrics.py`, `api/v1/health.py`, the chat proxy of `sites.py`) | connection pool, four proxy threads, latency window | request, chat, probe, record, flush | a connection is held during the agent's call; the probe shares the pool; flush by whoever finds 30 s gone; exceptions that pass the middleware by | each latency is in exactly one place until it is reported, dropped or lost; the percentile warns neither too early nor too late; every request ends |
| OAuth providers | none | code exchange | HTTP only | what they yield is any identity (Accounts) |
| Admin and plan listings, Redis helpers, settings, logging, scripts | read only, unused, or no state | | | not modelled |

How they meet: Billing's `change_plan` is the `ChangePlan` of Publishing; the deletion of an account is an action of Sessions, Accounts and
EmailVerification, each showing the tables it has; Onboarding's `BeginPublish ... StartPipeline` is the contract part of the publication
whose policy and execution part is Publishing; Preview reads the contract that the chat agent saves in Onboarding; the chain of revisions in
Deployment makes the tables, columns and constraints that the other modules count on, and its two kinds of transactions are those of
Sessions. The joint state that decides each of these interactions (plan row under the subscription lock, user row under the user lock) is in
the module that needs it; there is no single product model, whose state space would be out of reach.

## 3. Modules

Each component has one module with `Init`, one action per step, `Next`, `Spec` and its properties. Four have an
abstract specification beside them; `MC<module>` gives constants for TLC; `<module>_proofs` holds theorems.

```
PaidPlans    <-- Billing       <-- MCBilling, Billing_proofs
PublishQuota <-- Publishing    <-- MCPublishing, Publishing_proofs
Directory    <-- Accounts      <-- MCAccounts, Accounts_proofs
Credentials  <-- Sessions      <-- MCSessions, Sessions_proofs
RenderSpec   <-- Preview       <-- MCPreview, Site_proofs
                 Deployment, EmailVerification, Serving <-- MC..., ..._proofs
                 Onboarding, Monitoring                 <-- MC..., Site_proofs (as the instances O and M)
```

**Billing** (`Checkout`, `BeginConfirm`, `LockPayment`/`RejectPayment`, `LockSubscription`/`RejectSubscription`,
`Approval`/`Refusal`/`GatewayTimeout`, `Commit`/`CommitFails`, `Crash`, `UpgradePlan`; gateway: `TossCapture`, `TossDecline`,
`TossRepeat`, `LoseCall`). A confirm is `idle -> payment -> subscription -> toss -> commit -> idle`. `call[r]` is the
HTTP exchange and outlives the request, so money can be taken after the 30 s are over. `RepeatAnswers` leaves open what
the gateway says of an order it already captured; the code treats any answer but 200 alike. `Faults` names which
failures occur, so that a run can look at a world without them.

**PaidPlans** is the ledger Billing implements: opened, paid at most once, settled at most once and only after it was
paid, in the very step that puts the buyer on the plan.

**Sessions.** `revoke` steps through the rows of `UPDATE ... WHERE revoked_at IS NULL` as PostgreSQL does:
`todo` is what matched when the statement began, `held` what it has locked; a row revoked meanwhile no longer matches.
`DeadlockAbort` is PostgreSQL's deadlock detector: one transaction of a wait cycle is rolled back.
**Credentials** is what this promises without locks, waits and statements: a token signs one account in until it is exchanged or
withdrawn, an exchange takes one and gives one to the same account, and a closed account exchanges nothing and keeps no token
that it got in exchange. It may keep one that a login gave it meanwhile (a login takes no lock), which a refresh then refuses.

**EmailVerification.** `settings` is the deployment's, fixed from the start (production with SMTP, or development
without). `Mail` happens inside the transaction, before `CommitRequest`. `LockConfirm` keeps `job[r].seen` as first read.

**Accounts.** The unique constraints are `EmailInsertable` and `IdentityInsertable`: an insert waits for a transaction
that has inserted the same key and fails once that key is committed. `Tombstone` is the `deleted:<id>:<value>` form.
`AccountsAssumption` says that it is no address, identity or NULL: an address has no colon (`EmailStr`), and the social
repository itself tells the erased rows by that prefix. Four writers meet on a users row: sign-up, profile change, deletion, and a
login that renews an outdated hash (`BeginRehash`, `StoreHash`), the only one that neither locks the row nor looks at it again; its UPDATE
waits for the row like any other and then also writes to a deleted one.
**Directory** is the abstract view: keys are bound in one step, freed in one step, closed accounts never come back.

**Publishing.** `AwsEnabled` is "STEP_FUNCTIONS_ARN is set". Local: `AllowPublish` counts under the subscription lock and `WritePublish`
writes under it. AWS: `StartPipeline`, then `PipelineBuilds`, `PipelineEnds` outside, and a sync (polling, or the background task of `GET
/sites`), which reads the status (`BeginSync`), then the site (`ReadSync`/`NothingToSync`), and writes (`WriteSync`). `WriteUpdate` writes
only the columns that differ from what was read, as the session's flush does. Users are verified and have a subscription; deleting an
account leaves its sites alone and is not an action here. **PublishQuota** is what the policy promises.

**Onboarding.** `memory[t]` is `_site_onboarding` of task `t`. The S3 and Step Functions calls of publish are synchronous
boto3 calls, which block the loop of their task, hence handlers need `pc[t] = "idle"`; other tasks and the agent go on.
Handlers that store nothing the contract reads are left out, `SaveSlots` covers every subset of the slots. The contract of the chat agent
(`ChatCompiles`) may leave `core_services` blank, as some templates do; publish takes a contract it finds in S3 without a check.
`overtaken` is a history variable: who is about to start a pipeline after somebody else has written the contract.

**RenderSpec** is the pure part of a preview: `_build_render_spec` and the parsers `_to_list`, `_parse_service_items` and
`_parse_wine_lineup`. A slot has a text or a list of texts (`AsText`, `AsList`). A text is a sequence of words, separators being words; of a
word it is only known whether it begins with a digit (`Numbers`), which is what decides whether the part after a comma goes on with the
price before it.

**Preview.** An entry is what the owner told the chat agent; `ContractOf` (external) writes it into the slots, lists as lists or as texts in
the form that the parsers' docstrings ask for; `SpecOf` is what `create_preview` makes of that contract. So `Shows`
compares the two ends: what was said, and what the page of a preview that met no other says. `job[r].seen` is a history variable:
the specs that may have become a page since the preview uploaded its own; it met no other if this is only its own spec.
`told` is chosen once: the entries that the contracts of the site have in the course of a behaviour, at most `MaxTold` of them.
`Parsable` excepts wines named by a number, which section 5 is about.

**Deployment.** A revision is what it adds, what it needs, which tables it locks in which order, and what becomes of it where
its effects are there already. `alembic/env.py` never asks for a transaction per revision, so all that are missing run in one: `view` is
the schema as that transaction sees it, and `ApplyRevision` waits for another that has moved the row of
`alembic_version`. A version that matches no row (`RevisionOK`), an object that exists or, for the unique index of 0008, rows that do not fit
(`RowsFit`, `duplicates`) end the container. `traffic` is a
serving task's transaction, over the tables that Sessions locks in opposite orders; `asks` is PostgreSQL's lock queue: a request does not
pass a migration that waits for the same table. Deployments roll: `StartTask` adds a task of the current image while fewer than
`Desired` of it run, and `ReplaceTask` stops a serving task of another image only if `Desired` tasks serve without it. `Downgrade` is
the command of `docs/dev-db.md`, given at any time, tasks serving or not; it waits for the tables it changes and for a migration in flight.

**Serving.** A request has a connection from its first statement until it commits or ends. `chat` keeps it over the agent's call, which has
`Threads` threads, and which may end in an answer or raise (`EndCall`: what is done with the answer is outside the try); `health` takes one
from the same pool. The middleware is outermost: `record` and `flush` follow the answer, and `raise` goes past them. `recorded` is a history
variable: the requests whose latency was taken down. The percentile index is computed as `_flush` does.

**Monitoring.** The three histories share one table: measurements (with the hour in the key), scores and citations (by date only, from the
report agent). `BeginMeasure` leaves open what a measurement finds and whether DynamoDB answers. Time is a number of moments, `Day` of them
to a day. Sort keys are numbers in the order of the texts: `REPORT#<date>` sorts before all `REPORT#<date>T...` of that date.

## 4. Runs

State counts are distinct states. `CHECK_DEADLOCK FALSE` everywhere: token, order, site and link identities are finite
sets that get used up, and the real service may be idle too.

| run | instance | states | checks |
|---|---|---|---|
| `billing` | 1 user, 2 orders, 2 confirms, plans FREE/PRO/MAX, all faults | 75,317 | `TypeOK`, `ApprovedIsPaid`, `AuditTrail`, `PlanIsEarned`, `SubscriptionStable`, `ImplementsPaidPlans`, `ConfirmAnswered` |
| `billing_paid_not_upgraded` | 2 users, 2 orders, timeouts only | finding | `NoPaidButNotUpgraded` |
| `sessions` | 1 user, 3 tokens, 3 requests, outdated hashes | 50,810 | `TypeOK`, `SessionChain`, `DeletedHasNoChain`, `ImplementsCredentials`, `RequestsEnd` |
| `email` | 1 user, 3 links, 2 requests, both deployments | 175,612 | `TypeOK`, `OneUsableLink`, `LinksHandedOut`, `VerifiedByOwnLink`, `NoStaleDecision`, `RequestsAnswered` |
| `publishing_local` | 2 users, 3 sites, 3 requests, plans with 0, 1, 2 publications, symmetry | 108,901 | `TypeOK`, `ImplementsQuota` |
| `publishing_aws` | 1 site, 2 requests, 2 executions, 3 type/module pairs | 87,267 | `ValidPair`, `PublishedWasDeployed`, `PublishedIsSynced` |
| `accounts` | 3 users, 3 requests, 2 addresses, 1 identity, symmetry | 170,995 | `TypeOK`, `NoHalfAccounts`, `Erased`, `ImplementsDirectory` |
| `onboarding` | 2 tasks, 1 answer (and none), symmetry | 481,560 | `PipelineFindsContract` |
| `preview` | 2 requests, 2 builds, 5 entries, 1 or 2 of them per behaviour | 92,735 | `PreviewOfItsTime`, `LonePreviewFaithful`, `PreviewsEnd` |
| `monitoring` | 2 requests, 2 moments a day, histories of 2 days and 1 day, 6 moments, symmetry | 562,572 | `HistoryComplete` |
| `deployment` | 3 tasks, 2 desired, images of 3 and 10 revisions, 2 operations | 80,226 | `TypeOK`, `SchemaMatchesVersion`, `IndexMeansUnique`, `NewImageServes` |
| `serving` | 3 requests, 2 connections, 1 thread, a window of 2 | 124,360 | `TypeOK`, `CountedOnce`, `AlarmIsRight`, `RequestsEnd` |

The types of Onboarding, Preview and Monitoring are proved (`OnboardingTypeCorrect`, `PreviewTypeCorrect`, `MonitoringTypeCorrect`) and
not checked again by their runs.

Why these bounds are enough:

* Billing: interference is pairwise: two confirms of one order (payment lock), two confirms of one user (subscription
  lock), a confirm against `UpgradePlan`. Three plans give a dearer, a cheaper and the free one. One user, so that safety and
  liveness go in one run: a second adds no lock anyone waits for, and somebody else's order only a rejection. Every safety property
  of this run is proved for all users, orders and requests (section 6), and so is `RowsExclusive`, which no run checks.
* Sessions: three requests make every lock cycle there is (refresh/deletion, reuse/deletion, reuse/refresh, and a third to
  run into); three tokens make a chain of two rotations, or a chain and a login beside it.
* EmailVerification: one user, because rows of two users never meet; three links make a used or revoked one, the current
  one, and one being issued.
* Publishing: three sites reach the largest quota and one beyond; three requests are two publications racing a deletion or
  an update; two users, so that a request of one may name a site of the other. Sites only meet in the quota, so the pipeline is run
  with one, and two executions overlap.
* Accounts: three users and requests make a collision plus a re-use of the freed keys of a deleted account, or a deletion that overlaps
  a profile change and a login's new hash.
* Onboarding: two tasks are the least that can disagree. One answer, because the code only asks whether a slot is empty.
* Preview: one build may outlive its request while the other is called. An entry for each way to build a page: wines with a comma
  in the price, slashes in the description, without a description, and with the name only; five where four are shown;
  four services where three are shown, one of them named by a number; three projects and two activities where two and one are shown; a list
  of core services that have commas in them; and a wine named by its year, which the code gets wrong. `MaxTold` = 2 because what goes
  wrong between previews takes two contracts; every pair of entries is tried.
* Monitoring: the bound is `MaxTime`: three days, so that a day leaves each history while another is in it. Two moments
  a day: one that is midnight and one that is not.
* Deployment: two tasks race and a third serves the old image. The images ship 3 and 10 revisions, so that both a whole chain and
  most of one are run: the seven that differ lock tables of a running service, among them both tables of `Paths`, and fail, skip or repeat
  themselves on what exists; the first two run on an empty database. Two desired tasks and three places let a deployment roll. `MaxOps`
  bounds deployments, downgrades and crashes together; tasks are replaced and started without bound. What more of them might do
  to safety is proved.
* Serving: three requests use up two connections, one of them across the agent's call, and leave one that waits; a window of two
  overflows with the third. `P` = 50 makes the percentile of two latencies differ from their maximum.

What the passing runs show beyond the sentence at each property: `ApprovedIsPaid`/`AuditTrail` hold although commits fail and gateway
answers come late; `SubscriptionStable` says that the value read before the gateway call is still the one overwritten after it;
`DeletedHasNoChain` depends on locking the user before the tokens; `OneUsableLink` depends on the user lock and not on the tokens;
`ValidPair` survives column-wise writes only because the pairs are one-to-one; `HistoryComplete` holds because the query goes back a whole
day further than the days that are shown; `SchemaMatchesVersion` holds though the version is read long before it is moved, because the move
names the version it comes from; `NewImageServes` holds although tasks migrate at once, die and end each other's migrations, because a
container that exits is started again and old tasks serve until new ones do; it needs both of its hypotheses (that the rows fit and that
PostgreSQL does not roll back migrations for ever), and says so; `RequestsEnd` of Serving holds although a chat keeps its connection,
because the agent's answer needs none; `VerifiedByOwnLink` says that the two rows of a confirmation change together or not at all, though
the link it decides on was read before the wait; `ImplementsCredentials` holds step by step although the UPDATE of a deletion is many steps
and other requests commit between them; `LonePreviewFaithful` depends on the order in which commas and slashes are split, and does not hold
without `Parsable`; `PipelineFindsContract` holds because the contract is uploaded before the pipeline is started, and a failed upload ends
the request; `IndexMeansUnique` holds because building the index keeps writers out until the commit, two revisions later.

### Fairness

* Billing: WF of a request's own steps (the loop runs ready handlers, the HTTP client raises after 30 s) and SF of the two
  lock steps (PostgreSQL queues lock waiters in order of arrival). Nothing is assumed of the gateway.
* Sessions: SF of a request's steps for the same reason, WF of `DeadlockAbort` (`deadlock_timeout`).
* EmailVerification: SF of a request's steps, among them `MailFails`, the 10 s timeout of the SMTP client; nothing is assumed
  of the mail server.
* Publishing (`PublishedIsSynced` only): requests run on; the owner keeps polling (`docs`: every three seconds, SF of `BeginSync`);
  not every sync fails for ever (SF of `ReadSync` and `WriteSync`). Nothing is assumed of the pipeline.
* Deployment: WF that ECS starts or replaces tasks as long as it can (`StartTask`, `ReplaceTask`), that requests take their tables and end
  (`UseTable`, `EndTransaction`), and of the deadlock detector; SF of a migration's steps (PostgreSQL's lock queue). Nothing is assumed of
  which task ECS takes, of new requests, deployments, downgrades and crashes; the last three `MaxOps` ends. `NewImageServes` only speaks of
  behaviours in which in the end the image ships every revision the database has, no user has two active subscriptions, and no migration is
  chosen as the victim of a deadlock: while an old image serves, nothing in the code keeps PostgreSQL from choosing it again and again.
* Serving: WF of each request's next step; `PoolTimeout` (30 s) is not assumed, so `RequestsEnd` does not rest on throwing requests out.
* Preview: SF of a request's steps (`GiveUp` is the 120 s timeout); a build nobody waits for ends one way or another (WF of `WorkerDies`).

## 5. Where code and documents disagree

One disagreement is a run, with its quote under `findings`:

* `billing_paid_not_upgraded`. A gateway call that times out may still take the money: the order stays REQUESTED, every
  retry meets a captured order, and nothing reconciles. The comment at `billing_service.py:176-177` says the check before the
  call prevents "paid but not upgraded".

The others have a configuration that makes TLC show them; the property each one falsifies stands in the module with the
statement it quotes. The `...Claims.cfg` name several such properties, all but one of them as comments, since TLC stops at the first.

| configuration (module) | property | the statement | the code |
|---|---|---|---|
| `MCBillingClaims.cfg` (MCBilling) | `NeverDowngraded` | `docs/API_FEATURE_DEFINITION.md:805`: a confirm upgrades | an older order of a cheaper plan lowers the plan (`billing_service.py:219`) |
| `MCBillingClaims.cfg` (MCBilling) | `RepeatConfirmAnswered` | `:803`: already APPROVED returns the current state | 409 (`billing_service.py:155`) |
| `MCSessionsReuse.cfg` (MCSessions) | `ReuseRevokesAll` | `auth_service.py:141-142`: all tokens are revoked | a rotation that commits during the UPDATE is not seen |
| `MCSessionsRehash.cfg` (MCSessions) | `RehashKeepsPassword` | `auth_service.py:113`: renews the parameters | unlocked read, overwrites a newer hash (`:115`) |
| `MCEmailVerificationRevoked.cfg` (MCEmailVerification) | `RevokedLinksRejected` | `tests/test_email_verification_confirm.py:207-233` | the second SELECT returns the held object (`email_verification_service.py:122`) |
| `MCPublishingLimit.cfg` (MCPublishing) | `LimitAtPublish` | `sites.py:975`, `plan_policy_service.py:32`: the plan is checked | with a pipeline the `can_publish` answer is dropped (`sites.py:977`), and the sync sets `is_published` unchecked |
| `MCPublishingClaims.cfg` (MCPublishing) | `LimitAtCreate` | `docs/API_FEATURE_DEFINITION.md:346`: plan limit verified | none is (`site_service.py:59`) |
| `MCPublishingClaims.cfg` (MCPublishing) | `AvailabilityHonest` | `:414`: checks whether publishing is possible | looks at the flag only (`site_service.py:231`) |
| `MCPublishingStale.cfg` (MCPublishing) | `NoStaleSuccess` | `sites.py:1078`: polling shows progress | the item of an earlier execution is reported (`sites.py:170`) |
| `MCOnboardingClaims.cfg` (MCOnboarding) | `PagesMakeReady` | `docs/API_FEATURE_DEFINITION.md:624`, `:570`, `:578` | handlers store "services"/"contact", the contract reads "core_services"/"phone" (`sites.py:500`) |
| `MCOnboardingClaims.cfg` (MCOnboarding) | `AnswersKept` | `:558`: kept until restart | per task (`sites.py:234`) |
| `MCOnboardingClaims.cfg` (MCOnboarding) | `ChatContractKept` | `sites.py:988`: the chat's contract takes precedence | unconditional put (`sites.py:1021`) |
| `MCPreviewMixed.cfg` (MCPreview) | `PreviewShowsContract` | `sites.py:815` | shared keys (`sites.py:877`) |
| `MCPreviewDigits.cfg` (MCPreview) | `LonePreviewShowsNumbers` | `sites.py:280-281`: commas in prices are handled, entries are name/type/price/description | a wine whose name begins with a digit (a year) becomes part of the wine before it (`sites.py:294`) |
| `MCServingHealth.cfg` (MCServing) | `HealthHonest` | `health.py:31-33`: 503 when the database fails | also when the pool is used up (`health.py:24`) |
| `MCServingTail.cfg` (MCServing) | `TailSeen` | `infra/cloudwatch-slo-alarm.sh`: an alarm on the tail | one slow request of a small batch does not reach the percentile |
| `MCMonitoringCache.cfg` (MCMonitoring) | `RecentSnapshotFound` | `monitoring.py:275`: cache of the last 24 hours | `Limit=1` may return a score (`monitoring.py:286`) |

For four of these statements a theorem of section 6 says where the line is: what it takes to make the statement true again, or what
has to come together to make it false.

| statement | theorem | it holds |
|---|---|---|
| `NoPaidButNotUpgraded` | `PaidIsUpgraded` | as long as no call times out, no commit fails and no process dies; each of the three alone refutes it |
| `RehashKeepsPassword` | `RehashRaces` | unless hashing parameters were changed and the outdated hash a login read is replaced, or its account deleted, before it writes |
| `HealthHonest` | `ProbeHonest` | while there are no more requests than connections |
| `LimitAtPublish` | `LocalLimit` | without a pipeline |

## 6. Proofs

47 theorems are listed in `PROJECT.json`; all go the same way. An inductive invariant is the conjunction of named parts, one for each
thing a step relies on; `StepKinds` sorts the steps of `Next` by what they write, so that a proof has a handful of cases and not
thirty; one lemma for each part or each kind of step shows that it is preserved; the theorem joins them with PTL. Every inductive
invariant was checked by TLC on the instance of its run before it was proved.

| module | proved for every value of the constants | besides, what no run checks |
|---|---|---|
| `Billing_proofs` | all four invariants, `SubscriptionStable`, the refinement of PaidPlans | `RowsExclusive`; without faults `NoPaidButNotUpgraded` |
| `Publishing_proofs` | `TypeOK`, `ValidPair`, `PublishedWasDeployed` (with a pipeline), the refinement of PublishQuota (without) | `LimitAtPublish` (without a pipeline) |
| `Deployment_proofs` | all three invariants | one migration in flight; its tables are nobody else's |
| `Sessions_proofs` | all three invariants, the refinement of Credentials | row locks and tokens to be issued are exclusive; `RehashNeedsRace` |
| `EmailVerification_proofs` | all four invariants, `NoStaleDecision` | the row lock is exclusive and keeps the user row; a spent link stays spent |
| `Accounts_proofs` | all three invariants, the refinement of Directory | keys are unique, and so are inserted keys not committed yet; a deletion is alone with its account, and closes it for good, but for the password hash a login may still store |
| `Serving_proofs` | all three invariants | `HealthHonest` where the pool is large enough |
| `Site_proofs` | Preview: `PreviewOfItsTime`; Onboarding: `PipelineFindsContract`; Monitoring: `HistoryComplete` | the types of all three |

### Billing

`Billing_proofs` proves, for every set of users, orders, requests and plans, every price list, any answers to a repeat and
any combination of faults, from `BillingAssumption` alone:

| theorem | statement |
|---|---|
| `TypeCorrect` | `Spec => []TypeOK` |
| `ApprovedPaid` | `Spec => []ApprovedIsPaid` |
| `Audited` | `Spec => []AuditTrail` |
| `PlansEarned` | `Spec => []PlanIsEarned` |
| `LocksExclusive` | `Spec => []RowsExclusive` |
| `PlanStable` | `Spec => SubscriptionStable` |
| `Refinement` | `Spec => ImplementsPaidPlans` |
| `PaidIsUpgraded` | `Faults = {}` implies `Spec => []NoPaidButNotUpgraded` |

The invariant is `IInv`: `TypeOK`, `RowOK` of each order (a row is as checkout or a commit left it, so its amount is its
plan's price), `RequestOK` of each request, `RowsExclusive`, `ApprovedIsPaid`, `AuditTrail`, `PlanIsEarned`. None of the
last four is inductive alone. `RequestOK` is the heart: a request past the payment lock still sees what it has checked, because
only a holder of the lock approves the row; what is on the wire has the order's amount; an "ok" in hand means money captured
in that amount. It also speaks of calls whose request is gone, since a late capture must be right as well. `Commit` is
the step where all of it is used: approval, plan change and event are written for an order that `RequestOK` says is captured,
requested and of that amount. `TypeStep`, `RowStep`, `PaidStep`, `AuditStep`, `EarnedStep`, `ExclusiveStep` and `RequestStep` each
preserve one conjunct, `Inductive` joins them, and `Refinement` adds one lemma for each kind of step (`CheckoutOpens`,
`CapturePays`, `CommitSettles`, `UpgradeGrants`, `OthersStutter`).

`PaidIsUpgraded` is not about what the service guarantees but about what the finding of section 5 needs. `SafeInv` says that no call
is under way without its request, and `Settles` that money taken is approved already, or on its way (`Carries`) to a confirm that holds
the order and has no failure ahead of it. TLC refutes the statement with each fault alone, so the hypothesis is as weak as it can be.

### Publishing

`Publishing_proofs` proves, for every set of users, sites, requests, plans and modules (only `Sites` finite, so that counting
means something), every table of plan limits and every one-to-one table of modules and types, from `PublishingAssumption`:

| theorem | statement |
|---|---|
| `TypeCorrect` | `Spec => []TypeOK` |
| `PairsStayValid` | `Spec => []ValidPair` |
| `PublishedIsOnline` | `AwsEnabled` implies `Spec => []PublishedWasDeployed` |
| `Refinement` | `~AwsEnabled` implies `Spec => ImplementsQuota` |
| `LocalLimit` | `~AwsEnabled` implies `Spec => LimitAtPublish` |

`StepKinds` first sorts the steps of `Next` by what they write, so that each proof goes through a few kinds. `PairsStayValid` rests on
`PairInv`: `TypeOK`, `ValidPair` and `SeenPair`, which says that the row a request has read was a valid pair too. `ValidPair` alone is
not inductive: an update writes only the columns that differ from what it read, over whatever the row holds by then.
With the table one-to-one, the two columns differ from what was read together or not at all, so both are written or neither.

`Refinement` rests on `QuotaInv`: `TypeOK`, `NoPipeline` (nothing was ever built, so no status says
"published" and no request is a sync, which no guard of the code forbids), `Allowed` (a publication past its check may still publish now) and
`OneWriter` (no two such publications of one user). `Allowed` needs `OneWriter` when another publication is written, and the
subscription lock when a plan changes; deletions and updates only make room (`StaysAllowed`, by cardinality of subsets). `MapsInit` and
`MapsStep` then map each kind of step to `Publish`, `TakeDown`, `ChangePlan` or a stutter of PublishQuota. `LocalLimit` draws the
conclusion for the limit itself, that of the plan at the moment of writing: the set that a publication leaves has one site more than the one
`Allowed` speaks of. `MCPublishingLimit.cfg` refutes the same statement with a pipeline.

`PublishedIsOnline` rests on `DeployedInv`, the chain from the end of an execution to the flag: an item that says "published" is of a
deployed site, so is the job of a poll that has read it (before and after it reads the site), and with a pipeline nobody writes the flag in
another way. Either link alone may be stale by the time it is used; what makes that harmless is that `deployed` never shrinks.

### Deployment

`Deployment_proofs` proves, for any tasks, any set of images, and any number of deployments, downgrades and crashes, from
`DeploymentAssumption` (each image ships a prefix of the chain):

| theorem | statement |
|---|---|
| `SchemaFollowsVersion` | `Spec => []SchemaMatchesVersion` |
| `UniqueUnderIndex` | `Spec => []IndexMeansUnique` |
| `DeploymentTyped` | `Spec => []TypeOK` |
| `MigrationAlone` | table locks are exclusive among migrations and against requests; one migration at most is in flight |

The invariant is `SchemaInv`: types, `SchemaMatchesVersion` and `Ahead` (a migration in flight has read the version that still holds, sees
what a database has after as many revisions as it has run, and is the only one in flight). `SchemaMatchesVersion` alone says nothing of what
a commit will write; `Ahead` does, and it holds because a revision runs only when nobody else is in flight and, if it is the first, only
from the version that was read. `OneTask` shows once what an action that changes one task has to establish; each action has a lemma. A
downgrade takes back one revision exactly because no two revisions add the same object (`AddsDisjoint`), which is read off the chain, and it
never meets a migration in flight, whose move of the version row it waits for. The types of the requests' transactions are an invariant of
their own, `TrafficInv`. `MigrationAlone` adds `TablesApart`: `HeldStep` and `TrafficStep` show that only `LockTable` adds to what a task
has locked, and that a transaction comes to use one table at a time, which it may use (`Takes`), so that just these two guards matter. `UniqueUnderIndex` rests on `UniqueInv`: a
migration that has built the index found no duplicates, and holds the subscriptions table until it commits (`Builds`), unless the index is
in the schema already. Without the lock another task's request could write between the two.

### Sessions

`Sessions_proofs`, for any users, tokens, requests and passwords, from `SessionsAssumption` (names are distinct):

| theorem | statement |
|---|---|
| `TypeCorrect` | `Spec => []TypeOK` |
| `RotatedOnce` | `Spec => []SessionChain` |
| `DeletionIsComplete` | `Spec => []DeletedHasNoChain` |
| `RowLocks` | one request at a time holds a token's row, and issues a token |
| `Refinement` | `Spec => ImplementsCredentials` |
| `RehashRaces` | `Spec => RehashNeedsRace` |

`SessionsInv` adds to the properties: `HeldApart` (a row lock is one request's), `Issues` (the token a request will insert is nobody
else's), `Rotates` (a refresh that waits for the user row still holds its token, and the token still lives) and `Catches` (a deletion past
the user lock has every rotated live token of the user locked or ahead of it). `Catches` is what makes `DeletedHasNoChain` inductive: a
rotation that commits behind the back of the UPDATE would have to hold the user row at the same time. If the deletion did not lock the user
before it reads the tokens, the step of `Rotate` would break it.

`Refinement` rests on `PromiseInv`: `SessionsInv`, `Owns` (what a request presents, has locked or will look at are tokens of its own
user) and `Closes` (a deletion past its lock is of a live account and the only one). A commit of `RevokeDone` withdraws exactly the rows it
has locked; that these contain every token got in exchange is `Catches` once more, now as a guard of `Close`. `RehashRaces` rests on
`RehashInv`: a login that will store a new hash has seen an outdated one, and either the row still has the password it checked or
the row has been written since, which leaves a new hash, or a deleted account (`RowChange`).

### E-mail verification

`EmailVerification_proofs`, for any users, links, requests and deployments, from `EmailAssumption`:

| theorem | statement |
|---|---|
| `TypeCorrect` | `Spec => []TypeOK` |
| `OneLinkPerUser` | `Spec => []OneUsableLink` |
| `StoredLinksHandedOut` | `Spec => []LinksHandedOut` |
| `DecisionsInTime` | `Spec => NoStaleDecision` |
| `VerifiedMeansUsed` | `Spec => []VerifiedByOwnLink` |
| `RowLocked` | two requests past the lock are about two users; a locked user row does not change |
| `SpentStaysSpent` | a used, revoked or expired link never works again, and keeps its user |

`OneUsableLink` is about the table, and a request decides before it mails and writes after. So `EmailInv` has `Exclusive` (two requests past
the lock are about two users) and `Decided`: the links a request is going to revoke are still all that work, and its user is still neither
deleted nor verified, for as long as the mail server takes. `OwnLink` keeps the new link out of every other request, `Mailed` and
`Confirms` carry what `LinksHandedOut` and the confirmation need. `VerifiedMeansUsed` is inductive beside `EmailInv`: `ConfirmEffect`
and `OtherEffect` say which steps change who is verified and what is used, and `Confirms` that the user a confirmation has locked
is that of its link. That a revoked link may still be accepted (section 5) does not contradict `SpentStaysSpent`: the link does not
work again, the confirmation works with what it read.

### Accounts

`Accounts_proofs`, for any users, requests, addresses and identities, from `AccountsAssumption`:

| theorem | statement |
|---|---|
| `TypeCorrect` | `Spec => []TypeOK` |
| `AccountsWhole` | `Spec => []NoHalfAccounts` |
| `DeletedStayErased` | `Spec => []Erased` |
| `UniqueKeys` | no two rows, and no row and no sign-up past its insert, have the same address or identity |
| `Refinement` | `Spec => ImplementsDirectory` |
| `ClosedForGood` | a deletion past its lock is alone with its account, only such a one closes an account; a closed one stays closed, changed only by a login's new hash |

`KeysUnique` is not inductive without `Reserves`: a key that was inserted, and which others cannot see yet, is free in the table and in no
other transaction until it is committed. `SignsUp` says that the row a sign-up will write is nobody's, `Erases` that a deletion past its
lock is of a live user and the only one, `Stores` that a login writes its hash to a row that exists. For the refinement `OwnersRight`
characterises `OwnerOf`, which is a CHOOSE over the rows; `SignupRegisters` and `DeleteRemoves` show that a commit binds or frees the
address and the identity in one step.

### Serving

`Serving_proofs`, for any requests, pool, executor, window and percentile, from `ServingAssumption`:

| theorem | statement |
|---|---|
| `TypeCorrect` | `Spec => []TypeOK` |
| `LatenciesCountedOnce` | `Spec => []CountedOnce` |
| `AlarmOnTime` | `Spec => []AlarmIsRight` |
| `ProbeHonest` | as many connections as requests imply `Spec => HealthHonest` |

`CountedOnce` is exact: every recorded latency is in the window, in one batch, reported or gone, and in no two of these. `ServingInv` adds
`RecordedAtEnd` (a latency that is anywhere belongs to a request that has left the application, so that a recording request's is nowhere
yet), `GoodWindow` (the window has as many latencies as requests) and `Batches` (who flushes has something to flush). `AppendWindow`,
`TailWindow` and `KeptWindow` say what the full window keeps and drops; `SlowAndFast` and `Percentile` are the arithmetic behind
`AlarmIsRight`, in both directions, for every batch length and every percentile; the run has batches of one and two. `ProbeHonest` is a
counting argument: `WaitsWithout` (who waits for a connection has none) leaves one in a pool as large as the set of requests
(`ConnectionLeft`), so that only the database can make the probe fail.

### Site: Preview, Onboarding, Monitoring

`Site_proofs` extends Preview and instantiates Onboarding (`O`) and Monitoring (`M`), three parts of what the service does for one site:

| theorem | statement | hypothesis |
|---|---|---|
| `PreviewTypeCorrect` | `Spec => []TypeOK` | `PreviewAssumption` |
| `PreviewIsOfItsTime` | `Spec => []PreviewOfItsTime` | `PreviewAssumption` |
| `OnboardingTypeCorrect` | `O!Spec => []O!TypeOK` | none |
| `ContractAtStart` | `O!Spec => []O!PipelineFindsContract` | none |
| `MonitoringTypeCorrect` | `M!Spec => []M!TypeOK` | `MonitoringConstants` |
| `ResponsesShown` | `M!Spec => []M!ResponsesComplete` | `MonitoringConstants` |
| `HistoriesShown` | `M!Spec => []M!HistoryComplete` | `MonitoringConstants` |

Preview: `Timely` says that from a preview's upload on, the spec in S3, what builds have in hand and, once it has its answer, the page are
among those it has seen; `Owners` that whatever a preview is about is one of the site's contracts, and `Fed` that no build is called before
there is a spec. Nothing is assumed of the parsers: what they make of a contract, and so `LonePreviewFaithful`, is model-checked only.
Onboarding: `PipelineFindsContract` is inductive beside the types; both writers of the contract, publish and the chat agent, mark those whom
they overtake. The hypotheses about constants are those that the modules assume. Monitoring: by `QueryReachesFirstDay`, an inequality over
integer division, a measurement of the first day shown is never older than the query reaches; `LoadedHistory` says what the query over sort
keys returns. For the scores and citations, `OrderExists` and `OrderComplete` show that a finite set of numbers of any size can be listed in
order, and that such a list misses none of them: the place of a number is how many of the set it is not below. `LastPlace` finds the newest
item with a `geo_file_score`; it is where an induction would stand, and takes the least counterexample instead (`WFMin` of the library).

### What is model-checked only

* Liveness (`ConfirmAnswered`, both `RequestsEnd`, `RequestsAnswered`, `PublishedIsSynced`, `PreviewsEnd`, `NewImageServes`): it needs
  fairness and ENABLED, which this prover does not handle.
* What the parsers of RenderSpec make of a text, and with it `LonePreviewFaithful`: they are folds over it. That a recursive function
  satisfies its defining equation is a theorem of the library whose parameter is an operator, which no backend can instantiate; `SelectSeq`
  and `SortSeq` are built in and opaque to it.
* The statements of section 5 are refuted by TLC; what is proved of them are the boundaries listed there.

Nothing is assumed without being checked: TLC evaluates every ASSUME.

## 7. Not modelled

* Names, texts, layout: only what the properties tell apart. Prices are numbers, a plan is its code, a contract is the set of its
  non-empty slots, a page is its heading and items; the FAQ, the search-engine texts and the quick answer are left out.
* The contract from a task's memory in a preview: it has the name and the core services, which is the `general` entry.
* Templates that are built as another one is: one stands for each way to build a page.
* A downgrade that fails (the DELETE of 0002's under plans in use): it has changed nothing. Of a task that serves over a downgraded
  schema, requests fail where a table is gone; columns are not looked at.
* Listings, usage, `/admin`, plan catalogue: they only read.
* That handlers call boto3 without a thread and stop the event loop of their task meanwhile: Onboarding uses it, Serving does not
  (it would only make requests wait for each other less finely).
* The clock, except in Monitoring: tokens, links and time limits may expire at any time.
* The name of an execution (one per second) and its refusal: any failed start.
* DynamoDB paging (1 MB), and the measurement itself, bot counts, action items and infrastructure metrics.
* Which columns and indexes a revision writes beyond what a later one or the code asks for; alembic's offline mode.
* The Redis helpers (no caller), infrastructure scripts, load tests.
* `update_status` and `get_by_pg_request_id` of the payment repository: no caller.

## 8. Plan

1. Done: the ten modules of section 3 with their runs and, but for what section 6 lists as model-checked only, the proofs of
   their safety properties and of the four refinements.
2. Done: the action properties behind the invariants (a spent link never works again, a token once revoked stays revoked by the
   refinement of Credentials, a closed account stays closed), the exclusion of the row locks, and the boundaries
   of section 5. Open: a boundary for `RecentSnapshotFound`, by the hours at which the report agent runs.
3. More composition: Accounts and Sessions over one users table; Onboarding and Publishing over one publication.
