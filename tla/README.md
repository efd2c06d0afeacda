# A TLA+ verification of the Yuri analytics acquisition system

The repository collects public metadata of yuri works (a tightly governed Pixiv
acquisition path and a JJWXC collector), stores immutable observations and
snapshots in PostgreSQL and serves analytics through a read API and a web front
end.  This directory models the parts of it that can be wrong in ways a test
hardly reaches: processes that share rows, transactions that fail, workers that
die, documents that change between two reads, clients that page through a list
while it moves, and aggregations that must agree with one another.  Paths below
are relative to `src/pixiv_yuri/` of the repository.

Every module is checked by TLC on a small instance (`MC*` modules and `.cfg`
files) and, where the prover reaches it, proved for all values of its constants
(`*Proofs` modules).

    tlc -workers 2 -config LiveAttempt_contend.cfg MCLiveAttempt
    tlapm LiveAttemptProofs.tla

## 1. Inventory

| Component | State it keeps | Operations | Interacts with | What is hard |
|---|---|---|---|---|
| Live one-request path (`governance/live_one_request_composition.py`, `acquisition/live_attempt_coordinator.py`, `durable_external_sender.py`, `journal_bound_provider_executor.py`, `external_transport.py`) | slot, journal and permit rows; a process-local lease and two one-use capabilities | plan, claim slot, claim journal, authorize and mark, verify, reveal, send, settle, complete, resolve | PostgreSQL, the reconciler, other processes with the same approval | at most one request for ever, through crashes, lost acknowledgements and a reconciler that cannot know whether the process lives |
| Live-slot reconciler (`acquisition/live_slot_reconciler.py`, `live_attempt_report.py`) | none | recover a journal without resending, consume its permit, resolve its slot | the three tables above | it races the coordinator, and may die between its transactions |
| Governance gates (`governance/g0.py`, `source_endpoint_*.py`, `launch_review.py`, `live_*.py`, `first_sample_dry_run.py`) | approval, evidence, contract and review files; capabilities with deadlines | finalize a contract, review a launch, go through the gates, rehearse | the live path, people who edit the files | files and clock move between the load and the request |
| Persistent safety (`acquisition/persistent_safety.py`) and the permit-guarded transport (`external_transport.py`) | run budgets, daily budgets, permits, stop events | initialize, authorize, fetch, record a response or a failure, stop | every fetching process of an approval | limits shared by runs, time read before the lock, latch races, settlement that fails |
| AuthorV import queue (`jjwxc/author_v_jobs.py`, `author_v_worker.py`, `author_v_import.py`) | crawl runs and tasks with leases | enqueue, process next, retry, status | the worker, the API, the snapshot store | expired leases of workers that are still alive |
| Discovery queue (`jjwxc/catalog_collector.py`, `cohort_import.py`) | discovery records | discover, queue a cohort, hydrate | source cache, snapshot store | a process that dies with a record running, two collectors at once |
| Snapshot store, source cache (`jjwxc/snapshot_store.py`, `source_cache.py`) | author, novel and snapshot rows; files with a lifetime | store, fetch | both queues | same observation time with other values |
| Ingest ledger and catalog projection (`ingest/service.py`, `ingest/cli.py`, `data_quality/validation.py`, `analytics/projection.py`) | runs, tasks, source records, observations, quarantine; authors, works, tags, metric snapshots | ingest a manifest, validate, project | PostgreSQL, the read API | replays of old manifests under other policies, one transaction for both |
| Read API (`api/catalog_api.py`, `detail_api.py`, `read_api.py`, `operations_read_api.py`, `cursor.py`) | none; the cursor is with the client | list, rank, walk page by page | the catalog, while it is written | rows that move between two pages, equal and fractional scores |
| Analytics (`api/author_analytics.py`, `api/tag_analytics.py`, `analytics/author_influence.py`, `tag_associations.py`, `tag_sensitivity.py`) | none | profiles, trends, growth, quality map, influence, tag graph | the catalog | integer rounding, missing counts, answers cut to a limit |
| API operations (`api/app.py`, `auth.py`, `operations.py`, `postgres_operations.py`) | fixed windows per consumer, access audit | authorize, check, serve, record, purge | worker processes | late clocks, capacity, a limiter that fails |
| Publication and deployment reviews (`deployment/*.py`, `api/publication_review.py`, `api/phase2_review.py`, `analytics/phase5_review.py`) | saved reports | review, assemble, bind, readiness | one another, by saved files | a report is older than what it speaks of |
| In-process safety controller (`acquisition/safety.py`), acquisition pipeline and ordered ingest (`acquisition/pipeline.py`, `ingest/ordered_pipeline.py`) | counters; bounded queues | - | tests, smoke commands and benchmarks only | - |
| Parsers, Pixiv provider and OAuth, anonymous public gate, browser export import and candidate review, schema probe, jjwxc API and analytics, web, extensions | none that several actors share | - | - | sequential |

The hazards of the code, each at its line and with the properties that would
catch it going wrong, are listed in `PROJECT.json`.

## 2. Modules

| Module | What it is | Proved in |
|---|---|---|
| `OneShot` | abstract promise of the live path: an approval is spent once, its owner sends at most once, the verdict is given once | - |
| `LiveAttempt` | composition, coordinator, sender, broker and reconciler on shared tables; implements `OneShot` | `LiveAttemptProofs` |
| `LaunchGate` | the documents and gates before a live request, with files and clock moving under them | `LaunchGateProofs` |
| `RequestBudget` | persistent safety under concurrent fetches of one approval | `RequestBudgetProofs` |
| `AuthorVQueue` | leases, retries and verdicts of the import queue | `AuthorVQueueProofs` |
| `DiscoveryQueue` | discovery records, hydration, targeted runs and cohorts, day after day | `DiscoveryQueueProofs` |
| `ApiGate` | authorizer, rate limiter, audit and purge of the API workers | `ApiGateProofs` |
| `Publication` | the reviews from evidence and manifest to the readiness matrix | `PublicationProofs` |
| `Catalog` | the ingest command: ledger and projection | `CatalogProofs` |
| `AuthorAnalytics`, `TagAnalytics` | the analytics endpoints as functions of the catalog (`TagAnalytics` EXTENDS `AuthorAnalytics` EXTENDS `Catalog`) | `CatalogProofs` |
| `CatalogApi` | a client's walk through a listing while commands commit (EXTENDS `TagAnalytics`) | `CatalogProofs` |
| `MC*` | constants of the instances; no module defines behaviour there | - |

`LiveAttempt` takes what `RequestBudget` and `LaunchGate` decide as a free
choice, so each of the three can be read alone: the first asks how often a
request can leave, the second how many of them, the third under which documents.
No module uses a RECURSIVE operator: sums are folds over sets, and a sorted list
is the function from ranks to elements (`Ranked` in `Catalog`), so that TLC can
evaluate the algorithms and the prover can reason about them.

In every module a definition whose comment begins with `Mutant` is a plausible
bug of the definition it stands before.  It is used by nothing: replacing the
definition by it must make the named property fail.

## 3. The models

### LiveAttempt

A *composer* is one call of `run_live_one_request_composition`; a restarted
process is another composer.  Because a call inserts at most one slot, journal
and permit, rows are named by their composer.  Each database transaction is one
action: in the code it takes row locks or the approval's advisory lock on what
it decides by.  A transaction ends `ok`, `abort` (rolled back, the caller sees
an exception) or `lost_ack` (committed, the caller sees an exception), as far
as the constant `Fault` allows.  Between any two actions a composer may crash.

| Code | Actions |
|---|---|
| `_precheck`, confirmation | `Precheck` |
| `FirstRequestSlotService.claim / complete / fail` | `ClaimSlot`, `ResolveSlot` |
| enablement, readiness, capabilities | `Arm` |
| `JournalBoundLiveAttemptCoordinator.execute` | `ClaimJournal`, `StartSend` or `RefuseSend`, `FailJournal`, `Recheck`, `Abandon`, `Terminalize`, `SendFailed`, `RecordResponse`, `Settle`, `Process`, `FailSettled`, `CompleteJournal`, `MarkIndeterminate`, `Recover` |
| `DurableMarkerExternalSender.send` | `CheckLease`, `VerifyMarker` |
| `ExternalSessionBroker.fetch` | `Reveal`, `OpenRequest`, `ReadResponse` |
| `LiveSlotReconciliationService.reconcile` | `ReconcileJournal`, `ConsumeUncertainPermit`, `ReconcileSlot`, `RCrash` |

A response is `success` (2xx), `denied` (403, 429) or `other`; when a limit
refuses an authorization and when windows and approvals expire is a free choice
where the code looks.

* `contend` - two composers of one approval in two runs, two reconcilers, both
  kinds of database fault.  At most one send (`AtMostOneSend`); a journal failed
  after a send has a known response (`FailedMeansKnown`); a completed slot is
  earned (`CompletedMeansSuccess`); `in_flight_count` is exact although
  coordinator and reconciler race to consume the permit (`InFlightCount`);
  status columns only move forward (`OneWay`); and the system implements
  `OneShot` (`ImplementsOneShot`, a refinement mapping).  Two composers and two
  reconcilers are the least that give every race of the code: two claimants of
  an approval, a coordinator against a reconciler, two reconcilers of a journal.
* `recover` - two composers of one run, one reconciler, crashes but no database
  fault, under `FairSpec`: `JournalsAreResolved` (every journal ends, whoever
  died), `ClaimedSlotsAreAccounted` (a slot stays claimed only after a death of
  its process, before its journal existed or behind a journal that is terminal)
  and `FailedSlotIsFinal` (a slot given up as failed has no journal that is open
  or completed).  With lost acknowledgements the last is false: the journal may
  have completed in a commit the coordinator did not see.

Fairness: weak fairness of each composer's own steps (a live process goes on;
`Crash` is the other way out), weak fairness of a reconciliation that has begun,
and strong fairness of beginning one for the journals that
`live_attempt_report.py` lists, which are those not terminal
(`UnresolvedAttempts`).  That is an assumption about operators: they read the
report and run the reconciler again if it dies.  A terminal journal with a
claimed slot is on no list (`live_attempt_report.py:16`, `:79-98`), so nobody is
assumed to reconcile it; a reconciler may, and the model lets it.

### LaunchGate

Operators run the composition, live or as a rehearsal, while an owner rewrites
the approval file, a reviewer the evidence, and the command line tools make a
contract and a launch review of them.  A document stands for its own SHA-256.

| Code | Actions |
|---|---|
| an editor; `source_endpoint_review` `main` | `WriteApproval`, `WriteEvidence`, `FinalizeContract` |
| `launch_review` `main` | `LaunchReview` |
| loading of the documents, `_precheck` | `Load`, `Precheck` |
| typed challenge | `Prompt`, `Confirm` |
| `FirstRequestSlotService` | `ClaimSlot`, `Resolve` |
| live enablement, readiness latch, endpoint binding, live execution capability | `Arm`, `BindReadiness`, `BindEndpoint`, `Execute` |
| the guarded provider, then journal, permit and request (`journal_bound_provider_executor.py:119-175`) | `Guard`, `ClaimJournal`, `Authorize`, `Send`; `Rehearse` for a rehearsal |
| wall clock | `Tick` |

Run `launch`: two operators (symmetric), two approvals of different windows,
evidence of two dates, three ticks, five writes.  Five writes are what one
legal request needs (approval, evidence, contract, review) and one document
replaced under it; the deadlines are one to three ticks, so each can be the
first to pass.  `OneFetchPerApproval`, `FetchIsFresh`, `FetchIsReviewed`.

The properties say what the gates add up to, not what each checks.  The age of
the review is checked when readiness is bound and the contract's expiry when the
endpoint is bound, neither again.  The live capability is burnt before the
challenge ends (`Guard`); after that come the journal, a wait for the approval's
lock, the permit (which checks the approval at a stamp read before the lock), the
marker and the session, with the clock running between any two.  So the request
itself may leave after the challenge and after the approval have ended, and
`FetchIsFresh` bounds it by the session's window only: less than `SessionTtl`
after the prompt, less than `ReviewAge + SessionTtl` after the review.
`FetchIsReviewed` says what the endpoint, scope and approval of a request have to
do with each other, and dates them at the slot claim.

### RequestBudget

The permits and budgets of one approval.  Workers fetch for runs of the
approval.  An authorization takes the approval's advisory lock and a settlement
locks its permit and run rows, so each transaction is one action; the time it uses
was read before (`Begin` sets `stamp`), so workers authorize out of the order of
their stamps and across midnight.

| Code | Actions |
|---|---|
| `initialize` | `Initialize` |
| `authorize_request` (`_reserve_request_in_session`) | `Begin`, then `Grant`, `Exhaust` (a limit that stops the run) or `Refuse` (duplicate, stopped, deferred) |
| `record_response`, `record_transport_failure` | `RecordResponse`, `RecordTransportFailure` |
| a settlement that raises in `PermitGuardedExternalTransport.fetch` | `SettlementFails` |
| `stop_manually`, `signal_schema_drift` | `Halt` |
| wall clock, process death | `Tick`, `Crash` |

`hist` is a ghost: the response codes in the order they were recorded.

* `rate` - two workers of two runs with two keys each, four ticks, a window of
  two: `RateWindow`.  Four ticks are two whole windows, so a stale stamp may be
  a full window behind.
* `breaker` - two workers of one run, four keys, costs 1 and 2 over a day
  boundary in one month, two codes that deny (403, 429) beside transport failures,
  manual stops, failing settlements, and
  caps each of which can be the first to bind: `RequestCaps`, `SharedLimits`
  (what is in flight, also with permits that are never given back, and what was
  spent), `BreakerIsExact` (two denials in a row, by recorded order, stop the
  run and nothing else gives that reason), `StopIsFinal`.

Request keys are symmetric.

### AuthorVQueue

Jobs (a `CrawlRun` and its `CrawlTask`), worker processes and API calls that
retry.  A session keeps what it read (`expire_on_commit=False`), and only the
claim holds a row lock, so reading and writing are separate actions elsewhere:
what a worker or a caller writes may be about a row that has changed.  A commit
writes the columns whose value the session changed and no others (`Changed`,
`Flush`): after a failure the session has forgotten both rows, reads task and run
by two statements and may find one of them as it would leave it.

| Code | Actions |
|---|---|
| `enqueue_author_v_job` | `Enqueue` |
| `retry_author_v_job` | `RetryReadRun`, `RetryReadTask`, `RetryWrite` |
| `process_next_author_v_job`: expired leases | `Scan`, `Requeue` |
| ... claim with `FOR UPDATE SKIP LOCKED` | `Claim`, `NothingToDo` |
| `import_author_v_clicks`, `_import_one_novel`, `store_novel_snapshot` | `Import`, then `CommitImport` or `InsertFails` |
| ... verdict | `Succeed`; `FailReadTask`, `FailReadRun`, `FailWrite` |
| `author_v_worker.main` | `Leave` after every call, `Restart` |
| daily collection, clock, process death | `Refresh`, `Expire`, `Die` |

A lease may expire at any time, also under a worker that is alive; so a job may
be processed by two workers at once, and the model has those behaviours.
`public` counts the versions of a novel's public values, `snap` is the version
on which a job's snapshot was built: another version is another digest for the
same observation time, which the code calls a conflict.  Two jobs are taken to
have different observation times.  `attempts` stops at `RetryLimit`, which is
exact because it is only compared with it.

Run `races`: two workers, one caller, three attempts, one job of two novels, two
versions of the one and one of the other (`MaxVersion`), one death besides those
by the unique index.  `SucceededMeansImported`, `RunMatchesTask`,
`SnapshotsAreImmutable` and the liveness `JobsEnd`.  Two workers and one caller
are enough for two sessions to disagree about a row; two novels for an import of
which one part is rejected; three attempts for a failure that is read before a
retry and written after the next claim.  `doubled` is a ghost: the jobs that two
living workers had at once.  Of those, run and task may tell different stories,
and a task may be left running without a lease, where no scan finds it (`Lost`);
`RunMatchesTask` and `JobsEnd` except just these.  Fairness: workers are
processes under a restart policy and go on (weak fairness of `Work`), and time
passes (`Expire`); nothing is assumed of callers or of the daily collection.

### DiscoveryQueue

Records of novels, the daily collector, targeted collectors and cohort uploads.
Nobody locks a record.  Time is relative (`wait` until `next_fetch_at`, `age` of
a run), so the days have no end and liveness can be asked.

| Code | Actions |
|---|---|
| `collect_channel_catalog` up to its commit, `_upsert_discovery_queue` | `Discover` |
| `collect_targeted_cohort_queue` | `StartTargeted` |
| `_hydrate_discovery_queue` | `Select`, then per record `Mark`, `Store` or `FetchFails`; `Finish` |
| `queue_cohort_novels` | `CohortRead` (who has data), `CohortLookup` (the records), `CohortWrite` |
| clock, process death | `Tick`, `Die` |

A tick is a fraction of a day; a run lasts at most `MaxAge` ticks, which is at
most the six hours of `RetryAfter`.  The upsert is one step (its transaction is
short); everything that a network fetch separates is separate.  `orphans` is a
ghost: records whose collector died hydrating them and which nobody has
finished since.  That a record belongs to a cohort is read off its priority,
120, which only `queue_cohort_novels` gives.

Run `days`: a daily and a targeted collector, an upload, one death, and three
novels of different priority under a limit of two, so that a batch leaves
something out: `CompletedMeansReady`, and under `FairSpec` `HydrationEnds` and
`BacklogIsDone`.  Completed records are due again every day, so the batch may
go to the same two for ever; `BacklogIsDone` says that only as many records of no
lower priority as the limit (`Outranking`) can keep a pending one waiting.  With uploads without end the backlog
property would fail: each may move `next_fetch_at` behind the start of the run
that is about to select; the bound `MaxCalls` leaves that out.  Fairness: time
passes, the cron schedule starts the daily run once a day, and a collector that
does not die goes on.  Targeted runs and uploads are not assumed.

### Catalog, AuthorAnalytics, TagAnalytics, CatalogApi

`Catalog` has the ingest command.  A command is one transaction
(`session_scope` in `ingest/cli.py`), so it is one action, and what it writes is
a function of the manifest, the policy and the tables.

| Code | Definitions |
|---|---|
| `ingest_fixture_provider`, `_persist_response` | `Records`, `Crawl`, `Observations`, `Quarantined` |
| `data_quality.validation` | `Validate`, `Refused` |
| `project_fixture_catalog` | `Projectable`, `Lineage`, `Authors`, `Works`, `Snapshots`, `Tags`, `Links` |
| `pyuri-db ingest-fixtures` without a policy, with one, with one and a refusal | actions `IngestOnly`, `IngestAndProject`, `RollBack` |
| profile, trend, growth, quality map, influence endpoints | `AuthorProfile`, `MetricTrends`, `AuthorMetricTrends`, `Growth`, `QualityMap`, `Influence` |
| tag graph and sensitivity | `TagCooccurrence`, `TagAssociationSensitivity` |
| listings, rankings and cursors | `Rows`, `Before`, `EncodeCursor`, `After`, `PageRows`; actions `BeginWalk`, `NextPage`, `IngestCommand` |

Counts are small integers or `Null` (not shown by the source).  Ids follow the
order in which a command inserts, because listings are ordered by id.  `refused`,
`replayed` and the walk's `stable` are history.

Run `catalog` (`CatalogApi_catalog.cfg`): three works of two authors, four tags,
four manifests, three policies (none, a strict one, one that approves more),
three commands, and a walk with one row per page through any of thirteen
listings.  Three commands are what a correction of a replay takes; three works
of two authors are an average over more than one work, and equal scores in a
ranking.

* `WorkIsNewest` and `TagsFollowRow`: a work's row is its newest observation
  however manifests are replayed; its tags follow the row unless the last replay
  was older, because the loop that replaces links does not compare times.
* `ReviewsAreQueued`: every observation in quarantine has its review item, though
  its verdict may come with a later command than itself, and no error of it has
  two, however often it is replayed.
* `WalkIsExact`: a client sees each row that did not move exactly once.
* `ViewsReconcile`, `TrendsAddUp`, `SampleIsHalved`, `InfluenceIsMonotone`,
  `SensitivityIsNested`: endpoints that count the same works differently agree,
  in every catalog the commands can produce.

A profile is three statements of one READ COMMITTED session, and the model
evaluates them on one catalog: its answers are those of a profile during which no
command commits, and `ViewsReconcile` claims nothing of the others.  Its list of
tags is cut at ten in the code and at one in the run (`ProfileTagLimit`), so that
the cut binds.  A sample with a work of more than 64 tags (three in the runs, and
none of their works has more) makes the two graph endpoints fail (`Answerable`).

`averages` (`CatalogApi_averages.cfg`) and `quarantine` (`Catalog_quarantine.cfg`,
the commands alone, `CatalogSpec`) are expected violations, see findings.

Two abstractions of the tag graph: a PMI is compared as the exact fraction whose
logarithm the code rounds to milli-bits, and works of a sample carry one creation
time, so that the last of them are those of the greatest ids.

### ApiGate

The middleware of the worker processes.  A worker decides one request at a time
and serves several; the limiter reads the clock, then locks the consumer's row,
and under an advisory lock counts and inserts new consumers.  Which workers have
the shared controls (`PYURI_SHARED_CONSUMER_CONTROLS_ENABLED`, off by default) is
chosen per worker at the start: one without them sends an authenticated request
straight to its endpoint (`Entry`), charges nobody and logs its decisions.

| Code | Actions |
|---|---|
| middleware up to the limiter, `TrustedHmacProxyAuthorizer` | `Arrive` |
| `PostgresFixedWindowConsumerRateLimiter.check` | `Select`, `Lock`, `Insert` (each with `Commits`: ok, abort, answer lost) |
| endpoint and `PostgresConsumerAccessAuditor.record` | `Finish` |
| purge of the audit | `PurgeExpired` |
| clock, process death | `Tick`, `Die` |

Run `serve`: two workers, two consumers, two requests in flight, two windows of
two ticks, one request per window, room for one consumer.  `WindowAllowance`,
`CapacityKept`, `AnswersAreEarned`, `AuditIsKept`, `RequestsEnd`; deadlock is
checked.  The eight-worker smoke of `docs/phase2-operations.md:12` shows the
exact limit inside one window.  Across a boundary a late worker may put the row
back, and the bound the model confirms is `(MaxRequests + 1) * workers - 1`; one
worker keeps the limit exactly.  Fairness: a worker goes on with its request
(weak fairness of `Step`) and PostgreSQL serves waiters for a lock in the order
they came (strong fairness of `Acquire`).

### Publication

Each review command reads saved reports and writes one.  A document stands for
its hash; a control that concerns one document only and no date is its field
`sound`.

| Code | Actions |
|---|---|
| an editor, and the draft commands with `--force` | `WriteEvidence`, `WriteManifest` |
| `api/phase2_review.py`, `analytics/phase5_review.py` | `ReviewPhase2`, `ReviewPhase5` (in `Phase5Step`) |
| `deployment/production_evidence.py`, `api/publication_review.py` | `ReviewEvidence`, `ReviewPublication` |
| `deployment/production_publication_binding.py` | `AssembleArtifact`, `Bind` |
| `deployment/readiness.py` | `ReviewReadiness` |

Run `publish`: two deployments whose evidence runs out at different times, one
with an unsound manifest, two times, five writes: `BoundIsApproved`.  The numbers
of API paths are the program's own, 36 for phase 2 (`api/contract.py:16`) and 25
for phase 5 (`analytics/phase5_review.py:16`).  No contract passes both, so no
readiness matrix says ready; `ReviewReadiness` is modelled, and no property is
stated of what it can never reach.

Deadlock checking is off wherever processes end or a bound stops the clock, the
writes or the commands.

## 4. Proofs

Each `*Proofs` module states an inductive invariant's three facts and derives
the properties from it, one lemma per action.  The assumptions are the named
ones of the component's module: types of the constants, finiteness of sets that
are counted.

`LiveAttemptProofs`: for any composers, reconcilers, approvals, runs, keys,
leases and faults, `IInv` is inductive, and from it follow `TypeOK`,
`AtMostOneSend`, `OneSendPerLease`, `FailedMeansKnown`, `SendLeavesTrace`,
`CompletedMeansSuccess`, `ReportHonest`, `OneWay`, `InFlightCount` and the
refinement of `OneShot`.  The properties alone are not inductive: that no second
send happens needs to know that a slot row of any status blocks its approval
(`OneSlotPerApproval`), how far a composer's step is reflected in the tables
(`ProgressInv`), what the tables imply of one another (`TablesInv`), who spent a
lease (`LeaseInv`), and that what a reconciler read stays true because terminal
states are final (`ReconcilerInv`).  `InFlightCount` is proved on top, from
cardinality facts.

`RequestBudgetProofs`: `BudgetInv` is inductive - types, that a worker wants
permits of its own run only (`WantsOwn`), that the counters equal the number of
permits of the run and of the day and respect the caps (`CountersExact`),
`RateWindow` and `OneStopEvent`.  From it `TypeOK`, `RateWindow`, `RequestCaps`,
`OneStopEvent` and `StopIsFinal` for any number of workers, runs, keys, days and
any caps.  The rate argument: the code counts every permit newer than a minute
before the worker's stamp, later ones included, so the new permit lies in no
minute that was already full.  `BreakerIsExact` needs that a run's streak of
denials is the one at the end of its history (`StreakIsLast`; together
`BreakerInv`).  `SharedLimits` compares counters with sums over permits.  The
sums are folds; the proof shows that a fold over a finite set is the number of
units in the set (pairs of a permit and a unit of its cost), by exhibiting a
function that solves the fold's recursion and showing that it is the only one by
a least counterexample, since induction theorems cannot be instantiated.  After
that, a step adds the units of one permit (`SpendInv`).

`AuthorVQueueProofs`: `QueueInv` is inductive - types, what a worker knows at
each step (`WorkerInv`), `CallerInv` and the properties.  The argument survives
double processing because snapshots are never removed or rewritten: a worker's
knowledge that all novels are stored stays true whoever holds the job.
`RunMatchesTask` needs that two workers that have one job made it doubled
(`AloneInv`), and that a job one worker alone has is final in neither row
(`HeldInv`): others can only put it back, so whoever fails finds both rows to
write, however late it reads them.

`DiscoveryQueueProofs`: `DiscoveryInv` is inductive; it needs no bound on
collectors or calls, since a store or failure ends the running state for
everyone who marked the record, and no call writes running or completed.

`ApiGateProofs`: `GateInv` is inductive for any number of workers, consumers and
places.  `CapacityKept` needs that what a request found under the advisory lock
still holds when it inserts, because only the holder adds a row (`LockInv`);
`AnswersAreEarned` that a row counts no more slots than were charged in its
window, wherever late workers put it (`RowInv`); `AuditIsKept` that a decision is
in the audit or past its deadline (`AuditInv`).  `WindowAllowance` is proved from
`WindowInv`: a worker decides one request at a time (`OneAtATime`), a row counts
to the limit (`RowsCount`), and what a window has given is at most what its row
counts and a quota for every other worker that is not late for it any more; when
the window is over, those that still hold a request of it may add one each
(`Allowance`).  Once a window has begun nobody becomes late for it, so the row can
be put back once for each worker.

`PublicationProofs`: `PublicationInv` is inductive.  Files change after every
report, so the properties are about what a report says of its own time:
`Datings` (no report is of the future) and `ApprovalsInv` (an approval was given
to a manifest that passed, and every copy of a passing report is of one).

`LaunchGateProofs`: `LaunchInv` is inductive for any operators, approvals,
evidence and deadlines.  What holds of a request follows from what was true at the
claim (`ReviewInv`, `ContractInv`), from the challenge's deadline, which the
capability inherits (`PromptInv`), and from the stamps that `Guard` and
`Authorize` leave behind (`SendInv`).
`OneFetchPerApproval` needs that a held slot has one holder who has not fetched
(`SlotInv`), which the rehearsal keeps too.

`LiveAttemptProofs` also proves `FailedSlotIsFinal` when the database never fails
(`Fault = {}`), the constant under which run `recover` checks it: `AckInv` says
that what a composer believes of its journal is what the table says.  With lost
acknowledgements the property is false, as explained above.

`CatalogProofs` proves every property of run `catalog`, for any manifests,
policies, works, authors, tags and limits.

* `HistoryInv` is inductive: the snapshots of a work are its distinct valid
  observations, and its row is one of the newest (`RowsNewest`).  A command picks
  the newest of what it wrote and found; that there is one, and that the choice
  does not depend on the order of the rows, is proved from the finiteness of the
  set.  `WorkIsNewest` follows; `TagsFollowRow` needs `LinksInv` beside it.
  `ReviewsAreQueued` is inductive with what a command reads (`RowsRead`).
* `IdsInv` is inductive: the rows of every table are numbered from one, each with
  a number of its own.  It makes every listing a total order.  Sorted answers are
  lists of ranks: `RanksOnce` and `RanksInOrder` show that the ranks in a total
  order on a finite set list every element once and in order.
* `WalkIsExact` rests on `WalkInv`: rows behind the cursor that did not move were
  shown once and those after it not yet.  A cursor with a whole score stands
  exactly behind its row; that of an average does not, which is why the walk
  through averages is excluded here and is a finding in run `averages`.
  `ReadersChangeNothing` shows that a catalog with readers behaves as one without,
  so the theorems about commands hold while clients walk.
* The analytics use `HistoryInv`, `IdsInv` and `AuthorsKnown` (the foreign key of
  a work).  `ViewsReconcile` and `TrendsAddUp`: the works are the disjoint union
  of those of the authors, and sums over a set add up over its parts, shown by a
  bijection between units (`PartsAddUp`); the profile's list of tags is the head of
  a total order on the tags in use (`TopTagsLead`).  `SampleIsHalved`: at least half of the
  ranks lie at the median or above it.  `InfluenceIsMonotone`: rounded shares of a
  maximum grow with the value; the whole, 10000, is the name `FullShare` there,
  because nothing depends on the number.  `SensitivityIsNested`: the order of
  the edges is total (works, Jaccard, lift as a fraction, names), so raising the
  threshold takes edges from the end of one list (`FirstEdges`), every answer is
  the head of that list whatever its limit (`GraphsAreHeads`), and retention is
  the share of one head in another.  This uses what the endpoint validates of its
  thresholds and limits (`TagAssumption`; `_validate_thresholds` and
  `tag_sensitivity.py:65`).

Only model-checked: all liveness (`JournalsAreResolved`, `ClaimedSlotsAreAccounted`,
`JobsEnd`, `HydrationEnds`, `BacklogIsDone`, `RequestsEnd`), which is out of the
prover's reach together with ENABLED, and the two expected violations, which are
false.  Every invariant and action property of a passing run is a theorem.

`OneSendPerLease`, `SendLeavesTrace`, `ReportHonest`, `OneStopEvent`,
`RunningIsLeased`, `RunningIsOwned` and the type invariants are proved and
checked by no run: they are parts of the invariants behind the properties that are.

## 5. Findings

* `averages`, a bug: the score of an average ranking is a NUMERIC quotient
  (`api/detail_api.py:292`), the cursor carries its integer part (`:347`), and the
  next page asks for scores below it or equal to it (`:318-324`).  An author whose
  average lies above the truncated score is on no page, against "deterministic
  integer centi-unit scores" (`docs/phase4-author-analytics.md:45-47`).  In the run
  two authors have one like on three works each.
* `quarantine`, documentation and code disagree: `docs/ingest-ledger.md:37-38` says
  a refused response is recorded as quarantined with an open review item.  With a
  policy the command also projects (`ingest/cli.py:135-149`); a refused work makes
  the projection raise (`analytics/projection.py:186`), and the record is rolled
  back with it.

Also seen while modelling; the properties above are stated so that they do not
claim otherwise:

* an authorization that commits and loses its acknowledgement takes the path of
  a refusal, which cannot fail a `send_started` journal, so it stays until it is
  reconciled (`acquisition/live_attempt_coordinator.py:105`, `:125`);
* a process that dies between the end of its journal and the slot's verdict leaves
  a claimed slot that the operator report does not list
  (`acquisition/live_attempt_report.py:79-98`), although the reconciler would
  resolve it (`PROJECT_STATUS.md:175`) if somebody called it for that journal; the
  only caller in the repository is a smoke command (`ingest/cli.py:286`);
* a live request may leave after its challenge or its approval has ended: the last
  look at the one is `governance/live_one_request_composition.py:218`, at the other
  the stamp of the permit (`acquisition/persistent_safety.py`), and a journal, a
  wait for a lock and the marker follow;
* when two workers had an AuthorV job at once, a late failure may leave task and run
  contradicting each other, or a running task without a lease
  (`jjwxc/author_v_jobs.py:171-182`);
* a settlement transaction that fails leaves its permit authorized and its unit
  of concurrency gone (`acquisition/external_transport.py:356`, `:404`); no
  reconciler looks at permits without a journal;
* a discovery record is committed as running before its fetch, and nothing
  touches a running record: if the process dies there, the record is never
  hydrated again (`jjwxc/catalog_collector.py:276`);
* selection is by priority up to the limit and completed records fall due again
  after a day, so records of low priority may wait for ever
  (`jjwxc/catalog_collector.py:264`, against `docs/cloud-deployment.md:14-15`);
* two constants of the API path count disagree (36 in `api/contract.py:16`, 25 in
  `analytics/phase5_review.py:16`), so readiness can never be reported.

## 6. Not modelled, and what is next

Not modelled: `acquisition/safety.py`, `acquisition/pipeline.py` and
`ingest/ordered_pipeline.py`, which no entry point of the program reaches but
tests, smoke commands and benchmarks; parsing of pages (strings, sequential, no
reference but the pages); the jjwxc endpoints (queries over snapshots, the paging
of `CatalogApi` without scores); the schema probe, whose result is the policy
`Catalog` takes as given; the sanitizing of browser exports and the review of
their candidates, each a function of one document; the Pixiv provider, OAuth and
interactive credential entry; the front end and the browser extensions; row-lock waiting inside PostgreSQL, where a deadlock shows
as an aborted transaction, which `Fault` has; real time other than as a bounded
clock.

Next, in this order:

1. `BookbaseScan`: the cursor of the book-base scan and the author profiles of
   the daily collection, composed with `DiscoveryQueue`, the upsert split into
   read and write;
2. `LockOrder`: the row locks of claim, authorize, verify and reconcile, and
   whether two orders meet;
3. proofs about the two new modules: that the scan's cursor skips no page, and
   that the orders of locks are acyclic, for any number of processes;
4. the jjwxc read API, if its queries grow beyond single statements.
