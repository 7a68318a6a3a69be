# AuditLend: TLA+ models of the loan pipeline and its models

AuditLend takes a loan application over HTTP, queues it through a transactional
outbox, has a Celery worker collect evidence from three external providers
behind a circuit breaker, decides by rules or by a trained model, and writes an
audit trail; offline, models are trained, calibrated, compared and published as
files that the service reads. This directory models two things of it. One is
what depends on the order in which things happen: what is concurrent, what is
retried, what crashes half-way. The other is what the code computes twice, in
two modules that nobody runs side by side: decisions, data preparation,
selections, reports.

* [Inventory](#inventory): the system's parts, their state and what can go wrong
* [Modules](#modules): how each model corresponds to the code
* [Runs](#runs): what TLC checks, the bounds and the fairness
* [Disagreements](#disagreements-with-the-documentation): what the code does that its documents deny
* [Observations](#observations): what the models say of the code beyond their properties
* [Proofs](#proofs): what holds for every value of the constants
* [Not modelled](#not-modelled) and [Plan](#plan)

To run: `tlc -config LoanFaults.cfg MCLoanProcessing.tla`,
`tlapm LoanProcessing_proofs.tla`. `PROJECT.json` lists the runs, the line of
code behind each definition, a mutant for each property and the hazards the
properties are aimed at.

## Inventory

| Part | State it keeps | Operations | What is hard |
|---|---|---|---|
| Intake, `api/routes/applications.py` | `loan_applications`, `idempotency_records`, `outbox` rows; Redis `idempotent:{key}` | `POST /apply-loan`, `GET /status` | two requests with one key; a request that dies after its commit; a cache written after the commit |
| Outbox poller, `worker/outbox_poller.py` | `outbox.status`, a thread per worker | lock a batch, send, commit | sending is outside the transaction; several pollers; the thread's own end |
| Processing task, `worker/tasks/process_application.py` | `loan_applications.status/decision/confidence/updated_at`, `external_data`, `audit_logs`; Celery's messages and results | claim, fetch or reuse, decide, store, mark for manual review | duplicate and early deliveries, crashes, timeouts, stale claims, two workers on one application |
| Provider client, `services/base.py` | four Redis keys per provider, no transaction around them | gate, attempt and retry, record success, failure and probe failure | every pair of commands interleaves; calls are abandoned between any two |
| Decision engine, `engine/`, `ml/governance/ab_test.py` | none | routing, features, guardrails, rules, scores, confidence, decision | numeric boundaries; failures that raise or lower a score and its reliability together; agreement of ML and heuristic paths |
| Explanations, `engine/explanation_builder.py`, `api/routes/` | none: the audit rows are read back | `GET /decision`, `GET /explanation` | what was degraded must be told from rows written by another process |
| Drift check, `ml/governance/drift_detector.py` | a reference snapshot file | compare one application with the reference | a sample of 32 equal rows |
| Model files, `ml/models/`, `ml/governance/model_registry.py` | `model.joblib`, `calibrator.joblib`, `manifest.json`, reports; `model_registry.json` | train (two trainers), calibrate, register, find, load, score | several files per model, none replaced atomically, nothing locked, read afresh for each score |
| Model loader, `ml/optimize/async_loader.py` | a model behind a lock, a ready event | load, wait, get, reload | publication and signal against reload |
| Prediction cache, `ml/optimize/prediction_cache.py` | an LRU list with times | get, set, evict, expire | a hit reorders, expiry and eviction interact; the key does not name the model |
| Data preparation, `ml/data/`, `ml/models/train.py` | files | clean, engineer, split, sample, cap; once row by row, once as frames | two builders of the same features; blanks, malformed fields, boundaries of the splits |
| Training and evaluation, `ml/models/` | files | expand grid, search, select, calibrate, refit, report | which rows a fitted object has seen; the same ranking made in three places |
| Benchmark, `ml/benchmark/` | a report | decide each test row by rules and by model | a second copy of the engine's guardrails |
| Experiments, `ml/governance/ab_test.py`, `ml/causal/` | outcomes | summarise, compare, recommend | the same rates computed twice; empty arms, no variance |
| API shell, `api/auth.py` | rate-limit buckets | admit | window boundaries |
| Matching, survival, uplift and portfolio code, SHAP and narratives, documents, metrics, mock providers, CLI, migrations | none, or observation only | | |

How they interact. A request commits the application, its idempotency record and
its outbox row together. The poller, a thread of every worker's main process,
turns outbox rows into Celery messages. A worker process takes a message, claims
the row with one conditional `UPDATE`, runs three provider calls in one event
loop, and stores status, decision, confidence and audit rows in one transaction
under a row lock. Whatever raises, and the task's own timeout, lead to a
fallback transaction that sends the application to a human. Clients read the
tables, never Celery's result.

The engine runs inside the task. When scoring by a model is asked for, by the
environment or by the A/B bucket of the application, it reads the manifest,
model and calibrator that the worker found when it came up, and the reference
snapshot beside them. Those files are written by trainers and by the calibrator
as separate processes; the registry lists the runs. Trainers, calibration,
evaluation and benchmark each prepare the data from the raw file again.

What makes the parts correct, in the words the properties make precise:

* an idempotency key creates one application and every answer about it is true;
* what is committed is sent, and no two pollers send the same row;
* an application gets at most one decision, computed from the stored evidence,
  and its audit trail explains its row;
* nothing is abandoned in `PROCESSING`, and everything is decided in the end;
* a provider's circuit opens on outages only, and never for ever;
* degraded evidence leads to review or to a decision it cannot have bought, and
  the explanation names what was degraded;
* a score is computed by the model it is attributed to, whatever was trained,
  registered or killed meanwhile;
* both builders make the same rows of one file, no row of the test split is seen
  by anything fitted, and what is reported is what was selected;
* the benchmark decides like the engine, and a model is promoted only where it
  earns more.

The first place where each of these could break is listed, by file and line,
under `hazards` in `PROJECT.json`.

## Modules

| Module | Models |
|---|---|
| `ApplicationLifecycle` | abstract: how `status` and `decision` of a row may move |
| `LoanProcessing` | the Celery task, its workers, the broker's redelivery, the clock of the claim |
| `CircuitBreaker` | `BaseExternalService.call` of concurrent callers over the shared Redis keys |
| `Intake` | `apply_loan`, one step per await |
| `Outbox` | `poll_outbox_once` and the life of its thread |
| `Delivery` | `Intake` and `Outbox` over the outbox table they share |
| `RiskRules` | the scorecard, the rules, reliability and confidence, over integers |
| `DecisionRules` | from provider results to a decision; the guardrails on a model's score |
| `DriftDetector` | the drift check of one application |
| `DecisionEngine` | one application from the providers' answers to its explanation |
| `ModelStore` | the jobs that write and read model files and the registry, the scorer and the cache |
| `AsyncModelLoader` | loader threads, callers and reload |
| `ModelOps` | `ModelStore` and `AsyncModelLoader` over the official files |
| `LoanData` | both builders of training rows |
| `ModelMetrics` | metrics, calibration bins, confusion matrices, segments and groups |
| `TrainingPipeline` | both training paths over `LoanData` and `ModelMetrics` |
| `Benchmark` | the head-to-head benchmark, over `TrainingPipeline` and `DecisionRules` |
| `Experiment` | outcomes of routed applications and what is recommended on them |
| `ModelStudy` | `TrainingPipeline` with `Benchmark`, or `Experiment` |
| `MC*` | constants for TLC |
| `LoanProcessing_proofs`, `CircuitBreaker_proofs`, `Delivery_proofs`, `DecisionEngine_proofs` | theorems about these four |
| `ModelStore_proofs` | lemmas: programs and types of jobs, registrations, the cache |
| `ModelScores_proofs` | lemmas: the files of the official model and what a score reads of them |
| `ModelOps_proofs` | theorems about `ModelOps`, by these lemmas and the loader's invariants |
| `ModelStudy_proofs` | theorems about the splits, the fits, the search, the reports, the benchmark and the experiment of `ModelStudy` |

### LoanProcessing

An action is one transaction, or one stretch of the event loop between two
awaits. The tables are functions of the application; an `audit` row keeps its
step and the decision it names; an `external` row keeps the outcome of the
provider (data, or a failure type). What the engine computes from the outcomes
is the constant function `Verdict`: the code's engine is deterministic and free
of side effects, so any function will do.

| Code | Actions |
|---|---|
| `_claim_application` | `ClaimApplication`, `AnswerAtGate`, `ClaimRaises` |
| `_fetch_or_reuse_external_data`, three at once | `LoadExternal`, `ProviderAnswers`, `StoreExternal`, `StoreExternalConflicts`, `FetchRaises` |
| `asyncio.wait_for` | `PipelineTimeout` |
| `compute_decision_from_env` | `ComputeDecision` |
| `_store_processing_results` | `StoreResults`, `StoreRaises` |
| `_mark_manual_review_after_system_error` | `MarkManualReview`, `MarkRaises` |
| Celery, Redis, clocks | `DuplicateMessage`, `WorkerLost`, `ChildLost`, `RestoreMessage`, `LockExpires` |

The reading of `external_data` after the provider's answer and the insert that
follows are two steps, because another worker's transaction fits between them,
but the children of one worker do not run in between, because the code does not
await there (`Inserting`). When one child raises, `asyncio.gather` lets its
siblings run until the loop is closed, so in `SYSTEM_ERROR` the other children
may still store rows. A timeout can only strike where the code awaits. Storing
first tests for a terminal status under `FOR UPDATE`; the fallback tests
nothing. A stored row is redacted, and a retry reads it back (`redacted`).

What the environment may do is the constant `Faults`, so a run says which
faults it allows, and `MaxFaults` bounds how many strike.

### ApplicationLifecycle

What a reader of the table may rely on, with no word about workers or messages:
a row begins once, is decided at most once and only from `PROCESSING`, and may
be escalated to a human at any time, after which no automatic decision returns.
`LoanProcessing` implements it with the identity on `status` and `decision`.

### CircuitBreaker

One action per Redis command of `_circuit_state`, `_record_success`,
`_record_service_down`, `_acquire_half_open_probe` and
`_record_half_open_failure`, and one per kind of answer of an attempt. Time is
what the keys see of it: `last_failure` is recent or elapsed, the counting window
and the probe lock's TTL pass. A call in flight when the circuit opens is over
before the 120 s of the open state have passed (a task may take 60 s), which
`old` tracks; the probe lock (10 s) may well expire under its probe (30 s).
A count that got no TTL, because the call that made it died between `INCR` and
`EXPIRE`, outlives its window (`WindowPassesUnnoticed`). `overlapped`, `downs`,
`orphans` and `aborts` only remember: `downs` are the `SERVICE_DOWN` answers since
the circuit was last at rest (closed, nothing counted, no call recording a failure),
and `orphans` the failures that were left behind without a TTL.

### Intake, Outbox, Delivery

In `Intake` the application, its outbox row and its idempotency record become
visible in one step, `Commit`; before it, the uncommitted record makes another
insert of the same key wait, as `ON CONFLICT DO NOTHING` does. Redis may fail or
forget at any time. A request may be lost between any two steps. In `Outbox` a
batch is locked, each row is sent or refused, and the statuses are committed; a
crash loses the transaction but not what was sent. `ThreadDies` is an exception
that the per-row handler does not catch. `Delivery` lets both take turns over
`outbox`.

The code takes the oldest rows first; the model takes any, since `created_at` is
the start of the inserting transaction and does not follow the order of commits.

### RiskRules, DecisionRules, DriftDetector, DecisionEngine

The engine computes with floats of two decimals; the model uses hundredths, and
ninths of a hundredth for the sum, because a credit score counts per 900.
Python's `round` of a product whose exact value ends in a half goes by the
double, so the four products that fall below are listed (`HalvesBelow`).
`ComputeDecision` is the whole of `compute_decision`; `Fetch` chooses a result of
each service among those its `_fetch` and `_handle_failure` can return, `Decide`
takes a routing, an outcome of the model and the audit rows that the task stores,
and `GetExplanation` reads these back. The trained model is a constant function of
the feature row. The applicant's true figures stay in the state, so that a
decision on degraded evidence can be compared with the one sound evidence would
have given. The drift check is exact: 32 copies of one value and the reference
values differ by a whole share, and `Significant` says of which shares the
p-value is below the limit.

`LoanProcessing` keeps its own constant `Verdict`: its properties do not depend on
what is decided, only on its being a function of the evidence, and its theorems
hold for every such function. `ComputeDecision` is one.

### ModelStore, AsyncModelLoader, ModelOps

A job is the list of its file operations, in the order of the code: `need` a
file, `read` one that may be missing, `write` it (opened, so emptied, in one
step, and filled in another), or `put` one whose half-written state no reader
can tell. A content says which job wrote it, and when. A job may be killed between
any two steps. Scoring is a job too, since manifest, model and calibrator are read from
disk for each application; which manifest is settled when the worker comes up
(`LoadScorerFromEnv`), with the fall-through of the code from the official files
to the registry to the newest run.

`AsyncModelLoader` has one step per hold of the lock, per unlocked test of the
event and per file. `raced` remembers that a reload came between a thread's
publication and its signal. `ModelOps` lets both work on one set of files.

### LoanData, ModelMetrics, TrainingPipeline, Benchmark, Experiment, ModelStudy

A raw row has one column of each kind of conversion the file has; a field is
blank, malformed or a value. `LoanData` builds rows from it twice, as the code
does: `BuildSplits` row by row (`ml/data/`) and `OfficialSplits` as frames
(`ml/models/train.py`). An estimator is any function from encoded rows to
probabilities, so that rows that are encoded alike are scored alike and nothing
else is assumed; an isotonic calibrator is any monotone map of these. Fitted
objects keep the rows they were fitted on. `TrainingPipeline` has one action per
stage on either path, and prepares the data again where the code does.
`Benchmark` decides each row by both arms and `Experiment` keeps how many
outcomes there are of each kind, with intervals and p-values left as open as the
data leave them.

## Runs

| Run | Question | Result |
|---|---|---|
| `loan_faults` | every fault, five in all, two workers on one application, ML scoring on | `TypeOK`, `OneDecision`, `DecisionFollowsEvidence`, `AuditExplainsRow`, `ConfidenceIsAudited`, `ImplementsLifecycle` hold |
| `loan_recovery` | four faults of the kinds the code recovers from | `NotOrphaned`, `EventuallyDecided` hold |
| `breaker_races` | two calls, threshold 2, one retry, four outages, one abandoned call | `TypeOK`, `OpensOnlyOnOutage`, `OpenIsDated`, `HalfOpenIsSettled` hold |
| `delivery_races` | two requests over two keys and payloads, two pollers with batches of two, one refusal, one crash, one failed poll | `TypeOK`, `OneApplicationPerKey`, `AnswersAreTrue`, `ConflictsAreReal`, `SentOnce`, `NothingLost`, `EventuallySent` hold |
| `engine_decides` | 80 applicants on every side of the limits, every combination of failures and of successes without a figure, five outcomes of scoring, routed or not | `TypeOK`, `OutagesAreReviewed`, `FallbackOnlyAtTheExtremes`, `OutageNeverHelps`, `BetterCreditNeverHurts`, `ApprovalNeedsCompliance`, `ExplanationNamesFailures` hold |
| `model_lifecycle` | jobs on the same files, overlapping and killed, with scoring, caching and a loader that is reloaded | `TypeOK`, `ScoreIsWhole`, `NothingOlderThanManifest`, `RegistrationsSurvive`, `HitsExpire`, `NoModelFromBeforeReload`, `OneLoadAtATime`, `ReadyMeansAnswer` hold |
| `model_study` | both training paths with their benchmark over files of odd rows, and experiments | `BuildersAgree`, `NoLeakage`, `SelectionsAgree`, `ReportsAgree`, `BenchmarkIsDeployed`, `PromotionPays` hold |
| `loan_decision_final`, `loan_retry_ml`, `loan_child_lost`, `breaker_stuck`, `delivery_poller_dies` | claims of the documents | violated, see below |

Bounds, and why they are enough:

* One application: no transaction of the task touches two, and workers meet only
  on the same row. Two workers are the least that can race; a third message or
  claim is reached by the same two coming back. The theorems below need none of
  these bounds.
* Two sources instead of three: the children of one worker are alike; two are
  enough for one to be stored, waiting or calling while the other raises. Two
  outcomes let evidence of two attempts be mixed, and `MCVerdict` gives mixed
  evidence a decision of its own.
* `MaxFaults` = 5 covers, for instance, a stall, a duplicate, an exception in
  the second worker, a lost commit and a lost worker in one behaviour.
* `MaxDowns` = 4 is twice the threshold, so the circuit opens, half-opens and
  opens again; it bounds the answers between two rests, and behaviours go on
  after a rest. `MaxAborts` = 1 puts one abandonment at every command.
* In `Delivery` every safety property relates two requests at most. Two keys and
  two payloads give the four ways in which two requests can relate. Batches of two
  rows let the broker refuse one row while the other is sent. One crash
  and one failed poll leave a poller, which is what liveness needs;
  `delivery_poller_dies` shows what happens when none is left.

* `engine_decides`: the engine decides each application by itself, so one is
  enough. Applicants lie on both sides of each limit of the rules: scores clamped
  at 900 and under every band, no and full stability, DTI at 0, at 0.5 exactly
  (where the moderate rule ends), beyond 0.6 and beyond 1.
* `model_lifecycle`: `MCWorkloads` says which jobs meet in a history and how
  many; each is a question of its own (two trainings and a score, a cache of
  one entry and three requests over two seconds beyond a TTL of one, and so on).
  All of them at once would add histories in which unrelated jobs take turns.
  Two threads and two callers are the least that can race; they are
  interchangeable, as are the features, hence the symmetry. The second reload is the
  one that has to repair what the first has raced with. Where scores are taken, a
  workload is tried with ML scoring on and off (`ml`).
* `model_study`: `Preparations` puts each odd row first and a dated one last in a
  file of plain rows, under caps of one, two and none and a hash modulus of one and two;
  `Searches` has three validation rows and three grid points of two families;
  `Reports` five test rows in several groups; `Benchmarks` one test row on each
  side of the rules. `Bins` is the code's 10, `Thresholds` three of the code's
  evenly spaced ones. `MaxOutcomes` = 5 gives
  every split of five outcomes between arms, decisions and amounts, with arms
  empty, single and varied, around `MinSampleSize` = 2. A history ends with its
  first report or benchmark, which do not read each other.

`CHECK_DEADLOCK FALSE`: every system here may stop, when all applications are
decided or all requests answered.

Fairness, all weak: Celery delivers queued messages to some idle worker; a live
worker goes on, since every HTTP request, statement and Redis command ends;
clocks advance; the broker restores unacknowledged messages; a poller thread
goes on and a crashed worker is started again. Nothing is assumed of clients,
of providers' answers or of faults. `FairSpec` of the breaker also assumes that
calls keep coming, without which no one would look at an open circuit.

The engine, the model files and the studies have no liveness property: the
engine and the studies run to their end or raise, jobs may be killed at any
time, and every wait of the loader's callers has a timeout.

Each property has a mutant in the module it is about: a definition changed the
way a plausible bug would change the code, under which TLC finds it violated.

`OpenIsDated` carries an exception: a success reset that overlaps a failure
record may leave an open circuit without a date. The property says that nothing
else does, no abandoned call in particular; the overlap is `breaker_stuck`.
`SentOnce` allows one more sending per crash or failed poll, which is what
at-least-once means. `NotOrphaned` excludes three faults by name, and each
exclusion is real: `loan_child_lost` is one of them, an early redelivery and a
failing fallback orphan an application the same way.

Four properties are about races that are in the code. Each says what may come of
the race and who alone can be the cause, so that it still holds the code to the
rest:

* `OpensOnlyOnOutage` counts from the last rest and allows one failure too many for
  each call that died between `INCR` and `EXPIRE`. The outage need not be recent: a
  probe that answers late, with whatever failure, opens a circuit that another
  probe has closed meanwhile, but only an outage ever brought such a probe about.
* `ScoreIsWhole` allows a score an odd model or calibrator if the training that wrote
  it was under way beside the score or died, and at no other time: scores beside a
  training, after a dead one and after its repetition are all included. Trainings
  side by side, which the code does nothing against, are left out.
* `RegistrationsSurvive` allows a finished registration to be missing if another one
  that overlapped it was completed, not if it failed or died; and a registry that
  is half written while a registration is writing it or has died doing so.
* `ReadyMeansAnswer` allows a ready loader without an answer if a reload came between
  a publication and its signal, and only until the next reload.

## Disagreements with the documentation

* `loan_decision_final`. The task's docstring calls it idempotent for terminal
  applications. A duplicate whose claim transaction raises reaches
  `_mark_manual_review_after_system_error`, which overwrites a stored `APPROVE`
  or `DECLINE`. `ImplementsLifecycle` shows that this is the only direction.
* `loan_retry_ml`. Evidence is promised to be reused by a retry. What is stored
  is redacted, and with ML scoring on `float("***REDACTED***")` raises.
* `loan_child_lost`. Worker crashes are promised to be survived. A killed pool
  process has its message acknowledged, as `task_reject_on_worker_lost` is unset.
* `breaker_stuck`. The breaker's keys are said to expire. `state` and
  `last_failure` have no TTL, and `DEL last_failure` of a reset between another
  call's `SET last_failure` and `SET state OPEN` leaves the circuit open with no
  date, which `_circuit_state` reads as open for ever.
* `delivery_poller_dies`. Committed is promised to be processed. `poll_outbox`
  catches nothing: one failed transaction ends the thread.

## Observations

What the models and their runs say of the code beyond the properties. None of
these contradicts a definition; each is a consequence worth knowing.

Decisions:

* `STUDY_GUIDE.md:37` says that non-compliance gates automatic approval. It does
  where the register says so. A register that is silent, because the call failed or
  because it answered 200 without a verdict, lets a business that does not comply be
  approved; `ApprovalNeedsCompliance` says that silence counts for no more than
  compliance would.
* A success without a figure (a body that is not JSON or not an object, or a missing
  field) is a success to `services/base.py:189-200`, although `STUDY_GUIDE.md:21`
  wants failures classified. No reliability is lost, no failure is stored and the
  explanation names none: a silent bureau report counts as a score of 600, a silent
  statement as average stability. A field that is there and is not a number makes the
  engine raise, into the task's fallback; that is not modelled.
* A bank statement that is not on record gets average stability, which may be better
  than the true one: `OutageNeverHelps` speaks of the other failures.
* An applicant whose instalments exceed the income is approved if the score
  reaches 70 all the same, for the high-score rule asks nothing of DTI;
  `STUDY_GUIDE.md:803` expects the DTI rule to decline.
* With all three providers lost, reliability is 0 (0.1 where the bureau's
  answer was unreadable), not the "~0.30" of `STUDY_GUIDE.md:805`; the outcome,
  review, is the same.
* A decision in the middle band has a boundary factor of 0.5, so with the default
  threshold it is always a low-confidence one: `MANUAL_REVIEW_ROUTING` is never
  written, and an applicant with perfect data is told of "insufficient reliable
  data".
* `ML_MODEL_VERSION` relabels whatever manifest is found. A model file that is
  there and cannot be read raises out of the decision, into the task's fallback.
* With the shipped snapshot (four values per feature, all zero for DTI and
  for never-delinquent) every application the model scores is reported as
  drifted, as its row always carries 1.0 for never-delinquent. With a snapshot
  of real size the test stays as sharp, since 32 equal values lie at a distance of a
  half or more from any reference: `DetectDrift` then names most features.

Provider client:

* A probe outlives its lock (30 s against 10 s), so a late probe's timeout or
  missing record opens a circuit that a later probe has closed, with no failure
  counted.
* A call that dies between `INCR` and `EXPIRE` leaves a count that never expires,
  until the next failure gives it a TTL: one failure of long ago then counts.

Model files:

* A manifest killed half-written keeps a restarted worker from coming up.
* Between the model and its calibrator a training leaves a time in which scores
  are made by the new model and the old calibrator, or by none.
* Two runs of one label that start within a second share a directory.
* The key of a cached explanation names the constant "XGB_V1", not the version
  of the manifest, so within its time to live an explanation may outlast its
  model, where `Study Guide V2.md:512` says that "a replay can never cross model
  versions". `HitsExpire` says what bounds it.
* A reload between a loader thread's publication and its `ready.set()` leaves
  the event set with nothing loaded. No caller starts a load then, and each is told
  "not loaded", until the next reload (`ReadyMeansAnswer`).
* The registry is rewritten from what was read before: of two registrations side by
  side the later writer's rows stay (`RegistrationsSurvive`). One that is killed in
  its write leaves half a file that every later one fails to read.
* A training killed between two files leaves its model beside an older manifest, and
  scores are attributed to that (`ScoreIsWhole`) until a training gets through. The
  version a score is labelled with is the one read when the worker came up
  (`engine/scoring.py:103-110`); the official one never changes.
* `calibrate_manifest` fits on validation rows with a model that was refitted on
  training and validation rows; only the official calibrator is fitted on rows its
  model has not seen. `NoLeakage` claims it for that one alone.

Studies:

* A loan with one end of its FICO range is given that end by one builder and
  half of it by the other, which is all that sets their rows apart
  (`BuildersAgree`, which adds the missing half: `Completed`). A malformed amount or date ends the row builder's job,
  and drops the row or counts as 0 in the other.
* When the three splits that count are full, the row builder stops reading; a
  holdout split is then cut short as well.
* `_deterministic_search_slice` takes the oldest rows, not a spread, of a frame
  of less than twice the slice.
* Calibration and evaluation of a candidate run prepare the data again with
  their own caps and infer the categories anew. With another cap the columns may
  differ, and the estimator refuses them.
* The evaluation report ranks candidates by AUC-PR whatever the search was told
  to select by.
* `welch_ttest` divides by zero when one arm has a single outcome and the other
  varies, before the sample size is looked at.
* The benchmark of the official model decides by `p < 0.5` alone. It never
  reviews, and where the engine would fall back on the rules, between 0.4 and 0.6,
  it decides; `BenchmarkIsDeployed` is the little that holds of that arm.

## Proofs

TLAPS checks every theorem and lemma to the last leaf. They hold for every value
of the constants that meets the named assumptions of the modules; TLC evaluates
these on the runs of their modules. All bounds of the models (`MaxFaults`, `MaxDowns`,
`MaxCrashes`, `MaxReloads`, the jobs of a history and so on) are any numbers.

### LoanProcessing_proofs

For any sets of applications, workers, sources and outcomes, any `Verdict`, any
`Faults` and any `MaxFaults`, from `ProcessingAssumption` alone:

| Theorem | Statement |
|---|---|
| `TypeCorrect` | `Spec => []TypeOK` |
| `OneDecisionHolds` | `Spec => []OneDecision` |
| `DecisionFollowsEvidenceHolds` | `Spec => []DecisionFollowsEvidence` |
| `AuditExplainsRowHolds` | `Spec => []AuditExplainsRow` |
| `ConfidenceIsAuditedHolds` | `Spec => []ConfidenceIsAudited` |
| `LifecycleRefined` | `Spec => ImplementsLifecycle` |
| `NotOrphanedHolds` | `Spec => []NotOrphaned` |

The inductive invariant is `Ind == TypeOK /\ WorkerInv /\ DecisionInv`.
`OneDecision` is not inductive: that storing a decision adds the first
calculation row depends on the row not being terminal, so `DecisionInv` says
that an application with a calculation row is terminal, with complete evidence
that the row's decision follows. That the decision follows the stored evidence
depends on what each worker holds, so `WorkerInv` says, for each worker, that a
fetch that is done has the outcome of the stored row, that nothing is held for
an application it is not working on, and that a worker about to store has
gathered every source. Stored evidence is never replaced, and only a worker
that found no row inserts one. The step from worker to row is `DecisionWritten`;
`AppendDecisionFacts` says what storing does to the trail.

`TrailInv` joins the row to its trail: the last row of the trail that names a
decision names the row's, and a confidence is that of a calculation row.
`TrailKept` covers the steps that leave row and trail alone, `AppendedRow` those that
append one entry, and `TrailWritten` the storing of a decision.

`LifecycleRefined` maps every step to a step of the lifecycle or a stutter:
a claim of a pending row is `Begin`, of a stale one a stutter, `WriteDecision`
is `Decide` because its row is neither terminal nor, by `WorkerInv`, pending,
and the fallback is `Escalate`. `NotOrphanedHolds` is inductive together with
typing and the worker's invariant; `TendedByOthers` covers the steps that leave
an application's row and messages alone.

### CircuitBreaker_proofs

For any finite set of callers, any threshold above 0, any retry limit, and any
number of outages and abandoned calls (`BreakerAssumption`):

| Theorem | Statement |
|---|---|
| `TypeCorrect` | `Spec => []TypeOK` |
| `OpensOnlyOnOutageHolds` | `Spec => []OpensOnlyOnOutage` |
| `OpenIsDatedHolds` | `Spec => []OpenIsDated` |

`BreakerInv` counts: the failure count and the calls about to increment it are
together at most the `SERVICE_DOWN` answers since the last rest and the orphans,
and while a count has no TTL, somebody is about to give it one or left an orphan
(`Counted`); the set of callers has to be finite for it. Everything that leads away
from `CLOSED`, at whatever command a call is, rests on an outage of `Threshold` of
these (`Convinced`), and since a circuit at rest has no such call (`RestIsQuiet`),
starting the count anew there takes nothing from anyone (`OutageKept`). The
date of an open circuit can go only by a reset, which closes it first; so a call
that may still write another state has found a date, or overlapped with a reset
(`Dated`), and while a reset is between its `SET state` and its last `DEL` the
circuit is closed, or somebody overlapped (`Closing`).

### Delivery_proofs

For any requests, keys and payloads, any number of pollers, any batch limit and
any number of refusals, crashes and failed transactions (`DeliveryAssumption`):

| Theorem | Statement |
|---|---|
| `TypeCorrect` | `Spec => []TypeOK` |
| `OneApplicationPerKeyHolds` | `Spec => []OneApplicationPerKey` |
| `AnswersAreTrueHolds` | `Spec => []AnswersAreTrue` |
| `ConflictsAreRealHolds` | `Spec => []ConflictsAreReal` |
| `SentOnceHolds` | `Spec => []SentOnce` |
| `NothingLostHolds` | `Spec => []NothingLost` |

`IntakeInv` says that the tables agree (`TablesOK`: records name committed
applications of their key and payload, every application is on record, Redis has
nothing the table does not have) and what each request knows from its earlier
steps (`RequestOK`): a request about to commit is the one that inserts its key,
a response in hand is the record's. Uniqueness of keys is a consequence: two
applications of one key would both be the one on record. `OutboxInv` says of the
pollers that their batches are disjoint and hold undelivered rows only, and
charges every sending that was not committed to a crash or a failed transaction
(`SentOK`). `Queued` joins the two: the outbox has a row of exactly the
committed applications.

### ModelStore_proofs, ModelScores_proofs, ModelOps_proofs

Of the composition of jobs and loader, for any run directories and features, any
numbers of trainings, scores, registrations and requests, any size of the cache
and time to live, any numbers of threads, callers and reloads. Assumed: names of
directories differ from the fixed ones and there is one (`DirsAssumption`), the
values for "nothing" differ from contents (`NothingAssumption`), `StoreAssumption`,
`WorkloadsAssumption` and `LoaderAssumption`:

| Theorem | Statement |
|---|---|
| `TypeOKHolds` | `Spec => []TypeOK` |
| `ScoreIsWholeHolds` | `Spec => []ScoreIsWhole` |
| `NothingOlderThanManifestHolds` | `Spec => []NothingOlderThanManifest` |
| `RegistrationsSurviveHolds` | `Spec => []RegistrationsSurvive` |
| `HitsExpireHolds` | `Spec => []HitsExpire` |
| `OneLoadAtATimeHolds` | `Spec => []OneLoadAtATime` |
| `NoModelFromBeforeReloadHolds` | `Spec => []NoModelFromBeforeReload` |
| `ReadyMeansAnswerHolds` | `Spec => []ReadyMeansAnswer` |

A job carries what it has left to do as a sequence, so the first half of the
argument is about sequences: `Program` says, position by position, which steps
of which files each kind of job may have left, and in which order where the order
matters (an official training writes the model before the calibrator before the
manifest; a score reads the manifest first). Every step leaves a suffix, or opens
the head, which `StoreTyped` keeps.

`OfficialInv` is what the disk shows of the official trainings. A file a training has
written stays, in this version or another (`Stays`), and a model that was shipped has a
calibrator (`Bundled`); while trainings are serial such a file is never followed by an
older one (`Ahead`), and a manifest is by a training that is over (`Published`).
`Overlapping` says that who is running was running when any later job started, so a
score that did not find a training running came after it, or it was dead.

`ScoresOK` is what a score in flight holds: nothing older than its manifest
(`Attributed`); nothing by a training that came later and did not find the score
running (`Placed`); a manifest that is no older than any training that was over before
(`Recent`); and a calibrator, unless its model's training is one of those that
`ScoreIsWhole` names (`Accompanied`). `OddFilesAreDisturbed` puts these together: a
file that is newer than the manifest is by a training that was not over when the
manifest was read, so it was under way beside the score, or dead. That a training
which has work left is one or the other is `UnderWay`.

`Registered` is stronger than `RegistrationsSurvive`: a row that lasts is also in
the hands of everyone about to write the registry back, or the read-modify-write
of the next registration would lose it; only a registration that completes writes
(`RegistrationCompletes`), so one that died in between takes no row away.
`HalfIsWritten` keeps track of who is writing. `HitsExpire` needs `Dated`: moving an
entry to the end of the cache on a hit does not renew it.

`LoaderInd` has "in progress is set while a thread loads" (`Exclusive`) and what
a thread holds: a thread about to publish read its model under a generation that lies
between the one it began with and the loader's, so that the comparison of those two
settles when it was read (`Current`). `AnswerInd` adds that a publication leaves a
model or an error behind until a reload; for this a model must differ from `None`,
and so the contents of the files must be typed, which `StoreTyped` gives.

### DecisionEngine_proofs

For any applicants with whole figures, any model whose probabilities are
percentages, any buckets and routings, and every confidence threshold from 0 to
100 that a theorem does not exclude (`EngineAssumption`, `ModelAssumption`,
`RulesAssumption`, `NoneAssumption`; the code ships with 60):

| Theorem | Statement |
|---|---|
| `TypeOKHolds` | `Spec => []TypeOK` |
| `OutagesAreReviewedHolds` | threshold above 40: `Spec => []OutagesAreReviewed` |
| `FallbackOnlyAtTheExtremesHolds` | threshold above 54: `Spec => []FallbackOnlyAtTheExtremes` |
| `ApprovalNeedsComplianceHolds` | `Spec => []ApprovalNeedsCompliance` |
| `BetterCreditNeverHurtsHolds` | `Spec => []BetterCreditNeverHurts` |
| `OutageNeverHelpsHolds` | threshold above 54: `Spec => []OutageNeverHelps` |
| `ExplanationNamesFailuresHolds` | at most as many references as were shipped (`FewReferences`): `Spec => []ExplanationNamesFailures` |

The two limits are exact for the argument: two losses leave a reliability of 40,
and a replaced bureau report leaves 60, times a factor of at most 0.9 outside the
extremes. An operator who sets a lower threshold loses these guarantees.

The invariant `EngineInd` is small (what was returned is kept, and what was
decided is `ComputeDecision` of it); the work is in the arithmetic. The sum of
penalties is a recursive function over the failures of three results, so its
definition is unfolded three times and `Reliability` states the closed form;
`Rounding*` says that a rounded score moves by no more than its sum;
`ProductBound`, `Products` and their like that reliability times boundary factor
grows with both, including the four products that `HalvesBelow` lists.
`BetterCreditNeverHurts` goes from the sum to the score, the score capped for
non-compliance and the rule, each of which rises with credit. Confidence does not, but
among approvals the factor rises with the score (`ApprovingProducts`), and among
declines it falls (`DecliningProducts`), which at worst turns a decline into a review.
`OutageNeverHelps` is not monotone: a report that is found may lower the score by
up to 2167 hundredths, a statement by up to 500 with the penalty it takes away, so
the factor may fall. But an approval without the report had a score of 8000 or more,
and in both cases the reliability gained outweighs the factor (`ReportIsNoLoss`,
`StatementIsNoLoss`). `ApprovalNeedsCompliance` has two halves. A register that gave
its word caps the score below an approval. One that was silent is compared with one
that answers "compliant": the figures the score is made of are the same, no failure is
added and the reliability does not fall (`AnsweringRegister`), the score does not fall
either (`CompliantScore`), and an approval on a higher score and a higher reliability
stays one (`RisingReliability`).

`ExplanationNamesFailures` reads the explanation back to the providers. `TrailInd`
says that the trail is the three rows of the fetch followed by those of the
decision, and that the explanation was built from it; `FewRows` numbers those rows,
so that what is degraded is a set of positions, each of them a provider's or the
model's. That a feature named as drifted lies beyond its reference needs a snapshot of
so few values that the test's statistic has one way to exceed its limit, which
`FewReferences` says and TLC finds true of the shipped snapshot. `OutputAssumption`
says that a decision is not the value for "nothing".

### ModelStudy_proofs

For any file of loans, any caps, samples, estimators and calibrators, any number of
outcomes of any amounts and intervals (`StudiesAssumption`, `MetricsAssumption`,
`BenchmarkAssumption`, `ExperimentAssumption`):

| Theorem | Statement |
|---|---|
| `NoLeakageHolds` | `Spec => []NoLeakage` |
| `BenchmarkIsDeployedHolds` | threshold 60: `Spec => []BenchmarkIsDeployed` |
| `BuildersAgreeHolds` | `Spec => []BuildersAgree` |
| `PromotionPaysHolds` | `Spec => []PromotionPays` |
| `ReportsAgreeHolds` | `Spec => []ReportsAgree` |
| `SelectionsAgreeHolds` | `Spec => []SelectionsAgree` |

Both builders are recursive functions over the file, and what they put in each split
is an induction over its rows. The induction is made in set form (`Reached`: a
set of numbers with 0 and the successor of each of its members has all of them),
with a minimal counterexample for the existence of the function (`Built`, `Taken`).
`SplitGrows` and `FrameAdded` say that a row read joins only the split of its date, and
`LeakInd` carries that to what each fitted object was fitted on, also where the
code prepares the data a second time.

`BuildersAgreeHolds` runs both builders side by side. `Match` says after every row
that the splits of the first are those of the second, sampled and cut at the cap
(`Agrees`); the first stops early when every split is full, and `FullAsksLess` shows
that the second then has nothing more to give. `SameRow` is the arithmetic: both
conversions of a raw row have the same figures, or both refuse it, once the official
one's scores are `Completed` by the half of a FICO range that it takes for 0.

`BenchInd` keeps the scores of a benchmark percentages, through any estimator and
any monotone calibrator. With no failure the reliability is 100 (`Undisturbed`), so the
engine decides as the arms do; `ApprovalIsLikely` gives the probability below which
the official arm approves. The heuristic arm of the benchmark has 0.6 written into it,
which is why the theorem takes `ConfidenceThreshold = 60`.

`PromotionPays` compares two sums over the same outcomes, taken in different orders.
`Totals` has that such a sum exists for every finite set of kinds, by induction on
its size (`ByElements`); `AnyOrder` that the choice of the next member does not matter, and
`ProfitsAgree` that the two reports therefore agree. `ExperimentInd` keeps the
counts whole and the recommendation that of the analysis.

`ReportsAgreeHolds` is about counting. A sum (`SumOver`) is a recursive function over
the subsets of its domain; `SumsExist` gives it, `SumOfSums` adds two of them, and
`Counted` says that sets which partition a split have sizes that add up to its own.
Bins and groups are such partitions (`BinsAreAll`, `GroupsAddUp`, for the groups that
have all rows between them). For the area under the curve the rank sum is taken apart
row by row: the pairs of a defaulted row with any row (`PairsOf`) are those with a
defaulted one, half of which come out either way because swapping a pair turns it round
(`Swapped`), and those with a sound one, which are the wins and ties (`AreaIsChance`).
`ReportInd` says that a report is the evaluation of some split whose rows have a class
and a percentage, on either path and through any calibrator.

`SelectionsAgreeHolds` takes two facts about the search. The grid is a product of any
lists of values (`GridProduct`) and goes family by family (`GridByFamily`): between two points
of one family there is none of another. And of any log there is one first best row
(`FirstBest`): the maximum of a candidate run is that (`BestIsFirst`), the running
maximum of the official search is that after every step (`NextBest`), and `SelInd` keeps
it until the end. `FirstIsReported` has the report put that row first: it is the best
of its family, no row of another family beats it, and a row that equals it and comes
from a family that was searched before would lie before it in the log. Without the
order of the grid this would not follow; a list of `candidates` passed by hand could
break it.

### Only model-checked

Liveness, which is out of the prover's reach: `EventuallyDecided`, `EventuallySent`,
`HalfOpenIsSettled`. Every safety invariant of the runs, and the refinement, is a theorem.

Induction over data is made with functions defined recursively, with sets in
place of the induction theorem's operator. The library's folds, `SelectSeq` and
sorts cannot be opened that way; sums, samples, the grid and the ranking of a
report are therefore written as recursive functions and choices of positions.

## Not modelled

* Numbers as floats: rounding to six digits in reports, `float32` features, the
  arithmetic of intervals and p-values, the trees of a model and the SHAP values
  of a row. Models and statistics are left as open as the data leave them.
* The bodies of requests and rows, encryption, redaction beyond what a retry can
  tell, metrics, logs, the health server, the three providers' payload checks.
* Clock skew: `updated_at` and `now` come from the worker and `last_failure` from
  a monotonic clock; the models let a timeout pass or not, and no more.
* Survival, uplift, matching and synthetic-control studies, portfolio analysis,
  notebooks: computations over arrays that nothing else calls and that keep nothing.
* `OIDCAuth` and `CompositeAuth`, used by no route; the rate limiter, one critical
  section per request over a list of its own.
* `POST /batch`, which answers a constant; the two-sample drift report, which
  compares what the request brings; `ensure_official_reference_snapshot`, whose
  early return is always taken once there is a snapshot.
* Narratives and policy retrieval, which no route uses; document parsing, ONNX
  export, CLI, mock providers, migrations: text, files and test doubles
  without concurrent state.

## Plan

Every safety invariant is proved. What is left, in this order:

1. Action properties next to the invariants: by which steps the breaker leaves open and
   half-open, which rows a repeated task may still change, which files of a run a
   later job may replace.
2. The hazards without a property, where a bound can be stated: the retries of a hanging
   provider against the time of the task, and the clocks of `last_failure`.
3. Survival and uplift studies, if something comes to call them.
