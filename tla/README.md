# factoryAI: verification project

TLA+ models of the factoryAI platform (visual inspection: image ingestion, dataset
versioning, training, gated promotion, inference, background jobs, audit log), TLC runs
that check them on small instances, and TLAPS proofs about them for every instance.
All paths below are relative to the repository; `factoryai/` is `src/factoryai/`.

## 1. The system

| Component | State it keeps | Operations | Module |
|---|---|---|---|
| Audit log (`domain/entities/audit.py`, `SqlAlchemyAuditRepository`) | rows of `audit_logs`, the identity column, a transaction-scoped advisory lock | `latest`, `append`, `verify_chain` | `AuditChain` |
| Promotion and rollback (`promote_model.py`, `rollback_deployment.py`, `domain/entities/model.py`) | rows of `model_versions` and `deployments`, the MLflow stage of each version | promote, reject, roll back | `Deployment` |
| Background jobs (`submit_job.py`, `worker/`, `domain/entities/job.py`, `api/routers/jobs.py`) | rows of `jobs`, broker messages, dead letters | submit, dispatch, run an attempt, retry, fail, redeliver | `JobQueue` |
| Ingestion (`ingest_image.py`) | rows of `images`, objects in the raw bucket | validate, deduplicate, store, record, compensate | `ImageCatalog` |
| Inference (`predict_image.py`, `model_cache.py`, `api/routers/predict.py`, `api/dependencies.py`) | rows of `predictions`, objects under `inference/`; per process: slots, loaded detectors, a lock per category, the thread pool | resolve, load, score, record, time out | rows and objects: `ImageCatalog`; the process: `Serving` |
| Feedback (`submit_feedback.py`) | rows of `feedback`, image labels | judge a prediction | `ImageCatalog` |
| Dataset versions (`create_dataset_version.py`, `dvc_git.py`) | rows of `datasets` and `dataset_versions`, manifests and pointers in a working copy, the DVC remote | freeze | `DatasetVersions` |
| Training (`train_model.py`, the detector adapters, MLflow) | `experiments`, `model_versions`, a directory per version, MLflow runs, artifacts and registered versions | stage, fit, log, register, persist | `Training` |
| Airflow DAGs (`pipelines/airflow/dags`, `pipeline_client.py`), drift (`generate_drift_report.py`) | DAG runs, tasks and their tries, drift reports | version → train → evaluate → deploy, retry, trigger on drift | `Retraining` |
| Accounts and sessions (`register_user.py`, `login.py`, `refresh_access_token.py`, `logout.py`, `jwt_tokens.py`, `dependencies.py`) | `users`, `revoked_tokens` | register, log in, refresh, log out, guard a route | `Access` |
| Metrics, read-only queries, frontend, deployment manifests, codecs, configuration | | | not modelled (§6) |

How they interact: every use case runs in a unit of work, one PostgreSQL transaction at
READ COMMITTED, and ends it by appending an audit event under one global advisory lock.
Object storage, MLflow, DVC and the Celery broker are outside that transaction, so each use
case has a window in which they disagree with PostgreSQL. The API, the CLI, Celery workers
and Airflow tasks are separate processes: any two calls may overlap at any `await`.

What is hard here: interleavings of transactions that read before they lock; effects outside
the transaction when it fails; identity values that are not given back; messages delivered
twice or after a crash; requests that time out while their thread runs on; tries of a task that
Airflow has given up and that go on beside their successor. The hazards are
listed one by one, each at its line, in `PROJECT.json`.

## 2. Modules

### AuditChain (implements AppendOnlyLog)
A *writer* is one transaction slot. `ReadLatest` is `latest()` and the event its caller
builds from it, `AppendEvent` and `RefuseEvent` are `append()`, `Commit` and `RollBack` the
two ways out of `SqlAlchemyUnitOfWork`. `log` holds committed rows, `pending[w]` the rows a
transaction has inserted, `nextSeq` the identity column, which a rollback does not take back,
`chainLock` the advisory lock. A digest *is* what it commits to (SHA-256 is taken as
injective). The body of a record stands for the other fields that `row_hash` covers;
`correlation` for the correlation identifier, a stored column that the hash leaves out. A row's
stored hash is never read: verification recomputes it. `AppendOnlyLog` is what a reader is
promised: records are only added at the end and always form one linked chain.

### Deployment (implements ServingSlot when calls take turns in a category)
A *session* is one call of `PromoteModel` or `RollbackDeployment`. Its actions are the awaits
of `execute`: `BeginPromote`/`BeginRollback` (clock, transaction, first read), `FindIncumbent`
(with the gate) or `FindTarget`, `RegistryUp` and `RegistryDown` (MLflow, then the entity),
`UpdateRow` (the flush that `add_deployment` causes: one UPDATE per changed row in primary-key
order, each waiting for its row lock), `ReadHead`, `AppendAudit` or `RefuseAudit`, `Commit`;
`Fail` may end it anywhere. A session keeps the stages it loaded (`loaded`, the identity map)
and the ones its entities were given (`wanted`). `ServingSlot` is what the calls are for: each
category has a slot; a promotion puts a model in that passes the gate against the occupant; a
rollback puts back the model the last change displaced.

### JobQueue
A *call* is one submission; a job carries the name of the call that created it. `FindKey`,
`AddJob`, `Reread`, `Dispatch` are `SubmitJob.execute` and the `dispatch` after it; `Receive`
… `Ack` are one attempt of a task: `LoadJob`/`WriteStart` and `LoadResult`/`WriteResult` are the
read and the write of one transaction each, so two attempts may interleave between them;
`RunChunk`/`ReportProgress` are the work, of a job of several pieces a bulk inference's, the only
task that reports progress; `Raise`, `Retry`, `LoadFailed`, `WriteFailed`,
`RecordDeadLetter` the failure path. `Crash`, `Redeliver` and `Abandon` are the worker process
dying, the visibility timeout passing and the hard time limit. `spent.overlapped` is history for
the properties: the jobs of which a worker received a message while another attempt was under
way. For those only the weak half of `OutcomeIsTrue` holds: two attempts may leave a result *and*
an error on one row, or start a job again that the other has ended.

### ImageCatalog
A *call* is one ingestion (`Uploads`), one prediction request with its batch (`Requests`) or
one feedback (`Reviews`). An image is its content, and its checksum is the content; a storage
key is a kind (`raw` or `inference`), a folder (category and month) and a content.

* Ingestion: `Check` (exact and near duplicates), `Put`, `InsertImage`, the audit event,
  `Commit`; when anything after the put raises, `Compensate` deletes the object and only then
  the transaction is rolled back, as the `except` clause sits inside the `async with`.
* Prediction: `Resolve` chooses a row for each content of the batch (one lookup each in the code,
  one step for all here), `Put` stores the new ones,
  then `RecordPrediction` and the audit event, image by image, and one `Commit`. Scoring
  changes nothing and is not a step.
* Feedback: `Load` reads the prediction and the image and folds the truth into it, `UpdateImage`
  waits for the row lock, then the audit event and `Commit`, which writes the columns that
  differ from what was *read*.

`images`, `predictions`, `feedback` and `auditLen` are what is committed; what a transaction
has inserted is `Uncommitted(c)`. A second insert of a content waits for the first transaction
to end, then is refused. `auditLock` is the advisory lock; `AppendAudit` and `RefuseAudit` are
`append()` as `AuditChain` models it, reduced to the length of the log. `Fail` is a step that
raises; `Lose` is a killed process, a cancelled call, a commit that fails after the `try` block
and a compensating delete that itself fails: all of them roll back and delete nothing.
`BreakDeadlock` is PostgreSQL's detector. A call inserts its second row only while it holds the
audit lock, and everybody else waits either for a row of that call or for the lock, so a
deadlock is always two calls that wait for each other. `before`, in a feedback, is history kept
for `JudgementsStand` and influences nothing.

### Serving
One API process. A *request* is one prediction: `Arrive`, `TakeSlot` (the FIFO semaphore of
`acquire_prediction_slot`), `Guard` (what a route refuses before it starts the timer), then the
awaits of `execute_batch`: `Resolve` (the version in production), `TakeLock` (the cache's fast
path, or the lock of the category and a second look), `Loaded`, `Store`, `Scored` and `Record`
(the transaction: `StoreHeatmap` puts a heatmap while it is open, then it commits or fails);
`TimeOut` may strike at each of them. `Return` is past the timeout: without a heatmap the answer
is ready, with one its address is signed by a thread of the pool while the request keeps its slot,
and `Presigned` answers, 200 or, when the signing failed, 500. A blocking call
is given to the pool (`Spawn`); `StartThread` and `EndThread` are the pool's. What a timeout
leaves behind follows `asyncio`: a call that no thread has taken is withdrawn, one that runs goes
on and its result is dropped. A detector is identified with the version whose artifact it was
loaded from; `seen` is history: what was in production while the request was served.

### DatasetVersions, Training, Retraining
Each extends the one before, so that the DAG runs over the full use cases.

* `DatasetVersions`: a call of `CreateDatasetVersion` checks its tag, gets or inserts its dataset,
  lists and splits the trainable images, writes the manifest, tracks and pushes it, reads the
  hash back from the pointer file, inserts the version and commits. Unique names and tags make
  other calls wait for the transaction that inserted them; the working copy and the DVC remote
  are shared by everybody. `FileOf` gives the file of a name and tag: the code joins them with a
  slash, and either may hold slashes, so two pairs may share one. `OpenFile` empties the file and
  `WriteFile` fills it, outside DVC's lock: `Begun` and `Mixed` stand for the contents a reader may
  find that are nobody's manifest. Of ADR-0015 the split keeps what matters: an image that an operator
  reviewed goes to the test split, the others are cut by rounding in an order the seeded shuffle
  chooses (`Rank`, any order). `held`, of a call, is history: what was reviewed when it froze.
* `Training`: `Load`, `Stage` (image by image, into the directory named for the version, which
  nothing ever empties), `Launch`, `StartFit`, `EndFit` or `RaiseInFit` and `RecordFailure`, `Log`
  (the artifact as it lies on disk *then*), `Register`, `Persist`. `checkpoint` is the one file
  that all autoencoders of a version save to.
* `Retraining`: a DAG run goes through its four tasks; try n of run r in the first two is the
  call `<<r, n>>` of the modules above. `Lose` is a try whose worker Airflow no longer hears of:
  it counts as failed, the next try starts, and the lost one goes on beside it. `Deployed` maps
  the exit codes (`_call`): a rejection skips the run, anything else retries. `CheckDrift` and
  `TriggerOnDrift` are the monitoring DAG. `Promote` is `PromoteModel` in one step (its races are
  `Deployment`'s), by the run (`Deploy`) or by an operator through the API or the deployment DAG
  (`OperatorPromotes`); `Restore` is an operator's rollback, by default or to a named version,
  `ReviewStep` an operator's feedback. A category may lose its production model (`Put` of the model
  that serves); the next promotion then has no incumbent to beat. `deployments` keeps with each
  row whose it is, a run's or an operator's, which is history.

### Access
A *call* is one command or request from its first read to its answer: `CreateUser` (the CLI's),
`Register`, `Login`, `Refresh`, `Logout`, `Use` (any guarded route; all pass the same guard). Its
steps are the short transactions of the use case, with the guard's (`LookUp`, `LoadUser`,
`Guard`) before. A session is the login that began it, a token is the call that minted it, and a
token names its account through `SubjectOf`. `Change` is an account that gets another role or is
deactivated. `rev` (how often a row changed), `since` and `ended` (the rev, and the calls already
answered, when a call began) are history for the properties.

## 3. Runs

| Run | Instance | What it shows |
|---|---|---|
| `audit_chain` | 3 writers, batches of 2, 5 identity values | the log is append-only and linked although heads are read before the lock; `verify_chain` reports exactly the numbering gaps; `append()` refuses only stale events; of edits and deletions exactly those of the last row and of the correlation identifier go unnoticed; no writer waits for ever |
| `audit_gap` (violation) | 2 writers | a log nobody edited need not verify: a rollback after an append leaves a gap |
| `deployment` | 2 overlapping calls, 4 commands, one of which may be a rollback to a named version, 3 models, a gate that asks for no improvement, 1 failure | what serves was earned unless a rollback names it; as long as no two changes overlapped, the slot has a history in which each promotion beat the model that served; stages change only with their records; row and audit locks never deadlock |
| `deployment_serial` | 2 calls that take turns in each of 2 categories, 5 commands, 4 models, 1 failure | one production model per category, registry in sync when nothing failed, `ServingSlot` implemented |
| `two_productions` (violation) | 2 overlapping calls | overlapping promotions leave two models in production |
| `job_queue` | 2 calls with one key, 2 workers, 1 piece of work, 1 retry, 1 crash, 1 redelivery, 1 abandoned attempt | one job per key, enqueued once; what a row reports is true through crashes, retries and overlapping attempts; an ended job is final unless attempts overlapped; dispatched jobs end |
| `image_catalog` | 2 ingestions of one image, 2 overlapping batches in opposite orders, one with a repeated image, 2 failures | unique rows; bytes and orphans accounted for; a prediction names the image it was asked for, and a batch is refused only because of another call; deadlocks over rows and the audit lock are broken and every call ends |
| `image_reviews` | ingestions of 2 near duplicates, 1 batch of both, 3 operators | images become trainable exactly when validated or judged; no judgement is lost and a label is never older than the judgements that knew it |
| `serving` | 3 requests, 2 slots, 2 threads, 1 category, 2 versions, 1 promotion, 1 failure | answers are scored by the version they name; a 200 has its row, a refusal none, a 500 one only with a heatmap whose address could not be signed; the lock of a category is not kept by who has gone; a full pool is full of abandoned calls; no redundant reload; a request that waits for a slot is answered even if threads never return, unless it or a request per slot signs heatmaps for ever |
| `retraining` | 1 DAG run with 2 tries per task, 1 operator's version of another name and tag that share the run's file, 2 images, 1 review, 2 results a fit may have, a gate that asks for no improvement, 4 drift windows, 1 fault or lost try, 1 promotion or rollback by an operator | a version can be replayed unless another call prepared its file; what a version holds out is not trained on; lineage is true; what the run reports happened, and a category is left without a production model only by a model put in over itself; the reviewed test suite only grows; the run ends |
| `access` | 3 calls of any kind beside the first administrator's session, 2 of them at a time, the administrator's address and 2 spellings of another, 2 roles, 2 permissions, 1 change of an account, 1 fault | one account per address, on the audit log; a logout ends its session; a change of an account counts at once |
| `lost_bytes` (violation) | 2 ingestions of one image | the ingestion that loses the unique checksum deletes the object of the one that was accepted |

Bounds. Two transactions are enough for every race between a read and a write; the audit run takes
three so that one may overtake two others and a batch may be refused midway. Five commands reach
promotion, a second promotion, a rollback, a rollback of the rollback and a rejection, and, with
the history cut at 3 records, a version that rejections hide from a rollback. `deployment_serial`
explores no further than states of `OneCallPerCategory` (its `CONSTRAINT`) and uses the symmetry
of the calls. Two batches in opposite orders are the smallest that can wait for each other's rows;
three operators are the smallest number of which two overlap and one knows of another. One crash,
one redelivery and one retry reach every combination of the three on one job. `job_queue` has one
bound that is not a constant: `OneAtATime`, an action constraint in `MCJobQueue`, lets the second
worker work only until the second submission has begun, as the races of submissions and those of
attempts meet in no variable but the row's existence; without it the state space does not fit. One
piece of work is enough there, since a piece that is done twice is seen on the first; the proofs
are for any number. Three requests on two slots are the fewest of which one has to wait and two
overlap; as many threads as slots is where an abandoned call first delays another. Three calls in
`access` are a logout, a refresh that overlaps it and one that comes after, or two registrations
that overlap and a login that comes after; the third waits for one of the others to end
(`TwoAtATime` in `MCAccess`). The run uses the symmetry of the calls and a view that drops from a
call's record what no later step and no property reads (its properties are invariants). In
`retraining` the operator's version and the run's tries share a file but neither dataset nor tag,
and a lost try and its successor share the dataset, the tag, the file and the directory; the
proofs are for any calls, also those that share a dataset under different tags. In `serving` the
requests arrive in one order (`InOneOrder` in `MCServing`, an action constraint): they are alike,
so a behaviour with another order is one of these with names exchanged, and no fairness asks for
an arrival. Each other bound is a constant named in the module and checked in the guard it limits.

Fairness. `AuditChain`: PostgreSQL queues waiters for the advisory lock, hence strong fairness
of the append; a transaction that holds it goes on to commit or ends, hence weak fairness of
`Commit`. Nothing obliges a transaction to begin or to fail. `JobQueue`: workers keep
consuming, hence weak fairness of each worker's steps; clients, crashes and redeliveries are
under no obligation. `ImageCatalog`: the event
loop runs whatever can run and PostgreSQL looks for deadlocks, hence weak fairness of each call's
own steps and of `BreakDeadlock`; nothing obliges a call to begin. `Serving`: the event loop wakes
its waiters and fires its timers, hence weak fairness of `TakeSlot`, `Guard`, `TimeOut` and
`Finish`, and of `Presigned` for when its thread has returned. None is assumed of the pool, so the
answer to a request rests on the timeout; what the timeout does not cover, the signing, is the
exception that `EveryRequestIsAnswered` makes.
`Retraining`: the scheduler moves a run on and a call that nobody cut off returns or raises, hence
weak fairness of `Proceed`, `FreezeStep` and `TrainStep`; reviews, rollbacks, faults, lost tries
and drift are under no obligation. `Access` is about safety and has none. `Deployment` has
no fairness: its calls have no loops (`EveryCallRunsOut` in §4), `NoDeadlock` states that some
call can always go on, and that `CanGoOn`, which spells out the guards, is what `ENABLED` means.

Deadlock checking is off where the bounds let every actor finish and stop.

## 4. Proofs

The seven `...Proofs` modules hold for any values of the constants that satisfy the modules'
assumptions: any number of calls, workers, requests, tries, images and addresses.

* `AuditChainProofs`. The invariant `IInv` strengthens `TypeOK` with: whoever has uncommitted
  rows holds the lock (`LockOK`); what each transaction sees is linked and numbered below the
  next identity value (`ViewOK`); an event that was built is either current or overtaken by
  committed rows (`HeadOK`). None of the checked invariants is inductive without the three:
  linking on append needs the event to be current, which needs the lock to exclude other
  uncommitted rows. From it: `RefusalsAreStale`, `BreaksAreExactlyGaps`, the refinement
  `LogKeepsPromise`, and `EditsAreDetected`, for logs of any length: a record that changes in a
  hashed column changes its digest, which the next record carries, and in another it does not; a
  removed one leaves a gap in the numbers, as those of a log that verifies are consecutive.
  `TheLockIsGivenBack` adds `HolderOK` (who has the lock has
  uncommitted rows) and shows that the holder somebody waits for waits for nobody (`HoldersGoOn`)
  and that a transaction has at most `2 * MaxBatch` steps left, which only its own steps change.
* `DeploymentProofs`. `TypeInv`, then one lemma per action that says what its session knows
  afterwards (`BeginsPromotion` to `Ends`), on which every later invariant rests. `PlanInv`: at
  each step, which stages a call has given its two entities, and that once it has left the flush it
  holds their locks. It needs no assumption, so `EveryChangeIsRecorded` holds for any overlap and
  for rollbacks to any named version (`TimeInv` adds that record times are distinct from future
  ones). `SafeInv`: what serves, or a call intends to serve, has a promotion on record, unless a
  rollback names it: a named target bypasses the gate. From it: `OnlyEarnedModelsServe`.
  `CallsNeverDeadlock` rests on `LockInv`: rows are locked in primary-key order, and the audit
  lock is held only to commit. Of the calls that wait for a row, the one whose row comes last
  waits for a call that waits for nothing. `Registered` (some version was registered last) makes
  that last row exist. `EveryCallRunsOut` adds that a call has no loop: `StepsLeft`, at most eight,
  falls with each of its steps, failures included, and rises with nobody else's.

  What a category's state promises when calls overlap is finding 2. `TurnsKeepTheRegistryInSync` and
  `TurnsImplementTheSlot` take `[]OneCallPerCategory` as a hypothesis, since the code has no lock that would enforce it: they
  say what a lock per category would buy, whatever runs in the other categories.
  `TurnsKeepTheRegistryInSync` rests on `SyncInv`: one version per category serves, what a call
  has read is still so (`Current`: the calls beside it touch rows of other categories only), and
  the registry differs from the table only by what a running call has told it (`ToldInv`). It
  assumes `Matching`, that a command names a model of its own category, which the code takes from
  the request and does not compare; versions named by a rollback are covered.
  `UnoverlappedSlotsHold` needs no such hypothesis, only `Matching`. A change `overlaps` when another
  change of its category committed after its call had begun (history: `before` of its
  session, `overlaps` of its record); until that happens, calls may overlap at will, as long
  as the others fail, are
  rejected or are of other categories. `HoldsInv`: as long as no change overlapped, what each call
  that none has disturbed has read is so (`CallsKnow`), and the slot holds what the newest change
  left there. That is nothing when the change names one model twice, because the code writes
  "production" first and "archived" after: a rollback that names the serving version does it, and
  with `improvement_margin` 0 a promotion of the model that serves.
  `TurnsImplementTheSlot`, the refinement of `ServingSlot`, assumes `Matching`, a positive margin
  and `Untargeted` (rollbacks name no version), as the slot of `ServingSlot` is never emptied and a
  rollback goes back by one; it rests on
  `SerialInv`: the changes of a category form one history in which each displaced the model of the
  one before (`HistoryInv`), production is what the latest put there (`ProductionInv`), and a
  rollback's target is the model that change displaced.
* `JobQueueProofs`. `Inv`: what a submission has done at each step (`CallInv`) and that messages
  and workers name jobs that exist (`JobsInv`). From it: `TypeCorrect` and
  `SubmissionIsIdempotent`. `OutInv` says of every row and attempt what survives any overlap
  (`RowTold`, `Knows`: a writer never takes back a result, an error or an end, since it writes only
  the columns it changes from a row that had not ended), and more of a job that never had two
  attempts (`Settled`, `Alone`: the one attempt has read the row as it is, has counted itself
  before it works, and is stopped by a row that has ended). From it: `OutcomesHold` and
  `EndsAreFinal`. `DispatchedJobsAreCarried`: until a dispatched job has ended, a message of it
  waits or a worker that has one is not past caring (`InHand`); abandoned attempts are the
  exception the code makes. `AttemptsRunOut`: an attempt has at most `2 * Chunks + 8` steps, and
  what sends a message is a dispatch, of which a job has one, a crash or redelivery, which
  `spent` counts, or an attempt that raised, with the next retry number.
* `ImageCatalogProofs`. `Inv` strengthens the checked invariants with the shape of a call's
  record at each step (`ShapeInv`), with uniqueness that reaches into uncommitted rows
  (`UniqueInv`: `OneRowPerContent` alone is broken by the commit of a row nobody compared) and
  with `BytesInv`: the object of every row that is committed *or may yet be* is in the bucket,
  unless an ingestion other than the row's own has failed and deleted it. It needs that the
  inserter of a committed row is over, so that `Compensate` never runs for it. `LocalStep`
  covers every action that touches neither table nor bucket; `Put`, the insertion, `Compensate`
  and `Commit` have a lemma each. From it: `TypeCorrect`, `UniqueRows`, `BytesKept`,
  `OrphansExplained`, for any number of calls, batches of any length, and any failures.
  `ReviewInv` is about judgements: an image is reviewed exactly when feedback on it is committed,
  what a running review means to write is what it read with its truth folded in, and no feedback
  is known to one that was read before it (`JudgementsAlwaysStand`). A label is of a *standing*
  judgement, one that no other was made in knowledge of; a review that writes no label finds its
  truth there already, or the label of a judgement that it does not know of. `RequestInv` says
  where the row each content of a batch was resolved to is at every step: committed, inserted by
  the batch, or of the batch's own first occurrence still to come (`RequestsFind`). `LogLockInv`
  says that a call about to insert once more holds the audit lock, hence `OnlyTwoCallsDeadlock`:
  if all wait, the holder waits for a row whose owner waits for the log, so that it is enough of
  PostgreSQL's detector that `BreakDeadlock` looks for two calls. `EveryCallRunsOut`: a call has
  at most seven steps, and three for each further image of its batch (`StepsLeft`); each step of
  the system lowers that of one call and leaves the others', as nothing is retried.
* `ServingProofs`. `Inv` says of each step of a request which call it may have in the pool, that
  who loads holds the lock of its category and finds another version loaded, and that what is
  being scored was loaded for the version resolved (`RequestInv`); which rows exist, and that a
  request which has one and is answered 500 has a heatmap (`RowInv`, `Committed`);
  and that free slots and holders add up (`SlotInv`). `AnswersTellTheTruth` and `LocksStayLive`
  are parts of it; `SlotsKeepThePoolFree` counts: when every thread runs and a served request's
  call is queued, the runners cannot all be served requests, for then there would be more
  holders than slots. `SlotsAreServedInTurn` adds `QueueInv` (the queue holds those who wait, once
  each) and shows that somebody has a slot or the first in the queue can take one (`Served`), that
  no request goes back, that the steps which fairness obliges lead on (`Stage`), and that those
  ahead of one who waits only become fewer (`InTurn`).
* `RetrainingProofs`. `TypeInv` for all three modules, then one invariant per property, each
  proved over the steps of the module that owns it and a frame lemma for the others. `HashInv`: a
  file or pointer that can be read holds a manifest of some call on the path (`Tracked`), and how
  far a call's manifest has come unless another call got in between (`Follows`). `HeldInv`: members of a
  training folder are training members of the version. `LineageInv`: what each store holds of a
  training at each step; it needs `Checkpoints`, whose weights the shared file holds.
  `OutcomeInv`: what a run's record and its own rows among the deployments say of each other
  (`Reports`), whatever operators add, and how production may become empty (`OverItself`). A
  margin of 0 is allowed: a deployment that promoted, was lost and is tried again then promotes
  its model over itself, and the run succeeds with no model in production.
  `MoreDriftIsNoLessSevere` is about `Severity` alone: more signals or samples never lower it.
  `NobodyWaitsInACircle` rests on `WaitInv`: at most one call per name has inserted a dataset that
  is not committed, and meanwhile no other gets past the name, so the call that others wait for
  finds its tag free. `RunsRunOut` counts what calls, trainings and runs have left.
* `AccessProofs`. `TypeInv` adds which kind of call gets to which step with what in hand
  (`Holds`). `AccountInv`: committed and uncommitted rows have one normal address each (`OneEach`),
  and what calls were told (`Told`). `SessionInv`: a refresh that has passed the lookup began
  before any logout of its session was answered, and the row it goes by is no older than it is
  (`Kept`).

Only model-checked. Liveness under fairness and `ENABLED` are beyond the prover, hence
`EveryWriterFinishes`, `DispatchedJobsEnd`, `EveryCallEnds`, `EveryRequestIsAnswered`,
`EveryRunEnds`, and of `NoDeadlock` the half that relates `CanGoOn` to `ENABLED`; the other half
is `CallsNeverDeadlock`. What these rest on is proved, for any number of actors:

| property | who waits, waits for somebody who can go on | nobody goes on for ever |
|---|---|---|
| `EveryWriterFinishes` | `TheLockIsGivenBack` | `TheLockIsGivenBack` |
| `NoDeadlock` (calls on models) | `CallsNeverDeadlock` | `DeploymentProofs!EveryCallRunsOut` |
| `DispatchedJobsEnd` | `DispatchedJobsAreCarried` | `AttemptsRunOut` |
| `EveryCallEnds` (calls on images) | `OnlyTwoCallsDeadlock`, which `BreakDeadlock` ends | `ImageCatalogProofs!EveryCallRunsOut` |
| `EveryRequestIsAnswered` | `SlotsAreServedInTurn` | `SlotsAreServedInTurn` |
| `EveryRunEnds` | `NobodyWaitsInACircle` | `RunsRunOut` |

What TLC adds on its instances is the last step: that the fairness of each `FairSpec` makes whoever
can go on go on. Every other property of the passing runs is a theorem. Where a proof
needs induction over data (the first occurrence of a content in a batch, the first row in key
order), it takes the least or greatest element of a set instead. The bounds of the types of `Access` are
proved and not part of its run.

## 5. Findings

1. *A rollback breaks the audit chain for good* (`audit_gap`). The row takes the identity
   column's value, not the event's sequence; identity values are not transactional.
2. *Two production models* (`two_productions`). Each promotion reads the incumbent in its own
   transaction; nothing serialises them.
3. *Accepted bytes are deleted* (`lost_bytes`). Two ingestions of one image both find no row and
   write the same content-addressed key; the one that is refused by the unique checksum runs its
   compensating delete on the object that the other one's committed row names. The same happens
   to an ingested row when a later ingestion passes the check before that row commits and then
   fails for any reason. `BytesAreKept` states exactly how far the damage goes: an image
   that only came to be scored is never touched.

Further disagreements are part of the models rather than runs of their own. "Any tampered,
inserted or deleted row breaks it" (`docs/DATA_MODEL.md:195-197`) does not hold of the last row,
nor of a row's `correlation_id`, which `row_hash` leaves out (`domain/entities/audit.py:90-104`):
`EditsDetected` says exactly what is noticed. `docs/CAPACITY.md:31` calls
`request_timeout_seconds` the hard ceiling of `POST /predict`, but waiting for a slot and signing
heatmaps lie outside it (`api/routers/predict.py:49-61`): `EveryRequestIsAnswered` has the
exception. A worker that dies after committing part of a job repeats that part
(`worker/celery_app.py:34-38` says a crash "does not lose or duplicate work"): `OutcomeIsTrue`
bounds the repetition by the attempts on record. Two overlapping attempts can leave both a result
and an error on one row, hence the condition on `overlapped`. A version whose file another call
prepares too, a second try of it or a call whose name and tag join to the same path, may be
committed with the hash of that call's manifest, or of a file that was being written:
`HashesAreTrue` says when. And a model put into production over itself, by a rollback that names
the serving version or by a promotion when `improvement_margin` is 0, ends up archived, and
nothing serves: `SlotHoldsUnlessChangesOverlap` and `OutcomesAreTrue` account for it.

## 6. Not modelled

* Read-only queries, metrics, health, the frontend, configuration, deployment manifests and
  codecs keep no state or are third-party conversions.
* Of modelled components. `Deployment`: the environment of a record (always the default);
  of what a rollback to a named version puts into production nothing is promised, as the code
  restores whatever is named. `Serving`: what a heatmap shows, the calls of a batch's other images
  (one image's stand for them), a commit whose acknowledgement is lost, and the rows a request
  writes beside its prediction, which are `ImageCatalog`'s. `Training`: an image that is relabelled
  between two stagings of one version, which stays where the first one put it, is in no property:
  `HeldOutStaysOut` is about the split and holds of it. `Retraining`: images that arrive during a
  run, the overlap of a deployment that is lost with the one that follows it (a deployment is one
  step here and races in `Deployment`), floating-point rounding of metrics and ratios
  (integers in percent here), the drift statistics (a window is its result), `trigger_dag`'s run
  id, and `monitoring_dag.py:48`, which starts retraining of the dataset `"bottle"` by default.
  `Access`: password hashing and expiry (an expired or malformed token is refused before anything
  is read); an access token outlives a logout until it expires, as the code intends.
* What bounds leave out: one category in `serving` and `retraining`; a single DAG run (the
  theorems are for any number).

## 7. What would come next

`Deployment` composed into `Retraining` in place of its one-step promotion; two categories in
`Serving`, whose only common resources are the slots and the pool.
