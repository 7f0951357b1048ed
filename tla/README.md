# TLA+ models of Distributed_Sys

The repository collects the systems of one course. This directory holds TLA+
models of their concurrent cores, the TLC runs that check them on small
instances, and TLAPS proofs that hold for every value of the constants. Paths below are relative to `src/`.

    tlc -workers 2 -config JobPipeline_faults.cfg MCJobPipeline.tla
    tlapm JobPipelineProofs.tla

`PROJECT.json` lists the runs, the theorems, the source lines each definition
translates, the hazards and the findings.

## 1. Inventory

### workout-video-project: asynchronous video jobs (modelled)

| part | state it keeps | operations |
|---|---|---|
| `api/` | none in memory; DynamoDB records, S3 multipart uploads, Redis hashes and lists | `POST /uploads`, `POST /uploads/:id/finalize`, `GET /jobs/:id`, `GET /metrics` |
| `go-worker/` | the job it works on and the `retry_count` it read | `BLMOVE` pending to processing, `processJob`, `markJobInProgress`, heartbeat, `markJobCompleted`, `markJobFailed` |
| `reaper/` | the scan it is in | `scanProcessingJobs` (stale heartbeat: requeue or poison), `scanFailedJobs` (processing error: requeue or poison) |
| Redis (external) | `job:{id}` hashes, `queue:pending`, `queue:processing`, `set:retryable_failed`, `stats:*` | transactions, WATCH |
| DynamoDB (external) | one record per job, reported by `GET /jobs/:id` | put, update of an existing record, eventually consistent read |

The parts never call each other: everything they know of one another is in
Redis and DynamoDB. What is hard: two stores without a common transaction, an
optimistic lock on `(status, retry_count)` instead of a lease, a reaper that acts
on a scan made earlier, a worker that was given up and goes on, crashes between any
two calls. What makes it correct: an attempt has one owner; a job is in the queues
at most once; a result counts only if its attempt is the current one; counters and
the retryable set agree with the hashes; DynamoDB reports no completion that Redis
refused; a job somebody dropped is picked up again.

`worker/worker.py` is the predecessor of the Go worker and not deployed;
`analysis/`, `terraform/` and the scripts are clients. Not modelled.

### hw10: replicated key-value store (modelled)

One HTTP server per node, `store` (key to value and version) and the counter
`version` behind one mutex; three modes (`single`, `leader_follower`,
`leaderless`). `POST /set` writes locally and replicates, waiting for W nodes;
`POST /internal/replicate` applies a record unless its version is older;
`GET /get` asks R nodes and returns the newest. Hard: replication that overtakes
replication, failed requests that still arrive, coordinators that hand out the same
version. Correct if: an acknowledged write is at W nodes, a read that starts after
an acknowledgement is fresh, reads do not go back, nodes agree in the end.

### album-store-v1: photo albums (photos modelled)

| part | state it keeps | operations |
|---|---|---|
| `internal/api/photos.go` | none | `POST`, `GET` and `DELETE` of a photo |
| `internal/pipeline` | the channel of photo ids, the set `enqueued`, what each worker goroutine does | `Submit`, `RecoverStale` (at start and from a ticker), `processPhoto`, `Stop` |
| `internal/worker`, `internal/queue` | what the goroutines of a batch do | `PublishPendingJobs` (outbox to SQS), `ProcessQueueBatch`, `Run` |
| `internal/store` | Postgres: `photos`, `photo_jobs`, `albums` | one statement or transaction each; every update but one has the condition `deleted = FALSE` |
| `internal/storage` | staged upload files, objects in S3 | save, open, remove; put, delete |

Upload, delete and processing of one photo run concurrently over the row, the staged
file, the object and the queue, none of which share a transaction. `V1_DESIGN.md`
asks that accepted uploads are not lost, that deleted photos stay gone and that a
deleted file's URL no longer answers 200. Hard: a delete between the upload to S3 and
the update of the row; the mark in `enqueued` against the status of the row, with
retries and a recovery loop that works from an old list; a stop at any point, also with
handlers still running; duplicate and late messages; a call that took effect and returned
an error. `internal/api/albums.go` (albums) is not modelled.

### hw7-flash-sale: order queue (asynchronous orders modelled)

`internal/orders` accepts an order by publishing an event; `internal/messaging` keeps
the events as files of a directory, claimed by rename, or in SNS and SQS;
`internal/processor` runs a pool of workers, each of which receives, takes the payment
(`internal/payment`, one slot for each worker) and acknowledges. Hard: workers of
several processes that list the same directory, a claim whose worker stops, a message
delivered twice. Correct if a payment is taken once where that can be promised and no
accepted order is forgotten. `POST /orders/sync` and the Lambda are not modelled.

### search-api: circuit breaker (modelled)

`Allow`, `RecordSuccess` and `RecordFailure` under one mutex, and the call to the
analytics service between them without it, from many requests at once. Hard: a late
outcome of a call that was allowed in an earlier state of the breaker. Correct if the
probe alone decides once such calls are over, and the breaker follows the service.

### Not to be modelled

hw8's carts are one transaction or one conditional update for each request (`GetCart` reads
in two statements and may show items newer than the cart's `updated_at`; nothing is promised about that).
`PUT /albums/:id` of the album store reads, fills in what the request omits and writes all of
it back, so concurrent requests for different fields lose an update; again nothing is
promised. The album tutorials (root `main.go`, `db-version`, `product-api`) are CRUD servers
that promise nothing across calls; `mapreduce` is three stateless handlers called
in order by a script; `hw3` demonstrates Go primitives; the rest is Terraform,
Docker and load tests.

## 2. Modules

| module | models |
|---|---|
| `JobPipeline` | the job after finalize: Redis, DynamoDB, workers, reapers |
| `JobLifecycle` | abstract specification: what a client may see of a job |
| `UploadSession` | the two upload handlers of the API over DynamoDB, S3 and Redis; implements the API part of `JobPipeline` |
| `ReplicatedKV` | hw10's store, all modes |
| `PhotoStore` | what the album store's API and workers share: the statements of the store as functions on a row, staged files, objects, the `DELETE` handler |
| `PhotoPipeline` | extends it: `POST`, the in-process pipeline, stop, crash and restart |
| `PhotoOutbox` | extends it: the worker services with outbox and SQS |
| `PhotoLifecycle` | abstract specification: what `GET` may show of a photo |
| `OrderQueue` | asynchronous orders of hw7, over files or SQS |
| `CircuitBreaker` | the breaker and the handlers around it, with time in ticks |
| `MC...` | constants and symmetry sets for TLC |
| `JobPipelineProofs` | types, the inductive invariant, its safety properties, the counters, first attempts, and that it implements `JobLifecycle` |
| `UploadSessionProofs` | types, `QueuedOnce`, `QueuedIsReady`, `AcceptedIsQueued`, and that the handlers implement the API of `JobPipeline` |
| `ReplicatedKVProofs` | types, `AckedAtW`, `NoNodeGoesBack`, `FollowersAgree`, `FreshReads` |
| `PhotoStoreProofs` | lemmas about rows, files and the `DELETE` handler that the next two share |
| `PhotoPipelineProofs` | types, `OneInFlight`, `AcceptedIsSafe`, `DeletedStaysGone`, and that it implements `PhotoLifecycle` |
| `PhotoOutboxProofs` | types, `AcceptedIsSafe`, `ClosedStaysClosed` |
| `OrderQueueProofs` | types, `PaidOnce` and `UnpaidIsPending` of the order queue |
| `CircuitBreakerProofs` | types and `ProbeDecides` of the breaker |

Operators whose comment begins with "Variant with a bug" are not part of any specification:
each is a plausible mistake in the definition after it, and replacing the definition by it
violates a property of a run.

### JobPipeline

`hash`, `pending`, `processing`, `retryable` and `stats` are the Redis keys;
`durable` is the status in each DynamoDB record; `worker[w]` is the local state of
`processJob` (which call comes next, the job, the `retry_count` it expects) and
`reaper[r]` the scan of a reaper and the DynamoDB update it still owes. An action is
one call that another process can see: a Redis transaction (`TxPipeline`, or WATCH
with its EXEC, which fails if the hash changed) or one DynamoDB call.

* Time: `beat` says whether the last heartbeat is younger than the reaper's stale
  timeout. A heartbeat of a live worker may expire during the download, which
  sends none (`go-worker/main.go` 184-205), or, with fault `stall`, at any time.
* `AbandonJob` is a worker killed at any point, and equally one whose Redis call
  failed or whose three WATCH attempts conflicted: `processJob` returns and
  the entry stays in `queue:processing`. `VisitFails` is the same for a reaper.
* A default DynamoDB read is eventually consistent: with fault `staleRead` the
  worker's check of the durable status may come out either way.
* `worker_id` is written but never compared in the code, so it is no state. The
  branches for a missing hash (`go-worker/main.go` 139-143, `reaper/main.go` 126-132
  and 232-238) and for an empty `s3_key` cannot be reached from the API's writes.
* Redis does not lose data and a transaction is applied at most once per call:
  go-redis retrying a push whose answer was lost is not modelled.
* SIGTERM lets the current job end and only stops dequeuing: it is a worker that
  does not take the next job.

`CountersAgree` relates `stats:*` to the hashes, lists and `retry_count`s.

### UploadSession

Create: CreateMultipartUpload, presigned URLs, PutItem, and the abort when
PutItem failed, which uses the context of the request. Finalize: GetItem,
CompleteMultipartUpload, an unconditional PutItem, Redis transaction. Each call is a
step and may fail, before or after it took effect; the read may be stale; several
finalize requests run per upload. `RepeatedCompleteWorks` says whether S3 answers
success to a second completion of one upload (it answers NoSuchUpload; the runs use
FALSE, and with TRUE two finalize requests with stale reads could queue a job
twice). An API crash is a request that is gone.

`FeedsPipeline` instantiates `JobPipeline` with this module's DynamoDB, Redis and
request state and states that every step is one of its two API actions or a
stutter: what `JobPipeline` assumes of the API is what the handlers do.

### ReplicatedKV

`setting` is the environment of the processes; `store` and `version` per node; one
record per write (its coordinator, version, the node the current request goes to,
whether it arrived there), one per read (the newest record so far, the next follower,
how many more); `late` holds requests that timed out and may still arrive. Nodes are
asked one after another, as in the code. A write under W < N goes on in the background
after its answer, as in the code. A replication request may fail before or after it was
applied. The value of a write is the write itself, so two writes of one version can be
told apart. Mode `single` is N = 1. Restarts are not modelled: the store is in memory
only, so a node that restarts has lost everything and no property of the code survives
it.
`GET /local_read` and `/internal/read` change nothing.

### PhotoStore, PhotoPipeline, PhotoOutbox

`row[p]` has the status, whether `temp_path` is set (`staged`) and the tombstone of a photo;
`temp` and `object` are the photos whose file or object exists; a DELETE request keeps
its copy of the row as the handler does. `faults` is chosen in the initial state: which
kinds of call may return an error (done or not done), whether files cannot be opened or
removed, whether processes stop, whether SQS delivers twice. The album exists, and the
sequence number that `CreatePhotoProcessing` allocates in the same transaction is left
out.

`PhotoPipeline`: `up` is `serving`, `draining` after a signal (the context is cancelled:
every call of a worker may fail, workers leave), `stopped` after `Pipeline.Stop` (Submit
refuses; handlers that overran the 5 seconds still run) or `down`. A worker's state is the
call it makes next; `finish` and `retry` are after `processPhoto` and before the mark is
cleared. The channel has no order in the model: senders that find it full wait in goroutines
that race with later senders. Their `clearEnqueued` after a stop is left out, since
nothing submits any more. `Boot` is `RecoverStale` at start. A request to S3 under way
when the process dies is done or not done at that moment; a client that disconnects is
an error of the call that has its context.

`PhotoOutbox`: a message of SQS is a photo and a copy number, received by services that
process a batch with one goroutine for each message. `photo_jobs` is `job`. At this commit
`POST` creates no job row and submits to the pipeline instead, so `CreatePhotoJob` (the row
and its pending job in one transaction) is the API of the deployment with
`cmd/worker`; the two models are separate deployments.
`MaxCopies` and `MaxTasks` bound the copies of a message and the deliveries under way.
An undecodable message cannot occur: only this publisher writes to the queue.

`PhotoLifecycle` is the client's view: absent, processing, then completed or failed,
each for good, until deleted, for good.

### OrderQueue

`event[o]` is where an order's event is: `tmp`, `waiting`, `claimed` (renamed to
`.processing`) or `removed`; a worker has the directory as it has listed it. A message
of SQS stays `waiting` until it is deleted; it is received again only if no worker holds it
or SQS delivers twice. `Exit` is a processor that ends for whatever reason: a signal, a
crash, or the first error of one of its workers, for which `Run` returns without waiting for
the others. Orders whose publication failed may still be processed. Order ids start
again when the API restarts; the model has one run of the API.

### CircuitBreaker

`call[r]` is what request `r` does with the analytics service and for how long;
`sinceTrip` counts ticks since `lastTripped`. The service is up or down and changes at any
time; a call is answered if it is up, and fails or times out if it is down (a slow service is
down). A call is over within `Timeout` ticks, as the HTTP client guarantees. `failures` stops
at `Threshold`: the code only compares it with the threshold. The assumption is
`Timeout < Cooldown` (200 ms and 30 s).

## 3. Runs

### Passing

| run | bounds | states | shows |
|---|---|---|---|
| `jobpipeline_faults` | 2 jobs, 2 workers, 1 reaper, 1 retry, all faults | 245,413 (symmetry) | `SingleClaim`, `OneOwner`, `OneQueueEntry`, `RetryableIsExact`, `DurableCompletionIsReal`, `ImplementsLifecycle` |
| `jobpipeline_reapers` | 1 job, 2 workers (limit 3), 2 reapers (limit 2), all faults but the reaper's, `FairSpec` | 93,337 | two reapers on one job from stale scans: every outcome counted once (`CountersAgree`), an abandoned attempt taken back (`AbandonedIsRecovered`), a failed one retried or poisoned (`FailureIsHandled`) |
| `jobpipeline_first_attempt` | 2 jobs, 2 workers, 1 reaper, stalls and reaper restarts, consistent reads, `FairSpec` | 272,277 | a job on its first attempt is always held by somebody, and that attempt ends |
| `uploadsession_faults` | 2 jobs, 3 finalize requests, all faults | 3,688 (symmetry) | a job is queued once, with its video and its record; `FeedsPipeline` |
| `replicatedkv_settings` | 3 nodes, 2 writes, 2 reads, 1 key; W = 2 with R = 2, W = 3 with R = 1 and leaderless, where requests fail, and W = 1 without faults; `FairSpec` | 282,346 | `AckedAtW`, `FreshReads`, `FollowersAgree`, `NoNodeGoesBack`, `Converges` |
| `photopipeline_faults` | 1 photo, 2 workers, 2 DELETE requests at a time; all faults, or disk errors only; `FairSpec` | 101,804 | `OneInFlight` (nobody works on a photo twice), `AcceptedIsSafe` (never lost, always queued), `DeletedStaysGone`, `ImplementsLifecycle`, `AcceptedEnds` |
| `photooutbox_faults` | 1 photo, 2 services, 1 DELETE request, 2 copies, 2 deliveries under way; store errors, disk errors, SQS and S3 errors with restarts, and double delivery; `FairSpec` | 285,658 | `AcceptedIsSafe` (row, file, job and message agree on what is left to do), `ClosedStaysClosed`, `AcceptedEnds` |
| `orderqueue_backends` | 2 orders, 2 processors of 2 workers; files and SQS, each without and with all faults; `FairSpec` | 82,558 | `PaidOnce`, `UnpaidIsPending`, `AcceptedIsPaid` |
| `circuitbreaker_service` | 3 requests, threshold 2, cooldown 3, timeout 2; `FairSpec` | 6,210 | `ProbeDecides`, `FollowsService` |

Why the bounds are enough: the code's conflicts are between two parties over one job
(two workers, worker and reaper, two reapers), and every run has two of the kind it
is about; a second job matters only for the order of the lists and the sums of
the counters, and `jobpipeline_faults` has it. Equal limits of 1 reach the worker's
branch at its limit, 3 and 2 the reaper's and an owner that is late by two
attempts. The deployment uses 3 and 3: the theorems cover every value. Two finalize
requests of one upload and one of another are three requests. In hw10 two writes
are the least that can overtake each other in background replication, and two
reads the least of which one can go back; keys share nothing but the counter, which
only has to grow, so one key is enough. Photos share nothing but the workers, which take
them one at a time, so one photo with two workers and two DELETE requests has every
conflict over a photo; with two copies of a message a second consumer
overtakes the first, and a third would find what the second found. Two orders are what a stale
listing needs: one taken by somebody else and one left. Three requests are a
probe, a call that is late and one that is refused, and the timeout is
shorter than the cooldown, as in the code. `CHECK_DEADLOCK FALSE` wherever the
system may be done; the breaker never is.

The models of hw10, the album store and hw7 choose their environment (`setting`, `faults`) in
the initial state and never change it, so that one run covers several configurations.
`FreshReads` rests on the leader being asked first, and where one node is asked only
on W = N. A local read (R = 1) may go back, which its second part leaves out. Leaderless, two
coordinators may give two writes of one key the same version, `replicateHandler`
accepts an equal version, and the nodes then differ for good: `FollowersAgree` is about
a leader and its followers.

`PaidOnce` is claimed of files always and of SQS only without double delivery and without
processors that end between payment and acknowledgement; `UnpaidIsPending` and
`AcceptedIsPaid` make the exception the code makes: a `.processing` file whose processor
has ended is never looked at again.

### Violations found

| run | property | what happens |
|---|---|---|
| `jobpipeline_requeued` | `RequeuedJobIsHeld` | the reaper pushes a retry to `queue:pending` before it sets the DynamoDB status to queued; a quick worker finds another status, gives the entry up, its report is refused, and the job stays queued with nobody to take it. No fault is needed. |
| `photopipeline_deleted` | `DeletedIsNotServed` | a photo is deleted while a worker uploads it and the worker's `MarkPhotoCompleted` returns an error (or removing the object does, or the process ends there): the retry does not find the photo, and the object answers 200 for good |
| `photooutbox_twice` | `ImplementsLifecycle` | two worker services publish one pending job twice; the second consumer loaded the photo before the first completed it, finds the staged file gone and marks the completed photo failed. No fault is needed. |

Other behaviour that the models have, which no run shows:

* a worker killed between BLMOVE and `markJobInProgress` loses its job: the reaper
  removes the entry because its hash is not in progress (`AbandonJob`, `DropEntry`);
* the DynamoDB updates only require that the record exists, so one computed for an
  earlier attempt can land last and report a completed job in another status for good
  (`WriteResult`, `WriteOutcome`);
* the abort of a multipart upload runs with the context of the client that left
  (`CreateGone`), and a record stays queued when Redis fails after PutItem
  (`EnqueueJobFails`);
* the SQS worker, unlike the pipeline, does not remove the object it has just put when
  the photo turns out to be deleted (`Complete` of `PhotoOutbox`);
* any error of opening a staged file marks the photo failed for good (`Open`).

### Fairness

`FairSpec` of `JobPipeline` assumes weak fairness of: the API's Redis transaction
after its PutItem (the handler is running), the expiry of a heartbeat nobody renews
(time passes), a worker taking a job when one is pending (`BLMOVE` in a loop), a
worker's next step and a reaper's next step (loops that call with timeouts).
Nothing is assumed of faults or of heartbeats. `ReplicatedKV` assumes weak fairness
of each write's replication: its goroutine runs and its requests have a
timeout.

`PhotoPipeline` assumes weak fairness of every step of a worker that needs no store (Go runs
its goroutines), of the shutdown and of the restart, and strong fairness of the four
calls that are retried without a limit: one that is made again and again succeeds at
last. `AcceptedEnds` is about behaviours in which the process stays up in the end
(`StaysUp`): with one crash after another nothing can be promised. Without fairness of
`ListStale`: the recovery loop is not needed for a photo to end. `PhotoOutbox` needs weak
fairness of each service's own steps only, since `AcceptedEnds` is about behaviours in
which failures stop (`Calms`); a failing step is never what fairness asks for.
`OrderQueue` assumes that workers run and that a processor that ended is started again;
`AcceptedIsPaid` is about behaviours in which the processors stay up in the end.
`CircuitBreaker` assumes that requests keep coming, that handlers go on and that time
passes; nothing is assumed of the service.

## 4. Proofs

`JobPipeline`: for every finite or infinite set of jobs, workers and reapers, every pair of
retry limits and every set of faults; the only assumption is `PipelineAssumption`
(the retry limits are naturals and `NoJob` is no job), which TLC evaluates in every run.

* `PipelineTypeCorrect`: `TypeOK`. Not a formality: `retry_count` is bounded by
  the reaper's limit only because every requeue is guarded by it.
* `PipelineInvariant`: `IndInv` (in `JobPipeline`), the conjunction of `TypeOK` and six parts:
  - `ClaimInv`: a pending entry and a worker before `markJobInProgress` are of a
    queued job, and there is at most one of them per job;
  - `AttemptInv`: a worker after `markJobInProgress` expects a `retry_count` no
    larger than the hash's, a smaller one if the job is queued again, and no two
    of them for one job expect the same;
  - `AbsentInv`: a job that Redis does not know yet has `retry_count` 0, and one that
    is not finalized in DynamoDB is unknown to Redis;
  - `ProcessingInv`: `queue:processing` holds a job at most once, and none that is
    pending or whose attempt has ended;
  - `ResultInv`: a completion on its way to DynamoDB was accepted by Redis;
  - `RetryableIsExact`.
  The properties are not inductive alone: that nobody else can claim a job that is
  being requeued needs the count of its entries, which needs what every worker's
  step says of the lists.
* From it: `ClaimsAreExclusive`, `AttemptsHaveOneOwner`, `RetryableSetIsExact`,
  `DurableCompletionsAreReal`, `QueueEntriesAreUnique`.
* `PipelineImplementsLifecycle`: initial states map to initial states and every step
  to a step of `JobLifecycle` or a stutter.
* `CountersAreExact`: `CountersAgree`, for finite sets of jobs (the property compares
  cardinalities). Every step is one of seven kinds as far as hashes and counters go
  (`HashStep`): a job is submitted, started, completed, failed, poisoned or retried and
  counted once, or nothing of it changes. Each kind then moves a job between the sets the
  counters are compared with. Two facts carry it: a retry is counted only when it raises
  `retry_count`, within the reaper's limit, and `FailureInv`: only a failed job is a poison
  pill, and such a job is never started again.
* `FirstAttemptsAreHeld`: `FirstAttemptIsHeld`, for any number of each. It adds `FreshInv`: while a
  job waits for its first attempt, nobody who started or recovered an earlier attempt is
  about to write its durable record. It holds under all faults, and implies that
  a worker that reads the record consistently accepts the job. `Held`, the inductive form of
  the property, is claimed only where the property promises something: no worker dies
  and DynamoDB is read without errors and staleness; reapers may fail and workers stall.

The step lemmas have one case per action and below it one per part of the invariant
that the action can disturb.

`CircuitBreaker`: for every set of requests, threshold, cooldown and timeout with
`BreakerAssumption`.

* `TypeCorrect`: `TypeOK`, whose last part says that the breaker is closed exactly while
  fewer than `Threshold` failures are counted, although the code sets the two
  in different places.
* `OnlyProbeCloses`: `ProbeDecides`. The inductive invariant adds `CallsAreOld`: while the
  breaker is open every call under way is at least as old as the trip, because `Allow` lets
  nobody else through; a call is over within `Timeout`, so none is left after that, and the
  probe is alone when the cooldown ends.

`OrderQueue`: for every set of orders and processors, every number of workers and every
environment with `OrderAssumption`.

* `TypeCorrect`: `TypeOK`, which is inductive as it stands: its last part ties what a worker
  has listed and claimed to its program counter and to its processor.
* `PaysOnce`: `PaidOnce`. The inductive invariant adds `PublishInv` (an event is published
  once, and no worker has it before) and, in the environments in which `PaidOnce` promises
  anything, `HolderInv` (an order has one worker at most, and then its file is `claimed`, its
  message hidden) and `PaidInv` (a worker that has not taken the payment takes the first; an
  event that can still be handed out is unpaid, unless its worker is about to acknowledge).
  What workers have listed does not occur in it: only the rename counts.
* `UnpaidOrdersArePending`: `UnpaidIsPending`, from `PendingInv`: an event is removed only after
  a payment, and a claimed file has a worker unless a processor may have ended.

`UploadSession`: for every set of jobs and finalize requests and every set of faults with
`UploadAssumption`.

* `UploadTypeCorrect`: `TypeOK`.
* `QueuedJobsAreReady`, `AcceptedJobsAreQueued`: `QueuedIsReady` and `AcceptedIsQueued`. The
  inductive invariant adds `IdInv` (a job whose id was not given out is known to its
  upload request alone, so that request overwrites no queued record) and
  `ReadyInv` (what each finalize request relies on: S3 before DynamoDB before Redis).
  Neither needs S3 to complete an upload once.
* `JobsAreQueuedOnce`: `QueuedOnce`, if `~RepeatedCompleteWorks`. The condition is on S3, not on
  this code; `OnceInv` (one request of a job is past S3, and the job is not queued yet) is
  inductive only with it, as nothing else stands between two requests.

`ReplicatedKV`: for every number of nodes, every set of writes and reads, every non-empty set
of keys and every set of settings with `KVAssumption`.

* `NodesGoForward`: `NoNodeGoesBack`. It needs `CounterInv`: a node's counter is as high as
  every version it has stored, so that the write a client makes there is newer than what it has.
* `AcknowledgedAtW`: `AckedAtW`. The inductive invariant adds `SentInv`: a write is at its own
  node and, while the client waits, at every node it has been sent to so far; the
  sending goes on in the background only after enough acknowledgements.
* `FollowersFollow`: `FollowersAgree`, from `FollowInv`: behind a leader a version names one
  write (`LeaderInv`), and if no request is lost a node that a write has been sent
  to has it (`NoLossInv`). That the next node to send to is the least one left uses
  that the naturals are well-founded.

* `ReadsAreFresh`: `FreshReads`, provided that a read of one node goes with writes to all
  (R = 1 only if W = N), as in every configuration that the scripts of hw10 check (W and R of
  5 and 1, 1 and 5, 3 and 3 on five nodes; the defaults of 1 and 1 promise nothing). The other
  cases need no overlap of W and R: the leader has every acknowledged write and no follower
  is ahead of it (`FollowInv`), a coordinated read begins with the leader's record
  and only replaces it by newer ones (`ReadInv`).
* `KVTypeCorrect`: `TypeOK`. What a read is compared with is a maximum over all
  writes and reads, of which there may be infinitely many; it exists because there is always a
  highest version (`Bounded`).

`UploadSession` and `JobPipeline` together: `UploadsFeedPipeline` states `FeedsPipeline`, if
`~RepeatedCompleteWorks`: initial states map to initial states, a PutItem to `PutQueuedJob`, a
Redis transaction to `EnqueueJob`, a request that ends between the two to
`AbortFinalize`, and every other step to a stutter. It needs `OnceInv` and `PutInv`: the request
that is about to write the record is the first to do so.

`PhotoPipeline`: for every set of photos, workers and DELETE requests and every
choice of fault sets with `PhotoAssumption` (`NoPhoto` is no photo, faults are of the kinds
listed). One inductive invariant, `Inv`, is behind all of:

* `PhotoTypeCorrect`: `TypeOK`.
* `FlightIsExact`: `OneInFlight`, from `FlightInv`, which says it without a count: a photo under
  way is queued once and with nobody, or not queued and with exactly one worker.
* `AcceptedPhotosAreSafe`: `AcceptedIsSafe`. `SafeInv` states its first part from the commit
  of the row on, `HandledInv` the second. Both need `WorkInv`: what a worker may rely
  on at each of its steps, for instance that whoever is about to complete a photo has its
  object in S3 unless it was deleted meanwhile. `RowInv` (there is nothing to do for a photo
  without a row), `RequestInv` (what a DELETE handler may rely on) and `DownInv` (a process
  that is down has nothing in memory) close it.
* `DeletedPhotosStayGone`: `DeletedStaysGone`, from `GoneInv`: without failing calls the object of
  a deleted photo is there only while its worker is at `complete` or `undo`.
* `PipelineImplementsLifecycle`: every step shows the client a step of `PhotoLifecycle` or
  nothing. That an end is final needs `WorkInv`, because the statements of the store
  do not look at the status.

`PhotoOutbox`: for every set of photos, services and DELETE requests, every `MaxCopies` and
`MaxTasks` (`OutboxAssumption`: positive) and every choice of fault sets with `PhotoAssumption`.

* `OutboxTypeCorrect`: `TypeOK`.
* `OutboxPhotosAreSafe`: `AcceptedIsSafe`, under double delivery too. The inductive invariant states
  it as what has not been lost (`SafeInv`): the file and a pending job or a message, until the
  photo has ended. `TaskInv` says what each delivery may rely on, whatever other
  deliveries of the photo do, and `MarkInv` that a service about to mark a job as
  published has sent a message that is used up only when the photo has ended;
  `RowInv`, `HolderInv` and `RequestInv` say whose photos messages, deliveries and handlers have.
* `ClosedJobsStayClosed`: `ClosedStaysClosed`, from what each step does to jobs (`Effect`,
  `LoopEffect`): a job is published only while it is pending, and created once (`RowInv`).

`PhotoStoreProofs` has what both need about the statements of the store and about
`DELETE`: a completion or failure clears `temp_path` of a visible row only, and a handler keeps
the copy of the row it read. TLC has checked the inductive invariants of this section
on the instances of the runs.

Model-checked only: the liveness properties (`AbandonedIsRecovered`, `FailureIsHandled`,
`FirstAttemptEnds`, `Converges`, `AcceptedEnds` of both photo models, `AcceptedIsPaid`,
`FollowsService`), since liveness under fairness is outside the prover. Every invariant, action
property and refinement that a passing run checks is a theorem.

## 5. Not modelled, and plan

Not modelled: see section 1 and the notes of the components in `PROJECT.json`: the parts
that only read, that are one transaction of their own, or that promise nothing
across calls. Configuration and the construction of clients have no behaviour beyond the
constants of the modules.

Every component with concurrent behaviour that its documents promise something about
has a module. What is left:

1. Safety lemmas behind the liveness properties, such as that a job with an owner always has a step
   to take or a heartbeat that expires.
2. A condition under which `PhotoOutbox` implements `PhotoLifecycle`: one service whose messages
   are delivered once. `photooutbox_twice` shows that it does not without one.
3. Shorter proofs: the refinement of `JobLifecycle` could be derived from `HashStep`.
